------------------------------ MODULE Resource ------------------------------
(***************************************************************************)
(* The FIFO resource of resource.c, for programs that release a request    *)
(* once, after it was granted (see module Requests).  A request whose      *)
(* process has gone is one that nobody will release.                       *)
(***************************************************************************)
EXTENDS Requests

VARIABLE queue   \* waiting requests, head .. tail

vars == <<in_use, queue, events>>

sim_resource_create == Init /\ queue = <<>>

(* Mutant: one request too many is granted.                                *)
HasSlot_offByOne == in_use <= capacity

HasSlot == in_use < capacity

sim_resource_request(e) ==
  /\ _sim_event_alloc(e, ToSet(queue))
  /\ IF HasSlot
     THEN in_use' = in_use + 1 /\ sim_event_succeed(e) /\ UNCHANGED queue
     ELSE queue' = Append(queue, e) /\ UNCHANGED <<in_use, triggered>>

(* Mutant: a slot that is handed on is counted as freed, too.              *)
hand_on_counted ==
  /\ in_use' = in_use - 1
  /\ IF queue # <<>>
     THEN queue' = Tail(queue) /\ sim_event_succeed(Head(queue))
     ELSE UNCHANGED <<queue, triggered>>

(* Mutant: the last in line is served first.                               *)
hand_on_last ==
  IF queue # <<>>
  THEN queue' = Front(queue) /\ sim_event_succeed(Last(queue)) /\ UNCHANGED in_use
  ELSE in_use' = in_use - 1 /\ UNCHANGED <<queue, triggered>>

(* The slot goes to the first waiting request, or is free.                 *)
hand_on ==
  IF queue # <<>>
  THEN queue' = Tail(queue) /\ sim_event_succeed(Head(queue)) /\ UNCHANGED in_use
  ELSE in_use' = in_use - 1 /\ UNCHANGED <<queue, triggered>>

sim_resource_release(e) ==
  /\ e \in Granted /\ in_use # 0
  /\ hand_on
  /\ recycle(e)

Next ==
  \/ \E e \in Event : sim_resource_request(e)
  \/ \E e \in Event : sim_resource_release(e)
  \/ process /\ UNCHANGED queue

Spec == sim_resource_create /\ [][Next]_vars

-----------------------------------------------------------------------------
(* Properties.                                                             *)

(* in_use, which is all the code keeps, counts the requests granted and    *)
(* not released: a slot handed on is counted once.                         *)
InUseCountsHolders == in_use = Cardinality(Granted)

(* Granting in the order of the requests, never more than the capacity.    *)
Abstract == INSTANCE Semaphore WITH
  Priorities <- {0}, holders <- Granted, line <- [p \in {0} |-> queue]
ImplementsSemaphore == Abstract!Spec
=============================================================================
