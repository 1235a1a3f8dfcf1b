-------------------------- MODULE PriorityResource --------------------------
(***************************************************************************)
(* The resource of priority_resource.c: as module Resource, with a waiting *)
(* line sorted by priority and, among equals, by age.                      *)
(***************************************************************************)
EXTENDS Requests

CONSTANT Priorities   \* the smaller, the more urgent

VARIABLE queue   \* waiting requests, [event, priority], head first

vars == <<in_use, queue, events>>

pr_node == [event : Event, priority : Priorities]

sim_priority_resource_create == Init /\ queue = <<>>

sim_priority_resource_request(e, priority) ==
  /\ _sim_event_alloc(e, ToSet(EventsOf(queue)))
  /\ IF in_use < capacity
     THEN in_use' = in_use + 1 /\ sim_event_succeed(e) /\ UNCHANGED queue
     ELSE /\ queue' = insert_sorted(queue, [event |-> e, priority |-> priority])
          /\ UNCHANGED <<in_use, triggered>>

sim_priority_resource_release(e) ==
  /\ e \in Granted /\ in_use # 0
  /\ IF queue # <<>>
     THEN /\ queue' = Tail(queue)
          /\ sim_event_succeed(Head(queue).event)
          /\ UNCHANGED in_use
     ELSE in_use' = in_use - 1 /\ UNCHANGED <<queue, triggered>>
  /\ recycle(e)

Next ==
  \/ \E e \in Event, p \in Priorities : sim_priority_resource_request(e, p)
  \/ \E e \in Event : sim_priority_resource_release(e)
  \/ process /\ UNCHANGED queue

Spec == sim_priority_resource_create /\ [][Next]_vars

-----------------------------------------------------------------------------
(* Properties.                                                             *)

(* A slot goes to the oldest of the most urgent requests that wait when it *)
(* is freed, and to nobody while all are taken.                            *)
Abstract == INSTANCE Semaphore WITH
  holders <- Granted,
  line <- [p \in Priorities |-> EventsOf(OfPriority(queue, p))]
ImplementsSemaphore == Abstract!Spec
=============================================================================
