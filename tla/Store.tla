------------------------------- MODULE Store -------------------------------
(***************************************************************************)
(* The store of store.c: items go to whoever asked first, in the order in  *)
(* which they came.  gets are events.                                      *)
(***************************************************************************)
EXTENDS StoreQueues

(* Mutant: the newest waits in front.                                      *)
waiter_push_front(queue, w) == <<w>> \o queue

waiter_push(queue, w) == Append(queue, w)

(* Mutant: a put leaves it to the next get to hand on its item.            *)
GetWaits_never == FALSE

(* Is there a get to hand an item to?                                      *)
GetWaits == gets # <<>>

(* A put hands its item to the first waiting get, or to the buffer, or     *)
(* waits for room.                                                         *)
sim_store_put(e, item) ==
  /\ Unused(e, ToSet(gets)) /\ WithinBound
  /\ \/ /\ GetWaits
        /\ answered' = Append(answered, Answer(Head(gets), item))
        /\ gets' = Tail(gets) /\ accept(e)
        /\ UNCHANGED <<items, puts>>
     \/ /\ ~GetWaits /\ HasRoom
        /\ items' = Append(items, item) /\ accept(e)
        /\ UNCHANGED <<gets, puts, answered>>
     \/ ~GetWaits /\ ~HasRoom /\ wait_put(e, item)
  /\ UNCHANGED capacity

(* rest is what a get left of the items: the first waiting put fills the   *)
(* room.                                                                   *)
pull_put(rest) ==
  IF puts # <<>>
  THEN items' = Append(rest, Head(puts).item) /\ accept(Head(puts).event)
       /\ puts' = Tail(puts)
  ELSE items' = rest /\ UNCHANGED <<puts, accepted>>

(* A get takes the oldest item, or waits for one.                          *)
sim_store_get(e) ==
  /\ Unused(e, ToSet(gets))
  /\ \/ /\ items # <<>>
        /\ answered' = Append(answered, Answer(e, Head(items)))
        /\ pull_put(Tail(items))
        /\ UNCHANGED gets
     \/ /\ items = <<>> /\ gets' = waiter_push(gets, e)
        /\ UNCHANGED <<items, puts, answered, accepted>>
  /\ UNCHANGED capacity

Next ==
  \/ \E e \in Event, item \in Item : sim_store_put(e, item)
  \/ \E e \in Event : sim_store_get(e)
  \/ process

Spec == Init /\ [][Next]_vars

-----------------------------------------------------------------------------
(* Properties.                                                             *)

TypeOK == TypesOK(Item, gets)

(* A get waits only while there is nothing to get, not in the buffer and   *)
(* not in the hands of a waiting put: get does not look at the queue of    *)
(* the puts, and put not at the items.                                     *)
GetsWaitForItems == gets # <<>> => items = <<>> /\ puts = <<>>

(* A put waits only while the buffer is full.                              *)
PutsWaitForRoom == (puts # <<>> => ~HasRoom) /\ WithinCapacity

(* The k-th get is answered with the k-th item put, whether the item went  *)
(* through the buffer, through the queue of puts or past both.             *)
Channel == INSTANCE FifoChannel WITH
  line <- items \o [k \in DOMAIN puts |-> puts[k].item],
  wanting <- gets, answers <- answered
ImplementsChannel == Channel!Spec
=============================================================================
