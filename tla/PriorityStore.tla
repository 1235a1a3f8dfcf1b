--------------------------- MODULE PriorityStore ---------------------------
(***************************************************************************)
(* The store of priority_store.c: the buffer is kept sorted by priority,   *)
(* and among equals by age.  gets are events.  The sequence numbers of the *)
(* code only say that a newcomer is the youngest.                          *)
(***************************************************************************)
EXTENDS StoreQueues

CONSTANT Priorities

ps_item == [item : Item, priority : Priorities]

(* Mutant: a newcomer goes before its equals.                              *)
item_insert_sorted_lifo(buffer, x) ==
  LET k == SelectInSeq(buffer, LAMBDA y : x.priority <= y.priority)
  IN  IF k = 0 THEN Append(buffer, x) ELSE InsertAt(buffer, k, x)

(* The buffer with a newcomer, before the first item less urgent.          *)
item_insert_sorted(buffer, x) ==
  LET k == SelectInSeq(buffer, LAMBDA y : x.priority < y.priority)
  IN  IF k = 0 THEN Append(buffer, x) ELSE InsertAt(buffer, k, x)

(* A put waits while the buffer is full; else its item is placed, and the  *)
(* head of the buffer goes to the first waiting get.                       *)
sim_priority_store_put(e, x) ==
  /\ Unused(e, ToSet(gets)) /\ WithinBound
  /\ LET placed == item_insert_sorted(items, x) IN
     \/ ~HasRoom /\ wait_put(e, x)
     \/ /\ HasRoom /\ gets # <<>>
        /\ items' = Tail(placed)
        /\ answered' = Append(answered, Answer(Head(gets), Head(placed)))
        /\ gets' = Tail(gets) /\ accept(e)
        /\ UNCHANGED puts
     \/ /\ HasRoom /\ gets = <<>>
        /\ items' = placed /\ accept(e)
        /\ UNCHANGED <<gets, puts, answered>>
  /\ UNCHANGED capacity

(* A get takes the head of the buffer and lets one waiting put place its   *)
(* item; or it waits.                                                      *)
sim_priority_store_get(e) ==
  /\ Unused(e, ToSet(gets))
  /\ \/ /\ items # <<>>
        /\ answered' = Append(answered, Answer(e, Head(items)))
        /\ IF puts # <<>>
           THEN /\ items' = item_insert_sorted(Tail(items), Head(puts).item)
                /\ puts' = Tail(puts) /\ accept(Head(puts).event)
           ELSE items' = Tail(items) /\ UNCHANGED <<puts, accepted>>
        /\ UNCHANGED gets
     \/ /\ items = <<>> /\ gets' = Append(gets, e)
        /\ UNCHANGED <<items, puts, answered, accepted>>
  /\ UNCHANGED capacity

Next ==
  \/ \E e \in Event, x \in ps_item : sim_priority_store_put(e, x)
  \/ \E e \in Event : sim_priority_store_get(e)
  \/ process

Spec == Init /\ [][Next]_vars

-----------------------------------------------------------------------------
(* Properties.                                                             *)

TypeOK == TypesOK(ps_item, gets)

(* A get waits only while there is nothing to get: so the item a put hands *)
(* over is its own, and no put is refused beside a waiting get.            *)
GetsWaitForItems == gets # <<>> => items = <<>> /\ puts = <<>>

(* A put waits only while the buffer is full.                              *)
PutsWaitForRoom == (puts # <<>> => ~HasRoom) /\ WithinCapacity

(* Every get is answered with the oldest of the most urgent items held.    *)
OfPriority(p) ==
  SubSeq(items, Cardinality({k \in DOMAIN items : items[k].priority < p}) + 1,
                Cardinality({k \in DOMAIN items : items[k].priority <= p}))
Channel == INSTANCE PriorityChannel WITH
  line <- [p \in Priorities |-> OfPriority(p)],
  wanting <- gets, answers <- answered
ImplementsPriorityChannel == Channel!Spec
=============================================================================
