---------------------------- MODULE FilterStore ----------------------------
(***************************************************************************)
(* The store of filter_store.c: a get takes the first item its filter      *)
(* accepts.  gets are [event, filter]; a filter is the set of the items it *)
(* accepts, the NULL filter the set of all of them.                        *)
(***************************************************************************)
EXTENDS StoreQueues

CONSTANT Filters

(* The first item the filter accepts, by its position; 0 if there is none. *)
Match(buffer, filter) == SelectInSeq(buffer, LAMBDA item : item \in filter)

(* Mutant: the waiters are searched from the newest.                       *)
FirstTaker_newest(buffer) ==
  SelectLastInSeq(gets, LAMBDA g : Match(buffer, g.filter) # 0)

(* The first waiting get that would take some item of the buffer.          *)
FirstTaker(buffer) ==
  SelectInSeq(gets, LAMBDA g : Match(buffer, g.filter) # 0)

(* try_dispatch_to_waiters on a buffer, after answers were given: one item *)
(* goes to the first waiting get that takes it.                            *)
try_dispatch_to_waiters(buffer, answers) ==
  LET w == FirstTaker(buffer)
      k == Match(buffer, gets[w].filter)
  IN  IF w = 0
      THEN items' = buffer /\ answered' = answered \o answers /\ UNCHANGED gets
      ELSE /\ items' = RemoveAt(buffer, k)
           /\ answered' = answered \o
                Append(answers, Answer(gets[w].event, buffer[k]))
           /\ gets' = RemoveAt(gets, w)

(* A put waits while the buffer is full; else it hands its item to the     *)
(* first waiting get that accepts it, or to the buffer.                    *)
sim_filter_store_put(e, item) ==
  /\ Unused(e, ToSet(EventsOf(gets))) /\ WithinBound
  /\ LET w == FirstTaker(<<item>>) IN
     \/ ~HasRoom /\ wait_put(e, item)
     \/ /\ HasRoom /\ w # 0
        /\ answered' = Append(answered, Answer(gets[w].event, item))
        /\ gets' = RemoveAt(gets, w) /\ accept(e)
        /\ UNCHANGED <<items, puts>>
     \/ /\ HasRoom /\ w = 0
        /\ items' = Append(items, item) /\ accept(e)
        /\ UNCHANGED <<gets, puts, answered>>
  /\ UNCHANGED capacity

(* A get takes the first item its filter accepts and lets one waiting put  *)
(* into the buffer, whose item is then offered to the waiting gets; or it  *)
(* waits.                                                                  *)
sim_filter_store_get(e, filter) ==
  /\ Unused(e, ToSet(EventsOf(gets)))
  /\ LET k == Match(items, filter)
         left == RemoveAt(items, k)
         mine == <<Answer(e, items[k])>>
     IN
     \/ /\ k # 0 /\ puts # <<>>
        /\ puts' = Tail(puts) /\ accept(Head(puts).event)
        /\ try_dispatch_to_waiters(Append(left, Head(puts).item), mine)
     \/ /\ k # 0 /\ puts = <<>>
        /\ items' = left /\ answered' = answered \o mine
        /\ UNCHANGED <<gets, puts, accepted>>
     \/ /\ k = 0 /\ gets' = Append(gets, [event |-> e, filter |-> filter])
        /\ UNCHANGED <<items, puts, answered, accepted>>
  /\ UNCHANGED capacity

Next ==
  \/ \E e \in Event, item \in Item : sim_filter_store_put(e, item)
  \/ \E e \in Event, filter \in Filters : sim_filter_store_get(e, filter)
  \/ process

Spec == Init /\ [][Next]_vars

-----------------------------------------------------------------------------
(* Properties.                                                             *)

TypeOK ==
  /\ TypesOK(Item, EventsOf(gets))
  /\ gets \in Seq([event : Event, filter : Filters])

(* No get waits for an item that lies in the buffer: one search after each *)
(* put or drain, which serves one waiter at most, is enough.               *)
GetsUnmatched ==
  \A g \in ToSet(gets) : \A item \in ToSet(items) : item \notin g.filter

(* An item never passes by a get that waits for it to one that came later. *)
PassesNobody ==
  \A a \in ToSet(answered') \ ToSet(answered) :
    \A k \in DOMAIN gets :
      a.item \in gets[k].filter => \E j \in 1..k : gets[j].event = a.event
EarliestTaker == [][PassesNobody]_vars

(* simpyc.h: with a NULL filter "any item matches (equivalent to plain     *)
(* Store.get)", and a plain get waits only while there is nothing to get   *)
(* (GetsWaitForItems of module Store).                                     *)
PlainGetsWaitForItems ==
  (\E g \in ToSet(gets) : g.filter = Item) => items = <<>> /\ puts = <<>>
=============================================================================
