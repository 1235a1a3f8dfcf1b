----------------------------- MODULE Container -----------------------------
(***************************************************************************)
(* The container of container.c: a level between 0 and a capacity, puts    *)
(* waiting for headroom and gets waiting for level.  Events as in module   *)
(* StoreQueues; amounts are natural numbers here, doubles in the code.     *)
(*                                                                         *)
(* One step is a call up to its loop of wake-ups, or one round of that     *)
(* loop; the program runs again when the loop has ended (pc = "idle").     *)
(***************************************************************************)
EXTENDS Integers, SequencesExt

CONSTANTS Event, Amounts, capacity, init
ASSUME AmountsAreNaturals ==
  Amounts \subseteq Nat /\ capacity \in Nat /\ init \in 0..capacity

VARIABLES
  level,
  gets, puts,   \* waiting: get_head .. get_tail, put_head .. put_tail
  fired,        \* triggered and not yet processed
  pc            \* the loop in progress

vars == <<level, gets, puts, fired, pc>>

cq_node == [event : Event, amount : Amounts]

Init == level = init /\ gets = <<>> /\ puts = <<>> /\ fired = <<>> /\ pc = "idle"

(* n is served, and a loop of wake-ups starts or goes on.                  *)
serve(n, left, loop) ==
  level' = left /\ fired' = Append(fired, n) /\ pc' = loop

(* Mutant: the headroom is that of the empty container.                    *)
Fits_empty(amount) == amount <= capacity

Fits(amount) == level + amount <= capacity

(* Mutant: a put that can be served goes ahead of those that wait.         *)
PutsNow_overtake(amount) == Fits(amount)

PutsNow(amount) == puts = <<>> /\ Fits(amount)
GetsNow(amount) == gets = <<>> /\ amount <= level

(* Mutant: a get leaves it to the next one to wake the puts.               *)
AfterGet_none == "idle"

AfterGet == "wake puts"

(* One call, for a node whose event is unused.                             *)
sim_container_put(n) ==
  /\ pc = "idle"
  /\ IF PutsNow(n.amount)
     THEN serve(n, level + n.amount, "wake gets") /\ UNCHANGED puts
     ELSE puts' = Append(puts, n) /\ UNCHANGED <<level, fired, pc>>
  /\ UNCHANGED gets

sim_container_get(n) ==
  /\ pc = "idle"
  /\ IF GetsNow(n.amount)
     THEN serve(n, level - n.amount, AfterGet) /\ UNCHANGED gets
     ELSE gets' = Append(gets, n) /\ UNCHANGED <<level, fired, pc>>
  /\ UNCHANGED puts

(* Mutant: the loop passes over a get that does not fit.                   *)
try_wake_gets_skip ==
  /\ pc = "wake gets"
  /\ IF \E k \in DOMAIN gets : gets[k].amount <= level
     THEN \E k \in DOMAIN gets :
            /\ gets[k].amount <= level /\ \A j \in 1..(k - 1) : gets[j].amount > level
            /\ serve(gets[k], level - gets[k].amount, pc) /\ gets' = RemoveAt(gets, k)
     ELSE pc' = "idle" /\ UNCHANGED <<level, gets, fired>>
  /\ UNCHANGED puts

(* One round of try_wake_gets.                                             *)
try_wake_gets ==
  /\ pc = "wake gets"
  /\ IF gets # <<>> /\ Head(gets).amount <= level
     THEN serve(Head(gets), level - Head(gets).amount, pc) /\ gets' = Tail(gets)
     ELSE pc' = "idle" /\ UNCHANGED <<level, gets, fired>>
  /\ UNCHANGED puts

(* One round of try_wake_puts.                                             *)
try_wake_puts ==
  /\ pc = "wake puts"
  /\ IF puts # <<>> /\ Fits(Head(puts).amount)
     THEN serve(Head(puts), level + Head(puts).amount, pc) /\ puts' = Tail(puts)
     ELSE pc' = "idle" /\ UNCHANGED <<level, puts, fired>>
  /\ UNCHANGED gets

(* The kernel processes a triggered event, which is then unused again.     *)
process ==
  /\ pc = "idle"
  /\ fired # <<>> /\ fired' = Tail(fired)
  /\ UNCHANGED <<level, gets, puts, pc>>

Used == {n.event : n \in ToSet(gets \o puts \o fired)}

Next ==
  \/ \E n \in cq_node :
       n.event \notin Used /\ (sim_container_put(n) \/ sim_container_get(n))
  \/ try_wake_gets
  \/ try_wake_puts
  \/ process

Spec == Init /\ [][Next]_vars

-----------------------------------------------------------------------------
(* Properties.                                                             *)

(* Types; the level stays within the container, also while several waiters *)
(* are woken one after the other, and every event is in one place once.    *)
TypeOK ==
  /\ level \in 0..capacity
  /\ gets \in Seq(cq_node) /\ puts \in Seq(cq_node) /\ fired \in Seq(cq_node)
  /\ pc \in {"idle", "wake gets", "wake puts"}
  /\ LET used == gets \o puts \o fired
     IN  IsInjective([k \in DOMAIN used |-> used[k].event])

(* Nobody waits who could be served: whoever is first in a queue does not  *)
(* fit.  A put wakes only gets and a get only puts, and neither wakes its  *)
(* own kind: this says that one pass in one direction is enough.           *)
FirstDoesNotFit ==
  pc = "idle" =>
    /\ gets # <<>> => Head(gets).amount > level
    /\ puts # <<>> => level + Head(puts).amount > capacity

(* Those who wait keep their places: only the first may leave, and who     *)
(* comes queues up behind them.                                            *)
KeepsPlaces(line, next) ==
  IsPrefix(line, next) \/ (line # <<>> /\ IsPrefix(Tail(line), next))

(* No request overtakes an earlier one of its kind, however small it is: a *)
(* loop of wake-ups serves nobody but the first in its queue (a large one  *)
(* holds up all behind it), and a call that is served at once found its    *)
(* own queue empty.                                                        *)
ServesFirst ==
  /\ KeepsPlaces(gets, gets') /\ KeepsPlaces(puts, puts')
  /\ \A n \in ToSet(fired') \ ToSet(fired) :
       CASE pc = "wake gets" -> gets # <<>> /\ n = Head(gets)
         [] pc = "wake puts" -> puts # <<>> /\ n = Head(puts)
         [] OTHER -> IF pc' = "wake gets" THEN puts = <<>> ELSE gets = <<>>
NoOvertaking == [][ServesFirst]_vars

(* The price of that order: once a get and a put both wait, no call can    *)
(* ever serve anybody, not even a request that would fit ("Both queues are *)
(* FIFO; partial-fill is not supported").                                  *)
StaysBlocked ==
  pc = "idle" /\ gets # <<>> /\ puts # <<>> =>
    /\ UNCHANGED <<level, pc>>
    /\ IsPrefix(gets, gets') /\ IsPrefix(puts, puts')
BothWaitingIsFinal == [][StaysBlocked]_vars
=============================================================================
