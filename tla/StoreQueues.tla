---------------------------- MODULE StoreQueues ----------------------------
(***************************************************************************)
(* What the stores of store.c, filter_store.c and priority_store.c share:  *)
(* a buffer of items, gets waiting for items and puts waiting for room.    *)
(*                                                                         *)
(* Every operation is one step: it runs to its end on the one thread.  The *)
(* events are those of module Kernel, reduced to what a store does with    *)
(* them: an event is unused, or waits in one of the queues, or is          *)
(* triggered and will be processed and recycled by the kernel, in the      *)
(* order of triggering (all with delay 0).                                 *)
(***************************************************************************)
EXTENDS Integers, SequencesExt

CONSTANTS
  Event, Item,
  Capacities,   \* what a store may be created with; <= 0 is unbounded
  MaxItems      \* bound on the items of an unbounded store

VARIABLES
  capacity,
  items,      \* the buffer, head first
  gets,       \* waiting, head first
  puts,       \* waiting: [event, item], head first
  answered,   \* gets triggered and not yet processed: [event, item]
  accepted    \* puts triggered and not yet processed

vars == <<capacity, items, gets, puts, answered, accepted>>

Init ==
  /\ capacity \in Capacities
  /\ items = <<>> /\ gets = <<>> /\ puts = <<>>
  /\ answered = <<>> /\ accepted = <<>>

Answer(e, item) == [event |-> e, item |-> item]
EventsOf(queue) == [k \in DOMAIN queue |-> queue[k].event]

(* e can be allocated, while the gets of those events wait.                *)
Unused(e, waiting) ==
  e \notin waiting \cup ToSet(accepted \o EventsOf(puts) \o EventsOf(answered))

(* Mutant: one item too many fits.                                         *)
HasRoom_offByOne == capacity <= 0 \/ Len(items) <= capacity

(* Room in the buffer?                                                     *)
HasRoom == capacity <= 0 \/ Len(items) < capacity

WithinBound == capacity > 0 \/ Len(items) < MaxItems

accept(e) == accepted' = Append(accepted, e)

(* A put joins the queue.                                                  *)
wait_put(e, item) ==
  /\ puts' = Append(puts, Answer(e, item))
  /\ UNCHANGED <<items, gets, answered, accepted>>

(* The kernel processes a triggered event, which is then unused again.     *)
process ==
  \/ /\ answered # <<>> /\ answered' = Tail(answered)
     /\ UNCHANGED <<capacity, items, gets, puts, accepted>>
  \/ /\ accepted # <<>> /\ accepted' = Tail(accepted)
     /\ UNCHANGED <<capacity, items, gets, puts, answered>>

(* Types, and every event in use is in one place once, while the gets of   *)
(* those events wait.                                                      *)
TypesOK(Thing, waiting) ==
  /\ capacity \in Capacities
  /\ items \in Seq(Thing)
  /\ puts \in Seq([event : Event, item : Thing])
  /\ answered \in Seq([event : Event, item : Thing])
  /\ waiting \in Seq(Event) /\ accepted \in Seq(Event)
  /\ IsInjective(waiting \o accepted \o EventsOf(puts) \o EventsOf(answered))

(* The buffer is never overfull: get lets a waiting put in without testing *)
(* the capacity.                                                           *)
WithinCapacity == capacity > 0 => Len(items) <= capacity
=============================================================================
