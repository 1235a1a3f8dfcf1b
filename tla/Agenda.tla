------------------------------- MODULE Agenda -------------------------------
(***************************************************************************)
(* The event queue of an environment, seen from outside: the entries in    *)
(* the order in which sim_step takes them.  The code keeps them in a       *)
(* binary heap keyed on (time, priority, seq); seq is a counter, so two    *)
(* entries never tie, and every entry the library pushes has priority      *)
(* SIM_PRIO_NORMAL.  What is left of the key is "earlier time first, and   *)
(* first scheduled first at one time", which a sequence says directly.     *)
(* Module Heap shows the heap to implement this view.                      *)
(***************************************************************************)
EXTENDS Integers, SequencesExt

(* Times are natural numbers here; the code uses doubles and only adds and *)
(* compares them.                                                          *)
Entry(Ev) == [time : Nat, ev : Ev]

(* Mutant: among equal times the youngest entry goes first.                *)
Ahead_youngest(s, t) == Cardinality({j \in DOMAIN s : s[j].time < t})

(* How many entries of s are dispatched before one scheduled now for       *)
(* time t: all those of an earlier time, and the older ones of time t.     *)
Ahead(s, t) == Cardinality({j \in DOMAIN s : s[j].time <= t})

(* heap_push of an entry with the next sequence number.                    *)
Insert(s, t, e) == InsertAt(s, Ahead(s, t) + 1, [time |-> t, ev |-> e])

(* The events that have an entry.                                          *)
Queued(s) == {s[j].ev : j \in DOMAIN s}

(* No event has two entries.                                               *)
Distinct(s) == \A i, j \in DOMAIN s : s[i].ev = s[j].ev => i = j

InTimeOrder(s) == \A i, j \in DOMAIN s : i < j => s[i].time <= s[j].time
=============================================================================
