------------------------------- MODULE Lines -------------------------------
(***************************************************************************)
(* The two searches of priority_resource.c and preemptive_resource.c.      *)
(***************************************************************************)
EXTENDS Integers, SequencesExt

(* Mutant: a newcomer goes before its equals.                              *)
insert_sorted_lifo(line, n) ==
  LET k == SelectInSeq(line, LAMBDA w : n.priority <= w.priority)
  IN  IF k = 0 THEN Append(line, n) ELSE InsertAt(line, k, n)

(* The line with a newcomer, before the first request less urgent.  The    *)
(* sequence numbers of the code only say that a newcomer is the youngest.  *)
insert_sorted(line, n) ==
  LET k == SelectInSeq(line, LAMBDA w : n.priority < w.priority)
  IN  IF k = 0 THEN Append(line, n) ELSE InsertAt(line, k, n)

(* Mutant: the newest holder goes.                                         *)
find_weakest_newest(holders) == 1

(* The newest of the least urgent holders (holders are newest first).      *)
find_weakest(holders) ==
  SelectInSeq(holders, LAMBDA h :
    \A g \in ToSet(holders) : g.priority <= h.priority)

EventsOf(line) == [k \in DOMAIN line |-> line[k].event]

(* The part of a line sorted by priority that is of priority p.            *)
OfPriority(line, p) ==
  SubSeq(line, Cardinality({k \in DOMAIN line : line[k].priority < p}) + 1,
               Cardinality({k \in DOMAIN line : line[k].priority <= p}))
=============================================================================
