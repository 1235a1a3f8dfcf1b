----------------------------- MODULE Semaphore -----------------------------
(***************************************************************************)
(* What the FIFO and the priority resource promise: a set of holders no    *)
(* larger than the capacity, and a line for each priority (one of them, in *)
(* the FIFO resource).  Whoever leaves is followed at once by the oldest   *)
(* of the most urgent in line.                                             *)
(***************************************************************************)
EXTENDS Naturals, FiniteSets, Sequences

CONSTANTS Event, capacity, Priorities

VARIABLES holders, line

vars == <<holders, line>>

Init == holders = {} /\ line = [p \in Priorities |-> <<>>]

InLine(e) == \E p \in Priorities : \E k \in DOMAIN line[p] : line[p][k] = e

(* The priority of those to be served next.                                *)
Urgent(p) == line[p] # <<>> /\ \A q \in Priorities : q < p => line[q] = <<>>

Enter(e) ==
  /\ e \notin holders /\ ~InLine(e)
  /\ Cardinality(holders) < capacity
  /\ holders' = holders \cup {e}
  /\ UNCHANGED line

Queue(e, p) ==
  /\ e \notin holders /\ ~InLine(e)
  /\ Cardinality(holders) = capacity
  /\ line' = [line EXCEPT ![p] = Append(@, e)]
  /\ UNCHANGED holders

Leave(e) ==
  /\ e \in holders
  /\ \/ \E p \in Priorities :
          /\ Urgent(p)
          /\ holders' = (holders \ {e}) \cup {Head(line[p])}
          /\ line' = [line EXCEPT ![p] = Tail(@)]
     \/ /\ \A p \in Priorities : line[p] = <<>>
        /\ holders' = holders \ {e}
        /\ UNCHANGED line

Next ==
  \/ \E e \in Event : Enter(e) \/ Leave(e)
  \/ \E e \in Event, p \in Priorities : Queue(e, p)

Spec == Init /\ [][Next]_vars
=============================================================================
