----------------------------- MODULE EventQueue -----------------------------
(***************************************************************************)
(* What the scheduler expects of its event heap: a queue in the order of   *)
(* module Agenda, which the kernel inserts into and takes the head of.     *)
(* An entry is named by its sequence number.                               *)
(***************************************************************************)
EXTENDS Agenda

CONSTANT Times          \* times an event is scheduled for

VARIABLES queue, next_seq

Init == queue = <<>> /\ next_seq = 0

Push(t) == /\ queue' = Insert(queue, t, next_seq)
           /\ next_seq' = next_seq + 1

Pop == /\ queue # <<>>
       /\ queue' = Tail(queue)
       /\ UNCHANGED next_seq

Next == Pop \/ \E t \in Times : Push(t)

Spec == Init /\ [][Next]_<<queue, next_seq>>
=============================================================================
