---------------------------- MODULE MCConditions ----------------------------
(* Instances of Conditions for TLC: addresses are interchangeable.         *)
EXTENDS Conditions, TLC

Symmetry == Permutations(Addr) \cup Permutations(Proc)
=============================================================================
