------------------------------ MODULE MCKernel ------------------------------
(* Instances of Kernel for TLC: addresses are interchangeable.             *)
EXTENDS Kernel, TLC

Symmetry == Permutations(Addr) \cup Permutations(Proc)
=============================================================================
