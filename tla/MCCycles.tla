------------------------------ MODULE MCCycles ------------------------------
(* Instances of Cycles for TLC. *)
EXTENDS Cycles, TLC

Interchangeable == Permutations(Checks)
=============================================================================
