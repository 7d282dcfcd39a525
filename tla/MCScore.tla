------------------------------ MODULE MCScore ------------------------------
(* Instances of Score for TLC. *)
EXTENDS Score, TLC

Interchangeable == Permutations(Slots) \cup Permutations(Users)
=============================================================================
