----------------------------- MODULE MCTontines -----------------------------
(* Instances of Tontines for TLC. *)
EXTENDS Tontines, TLC

(* Two requests overlap in every way; the users besides the organizer are alike. *)
Symmetric == Permutations(Slots) \cup Permutations(Users \ {Organizer})
=============================================================================
