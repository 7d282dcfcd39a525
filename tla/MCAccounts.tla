----------------------------- MODULE MCAccounts -----------------------------
(* Instances of Accounts for TLC. *)
EXTENDS Accounts, TLC

Symmetric == Permutations(Slots) \cup Permutations(Codes) \cup Permutations(Addresses)
=============================================================================
