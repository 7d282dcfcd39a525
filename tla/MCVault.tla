------------------------------ MODULE MCVault ------------------------------
(* Instances of Vault for TLC. *)
EXTENDS Vault, TLC

(* Every proof is for the same place: the case that matters. *)
OnePlace == [p \in Proofs |-> CHOOSE k \in Keys : TRUE]
=============================================================================
