----------------------------- MODULE ProofBook -----------------------------
(***************************************************************************)
(* What the contract of a tontine promises: one proof per member and cycle,*)
(* never replaced ("Contribution already recorded", TontineVault.sol:24),  *)
(* and a proof whose recording was acknowledged is in the book.  Vault, the*)
(* service that deploys and writes the contracts, is to implement this.    *)
(***************************************************************************)

CONSTANTS Proofs, KeyOf

VARIABLES
    book,          \* the proofs that can be looked up
    acknowledged   \* the proofs whose recording was answered with a hash

bookVars == <<book, acknowledged>>

PInit == book = {} /\ acknowledged = {}

Write(p) ==
    /\ \A q \in book : KeyOf[q] # KeyOf[p]
    /\ book' = book \cup {p}
    /\ UNCHANGED acknowledged

Acknowledge(p) ==
    /\ p \in book
    /\ acknowledged' = acknowledged \cup {p}
    /\ UNCHANGED book

PNext == \E p \in Proofs : Write(p) \/ Acknowledge(p)

PSpec == PInit /\ [][PNext]_bookVars
=============================================================================
