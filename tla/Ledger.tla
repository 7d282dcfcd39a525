------------------------------- MODULE Ledger -------------------------------
(***************************************************************************)
(* What the members of a tontine are promised about their payments: a      *)
(* contribution counts as paid only once its payment is, it is written off *)
(* only once its payment can never be, neither is ever taken back, and the *)
(* member is told once ("Idempotence via Redis SETNX",                     *)
(* contributions.service.ts:126).  Contributions is to implement this.     *)
(*                                                                         *)
(* The promise is as good as the memory of what was already handled, which *)
(* lasts 24 hours: each time it is lost a payment may be entered and told  *)
(* once more.                                                              *)
(***************************************************************************)
EXTENDS Naturals

CONSTANT Refs   \* payment references

VARIABLES
    outcome,   \* of the payment: open, paid or refused
    entry,     \* the contribution's status
    notices,   \* how often the member was told of the payment
    lapses     \* how often it was forgotten that the payment was handled

ledgerVars == <<outcome, entry, notices, lapses>>

LInit ==
    /\ outcome = [r \in Refs |-> "open"]
    /\ entry = [r \in Refs |-> "ABSENT"]
    /\ notices = [r \in Refs |-> 0]
    /\ lapses = [r \in Refs |-> 0]

Write(r, from, to) ==
    /\ entry[r] = from
    /\ entry' = [entry EXCEPT ![r] = to]
    /\ UNCHANGED <<outcome, notices, lapses>>

Intend(r) == Write(r, "ABSENT", "PENDING")

(* There is no payment without its intent, and its outcome is final. *)
Settle(r) ==
    /\ entry[r] # "ABSENT"
    /\ outcome[r] = "open"
    /\ \E o \in {"paid", "refused"} : outcome' = [outcome EXCEPT ![r] = o]
    /\ UNCHANGED <<entry, notices, lapses>>

Enter(r) == outcome[r] = "paid" /\ Write(r, "PENDING", "CONFIRMED")
WriteOff(r) == outcome[r] = "refused" /\ Write(r, "PENDING", "FAILED")

(* A paid contribution without its proof on chain. *)
ChainFails(r) == Write(r, "CONFIRMED", "BLOCKCHAIN_FAILED")
EnterAgain(r) == lapses[r] > 0 /\ Write(r, "BLOCKCHAIN_FAILED", "CONFIRMED")

Notify(r) ==
    /\ entry[r] \in {"CONFIRMED", "BLOCKCHAIN_FAILED"}
    /\ notices[r] <= lapses[r]
    /\ notices' = [notices EXCEPT ![r] = @ + 1]
    /\ UNCHANGED <<outcome, entry, lapses>>

Forget(r) ==
    /\ lapses' = [lapses EXCEPT ![r] = @ + 1]
    /\ UNCHANGED <<outcome, entry, notices>>

LNext == \E r \in Refs :
    \/ Intend(r) \/ Settle(r) \/ Enter(r) \/ WriteOff(r) \/ ChainFails(r) \/ EnterAgain(r)
    \/ Notify(r) \/ Forget(r)

LSpec == LInit /\ [][LNext]_ledgerVars
=============================================================================
