------------------------------- MODULE Cycles -------------------------------
(***************************************************************************)
(* CyclesService (src/src/modules/cycles/cycles.service.ts): the cycles of *)
(* one tontine, and checkCycleCompletion, which closes the active cycle    *)
(* when its contributions are in and opens the next one.  One action is    *)
(* the code from one await to the next; any number of checks may be in     *)
(* progress.                                                               *)
(*                                                                         *)
(* Every contribution of a tontine is of its contribution_amount, so that  *)
(* total_expected and total_collected are counted in contributions here.   *)
(***************************************************************************)
EXTENDS Naturals, Sequences

CONSTANTS
    N,            \* confirmed members of the tontine, hence cycles
    Checks,       \* slots for checkCycleCompletion calls in progress
    MaxPaid,      \* bound on the confirmed contributions of a cycle
    MaxLost       \* bound on the calls that a crash or a failed await ends

ASSUME CyclesAssumption ==
    /\ N \in Nat \ {0}
    /\ MaxPaid \in Nat
    /\ MaxLost \in Nat

Numbers == 1..N

VARIABLES
    cycle,      \* the cycles table: status and total_collected, by cycle_number
    confirmed,  \* CONFIRMED contributions of each cycle
    full,       \* cycles whose confirmed contributions have reached N (history)
    check,      \* the checkCycleCompletion calls in progress
    payout,     \* amounts of the PAYOUT_INCOMING sms of each cycle, in order
    started,    \* cycles whose beneficiary was sent CYCLE_STARTED_BENEFICIARY
    lost        \* calls ended by a crash or a failed await

vars == <<cycle, confirmed, full, check, payout, started, lost>>
contributions == <<confirmed, full>>
notifications == <<payout, started>>

(* createCycles: N rows saved at once, the first one ACTIVE, and an sms to its
   beneficiary. *)
CreatedCycle(c) == [status |-> IF c = 1 THEN "ACTIVE" ELSE "PENDING", collected |-> 0]
total_expected == N

NoCheck == [pc |-> "idle", number |-> 0, seen |-> 0, total |-> 0]

Init ==
    /\ cycle = [c \in Numbers |-> CreatedCycle(c)]
    /\ confirmed = [c \in Numbers |-> 0]
    /\ full = {}
    /\ check = [k \in Checks |-> NoCheck]
    /\ payout = [c \in Numbers |-> <<>>]
    /\ started = {1}
    /\ lost = 0

-----------------------------------------------------------------------------
(* ContributionsService and BlockchainWorker: a contribution initiated while its
   cycle was ACTIVE is confirmed, now or later; a failed chain record takes a
   CONFIRMED one away. *)
PaymentConfirmed(c) ==
    /\ cycle[c].status # "PENDING"
    /\ confirmed[c] < MaxPaid
    /\ confirmed' = [confirmed EXCEPT ![c] = @ + 1]
    /\ full' = IF confirmed[c] + 1 >= N THEN full \cup {c} ELSE full
    /\ UNCHANGED <<cycle, check, notifications, lost>>

ContributionBlockchainFailed(c) ==
    /\ confirmed[c] > 0
    /\ confirmed' = [confirmed EXCEPT ![c] = @ - 1]
    /\ UNCHANGED <<cycle, full, check, notifications, lost>>

-----------------------------------------------------------------------------
(* Mutant of LoadCycle: whatever the status. *)
LoadCycleAny(k, c) ==
    /\ check[k].pc = "idle"
    /\ cycle[c].status # "PENDING"
    /\ check' = [check EXCEPT ![k] = [pc |-> "sum", number |-> c,
                                      seen |-> cycle[c].collected, total |-> 0]]
    /\ UNCHANGED <<cycle, contributions, notifications, lost>>

(* checkCycleCompletion: findOne; a cycle that is not ACTIVE is left alone.  The
   entity read here, total_collected included, is the one used to the end. *)
LoadCycle(k, c) ==
    /\ check[k].pc = "idle"
    /\ cycle[c].status = "ACTIVE"
    /\ check' = [check EXCEPT ![k] = [pc |-> "sum", number |-> c,
                                      seen |-> cycle[c].collected, total |-> 0]]
    /\ UNCHANGED <<cycle, contributions, notifications, lost>>

(* SUM(amount) over the CONFIRMED contributions (and a count, which is not used). *)
SumConfirmed(k) ==
    /\ check[k].pc = "sum"
    /\ check' = [check EXCEPT ![k].pc = "store",
                              ![k].total = confirmed[check[k].number]]
    /\ UNCHANGED <<cycle, contributions, notifications, lost>>

(* Mutants: one contribution short; the stale entity saved whole. *)
ReachedEarly(total) == total + 1 >= total_expected
StoreTotalSave(k) ==
    /\ check[k].pc = "store"
    /\ cycle' = [cycle EXCEPT ![check[k].number] = [status |-> "ACTIVE",
                                                    collected |-> check[k].total]]
    /\ check' = [check EXCEPT ![k] = IF check[k].total >= total_expected
                                     THEN [@ EXCEPT !.pc = "complete"] ELSE NoCheck]
    /\ UNCHANGED <<contributions, notifications, lost>>

Reached(total) == total >= total_expected

StoreTotal(k) ==
    /\ check[k].pc = "store"
    /\ cycle' = [cycle EXCEPT ![check[k].number].collected = check[k].total]
    /\ check' = [check EXCEPT ![k] = IF Reached(check[k].total)
                                     THEN [@ EXCEPT !.pc = "complete"] ELSE NoCheck]
    /\ UNCHANGED <<contributions, notifications, lost>>

(* Mutant: no payout sms. *)
MarkCompletedOnly(k) ==
    /\ check[k].pc = "complete"
    /\ cycle' = [cycle EXCEPT ![check[k].number].status = "COMPLETED"]
    /\ check' = [check EXCEPT ![k].pc = "next"]
    /\ UNCHANGED <<contributions, notifications, lost>>

(* completeCycleAndAdvance (a): COMPLETED, whatever the status has become. *)
MarkCompleted(k) ==
    /\ check[k].pc = "complete"
    /\ cycle' = [cycle EXCEPT ![check[k].number].status = "COMPLETED"]
    /\ check' = [check EXCEPT ![k].pc = "payout"]
    /\ UNCHANGED <<contributions, notifications, lost>>

(* (b) the sms names the total_collected of the entity as first read. *)
AnnouncePayout(k) ==
    /\ check[k].pc = "payout"
    /\ payout' = [payout EXCEPT ![check[k].number] = Append(@, check[k].seen)]
    /\ check' = [check EXCEPT ![k].pc = "next"]
    /\ UNCHANGED <<cycle, contributions, started, lost>>

(* Mutants: a next cycle is taken for granted; the last one is missed. *)
NextAssumed(c) == TRUE
NextMissed(c) == c + 1 < N /\ cycle[c + 1].status = "PENDING"

(* (c) the next cycle is looked up among the PENDING ones. *)
NextExists(c) == c < N /\ cycle[c + 1].status = "PENDING"

FindNext(k) ==
    /\ check[k].pc = "next"
    /\ check' = [check EXCEPT ![k] = IF NextExists(check[k].number)
                                     THEN [@ EXCEPT !.pc = "activate"] ELSE NoCheck]
    /\ UNCHANGED <<cycle, contributions, notifications, lost>>

(* update(nextCycle.id, {status: ACTIVE}): not conditional on PENDING. *)
ActivateNext(k) ==
    /\ check[k].pc = "activate"
    /\ cycle' = [cycle EXCEPT ![check[k].number + 1].status = "ACTIVE"]
    /\ check' = [check EXCEPT ![k].pc = "started"]
    /\ UNCHANGED <<contributions, notifications, lost>>

AnnounceStart(k) ==
    /\ check[k].pc = "started"
    /\ started' = started \cup {check[k].number + 1}
    /\ check' = [check EXCEPT ![k] = NoCheck]
    /\ UNCHANGED <<cycle, contributions, payout, lost>>

(* An await rejects or the process dies: the call ends, what it wrote stays. *)
Abandon(k) ==
    /\ check[k].pc # "idle"
    /\ lost < MaxLost
    /\ lost' = lost + 1
    /\ check' = [check EXCEPT ![k] = NoCheck]
    /\ UNCHANGED <<cycle, contributions, notifications>>

CheckStep(k) ==
    \/ SumConfirmed(k) \/ StoreTotal(k) \/ MarkCompleted(k) \/ AnnouncePayout(k)
    \/ FindNext(k) \/ ActivateNext(k) \/ AnnounceStart(k)

Next ==
    \/ \E c \in Numbers : PaymentConfirmed(c) \/ ContributionBlockchainFailed(c)
    \/ \E k \in Checks :
          CheckStep(k) \/ Abandon(k) \/ \E c \in Numbers : LoadCycle(k, c)

Spec == Init /\ [][Next]_vars

(* A continuation that can run does. *)
FairSpec == Spec /\ \A k \in Checks : WF_vars(CheckStep(k))

-----------------------------------------------------------------------------
(* Properties *)

(* Every variable holds values of its type. *)
TypeOK ==
    /\ cycle \in [Numbers -> [status : {"PENDING", "ACTIVE", "COMPLETED"},
                              collected : Nat]]
    /\ confirmed \in [Numbers -> Nat]
    /\ full \subseteq Numbers
    /\ check \in [Checks -> [pc : {"idle", "sum", "store", "complete", "payout",
                                   "next", "activate", "started"},
                             number : Numbers \cup {0}, seen : Nat, total : Nat]]
    /\ payout \in [Numbers -> Seq(Nat)]
    /\ started \subseteq Numbers
    /\ lost \in Nat

(* However many checks overlap and wherever they are cut off, a cycle closes only
   after all the contributions due for it were confirmed at once
   (checkCycleCompletion). *)
ClosedOnlyWhenFull ==
    \A c \in Numbers : cycle[c].status = "COMPLETED" => c \in full

(* However many checks overlap, a cycle opens only after the payout of the one
   before was announced, and hence after it was complete (completeCycleAndAdvance). *)
OpensAfterPayout ==
    \A c \in Numbers : cycle[c].status # "PENDING" /\ c > 1 =>
       payout[c - 1] # <<>> /\ c - 1 \in full

(* Overlapping or not, a cycle never goes back to PENDING, and only a check that
   is already under way takes one out of COMPLETED. *)
ReopenedByStaleCheckOnly == [][
    \A c \in Numbers : cycle[c].status = "COMPLETED" /\ cycle'[c].status # "COMPLETED" =>
       /\ cycle'[c].status = "ACTIVE"
       /\ \E k \in Checks : check[k].pc = "activate" /\ check[k].number = c - 1 ]_vars

(* With one check at a time the service implements Rotation, crashes included. *)
R == INSTANCE Rotation WITH status <- [c \in Numbers |-> cycle[c].status]
ImplementsRotation == R!RSpec

(* With one check at a time no payout is announced twice. *)
PayoutOnce == \A c \in Numbers : Len(payout[c]) <= 1

(* Until a check is cut off, however many overlap, none loses the thread: a completed
   cycle whose successor is closed is in the hands of a check about to open it, and the
   beneficiary of an open one was told so, or a check is about to tell them. *)
HandedOver ==
    lost = 0 => \A c \in 1 .. N - 1 :
       /\ cycle[c].status = "COMPLETED" /\ cycle[c + 1].status = "PENDING" =>
             \E k \in Checks : check[k].pc \in {"payout", "next", "activate"} /\ check[k].number = c
       /\ cycle[c + 1].status # "PENDING" /\ c + 1 \notin started =>
             \E k \in Checks : check[k].pc = "started" /\ check[k].number = c

(* A check that finds the contributions in closes the cycle and opens the next,
   unless it is cut off on the way. *)
CompletionAdvances == \A c \in 1 .. N - 1 : \A k \in Checks :
    (check[k].pc = "complete" /\ check[k].number = c)
       ~> (cycle[c + 1].status # "PENDING" \/ lost > 0)
=============================================================================
