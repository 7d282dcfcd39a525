--------------------------- MODULE Contributions ---------------------------
(***************************************************************************)
(* The payment pipeline of TontineChain, src/src/modules/contributions:    *)
(* ContributionsService.initiate and handleFedaPayWebhook, the FedaPay     *)
(* provider that calls the webhook back, and the record-contribution-      *)
(* onchain job of BlockchainWorker.                                        *)
(*                                                                         *)
(* Node runs one continuation at a time and may run any other request at   *)
(* every await, so an action below is the code from one await to the next: *)
(* it performs the awaited call (a SQL statement, a Redis command, a call  *)
(* to FedaPay) and the synchronous code that follows it.  No transaction   *)
(* or row lock spans two awaits.                                           *)
(***************************************************************************)
EXTENDS Naturals, FiniteSets

CONSTANTS
    Members,      \* users of the platform
    CycleIds,     \* cycles whose contributions are collected
    Refs,         \* payment references (uuids): one row and one transaction each
    Requests,     \* slots for POST /contributions/initiate in progress
    Hooks,        \* slots for POST /contributions/webhook/fedapay in progress
    Undefined,    \* JavaScript's undefined
    SubOf,        \* what the controller reads as user.sub for each member
    OtherEvents,  \* kinds of FedaPay events besides the two outcomes
    MaxFaults     \* bound on the number of faults of each kind

FaultKinds == {"crash", "error", "expiry"}
Outcomes == {"transaction.approved", "transaction.declined", "transaction.canceled"}

ASSUME ConstantsAssumption ==
    /\ Undefined \notin Members \cup CycleIds \cup Refs
    /\ SubOf \in [Members -> Members \cup {Undefined}]
    /\ OtherEvents \cap Outcomes = {}
    /\ Undefined \notin OtherEvents \cup Outcomes
    /\ MaxFaults \in [FaultKinds -> Nat]

VARIABLES
    row,      \* the contributions table, by payment_ref ("ABSENT": no such row)
    active,   \* the cycles whose status is ACTIVE (kept by CyclesService)
    req,      \* the initiate requests in progress
    hook,     \* the webhook deliveries in progress
    keys,     \* transactions whose idempotence key is in Redis
    expired,  \* how many times the key of a transaction has lapsed (history)
    jobs,     \* record-contribution-onchain jobs ever enqueued
    sms,      \* number of CONTRIBUTION_CONFIRMED sms enqueued per reference
    tx,       \* FedaPay's transactions, by the payment_ref in their metadata
    owed,     \* events FedaPay has not yet seen acknowledged by a 200
    faults    \* faults that have happened, by kind

vars == <<row, active, req, hook, keys, expired, jobs, sms, tx, owed, faults>>
provider == <<tx, owed>>
queues == <<jobs, sms>>
redis == <<keys, expired>>

JobAttempts == 3   \* attempts of a record-contribution-onchain job
MaxStalled == 1    \* Bull's maxStalledCount: a job that stalls again is failed

NoRow == [status |-> "ABSENT", cycle |-> Undefined, member |-> Undefined,
          trans |-> FALSE, proof |-> 0]
NoReq == [pc |-> "idle", who |-> Undefined, cycle |-> Undefined, ref |-> Undefined]
NoHook == [pc |-> "idle", ref |-> Undefined, kind |-> Undefined, claim |-> 0]

RowType == [status : {"ABSENT", "PENDING", "CONFIRMED", "FAILED", "BLOCKCHAIN_FAILED"},
            cycle : CycleIds \cup {Undefined}, member : Members \cup {Undefined},
            trans : BOOLEAN, proof : Nat]
ReqType == [pc : {"idle", "check", "save", "pay", "record"},
            who : Members \cup {Undefined}, cycle : CycleIds \cup {Undefined},
            ref : Refs \cup {Undefined}]
HookType == [pc : {"idle", "claim", "find", "confirm", "proof", "enqueue", "sms",
                   "fail", "answer"},
             ref : Refs \cup {Undefined},
             kind : Outcomes \cup OtherEvents \cup {Undefined}, claim : Nat]
JobType == [ref : Refs, claim : Nat, made : Nat, stalls : Nat,
            pc : {"waiting", "active", "mark", "failed"}]
TxType == [status : {"none", "created", "open", "approved", "declined"},
           amount : {"exact", "other", "absent"}]
EventType == [ref : Refs, kind : Outcomes \cup OtherEvents]

Event(r, k) == [ref |-> r, kind |-> k]
Waiting(r, n) == [ref |-> r, claim |-> n, made |-> 0, stalls |-> 0, pc |-> "waiting"]

Fault(k) == /\ faults[k] < MaxFaults[k]
            /\ faults' = [faults EXCEPT ![k] = @ + 1]

Init ==
    /\ row = [r \in Refs |-> NoRow]
    /\ active = CycleIds
    /\ req = [q \in Requests |-> NoReq]
    /\ hook = [w \in Hooks |-> NoHook]
    /\ keys = {}
    /\ expired = [r \in Refs |-> 0]
    /\ jobs = {}
    /\ sms = [r \in Refs |-> 0]
    /\ tx = [r \in Refs |-> [status |-> "none", amount |-> "exact"]]
    /\ owed = {}
    /\ faults = [k \in FaultKinds |-> 0]

-----------------------------------------------------------------------------
(* ContributionsService.initiate, one await at a time.                     *)

(* findOne's WHERE: TypeORM leaves an undefined condition out of the query. *)
Matches(r, c, who) ==
    /\ row[r].status = "CONFIRMED"
    /\ row[r].cycle = c
    /\ who # Undefined => row[r].member = who

Unused == {r \in Refs : row[r].status = "ABSENT"}

(* Refs bounds the run: a request starts only if a reference is left for it. *)
RefsLeft ==
    Cardinality({q \in Requests : req[q].pc \in {"check", "save"}}) < Cardinality(Unused)

(* The controller reads the cycle; the copy of its status is not read again. *)
ReadCycle(q, m, c) ==
    /\ req[q].pc = "idle"
    /\ RefsLeft
    /\ c \in active
    /\ req' = [req EXCEPT ![q] = [NoReq EXCEPT !.pc = "check", !.who = SubOf[m],
                                               !.cycle = c]]
    /\ UNCHANGED <<row, active, hook, redis, queues, provider, faults>>

(* The member has a CONFIRMED contribution for this cycle: ConflictException. *)
CheckAlready(q) ==
    /\ req[q].pc = "check"
    /\ req' = [req EXCEPT ![q] =
                 IF \E r \in Refs : Matches(r, req[q].cycle, req[q].who)
                 THEN NoReq ELSE [@ EXCEPT !.pc = "save"]]
    /\ UNCHANGED <<row, active, hook, redis, queues, provider, faults>>

(* save(): a new PENDING row under a fresh reference.  member_id is NOT NULL,
   so a row without a member is refused by the database. *)
SaveIntent(q) ==
    /\ req[q].pc = "save"
    /\ IF req[q].who = Undefined
       THEN /\ req' = [req EXCEPT ![q] = NoReq]
            /\ UNCHANGED row
       ELSE \E r \in Unused :
            /\ row' = [row EXCEPT ![r] = [NoRow EXCEPT !.status = "PENDING",
                           !.cycle = req[q].cycle, !.member = req[q].who]]
            /\ req' = [req EXCEPT ![q] = [@ EXCEPT !.pc = "pay", !.ref = r]]
    /\ UNCHANGED <<active, hook, redis, queues, provider, faults>>

(* FedaPay.Transaction.create: the provider opens a transaction that carries the
   reference.  Its events may report the amount asked for, another one (XOF has
   no decimals, amounts here have two), or none. *)
CreateTransaction(r) ==
    /\ \E a \in {"exact", "other", "absent"} :
          tx' = [tx EXCEPT ![r] = [status |-> "created", amount |-> a]]
    /\ owed' = owed \cup {Event(r, k) : k \in OtherEvents}

InitiatePayment(q) ==
    /\ req[q].pc = "pay"
    /\ CreateTransaction(req[q].ref)
    /\ req' = [req EXCEPT ![q].pc = "record"]
    /\ UNCHANGED <<row, active, hook, redis, queues, faults>>

(* update(cinetpay_trans_id), and the answer with the payment link: from here the
   member can pay. *)
RecordTransaction(q) ==
    /\ req[q].pc = "record"
    /\ row' = [row EXCEPT ![req[q].ref].trans = TRUE]
    /\ tx' = [tx EXCEPT ![req[q].ref].status = IF @ = "created" THEN "open" ELSE @]
    /\ req' = [req EXCEPT ![q] = NoReq]
    /\ UNCHANGED <<active, hook, redis, queues, owed, faults>>

(* An awaited call rejects: the request ends with a 500, what it wrote stays.
   FedaPay may have created the transaction before the call failed
   (generateToken is a second call). *)
InitiateError(q) ==
    /\ req[q].pc # "idle"
    /\ Fault("error")
    /\ req' = [req EXCEPT ![q] = NoReq]
    /\ \/ UNCHANGED provider
       \/ req[q].pc = "pay" /\ CreateTransaction(req[q].ref)
    /\ UNCHANGED <<row, active, hook, redis, queues>>

-----------------------------------------------------------------------------
(* FedaPay, external: the customer's side of a transaction, and a webhook that is
   repeated until it is answered with a 200. *)

Settle(r, from, outcome, kind) ==
    /\ tx[r].status \in from
    /\ tx' = [tx EXCEPT ![r].status = outcome]
    /\ owed' = owed \cup {Event(r, kind)}
    /\ UNCHANGED <<row, active, req, hook, redis, queues, faults>>

CustomerPays(r) == Settle(r, {"open"}, "approved", "transaction.approved")
TransactionDeclined(r) == \E kind \in {"transaction.declined", "transaction.canceled"} :
    Settle(r, {"created", "open"}, "declined", kind)

-----------------------------------------------------------------------------
(* ContributionsService.handleFedaPayWebhook, one await at a time.         *)

(* A delivery arrives; its signature is FedaPay's and it names the reference. *)
Deliver(w, e) ==
    /\ hook[w].pc = "idle"
    /\ e \in owed
    /\ hook' = [hook EXCEPT ![w] = [pc |-> "claim", ref |-> e.ref, kind |-> e.kind,
                                    claim |-> 0]]
    /\ UNCHANGED <<row, active, req, redis, queues, provider, faults>>

(* Mutants of ClaimKey: SET without NX, and a repetition answered by an error. *)
ClaimKeyNoNX(w) ==
    /\ hook[w].pc = "claim"
    /\ keys' = keys \cup {hook[w].ref}
    /\ hook' = [hook EXCEPT ![w].pc = "find", ![w].claim = expired[hook[w].ref] + 1]
    /\ UNCHANGED <<row, active, req, expired, queues, provider, faults>>

ClaimKeyConflict(w) ==
    LET r == hook[w].ref IN
    /\ hook[w].pc = "claim"
    /\ keys' = keys \cup {r}
    /\ hook' = [hook EXCEPT ![w] =
                  IF r \in keys THEN NoHook
                  ELSE [@ EXCEPT !.pc = "find", !.claim = expired[r] + 1]]
    /\ UNCHANGED <<row, active, req, expired, queues, provider, faults>>

(* SET webhook:fedapay:<transaction id> EX 86400 NX, before anything is done. *)
ClaimKey(w) ==
    LET r == hook[w].ref IN
    /\ hook[w].pc = "claim"
    /\ keys' = keys \cup {r}
    /\ hook' = [hook EXCEPT ![w] =
                  IF r \in keys THEN [@ EXCEPT !.pc = "answer"]
                  ELSE [@ EXCEPT !.pc = "find", !.claim = expired[r] + 1]]
    /\ UNCHANGED <<row, active, req, expired, queues, provider, faults>>

(* Mutants: a wrong event name, every other event a failure, no amount check. *)
IsSuccessEventRenamed(k) == k = "transaction.completed"
IsFailureEventLoose(k) == k # "transaction.approved"
AmountIgnored(r) == FALSE

IsSuccessEvent(k) == k = "transaction.approved"
IsFailureEvent(k) == k \in {"transaction.declined", "transaction.canceled"}

(* Whether the amount in the event passes: `receivedAmount && received !== due`. *)
AmountRefused(r) == tx[r].amount = "other"

(* What the handler does with event k for reference r: the amount is looked at
   before the kind of event. *)
Verdict(r, k) ==
    CASE row[r].status = "ABSENT" -> "answer"
      [] row[r].status # "ABSENT" /\ AmountRefused(r) -> "fail"
      [] row[r].status # "ABSENT" /\ ~AmountRefused(r) /\ IsSuccessEvent(k) -> "confirm"
      [] row[r].status # "ABSENT" /\ ~AmountRefused(r) /\ IsFailureEvent(k) -> "fail"
      [] OTHER -> "answer"

FindContribution(w) ==
    /\ hook[w].pc = "find"
    /\ hook' = [hook EXCEPT ![w].pc = Verdict(hook[w].ref, hook[w].kind)]
    /\ UNCHANGED <<row, active, req, redis, queues, provider, faults>>

(* update(id, {status: CONFIRMED}): no condition on the status the row has now. *)
Confirm(w) ==
    /\ hook[w].pc = "confirm"
    /\ row' = [row EXCEPT ![hook[w].ref].status = "CONFIRMED"]
    /\ hook' = [hook EXCEPT ![w].pc = "proof"]
    /\ UNCHANGED <<active, req, redis, queues, provider, faults>>

(* The hash covers the time, so every processing has its own: hook[w].claim. *)
StoreProof(w) ==
    /\ hook[w].pc = "proof"
    /\ row' = [row EXCEPT ![hook[w].ref].proof = hook[w].claim]
    /\ hook' = [hook EXCEPT ![w].pc = "enqueue"]
    /\ UNCHANGED <<active, req, redis, queues, provider, faults>>

(* Mutant: the job hashes again, at another time. *)
EnqueueRecordRehash(w) ==
    /\ hook[w].pc = "enqueue"
    /\ jobs' = jobs \cup {Waiting(hook[w].ref, hook[w].claim + 1)}
    /\ hook' = [hook EXCEPT ![w].pc = "sms"]
    /\ UNCHANGED <<row, active, req, redis, sms, provider, faults>>

EnqueueRecord(w) ==
    /\ hook[w].pc = "enqueue"
    /\ jobs' = jobs \cup {Waiting(hook[w].ref, hook[w].claim)}
    /\ hook' = [hook EXCEPT ![w].pc = "sms"]
    /\ UNCHANGED <<row, active, req, redis, sms, provider, faults>>

EnqueueSms(w) ==
    /\ hook[w].pc = "sms"
    /\ sms' = [sms EXCEPT ![hook[w].ref] = @ + 1]
    /\ hook' = [hook EXCEPT ![w].pc = "answer"]
    /\ UNCHANGED <<row, active, req, redis, jobs, provider, faults>>

(* Mutant: the provider's word instead of a ContributionStatus. *)
MarkFailedRaw(w) ==
    /\ hook[w].pc = "fail"
    /\ row' = [row EXCEPT ![hook[w].ref].status = "declined"]
    /\ hook' = [hook EXCEPT ![w].pc = "answer"]
    /\ UNCHANGED <<active, req, redis, queues, provider, faults>>

MarkFailed(w) ==
    /\ hook[w].pc = "fail"
    /\ row' = [row EXCEPT ![hook[w].ref].status = "FAILED"]
    /\ hook' = [hook EXCEPT ![w].pc = "answer"]
    /\ UNCHANGED <<active, req, redis, queues, provider, faults>>

(* 200: FedaPay stops repeating the event. *)
Answer(w) ==
    /\ hook[w].pc = "answer"
    /\ owed' = owed \ {Event(hook[w].ref, hook[w].kind)}
    /\ hook' = [hook EXCEPT ![w] = NoHook]
    /\ UNCHANGED <<row, active, req, redis, queues, tx, faults>>

(* An awaited call rejects, or the 200 is lost: FedaPay will repeat the event.
   The key stays claimed. *)
HookError(w) ==
    /\ hook[w].pc # "idle"
    /\ Fault("error")
    /\ hook' = [hook EXCEPT ![w] = NoHook]
    /\ UNCHANGED <<row, active, req, redis, queues, provider>>

(* The key's 24 hours pass, or Redis restarts from a snapshot without it. *)
KeyLapses(r) ==
    /\ r \in keys
    /\ Fault("expiry")
    /\ keys' = keys \ {r}
    /\ expired' = [expired EXCEPT ![r] = @ + 1]
    /\ UNCHANGED <<row, active, req, hook, queues, provider>>

-----------------------------------------------------------------------------
(* BlockchainWorker.handleRecord.  The contract address is the constant '' in the
   code, so that every attempt throws and nothing after the throw is reached. *)

Replace(j, k) == jobs' = (jobs \ {j}) \cup {k}

TakeJob(j) ==
    /\ j.pc = "waiting"
    /\ Replace(j, [j EXCEPT !.pc = "active"])
    /\ UNCHANGED <<row, active, req, hook, redis, sms, provider, faults>>

LastAttempt(j) == j.made >= JobAttempts - 1

(* Mutant: attempts are not counted. *)
AttemptThrowsForever(j) ==
    /\ j.pc = "active"
    /\ Replace(j, [j EXCEPT !.pc = "waiting"])
    /\ UNCHANGED <<row, active, req, hook, redis, sms, provider, faults>>

(* The attempt throws.  The last one goes on to mark the contribution, the others
   go back to the queue (with a delay). *)
AttemptThrows(j) ==
    /\ j.pc = "active"
    /\ Replace(j, IF LastAttempt(j) THEN [j EXCEPT !.pc = "mark"]
                  ELSE [j EXCEPT !.pc = "waiting", !.made = @ + 1])
    /\ UNCHANGED <<row, active, req, hook, redis, sms, provider, faults>>

MarkBlockchainFailed(j) ==
    /\ j.pc = "mark"
    /\ row' = [row EXCEPT ![j.ref].status = "BLOCKCHAIN_FAILED"]
    /\ Replace(j, [j EXCEPT !.pc = "failed", !.made = @ + 1])
    /\ UNCHANGED <<active, req, hook, redis, sms, provider, faults>>

(* The update in the catch block rejects: Bull has no attempt left for the job. *)
MarkError(j) ==
    /\ j.pc = "mark"
    /\ Fault("error")
    /\ Replace(j, [j EXCEPT !.pc = "failed", !.made = @ + 1])
    /\ UNCHANGED <<row, active, req, hook, redis, sms, provider>>

-----------------------------------------------------------------------------
(* The Node process dies and restarts.  Requests are lost; a job that was running
   has stalled, and Bull runs it once more or, the second time, fails it without
   calling the handler. *)
Stall(j) ==
    CASE j.pc \in {"waiting", "failed"} -> j
      [] j.pc \in {"active", "mark"} /\ j.stalls < MaxStalled ->
            [j EXCEPT !.pc = "waiting", !.stalls = @ + 1]
      [] OTHER -> [j EXCEPT !.pc = "failed", !.stalls = @ + 1]

Crash ==
    /\ Fault("crash")
    /\ req' = [q \in Requests |-> NoReq]
    /\ hook' = [w \in Hooks |-> NoHook]
    /\ jobs' = {Stall(j) : j \in jobs}
    /\ UNCHANGED <<row, active, redis, sms, provider>>

(* CyclesService completes a cycle. *)
CycleCloses(c) ==
    /\ c \in active
    /\ active' = active \ {c}
    /\ UNCHANGED <<row, req, hook, redis, queues, provider, faults>>

InitiateStep(q) ==
    CheckAlready(q) \/ SaveIntent(q) \/ InitiatePayment(q) \/ RecordTransaction(q)

HookStep(w) ==
    \/ ClaimKey(w) \/ FindContribution(w) \/ Confirm(w) \/ StoreProof(w)
    \/ EnqueueRecord(w) \/ EnqueueSms(w) \/ MarkFailed(w) \/ Answer(w)

JobStep(j) == TakeJob(j) \/ AttemptThrows(j) \/ MarkBlockchainFailed(j)

Next ==
    \/ \E q \in Requests :
          \/ InitiateStep(q)
          \/ InitiateError(q)
          \/ \E m \in Members, c \in CycleIds : ReadCycle(q, m, c)
    \/ \E w \in Hooks : HookStep(w) \/ HookError(w) \/ \E e \in owed : Deliver(w, e)
    \/ \E j \in jobs : JobStep(j) \/ MarkError(j)
    \/ \E r \in Refs : CustomerPays(r) \/ TransactionDeclined(r) \/ KeyLapses(r)
    \/ \E c \in CycleIds : CycleCloses(c)
    \/ Crash

Spec == Init /\ [][Next]_vars

(* Continuations run, the Bull worker polls its queue, and FedaPay repeats an
   event until it is answered. *)
Fairness ==
    /\ \A q \in Requests : WF_vars(InitiateStep(q))
    /\ \A w \in Hooks : WF_vars(HookStep(w))
    /\ WF_vars(\E j \in jobs : JobStep(j))
    /\ \A e \in EventType : SF_vars(\E w \in Hooks : Deliver(w, e))

FairSpec == Spec /\ Fairness

-----------------------------------------------------------------------------
(* Properties *)

(* Every variable holds values of its type, and a slot that is past its first
   step names what it works on. *)
TypeOK ==
    /\ row \in [Refs -> RowType]
    /\ active \subseteq CycleIds
    /\ req \in [Requests -> ReqType]
    /\ hook \in [Hooks -> HookType]
    /\ keys \subseteq Refs
    /\ expired \in [Refs -> Nat]
    /\ jobs \subseteq JobType
    /\ sms \in [Refs -> Nat]
    /\ tx \in [Refs -> TxType]
    /\ owed \subseteq EventType
    /\ faults \in [FaultKinds -> Nat]

Paid(r) == tx[r].status = "approved" /\ tx[r].amount # "other"
Recorded(r) == row[r].status \in {"CONFIRMED", "BLOCKCHAIN_FAILED"}

(* The ledger agrees with the provider, whatever order events, repetitions, job
   attempts and crashes come in: a contribution counts as paid only if FedaPay
   approved its transaction for the amount due, and one that FedaPay approved is
   never recorded FAILED (handleFedaPayWebhook, handleRecord). *)
LedgerAgreesWithProvider ==
    \A r \in Refs :
       /\ Recorded(r) => Paid(r)
       /\ row[r].status = "FAILED" => ~Paid(r)

(* "Idempotence via Redis SETNX": a transaction's webhooks enqueue one chain record and
   one sms at most for each time its key could be taken, however many deliveries are in
   progress at once, also when one that took an earlier key is still on its way. *)
JobsOf(r) == {j \in jobs : j.ref = r}
ProcessedOnce ==
    \A r \in Refs : /\ sms[r] <= expired[r] + 1
                    /\ Cardinality(JobsOf(r)) <= expired[r] + 1

(* The proof a job will write on chain is the one the contribution shows, as long
   as the transaction's key has not lapsed: proof_hash is written once, before the
   job that carries it is enqueued. *)
JobCarriesRowProof ==
    \A j \in jobs : expired[j.ref] = 0 => row[j.ref].proof = j.claim

(* No update carries a condition on the status it replaces, and still a
   contribution only moves PENDING -> CONFIRMED -> BLOCKCHAIN_FAILED or
   PENDING -> FAILED.  Only a webhook processed again, after its key lapsed, takes
   BLOCKCHAIN_FAILED back to CONFIRMED. *)
StatusMoves(r) ==
    \/ row'[r].status = row[r].status
    \/ <<row[r].status, row'[r].status>> \in
          {<<"ABSENT", "PENDING">>, <<"PENDING", "CONFIRMED">>, <<"PENDING", "FAILED">>,
           <<"CONFIRMED", "BLOCKCHAIN_FAILED">>}
    \/ /\ expired[r] > 0
       /\ row[r].status = "BLOCKCHAIN_FAILED" /\ row'[r].status = "CONFIRMED"

StatusMovesForward == [][\A r \in Refs : StatusMoves(r)]_vars

(* The service implements the abstract ledger, whatever requests, deliveries, jobs and
   faults interleave. *)
NeverPaid(r) == \/ tx[r].status = "declined"
                \/ tx[r].status # "none" /\ tx[r].amount = "other"
Outcome(r) == IF Paid(r) THEN "paid" ELSE IF NeverPaid(r) THEN "refused" ELSE "open"
L == INSTANCE Ledger WITH outcome <- [r \in Refs |-> Outcome(r)],
                          entry <- [r \in Refs |-> row[r].status],
                          notices <- sms, lapses <- expired
ImplementsLedger == L!LSpec

Faulted == \E k \in FaultKinds : faults[k] > 0

(* A payment FedaPay has settled is not stranded: as long as its contribution is PENDING
   there is an event to be delivered whose key is free, or a delivery on its way to write
   the outcome.  Unless something failed (a crash, an error and a lapse each strand it),
   or an earlier event of the transaction took its key. *)
SettlementCarried ==
    \A r \in Refs :
       tx[r].status \in {"approved", "declined"} /\ row[r].status = "PENDING" =>
          \/ r \notin keys /\ \E e \in owed : e.ref = r
          \/ \E w \in Hooks : hook[w].ref = r /\ hook[w].pc \in {"find", "confirm", "fail"}

(* A job that ends has left its contribution BLOCKCHAIN_FAILED (handleRecord). *)
FailureMarked ==
    \A j \in jobs : j.pc = "failed" => row[j.ref].status = "BLOCKCHAIN_FAILED"

NothingStranded ==
    ~Faulted => (OtherEvents = {} => SettlementCarried) /\ FailureMarked

(* Bull's accounts are kept: a job ends by its third attempt or its second stall, and
   until then has had fewer (attempts: 3, contributions.service.ts:177). *)
AttemptsCounted ==
    \A j \in jobs : IF j.pc = "failed" THEN j.made = JobAttempts \/ j.stalls = MaxStalled + 1
                    ELSE j.made < JobAttempts /\ j.stalls <= MaxStalled

(* FedaPay gets its 200 in the end: an event whose handler failed is repeated, and
   a repetition that finds the key taken is answered too. *)
EventsAcknowledged == \A e \in EventType : e \in owed ~> e \notin owed

(* A record job does not stay in the queue: three attempts, or a second stall,
   end it. *)
JobsSettle == \A r \in Refs :
    (\E j \in jobs : j.ref = r) ~> (\A j \in jobs : j.ref = r => j.pc = "failed")

(* A payment FedaPay approved for the amount due ends up recorded as paid, unless
   something failed on the way (and FedaPay sends outcomes only: any earlier event
   of the transaction takes its key). *)
RecordedUnlessFault == \A r \in Refs : Paid(r) ~> Recorded(r) \/ Faulted

(* "Sauvegarder l'ID de transaction FedaPay pour le polling fallback"
   (contributions.service.ts:86): an approved payment is recorded even if its
   webhook was missed.  Nothing polls, so that a crash after the key is claimed
   loses the payment. *)
ApprovedIsRecorded == \A r \in Refs : Paid(r) ~> Recorded(r)

(* "Vous avez deja cotise pour ce cycle": a member pays once for a cycle
   (contributions.service.ts:59). *)
OnePaymentPerCycle ==
    \A r, s \in Refs :
       /\ row[r].status = "CONFIRMED" /\ row[s].status = "CONFIRMED"
       /\ row[r].member = row[s].member /\ row[r].cycle = row[s].cycle
       => r = s
=============================================================================
