------------------------ MODULE Contributions_proofs ------------------------
(* Proofs about Contributions, for every value of its constants. *)
EXTENDS Contributions, TLAPS

(* A slot past its first step names what it works on. *)
Named ==
    /\ \A w \in Hooks : hook[w].pc # "idle" =>
          hook[w].ref \in Refs /\ hook[w].kind \in Outcomes \cup OtherEvents
    /\ \A q \in Requests : req[q].pc \in {"pay", "record"} => req[q].ref \in Refs

TypeInv == TypeOK /\ Named

(* The records keep their types when a step changes one of their fields. *)
LEMMA RowFields ==
    \A x \in RowType :
       /\ \A s \in {"PENDING", "CONFIRMED", "FAILED", "BLOCKCHAIN_FAILED"} :
             [x EXCEPT !.status = s] \in RowType
       /\ \A n \in Nat : [x EXCEPT !.proof = n] \in RowType
       /\ [x EXCEPT !.trans = TRUE] \in RowType
  BY DEF RowType

LEMMA HookFields ==
    \A h \in HookType : \A n \in Nat :
       /\ \A p \in {"answer", "confirm", "fail"} : [h EXCEPT !.pc = p] \in HookType
       /\ [h EXCEPT !.pc = "find", !.claim = n] \in HookType
  BY DEF HookType

LEMMA JobFields ==
    \A j \in JobType : \A p \in {"waiting", "active", "mark", "failed"} :
       /\ [j EXCEPT !.pc = p] \in JobType
       /\ [j EXCEPT !.pc = p, !.made = @ + 1] \in JobType
       /\ [j EXCEPT !.pc = p, !.stalls = @ + 1] \in JobType
<1> SUFFICES ASSUME NEW j \in JobType, NEW p \in {"waiting", "active", "mark", "failed"}
             PROVE  /\ [j EXCEPT !.pc = p] \in JobType
                    /\ [j EXCEPT !.pc = p, !.made = @ + 1] \in JobType
                    /\ [j EXCEPT !.pc = p, !.stalls = @ + 1] \in JobType
  OBVIOUS
<1>1. j.made + 1 \in Nat /\ j.stalls + 1 \in Nat
  BY DEF JobType
<1>2. [j EXCEPT !.pc = p] \in JobType
  BY DEF JobType
<1>3. [j EXCEPT !.pc = p, !.made = @ + 1] \in JobType
  BY <1>1 DEF JobType
<1>4. [j EXCEPT !.pc = p, !.stalls = @ + 1] \in JobType
  BY <1>1 DEF JobType
<1> QED
  BY <1>2, <1>3, <1>4

(* One job of the queue replaced by another. *)
LEMMA JobReplaced ==
    ASSUME jobs \subseteq JobType, NEW j, NEW k \in JobType, Replace(j, k)
    PROVE  jobs' \subseteq JobType
  BY DEF Replace

LEMMA StallType == \A j \in JobType : Stall(j) \in JobType /\ Stall(j).ref = j.ref
<1> SUFFICES ASSUME NEW j \in JobType PROVE Stall(j) \in JobType /\ Stall(j).ref = j.ref
  OBVIOUS
<1>1. j.pc \in {"waiting", "active", "mark", "failed"}
  BY DEF JobType
<1>2. Stall(j) \in {j, [j EXCEPT !.pc = "waiting", !.stalls = @ + 1],
                    [j EXCEPT !.pc = "failed", !.stalls = @ + 1]}
  BY <1>1 DEF Stall
<1>3. Stall(j) \in JobType
  BY <1>2, JobFields
<1>4. Stall(j).ref = j.ref
  BY <1>2 DEF JobType
<1> QED
  BY <1>3, <1>4

(* FedaPay's new transaction, and the events it sends about it. *)
LEMMA Created ==
    ASSUME tx \in [Refs -> TxType], owed \subseteq EventType,
           NEW r \in Refs, CreateTransaction(r)
    PROVE  tx' \in [Refs -> TxType] /\ owed' \subseteq EventType
<1>1. PICK a \in {"exact", "other", "absent"} :
        tx' = [tx EXCEPT ![r] = [status |-> "created", amount |-> a]]
  BY DEF CreateTransaction
<1>2. tx' \in [Refs -> TxType]
  BY <1>1 DEF TxType
<1>3. owed' \subseteq EventType
  BY DEF CreateTransaction, EventType, Event
<1> QED
  BY <1>2, <1>3

LEMMA TypeInit == Init => TypeInv
<1> SUFFICES ASSUME Init PROVE TypeInv
  OBVIOUS
<1> USE ConstantsAssumption
<1>1. TypeOK
  BY DEF Init, TypeOK, NoRow, NoReq, NoHook, RowType, ReqType, HookType, TxType
<1>2. Named
  BY DEF Init, Named, NoReq, NoHook
<1> QED
  BY <1>1, <1>2 DEF TypeInv

LEMMA TypeStep == TypeInv /\ [Next]_vars => TypeInv'
<1> SUFFICES ASSUME TypeInv, [Next]_vars PROVE TypeInv'
  OBVIOUS
<1> USE ConstantsAssumption DEF TypeInv, TypeOK, Named, provider, queues, redis, Fault,
        FaultKinds
<1>1. ASSUME NEW q \in Requests, InitiateStep(q) PROVE TypeInv'
  <2>1. CASE CheckAlready(q)
    BY <2>1 DEF CheckAlready, ReqType, NoReq
  <2>2. CASE SaveIntent(q)
    <3>1. CASE req[q].who = Undefined
      BY <2>2, <3>1 DEF SaveIntent, ReqType, NoReq
    <3>2. CASE req[q].who # Undefined
      <4>1. PICK r \in Refs :
              /\ row' = [row EXCEPT ![r] = [NoRow EXCEPT !.status = "PENDING",
                            !.cycle = req[q].cycle, !.member = req[q].who]]
              /\ req' = [req EXCEPT ![q] = [@ EXCEPT !.pc = "pay", !.ref = r]]
        BY <2>2, <3>2 DEF SaveIntent, Unused
      <4>2. [NoRow EXCEPT !.status = "PENDING", !.cycle = req[q].cycle,
                          !.member = req[q].who] \in RowType
        BY DEF NoRow, RowType, ReqType
      <4>3. row' \in [Refs -> RowType]
        BY <4>1, <4>2
      <4>4. [req[q] EXCEPT !.pc = "pay", !.ref = r] \in ReqType
        <5>1. req[q] \in ReqType
          OBVIOUS
        <5> HIDE DEF TypeInv, TypeOK, Named
        <5> QED
          BY <5>1 DEF ReqType
      <4>5. req' \in [Requests -> ReqType]
        BY <4>1, <4>4
      <4>6. \A p \in Requests : req'[p].pc \in {"pay", "record"} => req'[p].ref \in Refs
        BY <4>1 DEF ReqType
      <4> QED
        BY <2>2, <4>3, <4>5, <4>6 DEF SaveIntent
    <3> QED
      BY <3>1, <3>2
  <2>3. CASE InitiatePayment(q)
    <3>1. tx' \in [Refs -> TxType] /\ owed' \subseteq EventType
      BY <2>3, Created DEF InitiatePayment
    <3>2. req' \in [Requests -> ReqType]
      BY <2>3 DEF InitiatePayment, ReqType
    <3>3. \A p \in Requests : req'[p].pc \in {"pay", "record"} => req'[p].ref \in Refs
      BY <2>3 DEF InitiatePayment, ReqType
    <3> QED
      BY <2>3, <3>1, <3>2, <3>3 DEF InitiatePayment
  <2>4. CASE RecordTransaction(q)
    <3>1. row' \in [Refs -> RowType]
      <4>1. req[q].ref \in Refs
        BY <2>4 DEF RecordTransaction
      <4>2. [row[req[q].ref] EXCEPT !.trans = TRUE] \in RowType
        BY <4>1, RowFields
      <4> QED
        BY <2>4, <4>2 DEF RecordTransaction
    <3>2. tx' \in [Refs -> TxType]
      BY <2>4 DEF RecordTransaction, TxType
    <3> QED
      BY <2>4, <3>1, <3>2 DEF RecordTransaction, ReqType, NoReq
  <2> QED
    BY <1>1, <2>1, <2>2, <2>3, <2>4 DEF InitiateStep
<1>2. ASSUME NEW q \in Requests, InitiateError(q) PROVE TypeInv'
  <2>1. tx' \in [Refs -> TxType] /\ owed' \subseteq EventType
    BY <1>2, Created DEF InitiateError
  <2>2. req' \in [Requests -> ReqType]
    BY <1>2 DEF InitiateError, NoReq, ReqType
  <2>3. \A p \in Requests : req'[p].pc \in {"pay", "record"} => req'[p].ref \in Refs
    BY <1>2 DEF InitiateError, NoReq
  <2> QED
    BY <1>2, <2>1, <2>2, <2>3 DEF InitiateError
<1>3. ASSUME NEW q \in Requests, NEW m \in Members, NEW c \in CycleIds, ReadCycle(q, m, c)
      PROVE TypeInv'
  BY <1>3 DEF ReadCycle, ReqType, NoReq
<1>4. ASSUME NEW w \in Hooks, HookStep(w) PROVE TypeInv'
  <2>1. CASE ClaimKey(w)
    <3> DEFINE r == hook[w].ref
    <3>1. r \in Refs
      BY <2>1 DEF ClaimKey
    <3>2. expired[r] + 1 \in Nat
      BY <3>1
    <3>3. hook' \in [Hooks -> HookType]
      <4>1. /\ [hook[w] EXCEPT !.pc = "answer"] \in HookType
            /\ [hook[w] EXCEPT !.pc = "find", !.claim = expired[r] + 1] \in HookType
        BY <3>2, HookFields
      <4> QED
        BY <2>1, <4>1 DEF ClaimKey
    <3>4. \A v \in Hooks : hook'[v].ref = hook[v].ref /\ hook'[v].kind = hook[v].kind
      BY <2>1 DEF ClaimKey, HookType
    <3>5. \A v \in Hooks : hook'[v].pc # "idle" => hook[v].pc # "idle"
      BY <2>1 DEF ClaimKey
    <3> QED
      BY <2>1, <3>1, <3>3, <3>4, <3>5 DEF ClaimKey
  <2>2. CASE FindContribution(w)
    <3>1. Verdict(hook[w].ref, hook[w].kind) \in {"answer", "confirm", "fail"}
      BY DEF Verdict
    <3>2. hook' = [hook EXCEPT ![w] = [hook[w] EXCEPT !.pc = Verdict(hook[w].ref, hook[w].kind)]]
      BY <2>2 DEF FindContribution
    <3>3. [hook[w] EXCEPT !.pc = Verdict(hook[w].ref, hook[w].kind)] \in HookType
      BY <3>1, HookFields
    <3>4. hook' \in [Hooks -> HookType]
      BY <3>2, <3>3
    <3>5. \A v \in Hooks : hook'[v].ref = hook[v].ref /\ hook'[v].kind = hook[v].kind
      BY <3>2 DEF HookType
    <3>6. \A v \in Hooks : hook'[v].pc # "idle" => hook[v].pc # "idle"
      BY <2>2 DEF FindContribution
    <3> QED
      BY <2>2, <3>4, <3>5, <3>6 DEF FindContribution
  <2>3. CASE Confirm(w)
    <3>1. row' \in [Refs -> RowType]
      BY <2>3, RowFields DEF Confirm
    <3> QED
      BY <2>3, <3>1 DEF Confirm, HookType
  <2>4. CASE StoreProof(w)
    <3>1. row' \in [Refs -> RowType]
      BY <2>4, RowFields DEF StoreProof, HookType
    <3> QED
      BY <2>4, <3>1 DEF StoreProof, HookType
  <2>5. CASE EnqueueRecord(w)
    BY <2>5 DEF EnqueueRecord, Waiting, HookType, JobType
  <2>6. CASE EnqueueSms(w)
    BY <2>6 DEF EnqueueSms, HookType
  <2>7. CASE MarkFailed(w)
    <3>1. row' \in [Refs -> RowType]
      BY <2>7, RowFields DEF MarkFailed
    <3> QED
      BY <2>7, <3>1 DEF MarkFailed, HookType
  <2>8. CASE Answer(w)
    BY <2>8 DEF Answer, HookType, NoHook, EventType
  <2> QED
    BY <1>4, <2>1, <2>2, <2>3, <2>4, <2>5, <2>6, <2>7, <2>8 DEF HookStep
<1>5. ASSUME NEW w \in Hooks, HookError(w) PROVE TypeInv'
  BY <1>5 DEF HookError, HookType, NoHook
<1>6. ASSUME NEW w \in Hooks, NEW e \in owed, Deliver(w, e) PROVE TypeInv'
  BY <1>6 DEF Deliver, HookType, EventType
<1>7. ASSUME NEW j \in jobs, JobStep(j) PROVE TypeInv'
  <2>1. CASE TakeJob(j)
    BY <2>1, JobFields, JobReplaced DEF TakeJob
  <2>2. CASE AttemptThrows(j)
    BY <2>2, JobFields, JobReplaced DEF AttemptThrows
  <2>3. CASE MarkBlockchainFailed(j)
    <3>1. jobs' \subseteq JobType
      BY <2>3, JobFields, JobReplaced DEF MarkBlockchainFailed
    <3>2. row' \in [Refs -> RowType]
      BY <2>3, RowFields DEF MarkBlockchainFailed
    <3> QED
      BY <2>3, <3>1, <3>2 DEF MarkBlockchainFailed
  <2> QED
    BY <1>7, <2>1, <2>2, <2>3 DEF JobStep
<1>8. ASSUME NEW j \in jobs, MarkError(j) PROVE TypeInv'
  <2>1. jobs' \subseteq JobType
    BY <1>8, JobFields, JobReplaced DEF MarkError
  <2>2. faults' \in [FaultKinds -> Nat]
    BY <1>8 DEF MarkError
  <2> QED
    BY <1>8, <2>1, <2>2 DEF MarkError
<1>9. ASSUME NEW r \in Refs, CustomerPays(r) \/ TransactionDeclined(r) PROVE TypeInv'
  <2>1. PICK outcome \in {"approved", "declined"}, kind \in Outcomes :
           /\ tx' = [tx EXCEPT ![r].status = outcome]
           /\ owed' = owed \cup {Event(r, kind)}
           /\ UNCHANGED <<row, active, req, hook, redis, queues, faults>>
    BY <1>9 DEF CustomerPays, TransactionDeclined, Settle, Outcomes
  <2>2. tx' \in [Refs -> TxType]
    BY <2>1 DEF TxType
  <2>3. owed' \subseteq EventType
    BY <2>1 DEF EventType, Event
  <2> QED
    BY <2>1, <2>2, <2>3
<1>10. ASSUME NEW r \in Refs, KeyLapses(r) PROVE TypeInv'
  BY <1>10 DEF KeyLapses
<1>11. ASSUME NEW c \in CycleIds, CycleCloses(c) PROVE TypeInv'
  BY <1>11 DEF CycleCloses
<1>12. CASE Crash
  <2>1. jobs' \subseteq JobType
    BY <1>12, StallType DEF Crash
  <2> QED
    BY <1>12, <2>1 DEF Crash, NoReq, NoHook, ReqType, HookType
<1>13. CASE UNCHANGED vars
  BY <1>13 DEF vars
<1> QED
  BY <1>1, <1>2, <1>3, <1>4, <1>5, <1>6, <1>7, <1>8, <1>9, <1>10, <1>11, <1>12, <1>13
  DEF Next

(* The program's variables keep their types: the tables, the request and webhook
   slots, the queue and the provider's transactions (TypeOK). *)
THEOREM TypeCorrect == Spec => []TypeOK
<1>1. Spec => []TypeInv
  BY TypeInit, TypeStep, PTL DEF Spec
<1>2. TypeInv => TypeOK
  BY DEF TypeInv
<1> QED
  BY <1>1, <1>2, PTL

-----------------------------------------------------------------------------
(* The ledger agrees with the provider.  Everything that can make a row paid or
   FAILED, an event, a delivery past its verdict or a job, is backed by an outcome
   FedaPay has settled, and no transaction is created over a settled one. *)

Backed(r, k) == /\ tx[r].status # "none"
                /\ k = "transaction.approved" => tx[r].status = "approved"
                /\ k \in {"transaction.declined", "transaction.canceled"} =>
                      tx[r].status = "declined"

RowsBacked == \A r \in Refs : /\ Recorded(r) => Paid(r)
                              /\ row[r].status = "FAILED" => NeverPaid(r)
                              /\ row[r].status = "ABSENT" => tx[r].status = "none"

EventsBacked == /\ \A e \in owed : Backed(e.ref, e.kind)
                /\ \A w \in Hooks : hook[w].pc # "idle" => Backed(hook[w].ref, hook[w].kind)

VerdictsBacked == \A w \in Hooks :
    /\ hook[w].pc \in {"confirm", "proof", "enqueue", "sms"} => Paid(hook[w].ref)
    /\ hook[w].pc = "fail" => NeverPaid(hook[w].ref)

JobsBacked == \A j \in jobs : Paid(j.ref)

FreshTransactions == \A q \in Requests :
    /\ req[q].pc = "pay" => /\ tx[req[q].ref].status = "none"
                            /\ row[req[q].ref].status # "ABSENT"
                            /\ \A p \in Requests : p # q /\ req[p].pc = "pay" =>
                                  req[p].ref # req[q].ref
    /\ req[q].pc = "record" => row[req[q].ref].status # "ABSENT"

LedgerInv == RowsBacked /\ EventsBacked /\ VerdictsBacked /\ JobsBacked /\ FreshTransactions

LEMMA LedgerInit == Init => LedgerInv
  BY DEF Init, LedgerInv, RowsBacked, EventsBacked, VerdictsBacked, JobsBacked,
         FreshTransactions, Recorded, NoRow, NoReq, NoHook

(* A transaction is created once, keeps its amount, and is settled once. *)
TxStep(r) == \/ tx'[r] = tx[r]
             \/ /\ tx[r].status = "none" /\ tx'[r].status = "created"
                /\ row[r].status # "ABSENT"
             \/ /\ tx[r].status \in {"created", "open"}
                /\ tx'[r].status \in {"open", "approved", "declined"}
                /\ tx'[r].amount = tx[r].amount

LEMMA TxSteps == TypeInv /\ LedgerInv /\ Next => \A r \in Refs : TxStep(r)
<1> SUFFICES ASSUME TypeInv, LedgerInv, Next, NEW r \in Refs PROVE TxStep(r)
  OBVIOUS
<1> USE DEF TypeInv, TypeOK, Named, TxStep
<1>1. ASSUME NEW q \in Requests, req[q].pc = "pay", CreateTransaction(req[q].ref)
      PROVE TxStep(r)
  BY <1>1 DEF CreateTransaction, LedgerInv, FreshTransactions, TxType
<1>2. ASSUME NEW q \in Requests, InitiateStep(q) \/ InitiateError(q) PROVE TxStep(r)
  <2>1. CASE RecordTransaction(q)
    BY <2>1 DEF RecordTransaction, TxType
  <2> QED
    BY <1>1, <1>2, <2>1 DEF InitiateStep, InitiateError, InitiatePayment, CheckAlready,
                            SaveIntent, provider
<1>3. ASSUME NEW s \in Refs, CustomerPays(s) \/ TransactionDeclined(s) PROVE TxStep(r)
  BY <1>3 DEF CustomerPays, TransactionDeclined, Settle, TxType
<1>4. ASSUME tx' = tx PROVE TxStep(r)
  BY <1>4
<1>5. ASSUME NEW w \in Hooks, HookStep(w) PROVE tx' = tx
  BY <1>5 DEF HookStep, ClaimKey, FindContribution, Confirm, StoreProof, EnqueueRecord,
              EnqueueSms, MarkFailed, Answer, provider
<1>6. ASSUME NEW j \in jobs, JobStep(j) \/ MarkError(j) PROVE tx' = tx
  BY <1>6 DEF JobStep, TakeJob, AttemptThrows, MarkBlockchainFailed, MarkError, provider
<1> QED
  BY <1>2, <1>3, <1>4, <1>5, <1>6
  DEF Next, ReadCycle, HookError, Deliver, KeyLapses, CycleCloses, Crash, provider

(* What FedaPay has settled stays settled. *)
LEMMA Settled ==
    TypeInv /\ LedgerInv /\ Next =>
       \A r \in Refs : /\ Paid(r) => Paid(r)'
                       /\ NeverPaid(r) => NeverPaid(r)'
                       /\ \A k \in Outcomes \cup OtherEvents : Backed(r, k) => Backed(r, k)'
  BY TxSteps DEF Paid, NeverPaid, Backed, TxStep

LEMMA PaidOrNot == \A r \in Refs : ~(Paid(r) /\ NeverPaid(r))
  BY DEF Paid, NeverPaid

(* A row's status changes to what an outcome backs. *)
RowStep(r) == \/ row'[r].status = row[r].status
              \/ row'[r].status = "PENDING"
              \/ row'[r].status \in {"CONFIRMED", "BLOCKCHAIN_FAILED"} /\ Paid(r)
              \/ row'[r].status = "FAILED" /\ NeverPaid(r)

LEMMA RowSteps == TypeInv /\ LedgerInv /\ Next => \A r \in Refs : RowStep(r)
<1> SUFFICES ASSUME TypeInv, LedgerInv, Next, NEW r \in Refs PROVE RowStep(r)
  OBVIOUS
<1> USE DEF TypeInv, TypeOK, Named, RowStep, RowType
<1>1. ASSUME NEW q \in Requests, InitiateStep(q) \/ InitiateError(q) PROVE RowStep(r)
  <2>1. CASE SaveIntent(q)
    <3>1. CASE UNCHANGED row
      BY <3>1
    <3>2. ASSUME NEW t \in Refs,
                 row' = [row EXCEPT ![t] = [NoRow EXCEPT !.status = "PENDING",
                            !.cycle = req[q].cycle, !.member = req[q].who]]
          PROVE  RowStep(r)
      <4>1. row'[t].status = "PENDING"
        BY <3>2 DEF NoRow
      <4> QED
        BY <3>2, <4>1
    <3> QED
      BY <2>1, <3>1, <3>2 DEF SaveIntent, Unused
  <2>2. CASE RecordTransaction(q)
    BY <2>2 DEF RecordTransaction
  <2> QED
    BY <1>1, <2>1, <2>2 DEF InitiateStep, InitiateError, InitiatePayment, CheckAlready
<1>2. ASSUME NEW w \in Hooks, HookStep(w) PROVE RowStep(r)
  <2> USE DEF LedgerInv, VerdictsBacked
  <2>1. CASE Confirm(w)
    BY <2>1 DEF Confirm
  <2>2. CASE StoreProof(w)
    BY <2>2 DEF StoreProof
  <2>3. CASE MarkFailed(w)
    BY <2>3 DEF MarkFailed
  <2> QED
    BY <1>2, <2>1, <2>2, <2>3
    DEF HookStep, ClaimKey, FindContribution, EnqueueRecord, EnqueueSms, Answer
<1>3. ASSUME NEW j \in jobs, JobStep(j) \/ MarkError(j) PROVE RowStep(r)
  BY <1>3 DEF JobStep, TakeJob, AttemptThrows, MarkBlockchainFailed, MarkError,
              LedgerInv, JobsBacked
<1>4. ASSUME row' = row PROVE RowStep(r)
  BY <1>4
<1> QED
  BY <1>1, <1>2, <1>3, <1>4
  DEF Next, ReadCycle, HookError, Deliver, KeyLapses, CycleCloses, Crash, CustomerPays,
      TransactionDeclined, Settle

LEMMA RowsStep == TypeInv /\ LedgerInv /\ Next => RowsBacked'
<1> SUFFICES ASSUME TypeInv, LedgerInv, Next, NEW r \in Refs
             PROVE  /\ Recorded(r)' => Paid(r)'
                    /\ (row[r].status = "FAILED")' => NeverPaid(r)'
                    /\ (row[r].status = "ABSENT")' => (tx[r].status = "none")'
  BY DEF RowsBacked
<1>1. (Paid(r) => Paid(r)') /\ (NeverPaid(r) => NeverPaid(r)')
  BY Settled
<1>2. /\ Recorded(r) => Paid(r)
      /\ row[r].status = "FAILED" => NeverPaid(r)
      /\ row[r].status = "ABSENT" => tx[r].status = "none"
  BY DEF LedgerInv, RowsBacked
<1>3. RowStep(r) /\ TxStep(r)
  BY RowSteps, TxSteps
<1>4. Recorded(r)' => Paid(r)'
  BY <1>1, <1>2, <1>3 DEF RowStep, Recorded
<1>5. (row[r].status = "FAILED")' => NeverPaid(r)'
  BY <1>1, <1>2, <1>3 DEF RowStep
<1>6. (row[r].status = "ABSENT")' => (tx[r].status = "none")'
  BY <1>2, <1>3 DEF RowStep, TxStep
<1> QED
  BY <1>4, <1>5, <1>6

LEMMA EventsStep == TypeInv /\ LedgerInv /\ Next => EventsBacked'
<1> SUFFICES ASSUME TypeInv, LedgerInv, Next PROVE EventsBacked'
  OBVIOUS
<1> USE DEF TypeInv, TypeOK, Named
<1>1. \A r \in Refs, k \in Outcomes \cup OtherEvents : Backed(r, k) => Backed(r, k)'
  BY Settled
<1>2. /\ \A e \in owed : /\ e.ref \in Refs /\ e.kind \in Outcomes \cup OtherEvents
                        /\ Backed(e.ref, e.kind)'
      /\ \A w \in Hooks : hook[w].pc # "idle" =>
            \A r, k : r = hook[w].ref /\ k = hook[w].kind => Backed(r, k)'
  <2>1. ASSUME NEW e \in owed
        PROVE  /\ e.ref \in Refs /\ e.kind \in Outcomes \cup OtherEvents
               /\ Backed(e.ref, e.kind)'
    <3>1. e.ref \in Refs /\ e.kind \in Outcomes \cup OtherEvents
      BY DEF EventType
    <3>2. Backed(e.ref, e.kind)
      BY DEF LedgerInv, EventsBacked
    <3> QED
      BY <3>1, <3>2, <1>1
  <2>2. ASSUME NEW w \in Hooks, hook[w].pc # "idle"
        PROVE  \A r, k : r = hook[w].ref /\ k = hook[w].kind => Backed(r, k)'
    <3>1. hook[w].ref \in Refs /\ hook[w].kind \in Outcomes \cup OtherEvents
      BY <2>2
    <3>2. Backed(hook[w].ref, hook[w].kind)
      BY <2>2 DEF LedgerInv, EventsBacked
    <3> QED
      BY <3>1, <3>2, <1>1
  <2> QED
    BY <2>1, <2>2
(* A delivery in progress keeps its event, or is one that FedaPay owes. *)
<1>3. \A w \in Hooks :
        \/ hook'[w].pc = "idle"
        \/ /\ hook[w].pc # "idle"
           /\ hook'[w].ref = hook[w].ref /\ hook'[w].kind = hook[w].kind
        \/ \E e \in owed : hook'[w].ref = e.ref /\ hook'[w].kind = e.kind
  <2> SUFFICES ASSUME NEW w \in Hooks
               PROVE  \/ hook'[w].pc = "idle"
                      \/ /\ hook[w].pc # "idle"
                         /\ hook'[w].ref = hook[w].ref /\ hook'[w].kind = hook[w].kind
                      \/ \E e \in owed : hook'[w].ref = e.ref /\ hook'[w].kind = e.kind
    OBVIOUS
  <2>1. ASSUME NEW v \in Hooks, HookStep(v) \/ HookError(v)
        PROVE  \/ hook'[w].pc = "idle"
               \/ /\ hook[w].pc # "idle"
                  /\ hook'[w].ref = hook[w].ref /\ hook'[w].kind = hook[w].kind
               \/ hook' = hook
    <3> USE DEF HookType
    <3>1. CASE hook' = [hook EXCEPT ![v] = NoHook]
      BY <3>1 DEF NoHook
    <3>2. CASE \E p : hook' = [hook EXCEPT ![v].pc = p] /\ hook[v].pc # "idle"
      BY <3>2
    <3>3. CASE ClaimKey(v)
      BY <3>3 DEF ClaimKey
    <3> QED
      BY <2>1, <3>1, <3>2, <3>3
      DEF HookStep, HookError, FindContribution, Confirm, StoreProof, EnqueueRecord,
          EnqueueSms, MarkFailed, Answer
  <2>2. ASSUME NEW v \in Hooks, NEW e \in owed, Deliver(v, e)
        PROVE  \/ hook'[w] = hook[w]
               \/ hook'[w].ref = e.ref /\ hook'[w].kind = e.kind
    BY <2>2 DEF Deliver
  <2>3. CASE Crash
    BY <2>3 DEF Crash, NoHook
  <2> QED
    BY <2>1, <2>2, <2>3
    DEF Next, InitiateStep, CheckAlready, SaveIntent, InitiatePayment, RecordTransaction,
        InitiateError, ReadCycle, JobStep, TakeJob, AttemptThrows, MarkBlockchainFailed,
        MarkError, CustomerPays, TransactionDeclined, Settle, KeyLapses, CycleCloses
<1>4. \A w \in Hooks : hook'[w].pc # "idle" => Backed(hook[w].ref, hook[w].kind)'
  BY <1>2, <1>3 DEF Backed
(* An event is new only if its outcome has just been settled, or it is about a
   transaction just created and none of the outcomes. *)
<1>5. \A e \in owed' : e \in owed \/ Backed(e.ref, e.kind)'
  <2>1. ASSUME NEW q \in Requests, req[q].pc = "pay", CreateTransaction(req[q].ref)
        PROVE  \A e \in owed' : e \in owed \/ Backed(e.ref, e.kind)'
    BY <2>1, ConstantsAssumption DEF CreateTransaction, Event, Backed, Outcomes, TxType
  <2>2. ASSUME NEW r \in Refs, CustomerPays(r) \/ TransactionDeclined(r)
        PROVE  \A e \in owed' : e \in owed \/ Backed(e.ref, e.kind)'
    BY <2>2 DEF CustomerPays, TransactionDeclined, Settle, Event, Backed, TxType
  <2>3. ASSUME owed' \subseteq owed
        PROVE  \A e \in owed' : e \in owed \/ Backed(e.ref, e.kind)'
    BY <2>3
  <2>4. ASSUME NEW w \in Hooks, HookStep(w) PROVE owed' \subseteq owed
    BY <2>4 DEF HookStep, ClaimKey, FindContribution, Confirm, StoreProof,
                EnqueueRecord, EnqueueSms, MarkFailed, Answer, provider
  <2> QED
    BY <2>1, <2>2, <2>3, <2>4
    DEF Next, InitiateStep, CheckAlready, SaveIntent, InitiatePayment, RecordTransaction,
        InitiateError, ReadCycle, JobStep, TakeJob, AttemptThrows, MarkBlockchainFailed,
        MarkError, KeyLapses, CycleCloses, HookError, Deliver, Crash, provider
<1> QED
  BY <1>2, <1>4, <1>5 DEF EventsBacked

(* The verdict on an event follows what the provider settled. *)
LEMMA VerdictSound ==
    ASSUME TypeInv, LedgerInv, NEW w \in Hooks, hook[w].pc = "find"
    PROVE  /\ Verdict(hook[w].ref, hook[w].kind) \in {"answer", "confirm", "fail"}
           /\ Verdict(hook[w].ref, hook[w].kind) = "confirm" => Paid(hook[w].ref)
           /\ Verdict(hook[w].ref, hook[w].kind) = "fail" => NeverPaid(hook[w].ref)
<1>1. Backed(hook[w].ref, hook[w].kind)
  BY DEF LedgerInv, EventsBacked
<1> QED
  BY <1>1 DEF Verdict, Backed, AmountRefused, IsSuccessEvent, IsFailureEvent, Paid, NeverPaid

PaidPcs == {"confirm", "proof", "enqueue", "sms"}

LEMMA VerdictsStep == TypeInv /\ LedgerInv /\ Next => VerdictsBacked'
<1> SUFFICES ASSUME TypeInv, LedgerInv, Next, NEW w \in Hooks
             PROVE  /\ hook'[w].pc \in PaidPcs => Paid(hook[w].ref)'
                    /\ hook'[w].pc = "fail" => NeverPaid(hook[w].ref)'
  BY DEF VerdictsBacked, PaidPcs
<1> USE DEF TypeInv, TypeOK, Named
<1>1. /\ hook[w].pc \in PaidPcs => Paid(hook[w].ref)
      /\ hook[w].pc = "fail" => NeverPaid(hook[w].ref)
  BY DEF LedgerInv, VerdictsBacked, PaidPcs
(* A slot reaches one of these steps from an earlier one of them, or by a verdict. *)
<1>2. hook'[w].pc \in PaidPcs \cup {"fail"} =>
         /\ hook'[w].ref = hook[w].ref /\ hook[w].ref \in Refs
         /\ hook'[w].pc \in PaidPcs => Paid(hook[w].ref)
         /\ hook'[w].pc = "fail" => NeverPaid(hook[w].ref)
  <2> DEFINE Goal == hook'[w].pc \in PaidPcs \cup {"fail"} =>
                       /\ hook'[w].ref = hook[w].ref /\ hook[w].ref \in Refs
                       /\ hook'[w].pc \in PaidPcs => Paid(hook[w].ref)
                       /\ hook'[w].pc = "fail" => NeverPaid(hook[w].ref)
  <2>1. ASSUME NEW v \in Hooks, HookStep(v) \/ HookError(v) PROVE Goal
    <3> USE DEF HookType, PaidPcs
    <3>1. CASE ClaimKey(v)
      BY <3>1, <1>1 DEF ClaimKey
    <3>2. CASE FindContribution(v)
      BY <3>2, <1>1, VerdictSound DEF FindContribution
    <3>3. CASE Confirm(v) \/ StoreProof(v) \/ EnqueueRecord(v) \/ EnqueueSms(v) \/ MarkFailed(v)
      BY <3>3, <1>1 DEF Confirm, StoreProof, EnqueueRecord, EnqueueSms, MarkFailed
    <3>4. CASE Answer(v) \/ HookError(v)
      BY <3>4, <1>1 DEF Answer, HookError, NoHook
    <3> QED
      BY <2>1, <3>1, <3>2, <3>3, <3>4 DEF HookStep
  <2>2. ASSUME NEW v \in Hooks, NEW e \in owed, Deliver(v, e) PROVE Goal
    BY <2>2, <1>1 DEF Deliver, PaidPcs
  <2>3. CASE Crash
    BY <2>3 DEF Crash, NoHook, PaidPcs
  <2>4. ASSUME hook' = hook PROVE Goal
    BY <2>4, <1>1 DEF PaidPcs
  <2> QED
    BY <2>1, <2>2, <2>3, <2>4
    DEF Next, InitiateStep, CheckAlready, SaveIntent, InitiatePayment, RecordTransaction,
        InitiateError, ReadCycle, JobStep, TakeJob, AttemptThrows, MarkBlockchainFailed,
        MarkError, CustomerPays, TransactionDeclined, Settle, KeyLapses, CycleCloses
<1>3. \A r \in Refs : (Paid(r) => Paid(r)') /\ (NeverPaid(r) => NeverPaid(r)')
  BY Settled
<1> QED
  BY <1>2, <1>3 DEF Paid, NeverPaid

LEMMA JobsStep == TypeInv /\ LedgerInv /\ Next => JobsBacked'
<1> SUFFICES ASSUME TypeInv, LedgerInv, Next PROVE JobsBacked'
  OBVIOUS
<1> USE DEF TypeInv, TypeOK, Named
<1>1. \A r \in Refs : Paid(r) => Paid(r)'
  BY Settled
<1>2. \A j \in jobs' : (\E i \in jobs : i.ref = j.ref) \/ (j.ref \in Refs /\ Paid(j.ref))
  <2> DEFINE Goal == \A j \in jobs' :
                 (\E i \in jobs : i.ref = j.ref) \/ (j.ref \in Refs /\ Paid(j.ref))
  <2>1. ASSUME NEW w \in Hooks, HookStep(w) PROVE Goal
    <3>1. CASE EnqueueRecord(w)
      BY <3>1 DEF EnqueueRecord, Waiting, LedgerInv, VerdictsBacked
    <3> QED
      BY <2>1, <3>1 DEF HookStep, ClaimKey, FindContribution, Confirm, StoreProof, EnqueueSms,
                        MarkFailed, Answer, queues
  <2>2. ASSUME NEW i \in jobs, JobStep(i) \/ MarkError(i) PROVE Goal
    BY <2>2 DEF JobStep, TakeJob, AttemptThrows, MarkBlockchainFailed, MarkError, Replace,
                JobType
  <2>3. CASE Crash
    BY <2>3, StallType DEF Crash
  <2>4. ASSUME jobs' = jobs PROVE Goal
    BY <2>4
  <2> QED
    BY <2>1, <2>2, <2>3, <2>4
    DEF Next, InitiateStep, CheckAlready, SaveIntent, InitiatePayment, RecordTransaction,
        InitiateError, ReadCycle, CustomerPays, TransactionDeclined, Settle, KeyLapses,
        CycleCloses, HookError, Deliver, queues
<1> QED
  BY <1>1, <1>2 DEF JobsBacked, LedgerInv, JobType

LEMMA FreshStep == TypeInv /\ LedgerInv /\ Next => FreshTransactions'
<1> SUFFICES ASSUME TypeInv, LedgerInv, Next PROVE FreshTransactions'
  OBVIOUS
<1> USE DEF TypeInv, TypeOK, Named
<1>1. \A r \in Refs : RowStep(r) /\ TxStep(r)
  BY RowSteps, TxSteps
<1>2. ASSUME NEW q \in Requests, SaveIntent(q) PROVE FreshTransactions'
  <2>1. CASE req' = [req EXCEPT ![q] = NoReq] /\ UNCHANGED row
    BY <1>2, <2>1 DEF SaveIntent, FreshTransactions, LedgerInv, NoReq, provider
  <2>2. ASSUME NEW r \in Unused,
               row' = [row EXCEPT ![r] = [NoRow EXCEPT !.status = "PENDING",
                          !.cycle = req[q].cycle, !.member = req[q].who]],
               req' = [req EXCEPT ![q] = [@ EXCEPT !.pc = "pay", !.ref = r]]
        PROVE  FreshTransactions'
    <3>1. r \in Refs /\ row[r].status = "ABSENT" /\ tx[r].status = "none"
      BY DEF Unused, LedgerInv, RowsBacked
    <3>2. \A s \in Refs : row'[s].status = "ABSENT" => row[s].status = "ABSENT" /\ s # r
      BY <2>2, <3>1 DEF NoRow
    <3>3. tx' = tx
      BY <1>2 DEF SaveIntent, provider
    <3>4. /\ req'[q].pc = "pay" /\ req'[q].ref = r
          /\ \A p \in Requests : p # q => req'[p] = req[p]
      BY <2>2 DEF ReqType
    <3>5. \A p \in Requests : req[p].pc \in {"pay", "record"} => req[p].ref # r
      BY <3>1 DEF LedgerInv, FreshTransactions
    <3> QED
      BY <3>1, <3>2, <3>3, <3>4, <3>5 DEF LedgerInv, FreshTransactions
  <2> QED
    BY <1>2, <2>1, <2>2 DEF SaveIntent
(* Elsewhere a row does not disappear. *)
<1>3. ASSUME NEW r \in Refs, row[r].status # "ABSENT", row'[r].status = "ABSENT" PROVE FALSE
  BY <1>1, <1>3 DEF RowStep
<1>4. ASSUME NEW q \in Requests, CreateTransaction(req[q].ref), req[q].pc = "pay",
             \A p \in Requests : p # q => req'[p] = req[p],
             req'[q].pc # "pay", req'[q].pc = "record" => req'[q].ref = req[q].ref
      PROVE  FreshTransactions'
  <2>1. \A r \in Refs : r # req[q].ref => tx'[r] = tx[r]
    BY <1>4 DEF CreateTransaction
  <2> QED
    BY <1>3, <1>4, <2>1 DEF LedgerInv, FreshTransactions
<1>5. ASSUME NEW q \in Requests, InitiatePayment(q) PROVE FreshTransactions'
  BY <1>4, <1>5 DEF InitiatePayment, ReqType
<1>6. ASSUME NEW q \in Requests, \A p \in Requests : p # q => req'[p] = req[p],
             req'[q].pc \notin {"pay", "record"},
             \A r \in Refs : tx[r].status = "none" => tx'[r].status = "none"
      PROVE  FreshTransactions'
  BY <1>3, <1>6 DEF LedgerInv, FreshTransactions
<1>7. ASSUME NEW q \in Requests, CheckAlready(q) \/ RecordTransaction(q) PROVE FreshTransactions'
  <2>1. \A r \in Refs : tx[r].status = "none" => tx'[r].status = "none"
    BY <1>7 DEF CheckAlready, RecordTransaction, TxType, provider
  <2>2. \A p \in Requests : p # q => req'[p] = req[p]
    BY <1>7 DEF CheckAlready, RecordTransaction
  <2>3. req'[q].pc \notin {"pay", "record"}
    BY <1>7 DEF CheckAlready, RecordTransaction, NoReq, ReqType
  <2> QED
    BY <1>6, <2>1, <2>2, <2>3
<1>8. ASSUME NEW q \in Requests, InitiateError(q) PROVE FreshTransactions'
  BY <1>4, <1>6, <1>8 DEF InitiateError, NoReq, provider
<1>9. ASSUME NEW q \in Requests, NEW m \in Members, NEW c \in CycleIds, ReadCycle(q, m, c)
      PROVE  FreshTransactions'
  BY <1>6, <1>9 DEF ReadCycle, NoReq, provider
<1>10. ASSUME req' = req, \A r \in Refs : tx[r].status = "none" => tx'[r].status = "none"
       PROVE  FreshTransactions'
  BY <1>3, <1>10 DEF LedgerInv, FreshTransactions
<1>11. ASSUME NEW r \in Refs, CustomerPays(r) \/ TransactionDeclined(r) PROVE FreshTransactions'
  BY <1>10, <1>11 DEF CustomerPays, TransactionDeclined, Settle
<1>12. CASE Crash
  BY <1>12 DEF Crash, NoReq, FreshTransactions
<1>13. ASSUME NEW w \in Hooks, HookStep(w) PROVE FreshTransactions'
  BY <1>10, <1>13 DEF HookStep, ClaimKey, FindContribution, Confirm, StoreProof,
     EnqueueRecord, EnqueueSms, MarkFailed, Answer, provider
<1>14. ASSUME NEW j \in jobs, JobStep(j) \/ MarkError(j) PROVE FreshTransactions'
  BY <1>10, <1>14 DEF JobStep, TakeJob, AttemptThrows, MarkBlockchainFailed, MarkError, provider
<1> QED
  BY <1>2, <1>5, <1>7, <1>8, <1>9, <1>10, <1>11, <1>12, <1>13, <1>14
  DEF Next, InitiateStep, KeyLapses, CycleCloses, HookError, Deliver, provider

LEMMA LedgerStep == TypeInv /\ LedgerInv /\ [Next]_vars => LedgerInv'
<1>1. TypeInv /\ LedgerInv /\ Next => LedgerInv'
  BY RowsStep, EventsStep, VerdictsStep, JobsStep, FreshStep DEF LedgerInv
<1>2. LedgerInv /\ UNCHANGED vars => LedgerInv'
  BY DEF LedgerInv, RowsBacked, EventsBacked, VerdictsBacked, JobsBacked, FreshTransactions,
         Recorded, Paid, NeverPaid, Backed, vars
<1> QED
  BY <1>1, <1>2

(* In every behaviour, with any number of references, members, requests, deliveries,
   faults and kinds of events, a contribution counts as paid only if FedaPay approved
   its transaction for the amount due, and one it approved is never FAILED. *)
THEOREM LedgerCorrect == Spec => []LedgerAgreesWithProvider
<1>1. Spec => [](TypeInv /\ LedgerInv)
  BY TypeInit, TypeStep, LedgerInit, LedgerStep, PTL DEF Spec
<1>2. LedgerInv => LedgerAgreesWithProvider
  BY PaidOrNot DEF LedgerInv, RowsBacked, LedgerAgreesWithProvider
<1> QED
  BY <1>1, <1>2, PTL

-----------------------------------------------------------------------------
(* One processing per life of a key.  While the key of r has not lapsed, one delivery
   at most is past it, nothing has been enqueued before that delivery comes to it, and
   the row keeps the proof of that delivery. *)

AtWork(w, r) == /\ hook[w].pc \in {"find", "confirm", "proof", "enqueue", "sms", "fail"}
                /\ hook[w].ref = r

NoJob(r) == \A j \in jobs : j.ref # r

Once(r) == expired[r] = 0 =>
    /\ \A w \in Hooks : AtWork(w, r) => /\ r \in keys /\ sms[r] = 0
                                        /\ hook[w].pc # "sms" => NoJob(r)
    /\ \A v, w \in Hooks : AtWork(v, r) /\ AtWork(w, r) => v = w
    /\ r \notin keys => sms[r] = 0 /\ NoJob(r)
    /\ sms[r] <= 1
    /\ \A i, j \in jobs : i.ref = r /\ j.ref = r => i = j
    /\ \A j \in jobs : j.ref = r => row[r].proof = j.claim
    /\ \A w \in Hooks : AtWork(w, r) /\ hook[w].pc = "enqueue" => row[r].proof = hook[w].claim

OnceInv == \A r \in Refs : Once(r)

LEMMA OnceInit == Init => OnceInv
  BY DEF Init, OnceInv, Once, AtWork, NoJob, NoHook

(* A step that leaves the queue as it is but for the progress of its jobs. *)
SameJobs == /\ \A j \in jobs' : \E i \in jobs : i.ref = j.ref /\ i.claim = j.claim
            /\ \A r \in Refs : (\A i, j \in jobs : i.ref = r /\ j.ref = r => i = j)
                             => (\A i, j \in jobs' : i.ref = r /\ j.ref = r => i = j)

LEMMA ReplaceSame ==
    ASSUME NEW j \in jobs, NEW k, k.ref = j.ref, k.claim = j.claim, Replace(j, k)
    PROVE  SameJobs
  BY DEF Replace, SameJobs

LEMMA JobStepsSame ==
    ASSUME TypeInv, NEW j \in jobs, JobStep(j) \/ MarkError(j) PROVE SameJobs
<1>1. j \in JobType
  BY DEF TypeInv, TypeOK
<1>2. CASE TakeJob(j)
  BY <1>1, <1>2, ReplaceSame DEF TakeJob, JobType
<1>3. CASE AttemptThrows(j)
  <2>1. CASE LastAttempt(j)
    BY <1>1, <1>3, <2>1, ReplaceSame DEF AttemptThrows, JobType
  <2>2. CASE ~LastAttempt(j)
    BY <1>1, <1>3, <2>2, ReplaceSame DEF AttemptThrows, JobType
  <2> QED
    BY <2>1, <2>2
<1>4. CASE MarkBlockchainFailed(j) \/ MarkError(j)
  BY <1>1, <1>4, ReplaceSame DEF MarkBlockchainFailed, MarkError, JobType
<1> QED
  BY <1>2, <1>3, <1>4 DEF JobStep

LEMMA CrashSame == TypeInv /\ Crash => SameJobs
<1> SUFFICES ASSUME TypeInv, Crash PROVE SameJobs
  OBVIOUS
<1>1. jobs \subseteq JobType /\ jobs' = {Stall(j) : j \in jobs}
  BY DEF TypeInv, TypeOK, Crash
<1>2. \A j \in JobType : Stall(j).ref = j.ref /\ Stall(j).claim = j.claim
  BY DEF Stall, JobType
<1> QED
  BY <1>1, <1>2 DEF SameJobs

(* Steps in which no delivery goes on: r's deliveries at work are among the old ones. *)
LEMMA OnceFrame ==
    ASSUME TypeInv, OnceInv, NEW r \in Refs, SameJobs,
           r \in keys' <=> r \in keys, expired'[r] = expired[r], sms' = sms,
           \A w \in Hooks : AtWork(w, r)' => AtWork(w, r) /\ hook'[w] = hook[w],
           row'[r].proof = row[r].proof \/ (NoJob(r) /\ \A w \in Hooks : ~AtWork(w, r))
    PROVE  Once(r)'
<1>1. NoJob(r) => NoJob(r)'
  BY DEF SameJobs, NoJob
<1>2. \A j \in jobs' : j.ref = r => \E i \in jobs : i.ref = r /\ i.claim = j.claim
  BY DEF SameJobs
<1>3. Once(r)
  BY DEF OnceInv
<1>4. SUFFICES ASSUME expired[r] = 0 PROVE Once(r)'
  BY DEF Once
<1>5. \A j \in jobs' : j.ref = r => row'[r].proof = j.claim
  BY <1>1, <1>2, <1>3, <1>4 DEF Once, NoJob
<1>6. \A i, j \in jobs' : i.ref = r /\ j.ref = r => i = j
  BY <1>3, <1>4 DEF Once, SameJobs
<1>7. \A w \in Hooks : AtWork(w, r)' =>
         /\ r \in keys' /\ sms'[r] = 0
         /\ hook'[w].pc # "sms" => NoJob(r)'
         /\ hook'[w].pc = "enqueue" => row'[r].proof = hook'[w].claim
  BY <1>1, <1>3, <1>4 DEF Once, AtWork
<1>8. \A v, w \in Hooks : AtWork(v, r)' /\ AtWork(w, r)' => v = w
  BY <1>3, <1>4 DEF Once
<1>9. /\ r \notin keys' => sms'[r] = 0 /\ NoJob(r)'
      /\ sms'[r] <= 1
  BY <1>1, <1>3, <1>4 DEF Once
<1> QED
  BY <1>5, <1>6, <1>7, <1>8, <1>9 DEF Once

(* Nothing works on a row that is not there. *)
LEMMA AbsentIdle ==
    ASSUME LedgerInv, NEW r \in Refs, row[r].status = "ABSENT"
    PROVE  NoJob(r) /\ \A w \in Hooks : ~AtWork(w, r)
  BY DEF LedgerInv, RowsBacked, EventsBacked, JobsBacked, Paid, Backed, NoJob, AtWork

LEMMA SameJobsRefl == jobs' = jobs => SameJobs
  BY DEF SameJobs

(* The steps of a delivery. *)
LEMMA OnceHookStep ==
    ASSUME TypeInv, OnceInv, NEW r \in Refs, NEW w \in Hooks, HookStep(w)
    PROVE  Once(r)'
<1> USE DEF TypeInv, TypeOK, Named
<1>1. hook[w] \in HookType /\ expired' = expired
  BY DEF HookStep, ClaimKey, FindContribution, Confirm, StoreProof, EnqueueRecord,
         EnqueueSms, MarkFailed, Answer, redis
<1>2. Once(r)
  BY DEF OnceInv
<1>3. SUFFICES ASSUME expired[r] = 0 PROVE Once(r)'
  BY <1>1 DEF Once
<1>4. CASE ClaimKey(w)
  <2>1. jobs' = jobs /\ sms' = sms /\ row' = row
    BY <1>4 DEF ClaimKey, queues
  <2>2. CASE hook[w].ref \in keys
    <3>1. keys' = keys
      BY <1>4, <2>2 DEF ClaimKey
    <3>2. \A v \in Hooks : AtWork(v, r)' => AtWork(v, r) /\ hook'[v] = hook[v]
      BY <1>1, <1>4, <2>2 DEF ClaimKey, AtWork, HookType
    <3> QED
      BY <1>1, <2>1, <3>1, <3>2, OnceFrame, SameJobsRefl
  <2>3. CASE hook[w].ref \notin keys /\ hook[w].ref # r
    <3>1. r \in keys' <=> r \in keys
      BY <1>4, <2>3 DEF ClaimKey
    <3>2. \A v \in Hooks : AtWork(v, r)' => AtWork(v, r) /\ hook'[v] = hook[v]
      BY <1>1, <1>4, <2>3 DEF ClaimKey, AtWork, HookType
    <3> QED
      BY <1>1, <1>2, <2>1, <3>1, <3>2 DEF Once, AtWork, NoJob
  <2>4. CASE hook[w].ref = r /\ r \notin keys
    <3>1. \A v \in Hooks : ~AtWork(v, r)
      BY <1>2, <1>3, <2>4 DEF Once
    <3>2. /\ r \in keys' /\ sms'[r] = 0 /\ NoJob(r)'
          /\ hook'[w].pc = "find"
          /\ \A v \in Hooks : v # w => hook'[v] = hook[v]
      BY <1>1, <1>2, <1>3, <1>4, <2>1, <2>4 DEF Once, ClaimKey, NoJob, HookType
    <3>3. \A v \in Hooks : AtWork(v, r)' => v = w
      BY <3>1, <3>2 DEF AtWork
    <3> QED
      BY <3>2, <3>3 DEF Once, NoJob
  <2> QED
    BY <2>2, <2>3, <2>4
<1>5. CASE FindContribution(w)
  <2>1. /\ jobs' = jobs /\ sms' = sms /\ row' = row /\ keys' = keys
        /\ \A v \in Hooks : v # w => hook'[v] = hook[v]
        /\ hook'[w].ref = hook[w].ref /\ hook'[w].claim = hook[w].claim
        /\ hook'[w].pc \in {"answer", "fail", "confirm"} /\ hook[w].pc = "find"
    BY <1>1, <1>5 DEF FindContribution, Verdict, queues, redis, HookType
  <2> QED
    BY <1>1, <1>2, <2>1 DEF Once, AtWork, NoJob
<1>6. CASE Confirm(w) \/ MarkFailed(w) \/ Answer(w)
  <2>1. /\ jobs' = jobs /\ sms' = sms /\ keys' = keys
        /\ row'[r].proof = row[r].proof
    BY <1>6 DEF Confirm, MarkFailed, Answer, queues, redis, RowType
  <2>2. /\ \A v \in Hooks : v # w => hook'[v] = hook[v]
        /\ \/ hook'[w].pc \in {"answer", "idle"}
           \/ /\ hook'[w].ref = hook[w].ref /\ hook'[w].pc = "proof"
              /\ hook[w].pc = "confirm"
    BY <1>1, <1>6 DEF Confirm, MarkFailed, Answer, NoHook, HookType
  <2> QED
    BY <1>1, <1>2, <2>1, <2>2 DEF Once, AtWork, NoJob
<1>7. CASE StoreProof(w)
  <2>1. /\ jobs' = jobs /\ sms' = sms /\ keys' = keys
        /\ \A v \in Hooks : v # w => hook'[v] = hook[v]
        /\ hook[w].pc = "proof" /\ hook'[w].pc = "enqueue"
        /\ hook'[w].ref = hook[w].ref /\ hook'[w].claim = hook[w].claim
    BY <1>1, <1>7 DEF StoreProof, queues, redis, HookType
  <2>2. row'[r].proof = IF hook[w].ref = r THEN hook[w].claim ELSE row[r].proof
    BY <1>7 DEF StoreProof, RowType
  <2>3. CASE hook[w].ref = r
    <3>1. AtWork(w, r) /\ NoJob(r) /\ \A v \in Hooks : AtWork(v, r) => v = w
      BY <1>2, <1>3, <2>1, <2>3 DEF Once, AtWork
    <3> QED
      BY <1>2, <1>3, <2>1, <2>2, <2>3, <3>1 DEF Once, AtWork, NoJob
  <2>4. CASE hook[w].ref # r
    BY <1>1, <1>2, <2>1, <2>2, <2>4 DEF Once, AtWork, NoJob
  <2> QED
    BY <2>3, <2>4
<1>8. CASE EnqueueRecord(w)
  <2>1. /\ jobs' = jobs \cup {Waiting(hook[w].ref, hook[w].claim)}
        /\ sms' = sms /\ keys' = keys /\ row' = row
        /\ \A v \in Hooks : v # w => hook'[v] = hook[v]
        /\ hook[w].pc = "enqueue" /\ hook'[w].pc = "sms" /\ hook'[w].ref = hook[w].ref
    BY <1>1, <1>8 DEF EnqueueRecord, redis, HookType
  <2>2. CASE hook[w].ref = r
    <3>1. /\ AtWork(w, r) /\ NoJob(r) /\ row[r].proof = hook[w].claim
          /\ \A v \in Hooks : AtWork(v, r) => v = w
      BY <1>2, <1>3, <2>1, <2>2 DEF Once, AtWork
    <3>2. \A j \in jobs' : j.ref = r => j = Waiting(r, hook[w].claim)
      BY <2>1, <2>2, <3>1 DEF NoJob
    <3>3. Waiting(r, hook[w].claim).claim = hook[w].claim
      BY DEF Waiting
    <3>4. \A v \in Hooks : AtWork(v, r)' => v = w
      BY <2>1, <3>1 DEF AtWork
    <3>5. r \in keys /\ sms[r] = 0
      BY <1>2, <1>3, <3>1 DEF Once
    <3> QED
      BY <2>1, <3>1, <3>2, <3>3, <3>4, <3>5 DEF Once, AtWork
  <2>3. CASE hook[w].ref # r
    <3>1. \A j \in jobs' : j.ref = r => j \in jobs
      BY <2>1, <2>3 DEF Waiting
    <3>2. \A v \in Hooks : AtWork(v, r)' => AtWork(v, r) /\ hook'[v] = hook[v]
      BY <2>1, <2>3 DEF AtWork
    <3> QED
      BY <1>1, <1>2, <2>1, <3>1, <3>2 DEF Once, AtWork, NoJob
  <2> QED
    BY <2>2, <2>3
<1>9. CASE EnqueueSms(w)
  <2>1. /\ jobs' = jobs /\ keys' = keys /\ row' = row
        /\ \A v \in Hooks : v # w => hook'[v] = hook[v]
        /\ hook[w].pc = "sms" /\ hook'[w].pc = "answer"
        /\ sms'[r] = IF hook[w].ref = r THEN sms[r] + 1 ELSE sms[r]
    BY <1>1, <1>9 DEF EnqueueSms, redis, HookType
  <2>2. CASE hook[w].ref = r
    <3>1. AtWork(w, r) /\ r \in keys /\ sms[r] = 0 /\ \A v \in Hooks : AtWork(v, r) => v = w
      BY <1>2, <1>3, <2>1, <2>2 DEF Once, AtWork
    <3>2. \A v \in Hooks : ~AtWork(v, r)'
      BY <2>1, <3>1 DEF AtWork
    <3> QED
      BY <1>2, <1>3, <2>1, <2>2, <3>1, <3>2 DEF Once
  <2>3. CASE hook[w].ref # r
    BY <1>1, <1>2, <2>1, <2>3 DEF Once, AtWork, NoJob
  <2> QED
    BY <2>2, <2>3
<1> QED
  BY <1>4, <1>5, <1>6, <1>7, <1>8, <1>9 DEF HookStep

LEMMA OnceStep == TypeInv /\ LedgerInv /\ OnceInv /\ [Next]_vars => OnceInv'
<1> SUFFICES ASSUME TypeInv, LedgerInv, OnceInv, [Next]_vars, NEW r \in Refs PROVE Once(r)'
  BY DEF OnceInv
<1> USE DEF TypeInv, TypeOK, Named
<1>1. ASSUME NEW w \in Hooks, HookStep(w) PROVE Once(r)'
  BY <1>1, OnceHookStep
<1>2. CASE KeyLapses(r)
  BY <1>2 DEF KeyLapses, Once
<1>3. ASSUME NEW s \in Refs, s # r, KeyLapses(s) PROVE Once(r)'
  <2>1. /\ row' = row /\ hook' = hook /\ jobs' = jobs /\ sms' = sms
        /\ (r \in keys' <=> r \in keys) /\ expired'[r] = expired[r]
    BY <1>3 DEF KeyLapses, queues
  <2> QED
    BY <2>1, OnceFrame, SameJobsRefl DEF AtWork
(* Every other step leaves the work in progress alone. *)
<1>4. ASSUME hook' = hook, jobs' = jobs, redis' = redis, sms' = sms,
             row'[r].proof = row[r].proof \/ row[r].status = "ABSENT"
      PROVE  Once(r)'
  BY <1>4, OnceFrame, SameJobsRefl, AbsentIdle DEF redis, AtWork
<1>5. ASSUME NEW q \in Requests, InitiateStep(q) PROVE Once(r)'
  <2>1. row'[r].proof = row[r].proof \/ row[r].status = "ABSENT"
    <3>1. CASE SaveIntent(q)
      BY <3>1 DEF SaveIntent, Unused
    <3>2. CASE RecordTransaction(q)
      BY <3>2 DEF RecordTransaction, RowType
    <3> QED
      BY <1>5, <3>1, <3>2 DEF InitiateStep, CheckAlready, InitiatePayment
  <2> QED
    BY <1>4, <1>5, <2>1 DEF InitiateStep, CheckAlready, SaveIntent, InitiatePayment,
                            RecordTransaction, redis, queues
<1>6. ASSUME hook' = hook, SameJobs, redis' = redis, sms' = sms,
             row'[r].proof = row[r].proof
      PROVE  Once(r)'
  BY <1>6, OnceFrame DEF redis, AtWork
<1>7. ASSUME NEW j \in jobs, JobStep(j) \/ MarkError(j) PROVE Once(r)'
  <2>1. SameJobs
    BY <1>7, JobStepsSame
  <2>2. row'[r].proof = row[r].proof
    BY <1>7 DEF JobStep, TakeJob, AttemptThrows, MarkBlockchainFailed, MarkError, RowType
  <2> QED
    BY <1>6, <1>7, <2>1, <2>2
    DEF JobStep, TakeJob, AttemptThrows, MarkBlockchainFailed, MarkError, redis
<1>8. CASE Crash
  <2>1. \A w \in Hooks : ~AtWork(w, r)'
    BY <1>8 DEF Crash, AtWork, NoHook
  <2> QED
    BY <1>8, <2>1, CrashSame, OnceFrame DEF Crash, redis
<1>9. ASSUME NEW w \in Hooks, HookError(w) \/ \E e \in owed : Deliver(w, e) PROVE Once(r)'
  <2>1. \A v \in Hooks : AtWork(v, r)' => AtWork(v, r) /\ hook'[v] = hook[v]
    BY <1>9 DEF HookError, Deliver, AtWork, NoHook
  <2>2. row' = row /\ jobs' = jobs /\ redis' = redis /\ sms' = sms
    BY <1>9 DEF HookError, Deliver, redis, queues
  <2> QED
    BY <2>1, <2>2, OnceFrame, SameJobsRefl DEF redis
<1>10. ASSUME NEW s \in Refs, CustomerPays(s) \/ TransactionDeclined(s) PROVE Once(r)'
  BY <1>4, <1>10 DEF CustomerPays, TransactionDeclined, Settle, redis, queues
<1>11. ASSUME NEW q \in Requests,
              InitiateError(q) \/ \E m \in Members, c \in CycleIds : ReadCycle(q, m, c)
       PROVE  Once(r)'
  BY <1>4, <1>11 DEF InitiateError, ReadCycle, redis, queues
<1>12. ASSUME NEW c \in CycleIds, CycleCloses(c) PROVE Once(r)'
  BY <1>4, <1>12 DEF CycleCloses, redis, queues
<1>13. CASE UNCHANGED vars
  BY <1>4, <1>13 DEF vars, redis
<1> QED
  BY <1>1, <1>2, <1>3, <1>5, <1>7, <1>8, <1>9, <1>10, <1>11, <1>12, <1>13 DEF Next

(* Until the key of a transaction lapses, the proof its job will write on chain is the
   one its contribution shows. *)
THEOREM JobProofCorrect == Spec => []JobCarriesRowProof
<1>1. Spec => [](TypeInv /\ LedgerInv /\ OnceInv)
  BY TypeInit, TypeStep, LedgerInit, LedgerStep, OnceInit, OnceStep, PTL DEF Spec
<1>2. TypeInv /\ OnceInv => JobCarriesRowProof
  BY DEF OnceInv, Once, JobCarriesRowProof, TypeInv, TypeOK, JobType
<1> QED
  BY <1>1, <1>2, PTL
-----------------------------------------------------------------------------
(* Where the status can go.  A delivery past Confirm and a job are about a row that is
   recorded as paid, and only a job, which stays known to Bull, makes one
   BLOCKCHAIN_FAILED. *)

WorkInv ==
    /\ \A w \in Hooks : hook[w].pc \in {"proof", "enqueue", "sms"} => Recorded(hook[w].ref)
    /\ \A j \in jobs : Recorded(j.ref)
    /\ \A r \in Refs : row[r].status = "BLOCKCHAIN_FAILED" => ~NoJob(r)

LEMMA WorkInit == Init => WorkInv
  BY DEF Init, WorkInv, NoRow, NoHook

LEMMA MovesStep ==
    TypeInv /\ LedgerInv /\ OnceInv /\ WorkInv /\ Next => \A r \in Refs : StatusMoves(r)
<1> SUFFICES ASSUME TypeInv, LedgerInv, OnceInv, WorkInv, Next, NEW r \in Refs
             PROVE  StatusMoves(r)
  OBVIOUS
<1> USE DEF TypeInv, TypeOK, Named
<1>0. /\ row \in [Refs -> RowType]
      /\ row[r].status \in {"ABSENT", "PENDING", "CONFIRMED", "FAILED", "BLOCKCHAIN_FAILED"}
      /\ expired[r] \in Nat
  BY DEF RowType
<1>1. ASSUME NEW q \in Requests, InitiateStep(q) \/ InitiateError(q) PROVE StatusMoves(r)
  <2>1. CASE SaveIntent(q)
    <3>1. CASE UNCHANGED row
      BY <3>1 DEF StatusMoves
    <3>2. ASSUME NEW t \in Refs, row[t].status = "ABSENT",
                 row' = [row EXCEPT ![t] = [NoRow EXCEPT !.status = "PENDING",
                            !.cycle = req[q].cycle, !.member = req[q].who]]
          PROVE  StatusMoves(r)
      <4>1. row'[t].status = "PENDING"
        BY <3>2 DEF NoRow
      <4> QED
        BY <3>2, <4>1 DEF StatusMoves
    <3> QED
      BY <2>1, <3>1, <3>2 DEF SaveIntent, Unused
  <2>2. CASE RecordTransaction(q)
    <3>1. row'[r].status = row[r].status
      BY <1>0, <2>2 DEF RecordTransaction, RowType
    <3> QED
      BY <3>1 DEF StatusMoves
  <2>3. CASE UNCHANGED row
    BY <2>3 DEF StatusMoves
  <2> QED
    BY <1>1, <2>1, <2>2, <2>3 DEF InitiateStep, InitiateError, InitiatePayment, CheckAlready
<1>2. ASSUME NEW w \in Hooks, Confirm(w) PROVE StatusMoves(r)
  <2> DEFINE t == hook[w].ref
  <2>1. /\ hook[w].pc = "confirm" /\ t \in Refs
        /\ row' = [row EXCEPT ![t].status = "CONFIRMED"]
    BY <1>2 DEF Confirm
  <2>2. CASE r # t
    <3>1. row'[r] = row[r]
      BY <2>1, <2>2
    <3> QED
      BY <3>1 DEF StatusMoves
  <2>3. CASE r = t
    <3>1. row'[r].status = "CONFIRMED"
      BY <1>0, <2>1, <2>3 DEF RowType
    <3>2. Paid(r) /\ Backed(r, hook[w].kind) /\ AtWork(w, r)
      BY <2>1, <2>3 DEF LedgerInv, VerdictsBacked, EventsBacked, AtWork
    <3>3. row[r].status \notin {"ABSENT", "FAILED"}
      BY <3>2, PaidOrNot DEF LedgerInv, RowsBacked, Backed
    <3>4. row[r].status = "BLOCKCHAIN_FAILED" => expired[r] # 0
      BY <2>1, <3>2 DEF WorkInv, OnceInv, Once
    <3> QED
      BY <1>0, <3>1, <3>3, <3>4 DEF StatusMoves
  <2> QED
    BY <2>2, <2>3
<1>3. ASSUME NEW w \in Hooks, MarkFailed(w) PROVE StatusMoves(r)
  <2> DEFINE t == hook[w].ref
  <2>1. /\ hook[w].pc = "fail" /\ t \in Refs
        /\ row' = [row EXCEPT ![t].status = "FAILED"]
    BY <1>3 DEF MarkFailed
  <2>2. CASE r # t
    <3>1. row'[r] = row[r]
      BY <2>1, <2>2
    <3> QED
      BY <3>1 DEF StatusMoves
  <2>3. CASE r = t
    <3>1. row'[r].status = "FAILED"
      BY <1>0, <2>1, <2>3 DEF RowType
    <3>2. NeverPaid(r) /\ Backed(r, hook[w].kind)
      BY <2>1, <2>3 DEF LedgerInv, VerdictsBacked, EventsBacked
    <3>3. row[r].status \notin {"ABSENT", "CONFIRMED", "BLOCKCHAIN_FAILED"}
      BY <3>2, PaidOrNot DEF LedgerInv, RowsBacked, Backed, Recorded
    <3> QED
      BY <1>0, <3>1, <3>3 DEF StatusMoves
  <2> QED
    BY <2>2, <2>3
<1>4. ASSUME NEW j \in jobs, MarkBlockchainFailed(j) PROVE StatusMoves(r)
  <2>1. j.ref \in Refs /\ Recorded(j.ref) /\ row' = [row EXCEPT ![j.ref].status = "BLOCKCHAIN_FAILED"]
    BY <1>4 DEF MarkBlockchainFailed, WorkInv, JobType
  <2>2. CASE r # j.ref
    <3>1. row'[r] = row[r]
      BY <2>1, <2>2
    <3> QED
      BY <3>1 DEF StatusMoves
  <2>3. CASE r = j.ref
    <3>1. row'[r].status = "BLOCKCHAIN_FAILED"
      BY <1>0, <2>1, <2>3 DEF RowType
    <3> QED
      BY <2>1, <2>3, <3>1 DEF StatusMoves, Recorded
  <2> QED
    BY <2>2, <2>3
<1>5. ASSUME NEW w \in Hooks, StoreProof(w) PROVE StatusMoves(r)
  <2>1. row'[r].status = row[r].status
    BY <1>0, <1>5 DEF StoreProof, RowType
  <2> QED
    BY <2>1 DEF StatusMoves
<1>6. ASSUME row' = row PROVE StatusMoves(r)
  BY <1>6 DEF StatusMoves
<1> QED
  BY <1>1, <1>2, <1>3, <1>4, <1>5, <1>6
  DEF Next, HookStep, JobStep, ClaimKey, FindContribution, EnqueueRecord, EnqueueSms, Answer,
      TakeJob, AttemptThrows, MarkError, ReadCycle, HookError, Deliver, KeyLapses,
      CycleCloses, Crash, CustomerPays, TransactionDeclined, Settle

(* Steps that keep the jobs the queue has, and whose deliveries past Confirm and jobs are
   of rows that are recorded as paid, or are so by this very step. *)
LEMMA WorkFrame ==
    ASSUME WorkInv, \A r \in Refs : StatusMoves(r),
           \A w \in Hooks : hook'[w].pc \in {"proof", "enqueue", "sms"} =>
              hook'[w].ref \in {r \in Refs : Recorded(r) \/ Recorded(r)'},
           \A j \in jobs' : j.ref \in {r \in Refs : Recorded(r)},
           \A j \in jobs : \E i \in jobs' : i.ref = j.ref,
           \A r \in Refs : row'[r].status = "BLOCKCHAIN_FAILED" =>
              row[r].status = "BLOCKCHAIN_FAILED" \/ ~NoJob(r)
    PROVE  WorkInv'
<1>1. \A r \in Refs : Recorded(r) => Recorded(r)'
  BY DEF StatusMoves, Recorded
<1>2. \A w \in Hooks : hook'[w].pc \in {"proof", "enqueue", "sms"} =>
         row'[hook'[w].ref].status \in {"CONFIRMED", "BLOCKCHAIN_FAILED"}
  BY <1>1 DEF Recorded
<1>3. \A j \in jobs' : row'[j.ref].status \in {"CONFIRMED", "BLOCKCHAIN_FAILED"}
  BY <1>1 DEF Recorded
<1>4. \A r \in Refs : row'[r].status = "BLOCKCHAIN_FAILED" => \E j \in jobs' : j.ref = r
  BY DEF WorkInv, NoJob
<1> QED
  BY <1>2, <1>3, <1>4 DEF WorkInv, Recorded, NoJob

(* A job that goes on is about the same contribution. *)
RefsKept == /\ \A i \in jobs' : \E j \in jobs : i.ref = j.ref
            /\ \A j \in jobs : \E i \in jobs' : i.ref = j.ref

LEMMA ReplaceKeeps ==
    ASSUME NEW j \in jobs, NEW k, k.ref = j.ref, Replace(j, k)
    PROVE  RefsKept
<1>1. jobs' = (jobs \ {j}) \cup {k} /\ k \in jobs'
  BY DEF Replace
<1>2. \A i \in jobs : i = j \/ i \in jobs'
  BY <1>1
<1>3. \A i \in jobs' : i = k \/ i \in jobs
  BY <1>1
<1> QED
  BY <1>1, <1>2, <1>3 DEF RefsKept

LEMMA JobStepsKeep ==
    ASSUME TypeInv, NEW j \in jobs, JobStep(j) \/ MarkError(j) PROVE RefsKept
<1>1. j \in JobType
  BY DEF TypeInv, TypeOK
<1>2. CASE TakeJob(j)
  BY <1>1, <1>2, ReplaceKeeps DEF TakeJob, JobType
<1>3. CASE AttemptThrows(j)
  <2>1. CASE LastAttempt(j)
    BY <1>1, <1>3, <2>1, ReplaceKeeps DEF AttemptThrows, JobType
  <2>2. CASE ~LastAttempt(j)
    BY <1>1, <1>3, <2>2, ReplaceKeeps DEF AttemptThrows, JobType
  <2> QED
    BY <2>1, <2>2
<1>4. CASE MarkBlockchainFailed(j) \/ MarkError(j)
  BY <1>1, <1>4, ReplaceKeeps DEF MarkBlockchainFailed, MarkError, JobType
<1> QED
  BY <1>2, <1>3, <1>4 DEF JobStep

LEMMA WorkStep ==
    TypeInv /\ LedgerInv /\ OnceInv /\ WorkInv /\ [Next]_vars => WorkInv'
<1> SUFFICES ASSUME TypeInv, LedgerInv, OnceInv, WorkInv, [Next]_vars PROVE WorkInv'
  OBVIOUS
<1>1. CASE UNCHANGED vars
  BY <1>1 DEF vars, WorkInv, Recorded, NoJob
<1> SUFFICES ASSUME Next PROVE WorkInv'
  BY <1>1
<1> USE DEF TypeInv, TypeOK, Named
<1>2. \A r \in Refs : StatusMoves(r)
  BY MovesStep
<1>3. \A j \in jobs : j \in JobType /\ j.ref \in {r \in Refs : Recorded(r)}
  BY DEF WorkInv, JobType
<1>4. \A w \in Hooks : /\ hook[w] \in HookType
                       /\ hook[w].pc \in {"proof", "enqueue", "sms"} =>
                             hook[w].ref \in {r \in Refs : Recorded(r)}
  BY DEF WorkInv
<1>5. ASSUME NEW w \in Hooks, Confirm(w) PROVE WorkInv'
  <2>1. /\ jobs' = jobs /\ hook' = [hook EXCEPT ![w].pc = "proof"] /\ hook[w].ref \in Refs
        /\ row' = [row EXCEPT ![hook[w].ref].status = "CONFIRMED"]
    BY <1>5 DEF Confirm, queues
  <2>2. hook'[w].ref = hook[w].ref /\ \A v \in Hooks \ {w} : hook'[v] = hook[v]
    BY <1>4, <2>1 DEF HookType
  <2>3. row'[hook[w].ref].status = "CONFIRMED"
    BY <2>1 DEF RowType
  <2>4. \A r \in Refs : row'[r].status = "BLOCKCHAIN_FAILED" => row[r].status = "BLOCKCHAIN_FAILED"
    BY <2>1, <2>3
  <2>5. \A v \in Hooks : hook'[v].pc \in {"proof", "enqueue", "sms"} =>
           hook'[v].ref \in {r \in Refs : Recorded(r) \/ Recorded(r)'}
    BY <1>4, <2>1, <2>2, <2>3 DEF Recorded
  <2> QED
    BY <1>2, <1>3, <2>1, <2>4, <2>5, WorkFrame
(* Every other step brings no delivery past Confirm. *)
<1>6. ASSUME \A w \in Hooks : hook'[w].pc \in {"proof", "enqueue", "sms"} =>
                /\ hook[w].pc \in {"proof", "enqueue", "sms"} /\ hook'[w].ref = hook[w].ref,
             \A j \in jobs' : j.ref \in {r \in Refs : Recorded(r)},
             \A j \in jobs : \E i \in jobs' : i.ref = j.ref,
             \A r \in Refs : row'[r].status = "BLOCKCHAIN_FAILED" =>
                row[r].status = "BLOCKCHAIN_FAILED" \/ ~NoJob(r)
      PROVE  WorkInv'
  BY <1>2, <1>4, <1>6, WorkFrame
<1>7. ASSUME NEW w \in Hooks, HookStep(w), ~Confirm(w) PROVE WorkInv'
  <2>1. \A v \in Hooks : hook'[v].pc \in {"proof", "enqueue", "sms"} =>
           hook[v].pc \in {"proof", "enqueue", "sms"} /\ hook'[v].ref = hook[v].ref
    <3>1. CASE FindContribution(w)
      BY <1>4, <3>1, VerdictSound DEF FindContribution, HookType
    <3>2. CASE ClaimKey(w)
      BY <1>4, <3>2 DEF ClaimKey, HookType
    <3>3. CASE StoreProof(w) \/ EnqueueRecord(w)
      BY <1>4, <3>3 DEF StoreProof, EnqueueRecord, HookType
    <3>4. CASE EnqueueSms(w) \/ MarkFailed(w)
      BY <1>4, <3>4 DEF EnqueueSms, MarkFailed, HookType
    <3>5. CASE Answer(w)
      BY <1>4, <3>5 DEF Answer, NoHook, HookType
    <3> QED
      BY <1>7, <3>1, <3>2, <3>3, <3>4, <3>5 DEF HookStep
  <2>2. \A r \in Refs : row'[r].status = "BLOCKCHAIN_FAILED" => row[r].status = "BLOCKCHAIN_FAILED"
    <3>1. CASE StoreProof(w)
      BY <3>1 DEF StoreProof, RowType
    <3>2. CASE MarkFailed(w)
      BY <3>2 DEF MarkFailed, RowType
    <3>3. CASE row' = row
      BY <3>3
    <3> QED
      BY <1>7, <3>1, <3>2, <3>3
      DEF HookStep, ClaimKey, FindContribution, EnqueueRecord, EnqueueSms, Answer
  <2>3. \A j \in jobs : \E i \in jobs' : i.ref = j.ref
    BY <1>7 DEF HookStep, ClaimKey, FindContribution, StoreProof, EnqueueRecord, EnqueueSms,
                MarkFailed, Answer, queues
  <2>4. \A j \in jobs' : j.ref \in {r \in Refs : Recorded(r)}
    <3>1. CASE EnqueueRecord(w)
      BY <1>3, <1>4, <3>1 DEF EnqueueRecord, Waiting
    <3> QED
      BY <1>3, <1>7, <3>1 DEF HookStep, ClaimKey, FindContribution, StoreProof, EnqueueSms,
                              MarkFailed, Answer, queues
  <2> QED
    BY <1>6, <2>1, <2>2, <2>3, <2>4
<1>8. ASSUME NEW j \in jobs, JobStep(j) \/ MarkError(j) PROVE WorkInv'
  <2>1. RefsKept
    BY <1>8, JobStepsKeep
  <2>2. hook' = hook
    BY <1>8 DEF JobStep, TakeJob, AttemptThrows, MarkBlockchainFailed, MarkError
  <2>3. \A r \in Refs : row'[r].status = "BLOCKCHAIN_FAILED" =>
           row[r].status = "BLOCKCHAIN_FAILED" \/ ~NoJob(r)
    BY <1>8 DEF JobStep, TakeJob, AttemptThrows, MarkBlockchainFailed, MarkError, NoJob
  <2> QED
    BY <1>3, <1>6, <2>1, <2>2, <2>3 DEF RefsKept
<1>9. CASE Crash
  <2>1. jobs' = {Stall(j) : j \in jobs} /\ row' = row /\ \A w \in Hooks : hook'[w].pc = "idle"
    BY <1>9 DEF Crash, NoHook
  <2>2. \A j \in jobs : Stall(j).ref = j.ref
    BY StallType
  <2> QED
    BY <1>3, <1>6, <2>1, <2>2
<1>10. ASSUME NEW w \in Hooks, HookError(w) \/ \E e \in owed : Deliver(w, e) PROVE WorkInv'
  <2>1. \A v \in Hooks : hook'[v].pc \in {"proof", "enqueue", "sms"} => hook'[v] = hook[v]
    BY <1>10 DEF HookError, Deliver, NoHook
  <2> QED
    BY <1>3, <1>6, <1>10, <2>1 DEF HookError, Deliver, queues
<1>11. ASSUME hook' = hook, jobs' = jobs,
              \A r \in Refs : row'[r].status = "BLOCKCHAIN_FAILED" =>
                 row[r].status = "BLOCKCHAIN_FAILED"
       PROVE  WorkInv'
  BY <1>3, <1>6, <1>11
<1>12. ASSUME NEW q \in Requests, InitiateStep(q) PROVE WorkInv'
  <2>1. \A r \in Refs : row'[r].status = "BLOCKCHAIN_FAILED" => row[r].status = "BLOCKCHAIN_FAILED"
    <3>1. CASE SaveIntent(q)
      <4>1. CASE row' = row
        BY <4>1
      <4>2. ASSUME NEW t \in Refs,
                   row' = [row EXCEPT ![t] = [NoRow EXCEPT !.status = "PENDING",
                              !.cycle = req[q].cycle, !.member = req[q].who]]
            PROVE  \A r \in Refs : row'[r].status = "BLOCKCHAIN_FAILED" =>
                      row[r].status = "BLOCKCHAIN_FAILED"
        <5>1. row'[t].status = "PENDING"
          BY <4>2 DEF NoRow
        <5> QED
          BY <4>2, <5>1
      <4> QED
        BY <3>1, <4>1, <4>2 DEF SaveIntent, Unused
    <3>2. CASE RecordTransaction(q)
      BY <3>2 DEF RecordTransaction, RowType
    <3> QED
      BY <1>12, <3>1, <3>2 DEF InitiateStep, CheckAlready, InitiatePayment
  <2> QED
    BY <1>11, <1>12, <2>1
    DEF InitiateStep, CheckAlready, SaveIntent, InitiatePayment, RecordTransaction, queues
<1> QED
  BY <1>5, <1>7, <1>8, <1>9, <1>10, <1>11, <1>12
  DEF Next, InitiateError, ReadCycle, CustomerPays, TransactionDeclined, Settle, KeyLapses,
      CycleCloses, queues

(* A status only moves forward, whatever updates (none of which looks at the status it
   replaces) interleave: PENDING to CONFIRMED or FAILED, CONFIRMED to BLOCKCHAIN_FAILED,
   and back only by an event that comes after its transaction's key has lapsed. *)
THEOREM StatusMovesForwardCorrect == Spec => StatusMovesForward
<1>1. Spec => [](TypeInv /\ LedgerInv /\ OnceInv /\ WorkInv)
  BY TypeInit, TypeStep, LedgerInit, LedgerStep, OnceInit, OnceStep, WorkInit, WorkStep, PTL
  DEF Spec
<1>2. TypeInv /\ LedgerInv /\ OnceInv /\ WorkInv /\ [Next]_vars =>
         [\A r \in Refs : StatusMoves(r)]_vars
  BY MovesStep
<1> QED
  BY <1>1, <1>2, PTL DEF Spec, StatusMovesForward
=============================================================================
