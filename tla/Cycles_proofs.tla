--------------------------- MODULE Cycles_proofs ---------------------------
(* Proofs about Cycles, for every number of members and of overlapping checks. *)
EXTENDS Cycles, SequenceTheorems, TLAPS

Status == {"PENDING", "ACTIVE", "COMPLETED"}
CycleType == [status : Status, collected : Nat]
CheckType == [pc : {"idle", "sum", "store", "complete", "payout", "next", "activate",
                    "started"},
              number : Numbers \cup {0}, seen : Nat, total : Nat]

(* What the type invariant says of the two records, under their short names. *)
LEMMA Typed ==
    ASSUME TypeOK PROVE cycle \in [Numbers -> CycleType] /\ check \in [Checks -> CheckType]
<1>1. cycle \in [Numbers -> CycleType]
  BY DEF TypeOK, CycleType, Status
<1>2. check \in [Checks -> CheckType]
  BY DEF TypeOK, CheckType
<1> QED
  BY <1>1, <1>2

(* What a check knows at each of its steps: its cycle has been open, its total was
   once there, the payout of its cycle is announced before the next is opened. *)
CheckKnows(k) ==
    LET c == check[k].number IN
    /\ check[k].pc # "idle" => c \in Numbers /\ cycle[c].status # "PENDING"
    /\ check[k].pc = "store" /\ check[k].total >= N => c \in full
    /\ check[k].pc \in {"complete", "payout", "next", "activate", "started"} => c \in full
    /\ check[k].pc \in {"next", "activate", "started"} => payout[c] # <<>>
    /\ check[k].pc \in {"activate", "started"} => c < N
    /\ check[k].pc = "started" => cycle[c + 1].status # "PENDING"

(* A beneficiary told that their cycle has started can be paid into. *)
StartedIsOpen == \A c \in started : cycle[c].status # "PENDING"

FullCovers == \A c \in Numbers : confirmed[c] >= N => c \in full

OrderInv ==
    /\ TypeOK
    /\ FullCovers
    /\ \A k \in Checks : CheckKnows(k)
    /\ ClosedOnlyWhenFull
    /\ OpensAfterPayout
    /\ StartedIsOpen

LEMMA OrderInit == Init => OrderInv
<1> SUFFICES ASSUME Init PROVE OrderInv
  OBVIOUS
<1> USE CyclesAssumption DEF Numbers
<1>1. TypeOK
  BY DEF Init, TypeOK, CreatedCycle, NoCheck
<1>2. FullCovers
  BY DEF Init, FullCovers
<1>3. \A k \in Checks : CheckKnows(k)
  BY DEF Init, CheckKnows, NoCheck
<1>4. ClosedOnlyWhenFull /\ OpensAfterPayout /\ StartedIsOpen
  BY DEF Init, ClosedOnlyWhenFull, OpensAfterPayout, StartedIsOpen, CreatedCycle
<1> QED
  BY <1>1, <1>2, <1>3, <1>4 DEF OrderInv

(* A step of one check that changes neither the cycles, the contributions nor the
   announcements needs only its own new knowledge. *)
LEMMA CheckOnly ==
    ASSUME OrderInv, NEW k \in Checks, NEW h \in CheckType,
           check' = [check EXCEPT ![k] = h], CheckKnows(k)',
           UNCHANGED <<cycle, contributions, notifications>>, lost' \in Nat
    PROVE  OrderInv'
<1> USE CyclesAssumption DEF OrderInv, contributions, notifications
<1>1. TypeOK'
  BY DEF TypeOK, CheckType
<1>2. \A j \in Checks : CheckKnows(j)'
  <2>1. ASSUME NEW j \in Checks, j # k PROVE CheckKnows(j)'
    <3>1. check'[j] = check[j]
      BY <2>1 DEF TypeOK
    <3> QED
      BY <3>1 DEF CheckKnows
  <2> QED
    BY <2>1
<1>3. (FullCovers /\ ClosedOnlyWhenFull /\ OpensAfterPayout /\ StartedIsOpen)'
  BY DEF FullCovers, ClosedOnlyWhenFull, OpensAfterPayout, StartedIsOpen
<1> QED
  BY <1>1, <1>2, <1>3

LEMMA OrderStep == OrderInv /\ [Next]_vars => OrderInv'
<1> SUFFICES ASSUME OrderInv, [Next]_vars PROVE OrderInv'
  OBVIOUS
<1> USE CyclesAssumption DEF Numbers, contributions, notifications
<1>1. TypeOK /\ FullCovers /\ ClosedOnlyWhenFull /\ OpensAfterPayout /\ StartedIsOpen
  BY DEF OrderInv
<1>2. \A k \in Checks : CheckKnows(k) /\ check[k] \in CheckType
  BY DEF OrderInv, TypeOK, CheckType, Status
<1>3. ASSUME NEW c \in Numbers, PaymentConfirmed(c) PROVE OrderInv'
  <2>1. TypeOK' /\ full \subseteq full'
    <3>1. confirmed' \in [Numbers -> Nat]
      <4>1. confirmed' = [confirmed EXCEPT ![c] = confirmed[c] + 1]
        BY <1>3 DEF PaymentConfirmed
      <4> QED
        BY <1>1, <4>1, SMTT(30) DEF TypeOK
    <3>2. full' \subseteq Numbers /\ full \subseteq full'
      <4>1. full' = full \cup {c} \/ full' = full
        BY <1>3 DEF PaymentConfirmed
      <4> QED
        BY <1>1, <4>1 DEF TypeOK
    <3>3. UNCHANGED <<cycle, check, payout, started, lost>>
      BY <1>3 DEF PaymentConfirmed
    <3> QED
      BY <1>1, <3>1, <3>2, <3>3 DEF TypeOK
  <2>2. FullCovers'
    BY <1>1, <1>3 DEF FullCovers, PaymentConfirmed, TypeOK
  <2>3. \A k \in Checks : CheckKnows(k)'
    BY <1>2, <1>3, <2>1 DEF CheckKnows, PaymentConfirmed
  <2>4. (ClosedOnlyWhenFull /\ OpensAfterPayout /\ StartedIsOpen)'
    BY <1>1, <1>3, <2>1 DEF ClosedOnlyWhenFull, OpensAfterPayout, StartedIsOpen, PaymentConfirmed
  <2> QED
    BY <2>1, <2>2, <2>3, <2>4 DEF OrderInv
<1>4. ASSUME NEW c \in Numbers, ContributionBlockchainFailed(c) PROVE OrderInv'
  <2>1. TypeOK'
    <3>1. confirmed' \in [Numbers -> Nat]
      BY <1>1, <1>4, SMTT(30) DEF TypeOK, ContributionBlockchainFailed
    <3> QED
      BY <1>1, <1>4, <3>1 DEF TypeOK, ContributionBlockchainFailed
  <2>2. FullCovers'
    BY <1>1, <1>4 DEF FullCovers, ContributionBlockchainFailed, TypeOK
  <2>3. \A k \in Checks : CheckKnows(k)'
    BY <1>2, <1>4 DEF CheckKnows, ContributionBlockchainFailed
  <2>4. (ClosedOnlyWhenFull /\ OpensAfterPayout /\ StartedIsOpen)'
    BY <1>1, <1>4 DEF ClosedOnlyWhenFull, OpensAfterPayout, StartedIsOpen,
                      ContributionBlockchainFailed
  <2> QED
    BY <2>1, <2>2, <2>3, <2>4 DEF OrderInv
<1>5. ASSUME NEW k \in Checks, NEW c \in Numbers, LoadCycle(k, c) PROVE OrderInv'
  <2> DEFINE h == [pc |-> "sum", number |-> c, seen |-> cycle[c].collected, total |-> 0]
  <2>1. h \in CheckType
    BY <1>1 DEF TypeOK, CheckType
  <2>2. check'[k] = h
    BY <1>1, <1>5 DEF LoadCycle, TypeOK
  <2>3. CheckKnows(k)'
    BY <1>5, <2>2 DEF LoadCycle, CheckKnows
  <2> QED
    BY <1>5, <2>1, <2>3, CheckOnly DEF LoadCycle, OrderInv, TypeOK
<1>6. ASSUME NEW k \in Checks, SumConfirmed(k) PROVE OrderInv'
  <2> DEFINE h == [check[k] EXCEPT !.pc = "store", !.total = confirmed[check[k].number]]
  <2>1. check[k].number \in Numbers /\ confirmed[check[k].number] \in Nat
    BY <1>1, <1>2, <1>6 DEF SumConfirmed, CheckKnows, TypeOK
  <2>2. h \in CheckType
    BY <1>2, <2>1 DEF CheckType
  <2>3. check' = [check EXCEPT ![k] = h]
    BY <1>6 DEF SumConfirmed
  <2>4. /\ check'[k].pc = "store" /\ check'[k].number = check[k].number
        /\ check'[k].total = confirmed[check[k].number]
    BY <1>1, <1>2, <2>3 DEF TypeOK, CheckType
  <2>5. CheckKnows(k)'
    BY <1>1, <1>2, <1>6, <2>1, <2>4 DEF SumConfirmed, CheckKnows, FullCovers
  <2> QED
    BY <1>6, <2>2, <2>3, <2>5, CheckOnly DEF SumConfirmed, OrderInv, TypeOK
<1>7. ASSUME NEW k \in Checks, StoreTotal(k) PROVE OrderInv'
  <2> DEFINE c == check[k].number
  <2>1. c \in Numbers /\ check[k].total \in Nat
    BY <1>2, <1>7 DEF StoreTotal, CheckKnows, CheckType
  <2>2. \A d \in Numbers : cycle'[d].status = cycle[d].status
    BY <1>1, <1>7 DEF StoreTotal, TypeOK
  <2>3. TypeOK'
    <3>1. cycle' \in [Numbers -> CycleType]
      <4>1. [cycle[c] EXCEPT !.collected = check[k].total] \in CycleType
        BY <1>1, <2>1, Typed DEF CycleType
      <4>2. cycle' = [cycle EXCEPT ![c] = [cycle[c] EXCEPT !.collected = check[k].total]]
        BY <1>7 DEF StoreTotal
      <4>3. cycle \in [Numbers -> CycleType]
        BY <1>1, Typed
      <4> QED
        BY <2>1, <4>1, <4>2, <4>3
    <3>2. check' \in [Checks -> CheckType]
      <4>1. NoCheck \in CheckType /\ [check[k] EXCEPT !.pc = "complete"] \in CheckType
        BY <1>2 DEF CheckType, NoCheck
      <4>2. check \in [Checks -> CheckType]
        BY <1>1, Typed
      <4>3. \/ check' = [check EXCEPT ![k] = [check[k] EXCEPT !.pc = "complete"]]
            \/ check' = [check EXCEPT ![k] = NoCheck]
        BY <1>7 DEF StoreTotal
      <4> QED
        BY <4>1, <4>2, <4>3
    <3> QED
      BY <1>1, <1>7, <3>1, <3>2 DEF StoreTotal, TypeOK, CycleType, CheckType, Status
  <2>4. ASSUME NEW j \in Checks PROVE CheckKnows(j)'
    <3>1. CASE j # k
      <4>1. check'[j] = check[j]
        BY <1>1, <1>7, <3>1 DEF StoreTotal, TypeOK
      <4>2. CheckKnows(j)
        BY <1>2
      <4>3. /\ check[j].pc # "idle" => cycle'[check[j].number].status # "PENDING"
            /\ check[j].pc = "started" => cycle'[check[j].number + 1].status # "PENDING"
        BY <2>2, <4>2 DEF CheckKnows
      <4>4. UNCHANGED <<full, payout>>
        BY <1>7 DEF StoreTotal
      <4> QED
        BY <4>1, <4>2, <4>3, <4>4 DEF CheckKnows
    <3>2. CASE j = k
      <4>1. \/ check'[k].pc = "idle"
            \/ /\ check'[k].pc = "complete" /\ check'[k].number = c
               /\ check[k].total >= N
        BY <1>1, <1>2, <1>7 DEF StoreTotal, TypeOK, NoCheck, CheckType, Reached, total_expected
      <4>2. CheckKnows(k) /\ check[k].pc = "store"
        BY <1>2, <1>7 DEF StoreTotal
      <4> QED
        BY <1>7, <2>1, <2>2, <3>2, <4>1, <4>2 DEF StoreTotal, CheckKnows
    <3> QED
      BY <3>1, <3>2
  <2>5. (FullCovers /\ ClosedOnlyWhenFull /\ OpensAfterPayout /\ StartedIsOpen)'
    BY <1>1, <1>7, <2>2 DEF StoreTotal, FullCovers, ClosedOnlyWhenFull, OpensAfterPayout,
                            StartedIsOpen, TypeOK
  <2> QED
    BY <2>3, <2>4, <2>5 DEF OrderInv
<1>8. ASSUME NEW k \in Checks, MarkCompleted(k) \/ ActivateNext(k) PROVE OrderInv'
  <2> DEFINE c == check[k].number
  <2>1. c \in Numbers /\ (ActivateNext(k) => c + 1 \in Numbers)
    BY <1>2, <1>8 DEF MarkCompleted, ActivateNext, CheckKnows
  <2>2. PICK d \in Numbers, s \in {"ACTIVE", "COMPLETED"} :
          /\ cycle' = [cycle EXCEPT ![d].status = s]
          /\ s = "ACTIVE" => /\ d = c + 1 /\ check[k].pc = "activate"
                             /\ check' = [check EXCEPT ![k].pc = "started"]
          /\ s = "COMPLETED" => /\ d = c /\ check[k].pc = "complete"
                                /\ check' = [check EXCEPT ![k].pc = "payout"]
    BY <1>8, <2>1 DEF MarkCompleted, ActivateNext
  <2>3. UNCHANGED <<contributions, notifications, lost>>
    BY <1>8 DEF MarkCompleted, ActivateNext
  <2>4. \A e \in Numbers : cycle'[e].status = IF e = d THEN s ELSE cycle[e].status
    BY <1>1, <2>2 DEF TypeOK
  <2>5. TypeOK'
    <3>1. cycle' \in [Numbers -> CycleType]
      <4>1. [cycle[d] EXCEPT !.status = s] \in CycleType
        BY <1>1, Typed DEF CycleType, Status
      <4>2. cycle \in [Numbers -> CycleType]
        BY <1>1, Typed
      <4>3. cycle' = [cycle EXCEPT ![d] = [cycle[d] EXCEPT !.status = s]]
        BY <2>2
      <4> QED
        BY <4>1, <4>2, <4>3
    <3>2. check' \in [Checks -> CheckType]
      <4>1. \A p \in {"started", "payout"} : [check[k] EXCEPT !.pc = p] \in CheckType
        BY <1>2 DEF CheckType
      <4>2. check \in [Checks -> CheckType]
        BY <1>1, Typed
      <4> QED
        BY <2>2, <4>1, <4>2
    <3> QED
      BY <1>1, <2>3, <3>1, <3>2 DEF TypeOK, CycleType, CheckType, Status
  <2>6. CheckKnows(k) /\ check'[k].number = c
    BY <1>1, <1>2, <2>2 DEF TypeOK, CheckType
  <2>7. c \in full /\ (s = "ACTIVE" => payout[c] # <<>>)
    BY <2>2, <2>6 DEF CheckKnows
  <2>8. ASSUME NEW j \in Checks PROVE CheckKnows(j)'
    <3>1. CASE j # k
      <4>1. check'[j] = check[j] /\ CheckKnows(j)
        BY <1>1, <1>2, <2>2, <3>1 DEF TypeOK
      <4> QED
        BY <2>3, <2>4, <4>1 DEF CheckKnows
    <3>2. CASE j = k /\ s = "ACTIVE"
      <4>1. check'[k].pc = "started"
        BY <1>1, <1>2, <2>2, <3>2 DEF TypeOK, CheckType
      <4> QED
        BY <2>1, <2>2, <2>3, <2>4, <2>6, <3>2, <4>1 DEF CheckKnows
    <3>3. CASE j = k /\ s = "COMPLETED"
      <4>1. check'[k].pc = "payout"
        BY <1>1, <1>2, <2>2, <3>3 DEF TypeOK, CheckType
      <4> QED
        BY <2>1, <2>2, <2>3, <2>4, <2>6, <3>3, <4>1 DEF CheckKnows
    <3> QED
      BY <3>1, <3>2, <3>3
  <2>9. ClosedOnlyWhenFull'
    BY <1>1, <2>2, <2>3, <2>4, <2>7 DEF ClosedOnlyWhenFull
  <2>10. OpensAfterPayout'
    <3> SUFFICES ASSUME NEW e \in Numbers, e > 1, cycle'[e].status # "PENDING"
                 PROVE  payout[e - 1] # <<>> /\ e - 1 \in full
      BY <2>3 DEF OpensAfterPayout
    <3>1. CASE cycle[e].status # "PENDING"
      BY <1>1, <3>1 DEF OpensAfterPayout
    <3>2. CASE cycle[e].status = "PENDING"
      <4>1. e = d /\ s = "ACTIVE"
        BY <2>2, <2>4, <2>6, <3>2 DEF CheckKnows
      <4> QED
        BY <2>1, <2>2, <2>7, <4>1
    <3> QED
      BY <3>1, <3>2
  <2>11. (FullCovers /\ StartedIsOpen)'
    BY <1>1, <2>2, <2>3, <2>4 DEF FullCovers, StartedIsOpen, TypeOK
  <2> QED
    BY <2>5, <2>8, <2>9, <2>10, <2>11 DEF OrderInv
<1>9. ASSUME NEW k \in Checks, AnnouncePayout(k) PROVE OrderInv'
  <2> DEFINE c == check[k].number
  <2>1. c \in Numbers /\ check[k].seen \in Nat /\ CheckKnows(k) /\ check[k].pc = "payout"
    BY <1>2, <1>9 DEF AnnouncePayout, CheckKnows, CheckType
  <2>2. payout' = [payout EXCEPT ![c] = Append(payout[c], check[k].seen)]
    BY <1>9 DEF AnnouncePayout
  <2>3. /\ payout' \in [Numbers -> Seq(Nat)] /\ payout'[c] # <<>>
        /\ \A d \in Numbers : payout[d] # <<>> => payout'[d] # <<>>
    <3> DEFINE s == Append(payout[c], check[k].seen)
    <3>1. payout[c] \in Seq(Nat) /\ check[k].seen \in Nat
      BY <1>1, <2>1 DEF TypeOK
    <3>2. s \in Seq(Nat) /\ s # <<>>
      BY <3>1, AppendProperties
    <3>3. payout' = [payout EXCEPT ![c] = s]
      BY <2>2
    <3>4. payout \in [Numbers -> Seq(Nat)]
      BY <1>1 DEF TypeOK
    <3> HIDE DEF s, c
    <3>5. payout' \in [Numbers -> Seq(Nat)] /\ payout'[c] = s
      BY <2>1, <3>2, <3>3, <3>4
    <3>6. \A d \in Numbers : d # c => payout'[d] = payout[d]
      BY <3>3, <3>4
    <3> QED
      BY <3>2, <3>5, <3>6
  <2>4. /\ check' \in [Checks -> CheckType]
        /\ check'[k].pc = "next" /\ check'[k].number = c
        /\ \A j \in Checks : j # k => check'[j] = check[j]
    BY <1>1, <1>2, <1>9 DEF AnnouncePayout, TypeOK, CheckType
  <2>5. UNCHANGED <<cycle, contributions, started, lost>>
    BY <1>9 DEF AnnouncePayout
  <2>6. TypeOK'
    BY <1>1, <2>3, <2>4, <2>5 DEF TypeOK, CheckType
  <2>7. \A j \in Checks : CheckKnows(j)'
    <3>1. ASSUME NEW j \in Checks, j # k PROVE CheckKnows(j)'
      <4>1. CheckKnows(j) /\ check'[j] = check[j]
        BY <1>2, <2>4, <3>1
      <4>2. check[j].pc # "idle" => check[j].number \in Numbers
        BY <4>1 DEF CheckKnows
      <4> QED
        BY <2>3, <2>5, <4>1, <4>2 DEF CheckKnows
    <3>2. CheckKnows(k)'
      BY <2>1, <2>3, <2>4, <2>5 DEF CheckKnows
    <3> QED
      BY <3>1, <3>2
  <2>8. (FullCovers /\ ClosedOnlyWhenFull /\ OpensAfterPayout /\ StartedIsOpen)'
    BY <1>1, <2>3, <2>5 DEF FullCovers, ClosedOnlyWhenFull, OpensAfterPayout, StartedIsOpen
  <2> QED
    BY <2>6, <2>7, <2>8 DEF OrderInv
<1>10. ASSUME NEW k \in Checks, FindNext(k) PROVE OrderInv'
  <2> DEFINE c == check[k].number
             h == IF NextExists(c) THEN [check[k] EXCEPT !.pc = "activate"] ELSE NoCheck
  <2>1. h \in CheckType
    BY <1>2 DEF CheckType, NoCheck
  <2>2. check' = [check EXCEPT ![k] = h] /\ check[k].pc = "next"
    BY <1>10 DEF FindNext
  <2>3. check'[k] = h /\ CheckKnows(k)
    BY <1>1, <1>2, <2>2 DEF TypeOK
  <2>4. CASE NextExists(c)
    <3>1. c < N /\ check'[k].pc = "activate" /\ check'[k].number = c
      BY <1>2, <2>3, <2>4 DEF NextExists, CheckType
    <3>2. CheckKnows(k)'
      BY <1>10, <2>2, <2>3, <3>1 DEF FindNext, CheckKnows
    <3> QED
      BY <1>10, <2>1, <2>2, <3>2, CheckOnly DEF FindNext, OrderInv, TypeOK
  <2>5. CASE ~NextExists(c)
    <3>1. CheckKnows(k)'
      BY <2>3, <2>5 DEF CheckKnows, NoCheck
    <3> QED
      BY <1>10, <2>1, <2>2, <3>1, CheckOnly DEF FindNext, OrderInv, TypeOK
  <2> QED
    BY <2>4, <2>5
<1>11. ASSUME NEW k \in Checks, AnnounceStart(k) PROVE OrderInv'
  <2> DEFINE c == check[k].number
  <2>1. c \in Numbers /\ c + 1 \in Numbers /\ cycle[c + 1].status # "PENDING"
    BY <1>2, <1>11 DEF AnnounceStart, CheckKnows
  <2>2. /\ check' \in [Checks -> CheckType] /\ check'[k].pc = "idle"
        /\ \A j \in Checks : j # k => check'[j] = check[j]
    BY <1>1, <1>2, <1>11 DEF AnnounceStart, TypeOK, CheckType, NoCheck
  <2>3. started' = started \cup {c + 1} /\ UNCHANGED <<cycle, contributions, payout, lost>>
    BY <1>11 DEF AnnounceStart
  <2>4. TypeOK'
    BY <1>1, <2>1, <2>2, <2>3 DEF TypeOK, CheckType
  <2>5. \A j \in Checks : CheckKnows(j)'
    BY <1>2, <2>2, <2>3 DEF CheckKnows
  <2>6. (FullCovers /\ ClosedOnlyWhenFull /\ OpensAfterPayout /\ StartedIsOpen)'
    BY <1>1, <2>1, <2>3 DEF FullCovers, ClosedOnlyWhenFull, OpensAfterPayout, StartedIsOpen
  <2> QED
    BY <2>4, <2>5, <2>6 DEF OrderInv
<1>12. ASSUME NEW k \in Checks, Abandon(k) PROVE OrderInv'
  <2>1. NoCheck \in CheckType
    BY DEF NoCheck, CheckType
  <2>2. CheckKnows(k)'
    BY <1>1, <1>12 DEF Abandon, CheckKnows, NoCheck, TypeOK
  <2>3. lost' \in Nat
    BY <1>1, <1>12 DEF Abandon, TypeOK
  <2> QED
    BY <1>12, <2>1, <2>2, <2>3, CheckOnly DEF Abandon
<1>13. CASE UNCHANGED vars
  BY <1>13 DEF vars, OrderInv, TypeOK, FullCovers, CheckKnows, ClosedOnlyWhenFull,
               OpensAfterPayout, StartedIsOpen
<1> QED
  BY <1>3, <1>4, <1>5, <1>6, <1>7, <1>8, <1>9, <1>10, <1>11, <1>12, <1>13
  DEF Next, CheckStep

(* The invariants of overlapping checks, for any number of members and of checks. *)
LEMMA OrderCorrect == Spec => []OrderInv
  BY OrderInit, OrderStep, PTL DEF Spec

(* The cycles, the checks and the announcements keep their types. *)
THEOREM CyclesTypeCorrect == Spec => []TypeOK
  BY OrderCorrect, PTL DEF OrderInv

(* However many checks of a cycle overlap, it closes only after the contributions of
   all the members were confirmed at once. *)
THEOREM ClosedWhenFullCorrect == Spec => []ClosedOnlyWhenFull
  BY OrderCorrect, PTL DEF OrderInv

(* However many checks overlap, the beneficiary of a cycle is told of the payout, and
   the cycle was full, before the next cycle opens. *)
THEOREM OpensAfterPayoutCorrect == Spec => []OpensAfterPayout
  BY OrderCorrect, PTL DEF OrderInv

(* However many checks overlap, a completed cycle is opened again only by the check of the
   cycle before, which found it PENDING earlier, and never goes back to PENDING. *)
THEOREM ReopenedCorrect == Spec => ReopenedByStaleCheckOnly
<1> DEFINE Reopened ==
      \A c \in Numbers : cycle[c].status = "COMPLETED" /\ cycle'[c].status # "COMPLETED" =>
         /\ cycle'[c].status = "ACTIVE"
         /\ \E k \in Checks : check[k].pc = "activate" /\ check[k].number = c - 1
<1>1. OrderInv /\ [Next]_vars => [Reopened]_vars
  <2> SUFFICES ASSUME OrderInv, Next, NEW c \in Numbers,
                      cycle[c].status = "COMPLETED", cycle'[c].status # "COMPLETED"
               PROVE  /\ cycle'[c].status = "ACTIVE"
                      /\ \E k \in Checks : check[k].pc = "activate" /\ check[k].number = c - 1
    OBVIOUS
  <2>1. cycle \in [Numbers -> CycleType] /\ check \in [Checks -> CheckType]
    BY Typed DEF OrderInv
  <2>2. ASSUME NEW k \in Checks, ActivateNext(k)
        PROVE  /\ cycle'[c].status = "ACTIVE"
               /\ check[k].pc = "activate" /\ check[k].number = c - 1
    <3>1. /\ check[k].number \in Nat /\ c \in Nat /\ check[k].number + 1 \in Numbers
          /\ cycle' = [cycle EXCEPT ![check[k].number + 1].status = "ACTIVE"]
          /\ check[k].pc = "activate"
      BY <2>1, <2>2, CyclesAssumption
      DEF ActivateNext, OrderInv, CheckKnows, Numbers, CheckType
    <3>2. c = check[k].number + 1
      BY <2>1, <3>1
    <3> QED
      BY <2>1, <3>1, <3>2 DEF CycleType
  <2>3. ASSUME NEW k \in Checks, StoreTotal(k) PROVE cycle'[c].status = cycle[c].status
    BY <2>1, <2>3 DEF StoreTotal, CycleType
  <2>4. ASSUME NEW k \in Checks, MarkCompleted(k)
        PROVE  cycle'[c].status \in {cycle[c].status, "COMPLETED"}
    BY <2>1, <2>4 DEF MarkCompleted, CycleType
  <2> QED
    BY <2>2, <2>3, <2>4
    DEF Next, CheckStep, PaymentConfirmed, ContributionBlockchainFailed, LoadCycle,
        SumConfirmed, AnnouncePayout, FindNext, AnnounceStart, Abandon
<1> QED
  BY <1>1, OrderCorrect, PTL DEF Spec, ReopenedByStaleCheckOnly

-----------------------------------------------------------------------------
(* One check at a time.  It works on the active cycle, everything before a cycle that
   has opened is over, and the cycle it is about to open is still PENDING. *)

SerialInv ==
    /\ \A c, d \in Numbers : d < c /\ cycle[c].status # "PENDING" =>
          cycle[d].status = "COMPLETED"
    /\ \A k \in Checks :
          LET c == check[k].number IN
          /\ check[k].pc \in {"sum", "store", "complete"} => cycle[c].status = "ACTIVE"
          /\ check[k].pc \in {"payout", "next", "activate", "started"} =>
                cycle[c].status = "COMPLETED"
          /\ check[k].pc = "activate" => cycle[c + 1].status = "PENDING"

LEMMA SerialInit == Init => SerialInv
<1> SUFFICES ASSUME Init PROVE SerialInv
  OBVIOUS
<1>1. \A k \in Checks : check[k].pc = "idle"
  BY DEF Init, NoCheck
<1>2. \A c \in Numbers : cycle[c].status = IF c = 1 THEN "ACTIVE" ELSE "PENDING"
  BY DEF Init, CreatedCycle
<1>3. \A c, d \in Numbers : d < c => c # 1
  BY CyclesAssumption DEF Numbers
<1> QED
  BY <1>1, <1>2, <1>3 DEF SerialInv

(* What a step of the only check does to the statuses. *)
LEMMA SerialStep ==
    ASSUME NEW one, Checks = {one}
    PROVE  OrderInv /\ SerialInv /\ [Next]_vars => SerialInv'
<1> SUFFICES ASSUME OrderInv, SerialInv, [Next]_vars PROVE SerialInv'
  OBVIOUS
<1> USE CyclesAssumption DEF Numbers
<1> DEFINE c == check[one].number
<1>1. /\ check \in [Checks -> CheckType] /\ cycle \in [Numbers -> CycleType]
      /\ check[one] \in CheckType /\ CheckKnows(one)
  BY DEF OrderInv, TypeOK, CheckType, CycleType, Status
<1>2. ASSUME cycle' = cycle, check'[one].pc = "idle" \/ check' = check PROVE SerialInv'
  BY <1>2 DEF SerialInv
<1>3. ASSUME NEW d \in Numbers, LoadCycle(one, d) PROVE SerialInv'
  <2>1. check'[one].pc = "sum" /\ check'[one].number = d
    BY <1>1, <1>3 DEF LoadCycle
  <2> QED
    BY <1>3, <2>1 DEF LoadCycle, SerialInv
<1>4. CASE SumConfirmed(one) \/ AnnouncePayout(one)
  <2>1. /\ check'[one].number = c /\ cycle' = cycle
        /\ \/ check[one].pc = "sum" /\ check'[one].pc = "store"
           \/ check[one].pc = "payout" /\ check'[one].pc = "next"
    BY <1>1, <1>4 DEF SumConfirmed, AnnouncePayout, CheckType
  <2> QED
    BY <2>1 DEF SerialInv
<1>5. CASE StoreTotal(one)
  <2>1. \A d \in Numbers : cycle'[d].status = cycle[d].status
    BY <1>1, <1>5 DEF StoreTotal, CycleType
  <2>2. /\ check[one].pc = "store" /\ c \in Numbers
        /\ check'[one].pc = "idle" \/ (check'[one].pc = "complete" /\ check'[one].number = c)
    BY <1>1, <1>5 DEF StoreTotal, CheckKnows, CheckType, NoCheck
  <2> QED
    BY <2>1, <2>2 DEF SerialInv
<1>6. CASE MarkCompleted(one)
  <2>1. /\ check[one].pc = "complete" /\ c \in Numbers
        /\ check'[one].pc = "payout" /\ check'[one].number = c
    BY <1>1, <1>6 DEF MarkCompleted, CheckKnows, CheckType
  <2>2. \A d \in Numbers : cycle'[d].status = IF d = c THEN "COMPLETED" ELSE cycle[d].status
    BY <1>1, <1>6 DEF MarkCompleted, CycleType
  <2> QED
    BY <2>1, <2>2 DEF SerialInv
<1>7. CASE FindNext(one)
  <2>1. cycle' = cycle /\ check[one].pc = "next"
    BY <1>7 DEF FindNext
  <2>2. CASE NextExists(c)
    <3>1. check'[one].pc = "activate" /\ check'[one].number = c
      BY <1>1, <1>7, <2>2 DEF FindNext, CheckType
    <3> QED
      BY <2>1, <2>2, <3>1 DEF SerialInv, NextExists
  <2>3. CASE ~NextExists(c)
    BY <1>1, <1>2, <1>7, <2>1, <2>3 DEF FindNext, NoCheck
  <2> QED
    BY <2>2, <2>3
<1>8. CASE ActivateNext(one)
  <2>1. /\ check[one].pc = "activate" /\ c \in Numbers /\ c + 1 \in Numbers
        /\ check'[one].pc = "started" /\ check'[one].number = c
    BY <1>1, <1>8 DEF ActivateNext, CheckKnows, CheckType
  <2>2. \A d \in Numbers : cycle'[d].status = IF d = c + 1 THEN "ACTIVE" ELSE cycle[d].status
    BY <1>1, <1>8 DEF ActivateNext, CycleType
  <2>3. cycle[c].status = "COMPLETED" /\ cycle[c + 1].status = "PENDING"
    BY <2>1 DEF SerialInv
  <2>4. \A d \in Numbers : d < c + 1 => cycle[d].status = "COMPLETED"
    BY <2>1, <2>3 DEF SerialInv
  <2>5. \A d \in Numbers : c + 1 < d => cycle[d].status = "PENDING"
    BY <2>1, <2>3 DEF SerialInv
  <2>6. \A e, d \in Numbers : d < e /\ cycle'[e].status # "PENDING" =>
           cycle'[d].status = "COMPLETED"
    BY <2>1, <2>2, <2>4, <2>5
  <2> QED
    BY <2>1, <2>2, <2>3, <2>6 DEF SerialInv
<1>9. CASE AnnounceStart(one) \/ Abandon(one)
  BY <1>1, <1>2, <1>9 DEF AnnounceStart, Abandon, NoCheck
<1>10. ASSUME NEW d \in Numbers, PaymentConfirmed(d) \/ ContributionBlockchainFailed(d)
       PROVE  SerialInv'
  BY <1>2, <1>10 DEF PaymentConfirmed, ContributionBlockchainFailed
<1>11. CASE UNCHANGED vars
  BY <1>2, <1>11 DEF vars
<1> QED
  BY <1>3, <1>4, <1>5, <1>6, <1>7, <1>8, <1>9, <1>10, <1>11 DEF Next, CheckStep

(* Every step of a service whose checks do not overlap is a step of Rotation. *)
LEMMA RotationStep ==
    ASSUME NEW one, Checks = {one}
    PROVE  OrderInv /\ SerialInv /\ [Next]_vars => [R!RNext]_(R!rotationVars)
<1> SUFFICES ASSUME OrderInv, SerialInv, [Next]_vars PROVE [R!RNext]_(R!rotationVars)
  OBVIOUS
<1> USE CyclesAssumption DEF Numbers, R!Numbers
<1> DEFINE c == check[one].number
           st == [d \in Numbers |-> cycle[d].status]
<1>1. /\ cycle \in [Numbers -> CycleType] /\ CheckKnows(one)
  BY DEF OrderInv, TypeOK, CycleType, Status
<1>2. ASSUME UNCHANGED <<cycle, full>> PROVE [R!RNext]_(R!rotationVars)
  BY <1>2 DEF R!rotationVars
<1>3. ASSUME NEW d \in Numbers, PaymentConfirmed(d) PROVE [R!RNext]_(R!rotationVars)
  <2>1. cycle' = cycle /\ (full' = full \/ full' = full \cup {d}) /\ cycle[d].status # "PENDING"
    BY <1>3 DEF PaymentConfirmed
  <2>2. CASE full' = full
    BY <1>2, <2>1, <2>2
  <2>3. CASE full' = full \cup {d}
    BY <2>1, <2>3 DEF R!RNext, R!Fill
  <2> QED
    BY <2>1, <2>2, <2>3
<1>4. CASE StoreTotal(one)
  <2>1. \A d \in Numbers : cycle'[d].status = cycle[d].status
    BY <1>1, <1>4 DEF StoreTotal, CycleType
  <2>2. UNCHANGED full
    BY <1>4 DEF StoreTotal, contributions
  <2> QED
    BY <2>1, <2>2 DEF R!rotationVars
<1>5. CASE MarkCompleted(one)
  <2>1. c \in Numbers /\ c \in full /\ cycle[c].status = "ACTIVE" /\ full' = full
    BY <1>1, <1>5 DEF MarkCompleted, CheckKnows, SerialInv, contributions
  <2>2. PICK d \in Numbers : d = c
    BY <2>1
  <2>3. st' = [st EXCEPT ![d] = "COMPLETED"]
    BY <1>1, <1>5, <2>2 DEF MarkCompleted, CycleType
  <2>4. R!Close(d)
    BY <2>1, <2>2, <2>3 DEF R!Close
  <2> QED
    BY <2>4 DEF R!RNext
<1>6. CASE ActivateNext(one)
  <2>1. /\ c \in Numbers /\ c + 1 \in Numbers /\ full' = full
        /\ cycle[c].status = "COMPLETED" /\ cycle[c + 1].status = "PENDING"
    BY <1>1, <1>6 DEF ActivateNext, CheckKnows, SerialInv, contributions
  <2>2. PICK d \in Numbers : d = c + 1
    BY <2>1
  <2>3. st' = [st EXCEPT ![d] = "ACTIVE"]
    BY <1>1, <1>6, <2>2 DEF ActivateNext, CycleType
  <2>4. \A e \in Numbers : e < d => st[e] = "COMPLETED"
    BY <2>1, <2>2 DEF SerialInv
  <2>5. R!Open(d)
    BY <2>1, <2>2, <2>3, <2>4 DEF R!Open
  <2> QED
    BY <2>5 DEF R!RNext
<1>7. ASSUME NEW d \in Numbers, LoadCycle(one, d) \/ ContributionBlockchainFailed(d)
      PROVE  [R!RNext]_(R!rotationVars)
  BY <1>2, <1>7 DEF LoadCycle, ContributionBlockchainFailed, contributions
<1>8. CASE SumConfirmed(one) \/ AnnouncePayout(one) \/ FindNext(one) \/ AnnounceStart(one)
           \/ Abandon(one)
  BY <1>2, <1>8 DEF SumConfirmed, AnnouncePayout, FindNext, AnnounceStart, Abandon, contributions
<1>9. CASE UNCHANGED vars
  BY <1>2, <1>9 DEF vars
<1> QED
  BY <1>3, <1>4, <1>5, <1>6, <1>7, <1>8, <1>9 DEF Next, CheckStep

(* As long as its checks do not overlap, CyclesService implements the rotation its
   members are promised, for any number of members and wherever a check is cut off. *)
THEOREM RotationImplemented ==
    ASSUME NEW one, Checks = {one}
    PROVE  Spec => ImplementsRotation
<1>1. Init => R!RInit
  BY DEF Init, R!RInit, CreatedCycle, Numbers, R!Numbers
<1>2. Spec => [](OrderInv /\ SerialInv)
  BY OrderInit, OrderStep, SerialInit, SerialStep, PTL DEF Spec
<1>3. OrderInv /\ SerialInv /\ [Next]_vars => [R!RNext]_(R!rotationVars)
  BY RotationStep
<1> QED
  BY <1>1, <1>2, <1>3, PTL DEF Spec, ImplementsRotation, R!RSpec

-----------------------------------------------------------------------------
(* With one check at a time a payout is announced of a completed cycle only, and a check
   that is about to announce one is the first to. *)
PaidInv ==
    /\ \A c \in Numbers : /\ Len(payout[c]) <= 1
                          /\ payout[c] # <<>> => cycle[c].status = "COMPLETED"
    /\ \A k \in Checks : check[k].pc = "payout" => payout[check[k].number] = <<>>

LEMMA PaidInit == Init => PaidInv
<1> SUFFICES ASSUME Init PROVE PaidInv
  OBVIOUS
<1>1. \A c \in Numbers : payout[c] = <<>> /\ Len(<<>>) <= 1
  BY DEF Init
<1>2. \A k \in Checks : check[k].pc = "idle"
  BY DEF Init, NoCheck
<1> QED
  BY <1>1, <1>2 DEF PaidInv

LEMMA PaidStep ==
    ASSUME NEW one, Checks = {one}
    PROVE  OrderInv /\ SerialInv /\ PaidInv /\ [Next]_vars => PaidInv'
<1> SUFFICES ASSUME OrderInv, SerialInv, PaidInv, [Next]_vars PROVE PaidInv'
  OBVIOUS
<1> DEFINE c == check[one].number
<1>1. /\ check \in [Checks -> CheckType] /\ cycle \in [Numbers -> CycleType]
      /\ check[one] \in CheckType /\ CheckKnows(one) /\ payout \in [Numbers -> Seq(Nat)]
  BY DEF OrderInv, TypeOK, CheckType, CycleType, Status
<1>2. ASSUME UNCHANGED payout, check' = check \/ check'[one].pc # "payout",
             \A d \in Numbers : cycle[d].status = "COMPLETED" => cycle'[d].status = "COMPLETED"
      PROVE  PaidInv'
  BY <1>2 DEF PaidInv
<1>3. CASE MarkCompleted(one)
  <2>1. /\ check[one].pc = "complete" /\ c \in Numbers /\ cycle[c].status = "ACTIVE"
        /\ check'[one].pc = "payout" /\ check'[one].number = c /\ payout' = payout
    BY <1>1, <1>3 DEF MarkCompleted, CheckKnows, CheckType, SerialInv, notifications
  <2>2. \A d \in Numbers : cycle'[d].status = IF d = c THEN "COMPLETED" ELSE cycle[d].status
    BY <1>1, <1>3 DEF MarkCompleted, CycleType
  <2>3. payout[c] = <<>>
    BY <2>1 DEF PaidInv
  <2> QED
    BY <2>1, <2>2, <2>3 DEF PaidInv
<1>4. CASE AnnouncePayout(one)
  <2>1. /\ check[one].pc = "payout" /\ c \in Numbers /\ cycle[c].status = "COMPLETED"
        /\ cycle' = cycle /\ payout[c] = <<>> /\ check[one].seen \in Nat
        /\ payout' = [payout EXCEPT ![c] = Append(@, check[one].seen)]
    BY <1>1, <1>4 DEF AnnouncePayout, CheckKnows, CheckType, SerialInv, PaidInv
  <2>2. check'[one].pc = "next"
    BY <1>1, <1>4 DEF AnnouncePayout, CheckType
  <2>3. Len(payout'[c]) = 1
    <3>1. payout'[c] = Append(<<>>, check[one].seen)
      BY <1>1, <2>1
    <3>2. Len(<<>>) = 0 /\ <<>> \in Seq(Nat)
      OBVIOUS
    <3> QED
      BY <2>1, <3>1, <3>2, AppendProperties
  <2>4. \A d \in Numbers : d # c => payout'[d] = payout[d]
    BY <1>1, <2>1
  <2> QED
    BY <2>1, <2>2, <2>3, <2>4 DEF PaidInv
<1>5. CASE StoreTotal(one)
  <2>1. \A d \in Numbers : cycle'[d].status = cycle[d].status
    BY <1>1, <1>5 DEF StoreTotal, CycleType
  <2>2. UNCHANGED payout /\ check'[one].pc # "payout"
    BY <1>1, <1>5 DEF StoreTotal, CheckType, NoCheck, notifications
  <2> QED
    BY <1>2, <2>1, <2>2
<1>6. CASE ActivateNext(one)
  <2>1. /\ c \in Numbers /\ c + 1 \in Numbers /\ cycle[c + 1].status = "PENDING"
        /\ check'[one].pc = "started" /\ UNCHANGED payout
    BY <1>1, <1>6, CyclesAssumption
       DEF ActivateNext, CheckKnows, CheckType, SerialInv, Numbers, notifications
  <2>2. \A d \in Numbers : cycle'[d].status = IF d = c + 1 THEN "ACTIVE" ELSE cycle[d].status
    BY <1>1, <1>6 DEF ActivateNext, CycleType
  <2> QED
    BY <1>2, <2>1, <2>2
<1>7. ASSUME NEW d \in Numbers, LoadCycle(one, d) PROVE PaidInv'
  <2>1. check'[one].pc = "sum"
    BY <1>1, <1>7 DEF LoadCycle
  <2> QED
    BY <1>2, <1>7, <2>1 DEF LoadCycle, notifications
<1>8. CASE SumConfirmed(one) \/ FindNext(one) \/ AnnounceStart(one) \/ Abandon(one)
  <2>1. check'[one].pc \in {"store", "activate", "idle"}
    BY <1>1, <1>8 DEF SumConfirmed, FindNext, AnnounceStart, Abandon, CheckType, NoCheck
  <2>2. cycle' = cycle /\ payout' = payout
    BY <1>8 DEF SumConfirmed, FindNext, AnnounceStart, Abandon, notifications
  <2> QED
    BY <1>2, <2>1, <2>2
<1>9. ASSUME NEW d \in Numbers, PaymentConfirmed(d) \/ ContributionBlockchainFailed(d)
      PROVE  PaidInv'
  BY <1>2, <1>9 DEF PaymentConfirmed, ContributionBlockchainFailed, notifications
<1>10. CASE UNCHANGED vars
  BY <1>2, <1>10 DEF vars, notifications
<1> QED
  BY <1>3, <1>4, <1>5, <1>6, <1>7, <1>8, <1>9, <1>10 DEF Next, CheckStep

(* As long as its checks do not overlap, CyclesService tells each beneficiary of the
   payout once at most, for any number of members and wherever a check is cut off. *)
THEOREM PayoutOnceCorrect ==
    ASSUME NEW one, Checks = {one}
    PROVE  Spec => []PayoutOnce
<1>1. PaidInv => PayoutOnce
  BY DEF PaidInv, PayoutOnce
<1>2. Spec => [](OrderInv /\ SerialInv)
  BY OrderInit, OrderStep, SerialInit, SerialStep, PTL DEF Spec
<1>3. Spec => []PaidInv
  BY <1>2, PaidInit, PaidStep, PTL DEF Spec
<1> QED
  BY <1>1, <1>3, PTL

(* Members pay into one cycle at a time, in their order: before an open cycle all are over,
   after it all are still to come. *)
OneOpen ==
    \A c, d \in Numbers : cycle[c].status = "ACTIVE" /\ d # c =>
       cycle[d].status = IF d < c THEN "COMPLETED" ELSE "PENDING"

(* As long as its checks do not overlap, CyclesService has one cycle open at most, for any
   number of members and wherever a check is cut off (completeCycleAndAdvance). *)
THEOREM OneOpenCorrect ==
    ASSUME NEW one, Checks = {one}
    PROVE  Spec => []OneOpen
<1>1. OrderInv /\ SerialInv => OneOpen
  <2> SUFFICES ASSUME OrderInv, SerialInv, NEW c \in Numbers, NEW d \in Numbers,
                      cycle[c].status = "ACTIVE", d # c
               PROVE  cycle[d].status = IF d < c THEN "COMPLETED" ELSE "PENDING"
    BY DEF OneOpen
  <2>1. cycle[d].status \in Status /\ c \in Nat /\ d \in Nat
    BY CyclesAssumption, Typed DEF OrderInv, CycleType, Numbers
  <2> QED
    BY <2>1 DEF SerialInv, Status
<1>2. Spec => [](OrderInv /\ SerialInv)
  BY OrderInit, OrderStep, SerialInit, SerialStep, PTL DEF Spec
<1> QED
  BY <1>1, <1>2, PTL

-----------------------------------------------------------------------------
(* Nobody loses the thread, for any number of checks at once: the statuses only move
   forward where it matters, and a check gives the thread up only when another has taken
   it further. *)
InHand(c) ==
    \E k \in Checks : check[k].pc \in {"payout", "next", "activate"} /\ check[k].number = c
ToBeTold(c) == \E k \in Checks : check[k].pc = "started" /\ check[k].number = c
Handed(c) ==
    /\ cycle[c].status = "COMPLETED" /\ cycle[c + 1].status = "PENDING" => InHand(c)
    /\ cycle[c + 1].status # "PENDING" /\ c + 1 \notin started => ToBeTold(c)

LEMMA HandedIs == HandedOver <=> (lost = 0 => \A c \in 1 .. N - 1 : Handed(c))
BY DEF HandedOver, Handed, InHand, ToBeTold

LEMMA HandedStep ==
    ASSUME OrderInv, [Next]_vars, lost' = lost, NEW c \in 1 .. N - 1, Handed(c)
    PROVE  Handed(c)'
<1> USE CyclesAssumption DEF Numbers
<1>1. /\ TypeOK /\ cycle \in [Numbers -> CycleType] /\ check \in [Checks -> CheckType]
      /\ \A k \in Checks : CheckKnows(k) /\ check[k] \in CheckType
      /\ c \in Numbers /\ c + 1 \in Numbers /\ lost \in Nat
  <2>1. TypeOK /\ \A k \in Checks : CheckKnows(k)
    BY DEF OrderInv
  <2>2. cycle \in [Numbers -> CycleType] /\ check \in [Checks -> CheckType]
    BY <2>1, Typed
  <2>3. lost \in Nat
    BY <2>1 DEF TypeOK
  <2> QED
    BY <2>1, <2>2, <2>3
<1>2. CASE /\ \A d \in Numbers : cycle'[d].status = cycle[d].status
           /\ started' = started
           /\ \A k \in Checks :
                 \/ check'[k] = check[k]
                 \/ check[k].pc \notin {"payout", "next", "activate", "started"}
  BY <1>1, <1>2 DEF Handed, InHand, ToBeTold
<1>3. ASSUME NEW d \in Numbers, PaymentConfirmed(d) \/ ContributionBlockchainFailed(d)
      PROVE  Handed(c)'
  BY <1>2, <1>3 DEF PaymentConfirmed, ContributionBlockchainFailed, notifications
<1>4. ASSUME NEW k \in Checks, \E d \in Numbers : LoadCycle(k, d) PROVE Handed(c)'
  <2>1. check[k].pc = "idle" /\ \A j \in Checks : j # k => check'[j] = check[j]
    BY <1>1, <1>4 DEF LoadCycle
  <2> QED
    BY <1>2, <1>4, <2>1 DEF LoadCycle, notifications
<1>5. ASSUME NEW k \in Checks, SumConfirmed(k) PROVE Handed(c)'
  <2>1. check[k].pc = "sum" /\ \A j \in Checks : j # k => check'[j] = check[j]
    BY <1>1, <1>5 DEF SumConfirmed
  <2> QED
    BY <1>2, <1>5, <2>1 DEF SumConfirmed, notifications
<1>6. ASSUME NEW k \in Checks, StoreTotal(k) PROVE Handed(c)'
  <2>1. check[k].pc = "store" /\ \A j \in Checks : j # k => check'[j] = check[j]
    BY <1>1, <1>6 DEF StoreTotal
  <2>2. \A d \in Numbers : cycle'[d].status = cycle[d].status
    BY <1>1, <1>6 DEF StoreTotal, CycleType
  <2> QED
    BY <1>2, <1>6, <2>1, <2>2 DEF StoreTotal, notifications
<1>7. ASSUME NEW k \in Checks, MarkCompleted(k) PROVE Handed(c)'
  <2>1. /\ check[k].pc = "complete" /\ check'[k].pc = "payout" /\ check'[k].number = check[k].number
        /\ \A j \in Checks : j # k => check'[j] = check[j]
        /\ started' = started
        /\ check[k].number \in Numbers /\ cycle[check[k].number].status # "PENDING"
    BY <1>1, <1>7 DEF MarkCompleted, CheckType, CheckKnows, notifications
  <2>2. \A d \in Numbers : cycle'[d].status = IF d = check[k].number THEN "COMPLETED"
                                                                     ELSE cycle[d].status
    BY <1>1, <1>7, <2>1 DEF MarkCompleted, CycleType
  <2>3. (InHand(c) \/ c = check[k].number => InHand(c)') /\ (ToBeTold(c) => ToBeTold(c)')
    BY <2>1 DEF InHand, ToBeTold
  <2> QED
    BY <1>1, <2>1, <2>2, <2>3 DEF Handed
<1>8. ASSUME NEW k \in Checks, AnnouncePayout(k) PROVE Handed(c)'
  <2>1. /\ check[k].pc = "payout" /\ check'[k].pc = "next" /\ check'[k].number = check[k].number
        /\ \A j \in Checks : j # k => check'[j] = check[j]
        /\ UNCHANGED <<cycle, started>>
    BY <1>1, <1>8 DEF AnnouncePayout, CheckType
  <2>2. (InHand(c) => InHand(c)') /\ (ToBeTold(c) => ToBeTold(c)')
    BY <2>1 DEF InHand, ToBeTold
  <2> QED
    BY <2>1, <2>2 DEF Handed
<1>9. ASSUME NEW k \in Checks, FindNext(k) PROVE Handed(c)'
  <2>1. /\ check[k].pc = "next" /\ UNCHANGED <<cycle, started>>
        /\ \A j \in Checks : j # k => check'[j] = check[j]
        /\ NextExists(check[k].number) => check'[k].pc = "activate" /\ check'[k].number = check[k].number
    BY <1>1, <1>9 DEF FindNext, CheckType, notifications
  <2>2. ToBeTold(c) => ToBeTold(c)'
    BY <2>1 DEF ToBeTold
  <2>3. InHand(c) /\ cycle[c + 1].status = "PENDING" => InHand(c)'
    BY <2>1 DEF InHand, NextExists
  <2> QED
    BY <2>1, <2>2, <2>3 DEF Handed
<1>10. ASSUME NEW k \in Checks, ActivateNext(k) PROVE Handed(c)'
  <2> DEFINE d == check[k].number + 1
  <2>1. /\ check[k].pc = "activate" /\ check'[k].pc = "started"
        /\ check'[k].number = check[k].number
        /\ \A j \in Checks : j # k => check'[j] = check[j]
        /\ started' = started /\ check[k].number \in Numbers /\ d \in Numbers
    BY <1>1, <1>10 DEF ActivateNext, CheckType, CheckKnows, notifications
  <2>2. \A i \in Numbers : cycle'[i].status = IF i = d THEN "ACTIVE" ELSE cycle[i].status
    BY <1>1, <1>10, <2>1 DEF ActivateNext, CycleType
  <2>3. (ToBeTold(c) \/ c = check[k].number) => ToBeTold(c)'
    BY <2>1 DEF ToBeTold
  <2>4. c # check[k].number /\ InHand(c) => InHand(c)'
    BY <2>1 DEF InHand
  <2> QED
    BY <1>1, <2>1, <2>2, <2>3, <2>4 DEF Handed
<1>11. ASSUME NEW k \in Checks, AnnounceStart(k) PROVE Handed(c)'
  <2>1. /\ check[k].pc = "started" /\ started' = started \cup {check[k].number + 1}
        /\ \A j \in Checks : j # k => check'[j] = check[j]
        /\ cycle' = cycle
    BY <1>1, <1>11 DEF AnnounceStart
  <2>2. InHand(c) => InHand(c)'
    BY <2>1 DEF InHand
  <2>3. ToBeTold(c) => ToBeTold(c)' \/ c = check[k].number
    BY <2>1 DEF ToBeTold
  <2> QED
    BY <2>1, <2>2, <2>3 DEF Handed
<1>12. CASE UNCHANGED vars
  BY <1>2, <1>12 DEF vars, notifications
<1>13. ~\E k \in Checks : Abandon(k)
  BY <1>1 DEF Abandon
<1> QED
  BY <1>3, <1>4, <1>5, <1>6, <1>7, <1>8, <1>9, <1>10, <1>11, <1>12, <1>13 DEF Next, CheckStep

(* However many checks of any cycles overlap, as long as none is cut off a completed cycle
   is in the hands of a check until the next one is open, and the next beneficiary is told
   (completeCycleAndAdvance): the safety half of CompletionAdvances. *)
THEOREM HandedOverCorrect == Spec => []HandedOver
<1>1. Init => HandedOver
  BY CyclesAssumption DEF Init, HandedOver, CreatedCycle, Numbers
<1>2. OrderInv /\ HandedOver /\ [Next]_vars => HandedOver'
  <2> SUFFICES ASSUME OrderInv, HandedOver, [Next]_vars, lost' = 0, NEW c \in 1 .. N - 1
               PROVE  Handed(c)'
    BY DEF HandedOver, Handed, InHand, ToBeTold
  <2>1. CASE \E k \in Checks : Abandon(k)
    <3>1. lost \in Nat
      BY DEF OrderInv, TypeOK
    <3> QED
      BY <2>1, <3>1 DEF Abandon
  <2>2. CASE lost' = lost
    BY <2>2, HandedIs, HandedStep
  <2>3. CASE \E c1 \in Numbers : PaymentConfirmed(c1) \/ ContributionBlockchainFailed(c1)
    BY <2>2, <2>3 DEF PaymentConfirmed, ContributionBlockchainFailed
  <2>4. CASE \E k \in Checks : CheckStep(k) \/ \E c1 \in Numbers : LoadCycle(k, c1)
    <3>1. lost' = lost
      BY <2>4 DEF CheckStep, LoadCycle, SumConfirmed, StoreTotal, MarkCompleted,
                  AnnouncePayout, FindNext, ActivateNext, AnnounceStart
    <3> QED
      BY <2>2, <3>1
  <2>5. CASE UNCHANGED vars
    BY <2>2, <2>5 DEF vars
  <2> QED
    BY <2>1, <2>3, <2>4, <2>5 DEF Next
<1> QED
  BY <1>1, <1>2, OrderCorrect, PTL DEF Spec
=============================================================================
