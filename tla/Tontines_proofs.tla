--------------------------- MODULE Tontines_proofs ---------------------------
(* Proofs about Tontines, for any number of users and of requests in progress. *)
EXTENDS Tontines, SequenceTheorems, FiniteSetTheorems, TLAPS

Stages == {"ABSENT", "DRAFT", "OPEN", "ACTIVE"}
TontineType == [status : Stages, max : Nat]
MemberType == [status : MemberStatus \cup {"NONE"}, role : {"NONE", "ORGANIZER", "MEMBER"}]
CallType == [pc : {"idle", "organizer", "update", "open", "join", "member",
                   "status", "start", "cycles", "announce"},
             who : Users, value : MemberStatus \cup {"NONE"}, max : Nat, seen : SUBSET Users]

(* Only the creator has the organizer's role, and with it a confirmed membership. *)
OneOrganizer ==
    \A u \in Users : member[u].role = "ORGANIZER" =>
        u = Organizer /\ member[u].status = "CONFIRMED"

ConfirmedIsApproved == \A u \in Users : member[u].status = "CONFIRMED" => u \in approved

(* What a request in progress knows: all but the first that there is an organizer;
   updateMemberStatus that it is not about them; start that it has read two members or more, all of them confirmed at some
   time and the organizer among them. *)
CallKnows(s) ==
    /\ call[s].pc \in {"open", "member", "status", "join", "start", "cycles"} => Known
    /\ call[s].pc = "status" => call[s].who # Organizer
    /\ call[s].pc \in {"start", "cycles"} =>
          /\ call[s].seen \subseteq approved
          /\ Organizer \in call[s].seen
          /\ Cardinality(call[s].seen) >= 2

TontineInv ==
    /\ TypeOK
    /\ OneOrganizer
    /\ ConfirmedIsApproved
    /\ \A s \in Slots : CallKnows(s)
    /\ RotationOfApproved

LEMMA TontineInit == Init => TontineInv
<1> SUFFICES ASSUME Init PROVE TontineInv
  OBVIOUS
<1> USE TontinesAssumption DEF Init, NoMember, NoCall
<1>1. TypeOK
  <2>1. NoCall \in CallType /\ NoMember \in MemberType
    BY DEF CallType, MemberType, MemberStatus
  <2>2. call \in [Slots -> CallType] /\ member \in [Users -> MemberType]
    BY <2>1
  <2>3. tontine \in TontineType /\ rotations \in Seq(Seq(Users))
    BY DEF TontineType, Stages
  <2> QED
    BY <2>2, <2>3 DEF TypeOK, CallType, MemberType, TontineType, Stages
<1>2. OneOrganizer /\ ConfirmedIsApproved
  BY DEF OneOrganizer, ConfirmedIsApproved
<1>3. \A s \in Slots : CallKnows(s)
  BY DEF CallKnows
<1>4. RotationOfApproved
  BY DEF RotationOfApproved
<1> QED
  BY <1>1, <1>2, <1>3, <1>4 DEF TontineInv

(* Sets of users are finite. *)
LEMMA UsersCounted ==
    ASSUME NEW S \in SUBSET Users
    PROVE  IsFiniteSet(S) /\ Cardinality(S) \in Nat
BY FS_Subset, FS_CardinalityType, TontinesAssumption

LEMMA Typed ==
    ASSUME TontineInv, NEW s \in Slots
    PROVE  /\ call \in [Slots -> CallType] /\ call[s] \in CallType /\ CallKnows(s)
           /\ member \in [Users -> MemberType] /\ tontine \in TontineType
           /\ rotations \in Seq(Seq(Users)) /\ approved \subseteq Users
           /\ announced \subseteq Users /\ overlapped \in BOOLEAN /\ lost \in Nat
           /\ OneOrganizer /\ ConfirmedIsApproved /\ RotationOfApproved
           /\ NoCall \in CallType
<1>1. NoCall \in CallType
  BY TontinesAssumption DEF NoCall, CallType, MemberStatus
<1> QED
  BY <1>1 DEF TontineInv, TypeOK, CallType, MemberType, TontineType, Stages

(* What is left to show of a step that creates no cycles: one call moves to h, members
   stay members, and h knows what it says. *)
LEMMA Kept ==
    ASSUME TontineInv, NEW s \in Slots, NEW h \in CallType, call' = [call EXCEPT ![s] = h],
           tontine' \in TontineType, member' \in [Users -> MemberType],
           approved \subseteq approved', approved' \subseteq Users, UNCHANGED rotations,
           announced' \subseteq Users, overlapped' \in BOOLEAN, lost' \in Nat,
           OneOrganizer', ConfirmedIsApproved', Known => Known',
           h.pc \in {"open", "member", "status", "join", "start", "cycles"} => Known,
           h.pc = "status" => h.who # Organizer,
           h.pc \in {"start", "cycles"} => /\ h.seen \subseteq approved
                                           /\ Organizer \in h.seen
                                           /\ Cardinality(h.seen) >= 2
    PROVE  TontineInv'
<1>1. /\ call' \in [Slots -> CallType] /\ call'[s] = h
      /\ \A t \in Slots : t # s => call'[t] = call[t]
  BY Typed
<1>2. TypeOK'
  <2>1. rotations' \in Seq(Seq(Users))
    BY Typed
  <2> QED
    BY <1>1, <2>1 DEF TypeOK, CallType, MemberType, TontineType, Stages
<1>3. \A t \in Slots : CallKnows(t)'
  <2>1. CallKnows(s)'
    BY <1>1 DEF CallKnows
  <2>2. ASSUME NEW t \in Slots, t # s PROVE CallKnows(t)'
    <3>1. CallKnows(t) /\ call'[t] = call[t]
      BY <1>1, <2>2 DEF TontineInv
    <3> QED
      BY <3>1 DEF CallKnows
  <2> QED
    BY <2>1, <2>2
<1>4. RotationOfApproved'
  BY Typed DEF RotationOfApproved
<1> QED
  BY <1>2, <1>3, <1>4 DEF TontineInv

(* A request ends. *)
LEMMA Returns ==
    ASSUME TontineInv, NEW s \in Slots, Return(s),
           tontine' \in TontineType, member' \in [Users -> MemberType],
           approved \subseteq approved', approved' \subseteq Users, UNCHANGED rotations,
           announced' \subseteq Users, overlapped' \in BOOLEAN, lost' \in Nat,
           OneOrganizer', ConfirmedIsApproved', Known => Known'
    PROVE  TontineInv'
<1>1. call' = [call EXCEPT ![s] = NoCall] /\ NoCall \in CallType /\ NoCall.pc = "idle"
  BY Typed DEF Return, NoCall
<1> QED
  BY <1>1, Kept

(* A request passes its checks, or goes on: nothing but the call changes. *)
LEMMA Moves ==
    ASSUME TontineInv, NEW s \in Slots, NEW h \in CallType, call' = [call EXCEPT ![s] = h],
           tontine' \in TontineType, overlapped' \in BOOLEAN,
           UNCHANGED <<membership, cycles, lost>>,
           h.pc \in {"open", "member", "status", "join", "start", "cycles"} => Known,
           h.pc = "status" => h.who # Organizer,
           h.pc \in {"start", "cycles"} => /\ h.seen \subseteq approved
                                           /\ Organizer \in h.seen
                                           /\ Cardinality(h.seen) >= 2
    PROVE  TontineInv'
<1>1. UNCHANGED <<member, approved, rotations, announced, lost>>
  BY DEF membership, cycles
<1>2. /\ member' \in [Users -> MemberType] /\ approved' \subseteq Users /\ lost' \in Nat
      /\ announced' \subseteq Users
  BY <1>1, Typed
<1>3. OneOrganizer' /\ ConfirmedIsApproved' /\ (Known => Known')
  BY <1>1, Typed DEF OneOrganizer, ConfirmedIsApproved, Known
<1> QED
  BY <1>1, <1>2, <1>3, Kept

(* A request that begins is at h, and the tontine is as it was or another one. *)
LEMMA Begins ==
    ASSUME TontineInv, NEW s \in Slots, NEW h \in CallType, Begin(s, h),
           tontine' \in TontineType,
           UNCHANGED <<membership, cycles, lost>>,
           h.pc \in {"open", "member", "status", "join", "start", "cycles"} => Known,
           h.pc # "status",
           h.pc \in {"start", "cycles"} => /\ h.seen \subseteq approved
                                           /\ Organizer \in h.seen
                                           /\ Cardinality(h.seen) >= 2
    PROVE  TontineInv'
<1>1. call' = [call EXCEPT ![s] = h] /\ overlapped' \in BOOLEAN
  <2>1. overlapped \in BOOLEAN
    BY Typed
  <2>2. overlapped' = (overlapped \/ \E t \in Slots \ {s} : call[t].pc # "idle")
    BY DEF Begin
  <2> QED
    BY <2>1, <2>2 DEF Begin
<1> QED
  BY <1>1, Moves

(* Requests as they begin. *)
LEMMA AtTyped ==
    /\ \A pc \in {"organizer", "open", "update", "join", "member", "start", "announce"} :
          At(pc) \in CallType /\ At(pc).pc = pc
    /\ \A n \in Nat : LET h == [At("update") EXCEPT !.max = n]
                      IN  h \in CallType /\ h.pc = "update" /\ h.max = n
    /\ \A u \in Users : LET h == [At("join") EXCEPT !.who = u]
                        IN  h \in CallType /\ h.pc = "join"
    /\ \A u \in Users, st \in MemberStatus :
          LET h == [At("member") EXCEPT !.who = u, !.value = st]
          IN  h \in CallType /\ h.pc = "member"
    /\ \A u \in Users : LET h == [At("announce") EXCEPT !.who = u]
                        IN  h \in CallType /\ h.pc = "announce"
    /\ \A S \in SUBSET Users : LET h == [At("start") EXCEPT !.seen = S]
                               IN  h \in CallType /\ h.pc = "start" /\ h.seen = S
<1>1. Organizer \in Users
  BY TontinesAssumption
<1> QED
  BY <1>1 DEF At, NoCall, CallType, MemberStatus

-----------------------------------------------------------------------------
LEMMA SaveTontineStep ==
    ASSUME TontineInv, NEW s \in Slots, SaveTontine(s) PROVE TontineInv'
<1>1. At("organizer") \in CallType /\ At("organizer").pc = "organizer"
  BY AtTyped
<1>2. tontine' \in TontineType
  BY TontinesAssumption DEF SaveTontine, TontineType, Stages
<1> DEFINE h == At("organizer")
<1>3. Begin(s, h) /\ UNCHANGED <<membership, cycles, lost>>
  BY DEF SaveTontine
<1> HIDE DEF h
<1> QED
  BY <1>1, <1>2, <1>3, Begins DEF h

LEMMA LoadForUpdateStep ==
    ASSUME TontineInv, NEW s \in Slots, LoadForUpdate(s) PROVE TontineInv'
<1>1. PICK n \in Sizes : Begin(s, [At("update") EXCEPT !.max = n])
  BY DEF LoadForUpdate
<1>2. n \in Nat
  BY TontinesAssumption
<1> DEFINE h == [At("update") EXCEPT !.max = n]
<1>3. h \in CallType /\ h.pc = "update"
  BY <1>2, AtTyped
<1>4. tontine' \in TontineType /\ UNCHANGED <<membership, cycles, lost>>
  BY Typed DEF LoadForUpdate
<1>5. Begin(s, h)
  BY <1>1
<1> HIDE DEF h
<1> QED
  BY <1>3, <1>4, <1>5, Begins

LEMMA LoadForOpenStep ==
    ASSUME TontineInv, NEW s \in Slots, LoadForOpen(s) PROVE TontineInv'
<1> DEFINE h == At("open")
<1>1. h \in CallType /\ h.pc = "open"
  BY AtTyped
<1>2. tontine' \in TontineType /\ UNCHANGED <<membership, cycles, lost>> /\ Begin(s, h) /\ Known
  BY Typed DEF LoadForOpen
<1> HIDE DEF h
<1> QED
  BY <1>1, <1>2, Begins

LEMMA LoadForJoinStep ==
    ASSUME TontineInv, NEW s \in Slots, NEW u \in Users, LoadForJoin(s, u)
    PROVE  TontineInv'
<1> DEFINE h == [At("join") EXCEPT !.who = u]
<1>1. h \in CallType /\ h.pc = "join"
  BY AtTyped
<1>2. /\ tontine' \in TontineType /\ UNCHANGED <<membership, cycles, lost>>
      /\ Begin(s, h) /\ Known
  BY Typed DEF LoadForJoin
<1> HIDE DEF h
<1> QED
  BY <1>1, <1>2, Begins

LEMMA LoadForStatusStep ==
    ASSUME TontineInv, NEW s \in Slots, NEW u \in Users, NEW st \in MemberStatus,
           LoadForStatus(s, u, st)
    PROVE  TontineInv'
<1> DEFINE h == [At("member") EXCEPT !.who = u, !.value = st]
<1>1. h \in CallType /\ h.pc = "member"
  BY AtTyped
<1>2. /\ tontine' \in TontineType /\ UNCHANGED <<membership, cycles, lost>>
      /\ Begin(s, h) /\ Known
  BY Typed DEF LoadForStatus
<1> HIDE DEF h
<1> QED
  BY <1>1, <1>2, Begins

LEMMA LoadForStartStep ==
    ASSUME TontineInv, NEW s \in Slots, LoadForStart(s) PROVE TontineInv'
<1> DEFINE h == [At("start") EXCEPT !.seen = Confirmed]
<1>1. Confirmed \in SUBSET Users
  BY DEF Confirmed
<1>2. h \in CallType /\ h.pc = "start" /\ h.seen = Confirmed
  BY <1>1, AtTyped
<1>3. /\ tontine' \in TontineType /\ UNCHANGED <<membership, cycles, lost>>
      /\ Begin(s, h) /\ Known /\ Cardinality(Confirmed) >= 2
  BY Typed DEF LoadForStart
<1>4. Confirmed \subseteq approved /\ Organizer \in Confirmed
  BY <1>3, Typed, TontinesAssumption DEF Confirmed, ConfirmedIsApproved, OneOrganizer, Known
<1> HIDE DEF h
<1> QED
  BY <1>2, <1>3, <1>4, Begins

-----------------------------------------------------------------------------
LEMMA SaveOrganizerStep ==
    ASSUME TontineInv, NEW s \in Slots, SaveOrganizer(s) PROVE TontineInv'
<1> DEFINE row == [status |-> "CONFIRMED", role |-> "ORGANIZER"]
<1>1. /\ member' = [member EXCEPT ![Organizer] = row] /\ row \in MemberType
      /\ row.status = "CONFIRMED" /\ row.role = "ORGANIZER"
      /\ approved' = approved \cup {Organizer} /\ Return(s)
  BY DEF SaveOrganizer, MemberType, MemberStatus
<1>2. UNCHANGED <<tontine, rotations, announced, overlapped, lost>>
  BY DEF SaveOrganizer, cycles
<1> HIDE DEF row
<1>3. Organizer \in Users
  BY TontinesAssumption
<1>4. member' \in [Users -> MemberType] /\ member'[Organizer] = row
  BY <1>1, <1>3, Typed
<1>5. /\ tontine' \in TontineType /\ announced' \subseteq Users /\ overlapped' \in BOOLEAN
      /\ lost' \in Nat /\ approved' \subseteq Users
  BY <1>1, <1>2, <1>3, Typed
<1>6. OneOrganizer' /\ ConfirmedIsApproved' /\ Known'
  BY <1>1, <1>3, <1>4, Typed DEF OneOrganizer, ConfirmedIsApproved, Known
<1> QED
  BY <1>1, <1>2, <1>4, <1>5, <1>6, Returns

LEMMA SaveMemberStep ==
    ASSUME TontineInv, NEW s \in Slots, SaveMember(s) PROVE TontineInv'
<1> DEFINE u == call[s].who
           row == [status |-> "PENDING", role |-> "MEMBER"]
<1>1. /\ u \in Users /\ Known /\ row \in MemberType
      /\ row.status = "PENDING" /\ row.role = "MEMBER"
  BY Typed DEF SaveMember, CallKnows, CallType, MemberType, MemberStatus
<1>2. /\ member' = IF u \in Members THEN member ELSE [member EXCEPT ![u] = row]
      /\ Return(s)
  BY DEF SaveMember
<1>3. UNCHANGED <<tontine, approved, rotations, announced, overlapped, lost>>
  BY DEF SaveMember, cycles
<1>4. /\ tontine' \in TontineType /\ announced' \subseteq Users /\ overlapped' \in BOOLEAN
      /\ lost' \in Nat /\ approved' \subseteq Users
  BY <1>3, Typed
<1> HIDE DEF u, row
<1>5. member' \in [Users -> MemberType]
  BY <1>1, <1>2, Typed
<1>6. CASE u \in Members
  <2>1. OneOrganizer' /\ ConfirmedIsApproved' /\ Known'
    BY <1>1, <1>2, <1>3, <1>6, Typed DEF OneOrganizer, ConfirmedIsApproved, Known
  <2> QED
    BY <1>2, <1>3, <1>4, <1>5, <2>1, Returns
<1>7. CASE u \notin Members
  <2>1. u # Organizer
    BY <1>1, <1>7, Typed DEF Members, OneOrganizer, Known
  <2>2. OneOrganizer' /\ ConfirmedIsApproved' /\ Known'
    BY <1>1, <1>2, <1>3, <1>7, <2>1, Typed, TontinesAssumption
       DEF OneOrganizer, ConfirmedIsApproved, Known
  <2> QED
    BY <1>2, <1>3, <1>4, <1>5, <2>2, Returns
<1> QED
  BY <1>6, <1>7

LEMMA ApplyStatusStep ==
    ASSUME TontineInv, NEW s \in Slots, ApplyStatus(s) PROVE TontineInv'
<1> DEFINE u == call[s].who
           v == call[s].value
<1>1. /\ u \in Users /\ Known /\ u # Organizer /\ v \in MemberStatus \cup {"NONE"}
  BY Typed DEF ApplyStatus, CallKnows, CallType
<1>2. /\ member' = [member EXCEPT ![u].status = v]
      /\ approved' = IF v = "CONFIRMED" THEN approved \cup {u} ELSE approved
      /\ Return(s)
  BY DEF ApplyStatus
<1>3. UNCHANGED <<tontine, rotations, announced, overlapped, lost>>
  BY DEF ApplyStatus, cycles
<1> HIDE DEF u, v
<1> DEFINE row == [member[u] EXCEPT !.status = v]
<1>4. row \in MemberType /\ row.status = v /\ row.role = member[u].role
  <2>1. member[u] \in MemberType
    BY <1>1, Typed
  <2> QED
    BY <1>1, <2>1 DEF MemberType
<1>5. member' = [member EXCEPT ![u] = row]
  BY <1>1, <1>2, Typed
<1> HIDE DEF row
<1>6. /\ member' \in [Users -> MemberType] /\ member'[u] = row
      /\ \A w \in Users : w # u => member'[w] = member[w]
  BY <1>1, <1>4, <1>5, Typed
<1>7. /\ tontine' \in TontineType /\ announced' \subseteq Users /\ overlapped' \in BOOLEAN
      /\ lost' \in Nat /\ approved \subseteq approved' /\ approved' \subseteq Users
  BY <1>1, <1>2, <1>3, Typed
<1>8. member[u].role # "ORGANIZER"
  BY <1>1, Typed DEF OneOrganizer
<1>9. OneOrganizer'
  BY <1>4, <1>6, <1>8, Typed DEF OneOrganizer
<1>10. ConfirmedIsApproved'
  BY <1>2, <1>4, <1>6, <1>7, Typed DEF ConfirmedIsApproved
<1>11. Known'
  BY <1>1, <1>6, TontinesAssumption DEF Known
<1> QED
  BY <1>2, <1>3, <1>6, <1>7, <1>9, <1>10, <1>11, Returns

(* Steps of a request that change no member and no rotation. *)
LEMMA PlainStep ==
    ASSUME TontineInv, NEW s \in Slots,
           ApplyUpdate(s) \/ ApplyOpen(s) \/ AnnounceFirst(s) \/ Abandon(s)
    PROVE  TontineInv'
<1>1. /\ Return(s) /\ UNCHANGED <<member, approved, rotations>>
      /\ overlapped' = overlapped
  BY DEF ApplyUpdate, ApplyOpen, AnnounceFirst, Abandon, membership, cycles
<1>2. call[s].max \in Nat /\ call[s].who \in Users
  BY Typed DEF CallType
<1>3. tontine' \in TontineType
  <2>1. tontine \in TontineType
    BY Typed
  <2> QED
    BY <1>2, <2>1 DEF ApplyUpdate, ApplyOpen, AnnounceFirst, Abandon, TontineType, Stages
<1>4. lost' \in Nat /\ announced' \subseteq Users
  <2>1. lost \in Nat /\ announced \subseteq Users
    BY Typed
  <2> QED
    BY <1>2, <2>1 DEF ApplyUpdate, ApplyOpen, AnnounceFirst, Abandon, cycles
<1>5. /\ member' \in [Users -> MemberType] /\ approved' \subseteq Users
      /\ overlapped' \in BOOLEAN
  BY <1>1, Typed
<1>6. OneOrganizer' /\ ConfirmedIsApproved' /\ (Known => Known')
  BY <1>1, Typed DEF OneOrganizer, ConfirmedIsApproved, Known
<1> QED
  BY <1>1, <1>3, <1>4, <1>5, <1>6, Returns

LEMMA FindMemberStep ==
    ASSUME TontineInv, NEW s \in Slots, FindMember(s) PROVE TontineInv'
<1>1. /\ Known /\ UNCHANGED <<tontine, membership, cycles, overlapped, lost>>
      /\ tontine' \in TontineType /\ overlapped' \in BOOLEAN
  BY Typed DEF FindMember, CallKnows
<1>2. CASE member[call[s].who].role = "ORGANIZER"
  <2>1. call' = [call EXCEPT ![s] = NoCall] /\ NoCall \in CallType /\ NoCall.pc = "idle"
    BY <1>2, Typed DEF FindMember, Return, NoCall
  <2> QED
    BY <1>1, <2>1, Moves
<1>3. CASE member[call[s].who].role # "ORGANIZER"
  <2> DEFINE h == [call[s] EXCEPT !.pc = "status"]
  <2>1. h \in CallType /\ h.pc = "status" /\ h.who = call[s].who
    <3>1. call[s] \in CallType
      BY Typed
    <3> QED
      BY <3>1 DEF CallType
  <2>2. call' = [call EXCEPT ![s] = h]
    BY <1>3, Typed DEF FindMember, GoTo
  <2>3. call[s].who # Organizer
    BY <1>1, <1>3 DEF Known
  <2> HIDE DEF h
  <2> QED
    BY <1>1, <2>1, <2>2, <2>3, Moves
<1> QED
  BY <1>2, <1>3

LEMMA ApplyStartStep ==
    ASSUME TontineInv, NEW s \in Slots, ApplyStart(s) PROVE TontineInv'
<1>1. /\ Known /\ UNCHANGED <<membership, cycles, overlapped, lost>>
      /\ call[s].seen \subseteq approved /\ Organizer \in call[s].seen
      /\ Cardinality(call[s].seen) >= 2 /\ overlapped' \in BOOLEAN
  BY Typed DEF ApplyStart, CallKnows
<1>2. tontine' \in TontineType
  <2>1. tontine \in TontineType
    BY Typed
  <2> QED
    BY <2>1 DEF ApplyStart, TontineType, Stages
<1> DEFINE h == [call[s] EXCEPT !.pc = "cycles"]
<1>3. h \in CallType /\ h.pc = "cycles" /\ h.seen = call[s].seen
  <2>1. call[s] \in CallType
    BY Typed
  <2> QED
    BY <2>1 DEF CallType
<1>4. call' = [call EXCEPT ![s] = h]
  BY Typed DEF ApplyStart, GoTo
<1> HIDE DEF h
<1> QED
  BY <1>1, <1>2, <1>3, <1>4, Moves

-----------------------------------------------------------------------------
(* createCycles' order: as many as there are members, each once, the organizer first. *)
LEMMA OrderProperties ==
    ASSUME TontineInv, NEW s \in Slots, NEW S \in SUBSET Users, Organizer \in S, Known,
           Cardinality(S) >= 2, NEW p \in Orders(S)
    PROVE  /\ p \in Seq(Users) /\ Len(p) = Cardinality(S) /\ DOMAIN p = 1..Len(p)
           /\ IsInjective(p) /\ Range(p) \subseteq S /\ p[1] = Organizer
<1> DEFINE n == Cardinality(S)
<1>1. n \in Nat /\ n >= 2
  BY UsersCounted
<1>2. /\ p \in [1..n -> S] /\ IsInjective(p)
      /\ \A u \in S : \E i \in 1..n : p[i] = u
      /\ \A i, j \in DOMAIN p : i < j => PayoutOrder(p[i]) <= PayoutOrder(p[j])
  BY DEF Orders, Bijection, Injection, Surjection
<1> HIDE DEF n
<1>3. p \in Seq(Users) /\ Len(p) = n /\ DOMAIN p = 1..n
  <2>1. p \in [1..n -> Users]
    BY <1>2
  <2>2. p \in Seq(Users)
    BY <1>1, <2>1, SeqDef
  <2> QED
    BY <1>1, <1>2, <2>2, LenProperties
<1>4. Range(p) \subseteq S
  BY <1>2, <1>3 DEF Range
<1>5. p[1] = Organizer
  <2>1. PICK i \in 1..n : p[i] = Organizer
    BY <1>2
  <2>2. p[1] \in Users /\ 1 \in DOMAIN p /\ i \in DOMAIN p
    BY <1>1, <1>2, <1>3
  <2>3. ASSUME p[1] # Organizer PROVE FALSE
    <3>1. 1 < i
      BY <1>1, <2>1, <2>3
    <3>2. PayoutOrder(p[1]) <= PayoutOrder(p[i])
      BY <1>2, <2>2, <3>1
    <3>3. PayoutOrder(p[i]) = 1
      BY <2>1 DEF PayoutOrder, Known
    <3>4. PayoutOrder(p[1]) = 999
      BY <2>2, <2>3, Typed DEF PayoutOrder, OneOrganizer
    <3> QED
      BY <3>2, <3>3, <3>4
  <2> QED
    BY <2>3
<1> QED
  BY <1>1, <1>2, <1>3, <1>4, <1>5 DEF n

LEMMA SaveCyclesStep ==
    ASSUME TontineInv, NEW s \in Slots, SaveCycles(s) PROVE TontineInv'
<1>1. /\ Known /\ UNCHANGED <<tontine, member, approved, announced, overlapped, lost>>
      /\ call[s].seen \subseteq approved /\ Organizer \in call[s].seen
      /\ Cardinality(call[s].seen) >= 2 /\ call[s].seen \in SUBSET Users
  BY Typed DEF SaveCycles, CallKnows, CallType, membership
<1>2. PICK p \in Orders(call[s].seen) :
         /\ rotations' = Append(rotations, p)
         /\ call' = [call EXCEPT ![s] = [At("announce") EXCEPT !.who = p[1]]]
  BY DEF SaveCycles
<1>3. /\ p \in Seq(Users) /\ Len(p) >= 2 /\ IsInjective(p) /\ Range(p) \subseteq approved
      /\ p[1] = Organizer
  BY <1>1, OrderProperties
<1> DEFINE h == [At("announce") EXCEPT !.who = Organizer]
<1>4. h \in CallType /\ h.pc = "announce"
  BY TontinesAssumption, AtTyped
<1>5. call' = [call EXCEPT ![s] = h]
  BY <1>2, <1>3
<1> HIDE DEF h
<1>6. /\ call' \in [Slots -> CallType] /\ call'[s] = h
      /\ \A t \in Slots : t # s => call'[t] = call[t]
  BY <1>4, <1>5, Typed
<1>7. /\ rotations' \in Seq(Seq(Users)) /\ Len(rotations') = Len(rotations) + 1
      /\ \A i \in 1..Len(rotations) : rotations'[i] = rotations[i]
      /\ rotations'[Len(rotations) + 1] = p
  BY <1>2, <1>3, Typed, AppendProperties
<1>8. TypeOK'
  <2>1. /\ tontine' \in TontineType /\ member' \in [Users -> MemberType]
        /\ approved' \subseteq Users /\ announced' \subseteq Users
        /\ overlapped' \in BOOLEAN /\ lost' \in Nat
    BY <1>1, Typed
  <2> QED
    BY <1>6, <1>7, <2>1 DEF TypeOK, CallType, MemberType, TontineType, Stages
<1>9. OneOrganizer' /\ ConfirmedIsApproved' /\ Known'
  BY <1>1, Typed DEF OneOrganizer, ConfirmedIsApproved, Known
<1>10. \A t \in Slots : CallKnows(t)'
  <2>1. CallKnows(s)'
    BY <1>4, <1>6 DEF CallKnows
  <2>2. ASSUME NEW t \in Slots, t # s PROVE CallKnows(t)'
    <3>1. CallKnows(t) /\ call'[t] = call[t]
      BY <1>6, <2>2 DEF TontineInv
    <3> QED
      BY <1>1, <1>9, <3>1 DEF CallKnows
  <2> QED
    BY <2>1, <2>2
<1>11. RotationOfApproved'
  <2> SUFFICES ASSUME NEW i \in DOMAIN rotations'
               PROVE  /\ Len(rotations'[i]) >= 2
                      /\ IsInjective(rotations'[i])
                      /\ Range(rotations'[i]) \subseteq approved
                      /\ rotations'[i][1] = Organizer
    BY <1>1 DEF RotationOfApproved
  <2>1. /\ Len(rotations) \in Nat /\ DOMAIN rotations = 1..Len(rotations)
        /\ i \in 1..(Len(rotations) + 1)
    BY <1>7, Typed, LenProperties
  <2>2. CASE i = Len(rotations) + 1
    BY <1>3, <1>7, <2>2
  <2>3. CASE i # Len(rotations) + 1
    <3>1. i \in 1..Len(rotations)
      BY <2>1, <2>3
    <3>2. rotations'[i] = rotations[i] /\ i \in DOMAIN rotations
      BY <1>7, <2>1, <3>1
    <3> QED
      BY <3>2, Typed DEF RotationOfApproved
  <2> QED
    BY <2>2, <2>3
<1> QED
  BY <1>8, <1>9, <1>10, <1>11 DEF TontineInv

LEMMA TontineStep == TontineInv /\ [Next]_vars => TontineInv'
<1> SUFFICES ASSUME TontineInv, [Next]_vars PROVE TontineInv'
  OBVIOUS
<1>1. ASSUME NEW s \in Slots, Request(s) PROVE TontineInv'
  <2>1. CASE SaveTontine(s) \/ LoadForUpdate(s) \/ LoadForOpen(s) \/ LoadForStart(s)
    BY <2>1, SaveTontineStep, LoadForUpdateStep, LoadForOpenStep, LoadForStartStep
  <2>2. ASSUME NEW u \in Users, LoadForJoin(s, u) PROVE TontineInv'
    BY <2>2, LoadForJoinStep
  <2>3. ASSUME NEW u \in Users, NEW st \in MemberStatus, LoadForStatus(s, u, st)
        PROVE  TontineInv'
    BY <2>3, LoadForStatusStep
  <2> QED
    BY <1>1, <2>1, <2>2, <2>3 DEF Request
<1>2. ASSUME NEW s \in Slots, Continue(s) PROVE TontineInv'
  BY <1>2, SaveOrganizerStep, SaveMemberStep, ApplyStatusStep, PlainStep, FindMemberStep,
     ApplyStartStep, SaveCyclesStep DEF Continue
<1>3. ASSUME NEW s \in Slots, Abandon(s) PROVE TontineInv'
  BY <1>3, PlainStep
<1>4. CASE UNCHANGED vars
  BY <1>4 DEF vars, membership, cycles, TontineInv, TypeOK, OneOrganizer,
     ConfirmedIsApproved, CallKnows, Known, RotationOfApproved
<1> QED
  BY <1>1, <1>2, <1>3, <1>4 DEF Next

(* TontineInv is an invariant of the requests on one tontine. *)
THEOREM TontinesHold == Spec => []TontineInv
BY TontineInit, TontineStep, PTL DEF Spec

(* The types of TypeOK hold. *)
THEOREM TontinesTypeCorrect == Spec => []TypeOK
<1>1. TontineInv => TypeOK
  BY DEF TontineInv
<1> QED
  BY <1>1, TontinesHold, PTL

(* However many requests overlap and are cut off, createCycles only ever sees two or more
   users that were confirmed, each once, and begins with the organizer. *)
THEOREM RotationOfApprovedCorrect == Spec => []RotationOfApproved
<1>1. TontineInv => RotationOfApproved
  BY DEF TontineInv
<1> QED
  BY <1>1, TontinesHold, PTL
-----------------------------------------------------------------------------
(* Requests that do not overlap.  Then at most one is in progress, and what it read when
   it passed its checks is still so when it writes. *)
Reads(s) ==
    /\ call[s].pc \in {"organizer", "update", "open"} => tontine.status = "DRAFT"
    /\ call[s].pc = "update" => call[s].max \in Sizes
    /\ call[s].pc \in {"join", "member", "status", "start"} => tontine.status = "OPEN"
    /\ call[s].pc = "join" => Cardinality(Members) < tontine.max
    /\ call[s].pc \in {"member", "status"} => call[s].who \in Members
    /\ call[s].pc = "cycles" => tontine.status = "ACTIVE" /\ rotations = <<>>
    /\ call[s].pc \in {"start", "cycles"} => call[s].seen = Confirmed

(* What the rows are at each stage of the tontine. *)
Stage ==
    /\ tontine.status = "ABSENT" => Members = {}
    /\ tontine.status = "DRAFT" => Members \subseteq {Organizer} /\ tontine.max >= 2
    /\ tontine.status # "ACTIVE" => rotations = <<>>
    /\ Cardinality(Members) <= tontine.max
    /\ rotations # <<>> => Len(rotations) = 1 /\ Range(rotations[1]) = Confirmed

Others(s) == \A t \in Slots \ {s} : call[t].pc = "idle"

AloneInv ==
    ~overlapped =>
       /\ \A s \in Slots : call[s].pc # "idle" => Others(s)
       /\ \A s \in Slots : Reads(s)
       /\ Stage

LEMMA AloneInit == Init => AloneInv
<1> SUFFICES ASSUME Init PROVE AloneInv
  OBVIOUS
<1> USE DEF Init
<1>1. \A s \in Slots : call[s].pc = "idle"
  BY DEF NoCall
<1>2. Members = {} /\ Cardinality(Members) = 0
  BY FS_EmptySet DEF Members, NoMember
<1> QED
  BY <1>1, <1>2 DEF AloneInv, Reads, Stage

(* One request, alone, moves to h: what is left to show is about it and about the rows. *)
LEMMA AloneMoves ==
    ASSUME TontineInv, NEW s \in Slots, NEW h \in CallType, call' = [call EXCEPT ![s] = h],
           ~overlapped' => Others(s) /\ Reads(s)' /\ Stage'
    PROVE  AloneInv'
<1> SUFFICES ASSUME ~overlapped'
             PROVE  /\ \A t \in Slots : call'[t].pc # "idle" => Others(t)'
                    /\ \A t \in Slots : Reads(t)'
    BY DEF AloneInv
<1>1. call'[s] = h /\ \A t \in Slots : t # s => call'[t] = call[t] /\ call'[t].pc = "idle"
  BY Typed DEF Others
<1>2. \A t \in Slots : call'[t].pc # "idle" => Others(t)'
  BY <1>1 DEF Others
<1>3. \A t \in Slots : Reads(t)'
  BY <1>1 DEF Reads
<1> QED
  BY <1>2, <1>3

(* A request that begins does so alone, or the requests overlap from then on. *)
LEMMA AloneBegins ==
    ASSUME TontineInv, AloneInv, NEW s \in Slots, NEW h \in CallType, Begin(s, h),
           ~overlapped /\ Stage => Reads(s)' /\ Stage'
    PROVE  AloneInv'
<1>1. call' = [call EXCEPT ![s] = h] /\ (~overlapped' => ~overlapped /\ Others(s))
  BY DEF Begin, Others
<1> QED
  BY <1>1, AloneMoves DEF AloneInv

(* The rows stay as they are. *)
LEMMA StageKept ==
    ASSUME Stage, UNCHANGED <<tontine, member, rotations>>
    PROVE  Stage' /\ Members' = Members /\ Confirmed' = Confirmed
BY DEF Stage, Members, Confirmed

(* A request that is in progress goes on. *)
LEMMA AloneGoesOn ==
    ASSUME TontineInv, AloneInv, NEW s \in Slots, NEW h \in CallType, call[s].pc # "idle",
           call' = [call EXCEPT ![s] = h], UNCHANGED overlapped,
           ~overlapped /\ Reads(s) /\ Stage => Reads(s)' /\ Stage'
    PROVE  AloneInv'
BY AloneMoves DEF AloneInv

(* A request in progress ends. *)
LEMMA AloneReturns ==
    ASSUME TontineInv, AloneInv, NEW s \in Slots, call[s].pc # "idle", Return(s),
           UNCHANGED overlapped, ~overlapped /\ Reads(s) /\ Stage => Stage'
    PROVE  AloneInv'
<1>1. call' = [call EXCEPT ![s] = NoCall] /\ NoCall \in CallType
  BY Typed DEF Return
<1>2. call'[s].pc = "idle"
  BY <1>1, Typed DEF NoCall
<1>3. Reads(s)'
  BY <1>2 DEF Reads
<1> QED
  BY <1>1, <1>3, AloneGoesOn

LEMMA AskedAbout ==
    ASSUME NEW u \in Users, NEW st \in MemberStatus
    PROVE  /\ [At("member") EXCEPT !.who = u, !.value = st] \in CallType
           /\ [At("member") EXCEPT !.who = u, !.value = st].pc = "member"
           /\ [At("member") EXCEPT !.who = u, !.value = st].who = u
<1>1. NoCall \in CallType
  BY TontinesAssumption DEF NoCall, CallType, MemberStatus
<1>2. At("member") \in CallType /\ At("member").pc = "member"
  BY <1>1 DEF At, CallType
<1> QED
  BY <1>2 DEF CallType

LEMMA AloneRequest ==
    ASSUME TontineInv, AloneInv, NEW s \in Slots, Request(s) PROVE AloneInv'
<1>1. CASE SaveTontine(s)
  <2> DEFINE h == At("organizer")
  <2>1. h \in CallType /\ h.pc = "organizer"
    BY AtTyped
  <2>2. /\ Begin(s, h) /\ tontine.status = "ABSENT" /\ UNCHANGED <<member, rotations>>
        /\ tontine'.status = "DRAFT" /\ tontine'.max \in Nat /\ tontine'.max >= 2
    BY <1>1, TontinesAssumption DEF SaveTontine, membership, cycles
  <2> HIDE DEF h
  <2>3. call'[s] = h
    BY <2>1, <2>2, Typed DEF Begin
  <2>4. Reads(s)'
    BY <2>1, <2>2, <2>3 DEF Reads
  <2>5. Members' = Members /\ Confirmed' = Confirmed
    BY <2>2 DEF Members, Confirmed
  <2>6. ASSUME Stage PROVE Stage'
    <3>1. Members = {} /\ Cardinality(Members) = 0
      BY <2>2, <2>6, FS_EmptySet DEF Stage
    <3> QED
      BY <2>2, <2>5, <2>6, <3>1 DEF Stage
  <2> QED
    BY <2>1, <2>2, <2>4, <2>6, AloneBegins
<1>2. CASE LoadForUpdate(s)
  <2>1. PICK n \in Sizes : Begin(s, [At("update") EXCEPT !.max = n])
    BY <1>2 DEF LoadForUpdate
  <2> DEFINE h == [At("update") EXCEPT !.max = n]
  <2>2. h \in CallType /\ h.pc = "update" /\ h.max = n
    BY <2>1, TontinesAssumption, AtTyped
  <2>3. Begin(s, h) /\ tontine.status = "DRAFT" /\ UNCHANGED <<tontine, member, rotations>>
    BY <1>2, <2>1 DEF LoadForUpdate, membership, cycles
  <2> HIDE DEF h
  <2>4. call'[s] = h
    BY <2>2, <2>3, Typed DEF Begin
  <2>5. Reads(s)'
    BY <2>1, <2>2, <2>3, <2>4 DEF Reads
  <2> QED
    BY <2>2, <2>3, <2>5, StageKept, AloneBegins
<1>3. CASE LoadForOpen(s)
  <2> DEFINE h == At("open")
  <2>1. h \in CallType /\ h.pc = "open"
    BY AtTyped
  <2>2. Begin(s, h) /\ tontine.status = "DRAFT" /\ UNCHANGED <<tontine, member, rotations>>
    BY <1>3 DEF LoadForOpen, membership, cycles
  <2> HIDE DEF h
  <2>3. call'[s] = h
    BY <2>1, <2>2, Typed DEF Begin
  <2>4. Reads(s)'
    BY <2>1, <2>2, <2>3 DEF Reads
  <2> QED
    BY <2>1, <2>2, <2>4, StageKept, AloneBegins
<1>4. CASE LoadForStart(s)
  <2> DEFINE h == [At("start") EXCEPT !.seen = Confirmed]
  <2>1. Confirmed \in SUBSET Users
    BY DEF Confirmed
  <2>2. h \in CallType /\ h.pc = "start" /\ h.seen = Confirmed
    BY <2>1, AtTyped
  <2>3. Begin(s, h) /\ tontine.status = "OPEN" /\ UNCHANGED <<tontine, member, rotations>>
    BY <1>4 DEF LoadForStart, membership, cycles
  <2> HIDE DEF h
  <2>4. call'[s] = h /\ Confirmed' = Confirmed
    BY <2>2, <2>3, Typed DEF Begin, Confirmed
  <2>5. Reads(s)'
    BY <2>2, <2>3, <2>4 DEF Reads
  <2> QED
    BY <2>2, <2>3, <2>5, StageKept, AloneBegins
<1>5. ASSUME NEW u \in Users, LoadForJoin(s, u) PROVE AloneInv'
  <2> DEFINE h == [At("join") EXCEPT !.who = u]
  <2>1. h \in CallType /\ h.pc = "join"
    BY AtTyped
  <2>2. /\ Begin(s, h) /\ tontine.status = "OPEN" /\ UNCHANGED <<tontine, member, rotations>>
        /\ Cardinality(Members) < tontine.max
    BY <1>5 DEF LoadForJoin, membership, cycles
  <2> HIDE DEF h
  <2>3. call'[s] = h /\ Members' = Members
    BY <2>1, <2>2, Typed DEF Begin, Members
  <2>4. Reads(s)'
    BY <2>1, <2>2, <2>3 DEF Reads
  <2> QED
    BY <2>1, <2>2, <2>4, StageKept, AloneBegins
<1>6. ASSUME NEW u \in Users, NEW st \in MemberStatus, LoadForStatus(s, u, st)
      PROVE  AloneInv'
  <2> DEFINE h == [At("member") EXCEPT !.who = u, !.value = st]
  <2>1. h \in CallType /\ h.pc = "member" /\ h.who = u
    BY AskedAbout
  <2>2. /\ Begin(s, h) /\ tontine.status = "OPEN" /\ UNCHANGED <<tontine, member, rotations>>
        /\ u \in Members
    BY <1>6 DEF LoadForStatus, membership, cycles
  <2> HIDE DEF h
  <2>3. call'[s] = h /\ Members' = Members
    BY <2>1, <2>2, Typed DEF Begin, Members
  <2>4. Reads(s)'
    BY <2>1, <2>2, <2>3 DEF Reads
  <2> QED
    BY <2>1, <2>2, <2>4, StageKept, AloneBegins
<1> QED
  BY <1>1, <1>2, <1>3, <1>4, <1>5, <1>6 DEF Request

(* join, alone: the room it found is still there for the row it adds. *)
LEMMA SaveMemberAlone ==
    ASSUME TontineInv, AloneInv, NEW s \in Slots, SaveMember(s) PROVE AloneInv'
<1> DEFINE u == call[s].who
           row == [status |-> "PENDING", role |-> "MEMBER"]
<1>1. /\ u \in Users /\ row.status = "PENDING" /\ call[s].pc = "join" /\ Return(s)
      /\ member' = IF u \in Members THEN member ELSE [member EXCEPT ![u] = row]
      /\ UNCHANGED <<tontine, rotations, overlapped>>
  BY Typed DEF SaveMember, CallType, cycles
<1> HIDE DEF u, row
<1>2. ASSUME Reads(s), Stage PROVE Stage'
  <2>1. /\ tontine.status = "OPEN" /\ rotations = <<>>
        /\ Cardinality(Members) < tontine.max
    BY <1>1, <1>2 DEF Reads, Stage
  <2>2. Members' \subseteq Members \cup {u} /\ Members' \in SUBSET Users
    BY <1>1, Typed DEF Members
  <2>3. /\ IsFiniteSet(Members) /\ Cardinality(Members) \in Nat
        /\ Cardinality(Members') \in Nat /\ tontine.max \in Nat
    <3>1. Members \in SUBSET Users
      BY DEF Members
    <3> QED
      BY <2>2, <3>1, UsersCounted, Typed DEF TontineType
  <2>4. /\ IsFiniteSet(Members \cup {u})
        /\ Cardinality(Members \cup {u}) <= Cardinality(Members) + 1
        /\ Cardinality(Members \cup {u}) \in Nat
    <3>1. /\ IsFiniteSet(Members \cup {u})
          /\ Cardinality(Members \cup {u}) =
                IF u \in Members THEN Cardinality(Members) ELSE Cardinality(Members) + 1
      BY <2>3, FS_AddElement
    <3> QED
      BY <2>3, <3>1
  <2>5. Cardinality(Members') <= Cardinality(Members \cup {u})
    BY <2>2, <2>4, FS_Subset
  <2>6. Cardinality(Members') <= tontine.max
    BY <2>1, <2>3, <2>4, <2>5
  <2> QED
    BY <1>1, <2>1, <2>6 DEF Stage
<1> QED
  BY <1>1, <1>2, AloneReturns

(* updateMemberStatus, alone: the member it is about was there, and there are no cycles. *)
LEMMA ApplyStatusAlone ==
    ASSUME TontineInv, AloneInv, NEW s \in Slots, ApplyStatus(s) PROVE AloneInv'
<1>1. /\ call[s].pc = "status" /\ Return(s) /\ UNCHANGED <<tontine, rotations, overlapped>>
      /\ member' = [member EXCEPT ![call[s].who].status = call[s].value]
  BY DEF ApplyStatus, cycles
<1>2. ASSUME Reads(s), Stage PROVE Stage'
  <2>1. tontine.status = "OPEN" /\ rotations = <<>> /\ call[s].who \in Members
    BY <1>1, <1>2 DEF Reads, Stage
  <2>2. Members' \subseteq Members /\ Members \in SUBSET Users
    BY <1>1, <2>1, Typed DEF Members
  <2>3. IsFiniteSet(Members) /\ Cardinality(Members) \in Nat /\ tontine.max \in Nat
    BY <2>2, UsersCounted, Typed DEF TontineType
  <2>4. Cardinality(Members') <= Cardinality(Members) /\ Cardinality(Members') \in Nat
    BY <2>2, <2>3, FS_Subset, FS_CardinalityType
  <2>5. Cardinality(Members') <= tontine.max
    BY <1>2, <2>3, <2>4 DEF Stage
  <2> QED
    BY <1>1, <2>1, <2>5 DEF Stage
<1> QED
  BY <1>1, <1>2, AloneReturns

(* createCycles, alone: the members it was given are the confirmed ones. *)
LEMMA SaveCyclesAlone ==
    ASSUME TontineInv, AloneInv, NEW s \in Slots, SaveCycles(s) PROVE AloneInv'
<1>1. /\ Known /\ UNCHANGED <<tontine, member, overlapped>> /\ call[s].pc = "cycles"
      /\ Organizer \in call[s].seen /\ call[s].seen \in SUBSET Users
      /\ Cardinality(call[s].seen) >= 2
  BY Typed DEF SaveCycles, CallKnows, CallType, membership
<1>2. PICK p \in Orders(call[s].seen) :
         /\ rotations' = Append(rotations, p)
         /\ call' = [call EXCEPT ![s] = [At("announce") EXCEPT !.who = p[1]]]
  BY DEF SaveCycles
<1>3. /\ p \in Seq(Users) /\ DOMAIN p = 1..Len(p) /\ Range(p) \subseteq call[s].seen
      /\ p[1] = Organizer
  BY <1>1, OrderProperties
<1>4. Range(p) = call[s].seen
  <2>1. /\ p \in [1..Cardinality(call[s].seen) -> call[s].seen]
        /\ \A u \in call[s].seen : \E i \in 1..Cardinality(call[s].seen) : p[i] = u
    BY <1>2 DEF Orders, Bijection, Surjection, Injection
  <2> QED
    BY <1>3, <2>1 DEF Range
<1> DEFINE h == [At("announce") EXCEPT !.who = Organizer]
<1>5. h \in CallType /\ h.pc = "announce"
  BY TontinesAssumption, AtTyped
<1>6. call' = [call EXCEPT ![s] = h]
  BY <1>2, <1>3
<1> HIDE DEF h
<1>7. call'[s] = h
  BY <1>5, <1>6, Typed
<1>8. Reads(s)'
  BY <1>5, <1>7 DEF Reads
<1>9. ASSUME Reads(s), Stage PROVE Stage'
  <2>1. tontine.status = "ACTIVE" /\ rotations = <<>> /\ call[s].seen = Confirmed
    BY <1>1, <1>9 DEF Reads
  <2>2. Len(rotations') = 1 /\ rotations'[1] = p
    BY <1>2, <1>3, <2>1, Typed, AppendProperties
  <2>3. Members' = Members /\ Confirmed' = Confirmed
    BY <1>1 DEF Members, Confirmed
  <2> QED
    BY <1>1, <1>4, <1>9, <2>1, <2>2, <2>3 DEF Stage
<1> QED
  BY <1>1, <1>5, <1>6, <1>8, <1>9, AloneGoesOn

LEMMA OneMember ==
    ASSUME NEW S, S \subseteq {Organizer}
    PROVE  Cardinality(S) <= 1 /\ Cardinality(S) \in Nat
<1>1. CASE S = {}
  BY <1>1, FS_EmptySet
<1>2. CASE S = {Organizer}
  <2>1. Cardinality({Organizer}) = 1
    BY FS_Singleton, Zenon
  <2> QED
    BY <1>2, <2>1
<1>3. S # {} => S = {Organizer}
  OBVIOUS
<1> QED
  BY <1>1, <1>2, <1>3

LEMMA AloneContinue ==
    ASSUME TontineInv, AloneInv, NEW s \in Slots, Continue(s) \/ Abandon(s) PROVE AloneInv'
<1>1. CASE SaveOrganizer(s)
  <2>1. /\ call[s].pc = "organizer" /\ Return(s) /\ UNCHANGED <<tontine, rotations, overlapped>>
        /\ member' = [member EXCEPT ![Organizer] = [status |-> "CONFIRMED",
                                                    role |-> "ORGANIZER"]]
    BY <1>1 DEF SaveOrganizer, cycles
  <2>2. ASSUME Reads(s), Stage PROVE Stage'
    <3>1. /\ tontine.status = "DRAFT" /\ Members \subseteq {Organizer} /\ tontine.max >= 2
          /\ rotations = <<>> /\ tontine.max \in Nat
      BY <2>1, <2>2, Typed DEF Reads, Stage, TontineType
    <3>2. Members' \subseteq {Organizer}
      BY <2>1, <3>1, Typed DEF Members
    <3>3. Cardinality(Members') <= 1 /\ Cardinality(Members') \in Nat
      BY <3>2, OneMember
    <3> QED
      BY <2>1, <3>1, <3>2, <3>3 DEF Stage
  <2> QED
    BY <2>1, <2>2, AloneReturns
<1>2. CASE ApplyUpdate(s) \/ ApplyOpen(s)
  <2>1. /\ call[s].pc \in {"update", "open"} /\ Return(s)
        /\ UNCHANGED <<member, rotations, overlapped>>
    BY <1>2 DEF ApplyUpdate, ApplyOpen, membership, cycles
  <2>2. Members' = Members /\ Confirmed' = Confirmed
    BY <2>1 DEF Members, Confirmed
  <2>3. ASSUME Reads(s), Stage PROVE Stage'
    <3>1. /\ tontine.status = "DRAFT" /\ Members \subseteq {Organizer} /\ tontine.max >= 2
          /\ rotations = <<>> /\ tontine \in TontineType
      BY <2>1, <2>3, Typed DEF Reads, Stage
    <3>2. /\ tontine'.status \in {"DRAFT", "OPEN"}
          /\ tontine'.max \in Nat /\ tontine'.max >= 2
      BY <1>2, <2>1, <2>3, <3>1, TontinesAssumption
         DEF ApplyUpdate, ApplyOpen, Reads, TontineType
    <3>3. Cardinality(Members) <= 1 /\ Cardinality(Members) \in Nat
      BY <3>1, OneMember
    <3> QED
      BY <2>1, <2>2, <3>1, <3>2, <3>3 DEF Stage
  <2> QED
    BY <2>1, <2>3, AloneReturns
<1>3. CASE AnnounceFirst(s) \/ Abandon(s)
  <2>1. /\ call[s].pc # "idle" /\ Return(s)
        /\ UNCHANGED <<tontine, member, rotations, overlapped>>
    BY <1>3 DEF AnnounceFirst, Abandon, membership, cycles
  <2> QED
    BY <2>1, StageKept, AloneReturns
<1>4. CASE FindMember(s)
  <2>1. /\ call[s].pc = "member" /\ UNCHANGED <<tontine, member, rotations, overlapped>>
    BY <1>4 DEF FindMember, membership, cycles
  <2>2. CASE Return(s)
    BY <2>1, <2>2, StageKept, AloneReturns
  <2>3. CASE GoTo(s, "status")
    <3> DEFINE h == [call[s] EXCEPT !.pc = "status"]
    <3>1. h \in CallType /\ h.pc = "status" /\ h.who = call[s].who
      <4>1. call[s] \in CallType
        BY Typed
      <4> QED
        BY <4>1 DEF CallType
    <3>2. call' = [call EXCEPT ![s] = h]
      BY <2>3, Typed DEF GoTo
    <3> HIDE DEF h
    <3>3. call'[s] = h /\ Members' = Members
      BY <2>1, <3>1, <3>2, Typed DEF Members
    <3>4. Reads(s) => Reads(s)'
      BY <2>1, <3>1, <3>3 DEF Reads
    <3> QED
      BY <2>1, <3>1, <3>2, <3>4, StageKept, AloneGoesOn
  <2> QED
    BY <1>4, <2>2, <2>3 DEF FindMember
<1>5. CASE ApplyStart(s)
  <2>1. /\ call[s].pc = "start" /\ GoTo(s, "cycles") /\ UNCHANGED <<member, rotations, overlapped>>
        /\ tontine'.status = "ACTIVE" /\ tontine'.max = tontine.max
    BY <1>5, Typed DEF ApplyStart, membership, cycles, TontineType
  <2> DEFINE h == [call[s] EXCEPT !.pc = "cycles"]
  <2>2. h \in CallType /\ h.pc = "cycles" /\ h.seen = call[s].seen
    <3>1. call[s] \in CallType
      BY Typed
    <3> QED
      BY <3>1 DEF CallType
  <2>3. call' = [call EXCEPT ![s] = h]
    BY <2>1, Typed DEF GoTo
  <2> HIDE DEF h
  <2>4. call'[s] = h /\ Members' = Members /\ Confirmed' = Confirmed
    BY <2>1, <2>2, <2>3, Typed DEF Members, Confirmed
  <2>5. Reads(s) /\ Stage => rotations = <<>>
    BY <2>1 DEF Reads, Stage
  <2>6. Reads(s) /\ Stage => Reads(s)'
    BY <2>1, <2>2, <2>4, <2>5 DEF Reads
  <2>7. Reads(s) /\ Stage => Stage'
    BY <2>1, <2>4, <2>5 DEF Stage
  <2> QED
    BY <2>1, <2>2, <2>3, <2>6, <2>7, AloneGoesOn
<1> QED
  BY <1>1, <1>2, <1>3, <1>4, <1>5, SaveMemberAlone, ApplyStatusAlone, SaveCyclesAlone
     DEF Continue

LEMMA AloneStep == TontineInv /\ AloneInv /\ [Next]_vars => AloneInv'
<1> SUFFICES ASSUME TontineInv, AloneInv, [Next]_vars PROVE AloneInv'
  OBVIOUS
<1>1. CASE Next
  BY <1>1, AloneRequest, AloneContinue DEF Next
<1>2. CASE UNCHANGED vars
  BY <1>2 DEF vars, AloneInv, Others, Reads, Stage, Members, Confirmed
<1> QED
  BY <1>1, <1>2

THEOREM AloneHolds == Spec => []AloneInv
BY AloneInit, AloneStep, TontinesHold, PTL DEF Spec

(* As long as requests do not overlap, wherever one is cut off, there is room for every
   member and the cycles are one for each confirmed member. *)
THEOREM EnrolmentMatchesCorrect == Spec => []EnrolmentMatches
<1>1. AloneInv => EnrolmentMatches
  BY DEF AloneInv, Stage, EnrolmentMatches
<1> QED
  BY <1>1, AloneHolds, PTL

(* As long as requests do not overlap, the tontine goes from DRAFT to OPEN to ACTIVE on the
   terms it was opened with. *)
THEOREM OpenedOnItsTermsCorrect == Spec => OpenedOnItsTerms
<1> DEFINE A == ~overlapped' /\ tontine' # tontine =>
       \/ tontine.status \in {"ABSENT", "DRAFT"} /\ tontine'.status = "DRAFT"
       \/ /\ <<tontine.status, tontine'.status>> \in {<<"DRAFT", "OPEN">>, <<"OPEN", "ACTIVE">>}
          /\ tontine'.max = tontine.max
<1>1. TontineInv /\ AloneInv /\ [Next]_vars => A
  <2> SUFFICES ASSUME TontineInv, AloneInv, NEW s \in Slots,
                      Request(s) \/ Continue(s) \/ Abandon(s),
                      ~overlapped', tontine' # tontine
               PROVE  A
    BY DEF Next, vars
  <2>1. CASE SaveTontine(s)
    BY <2>1 DEF SaveTontine
  <2>2. CASE ApplyUpdate(s) \/ ApplyOpen(s) \/ ApplyStart(s)
    <3>1. Reads(s) /\ tontine \in TontineType
      BY <2>2, Typed DEF AloneInv, ApplyUpdate, ApplyOpen, ApplyStart
    <3> QED
      BY <2>2, <3>1 DEF ApplyUpdate, ApplyOpen, ApplyStart, Reads, TontineType
  <2>3. \/ SaveTontine(s) \/ ApplyUpdate(s) \/ ApplyOpen(s) \/ ApplyStart(s)
    BY DEF Request, Continue, Abandon, LoadForUpdate, LoadForOpen, LoadForStart, LoadForJoin,
       LoadForStatus, SaveOrganizer, SaveMember, FindMember, ApplyStatus, SaveCycles,
       AnnounceFirst
  <2> QED
    BY <2>1, <2>2, <2>3
<1>2. Spec => [][A]_vars
  BY <1>1, TontinesHold, AloneHolds, PTL DEF Spec
<1> QED
  BY <1>2 DEF OpenedOnItsTerms

-----------------------------------------------------------------------------
(* What is done by halves.  One slot changes in a step; the others hold on to theirs. *)
LEMMA OthersHold ==
    ASSUME TontineInv, NEW s \in Slots, Request(s) \/ Continue(s)
    PROVE  /\ lost' = lost
           /\ \A t \in Slots : t # s => call'[t] = call[t]
<1>1. call \in [Slots -> CallType]
  BY Typed DEF TontineInv
<1>2. CASE Request(s)
  BY <1>1, <1>2 DEF Request, Begin, SaveTontine, LoadForUpdate, LoadForOpen, LoadForStart,
                    LoadForJoin, LoadForStatus
<1>3. CASE Continue(s)
  <2>1. CASE SaveOrganizer(s) \/ ApplyUpdate(s) \/ ApplyOpen(s) \/ SaveMember(s)
             \/ ApplyStatus(s) \/ AnnounceFirst(s)
    BY <1>1, <2>1 DEF SaveOrganizer, ApplyUpdate, ApplyOpen, SaveMember, ApplyStatus,
                      AnnounceFirst, Return
  <2>2. CASE FindMember(s)
    BY <1>1, <2>2 DEF FindMember, GoTo, Return
  <2>3. CASE ApplyStart(s)
    BY <1>1, <2>3 DEF ApplyStart, GoTo
  <2>4. CASE SaveCycles(s)
    BY <1>1, <2>4 DEF SaveCycles
  <2> QED
    BY <1>3, <2>1, <2>2, <2>3, <2>4 DEF Continue
<1> QED
  BY <1>2, <1>3

HalfDone ==
    /\ tontine.status # "ABSENT" /\ ~Known => \E s \in Slots : call[s].pc = "organizer"
    /\ tontine.status = "ACTIVE" /\ rotations = <<>> => \E s \in Slots : call[s].pc = "cycles"
    /\ rotations # <<>> /\ Organizer \notin announced =>
          \E s \in Slots : call[s].pc = "announce" /\ call[s].who = Organizer

(* A step of a request that has nothing of the kind in its hands, and opens nothing. *)
LEMMA Untouched ==
    ASSUME HalfDone, NEW s \in Slots, call[s].pc \notin {"organizer", "cycles", "announce"},
           \A t \in Slots : t # s => call'[t] = call[t],
           Known => Known', UNCHANGED cycles,
           tontine'.status # "ABSENT" => tontine.status # "ABSENT",
           tontine'.status = "ACTIVE" => tontine.status = "ACTIVE"
    PROVE  HalfDone'
<1>1. \A pc \in {"organizer", "cycles"} :
         (\E t \in Slots : call[t].pc = pc) => \E t \in Slots : call'[t].pc = pc
  OBVIOUS
<1>2. (\E t \in Slots : call[t].pc = "announce" /\ call[t].who = Organizer) =>
         \E t \in Slots : call'[t].pc = "announce" /\ call'[t].who = Organizer
  OBVIOUS
<1> QED
  BY <1>1, <1>2 DEF HalfDone, cycles

LEMMA HalfDoneStep ==
    ASSUME TontineInv, TontineInv', HalfDone, NEW s \in Slots, Request(s) \/ Continue(s)
    PROVE  HalfDone'
<1>1. /\ call \in [Slots -> CallType] /\ call[s] \in CallType /\ CallKnows(s)
      /\ member \in [Users -> MemberType] /\ tontine \in TontineType /\ OneOrganizer
      /\ rotations \in Seq(Seq(Users)) /\ Organizer \in Users
  BY Typed, TontinesAssumption
<1>2. \A t \in Slots : t # s => call'[t] = call[t]
  BY OthersHold
<1>3. CASE SaveTontine(s)
  <2>1. /\ call'[s].pc = "organizer" /\ tontine'.status = "DRAFT" /\ UNCHANGED cycles
        /\ call[s].pc = "idle"
    BY <1>1, <1>3 DEF SaveTontine, Begin, At, NoCall
  <2>2. \A t \in Slots : call[t].pc = "announce" => call'[t] = call[t]
    BY <1>2, <2>1
  <2> QED
    BY <2>1, <2>2 DEF HalfDone, cycles
<1>4. CASE LoadForUpdate(s) \/ LoadForOpen(s) \/ LoadForStart(s)
           \/ \E u \in Users : LoadForJoin(s, u) \/ \E st \in MemberStatus : LoadForStatus(s, u, st)
  <2>1. call[s].pc = "idle" /\ UNCHANGED <<tontine, membership, cycles>>
    BY <1>4 DEF LoadForUpdate, LoadForOpen, LoadForStart, LoadForJoin, LoadForStatus, Begin
  <2>2. Known => Known'
    BY <2>1 DEF Known, membership
  <2> QED
    BY <1>2, <2>1, <2>2, Untouched
<1>5. CASE SaveOrganizer(s)
  <2>1. Known' /\ UNCHANGED <<tontine, cycles>> /\ call[s].pc = "organizer"
    BY <1>1, <1>5 DEF SaveOrganizer, Known
  <2>2. \A t \in Slots : call[t].pc \in {"cycles", "announce"} => call'[t] = call[t]
    BY <1>2, <2>1
  <2> QED
    BY <2>1, <2>2 DEF HalfDone, cycles
<1>6. CASE ApplyUpdate(s)
  <2>1. /\ call[s].pc = "update" /\ UNCHANGED <<membership, cycles>>
        /\ tontine'.status = tontine.status
    BY <1>1, <1>6 DEF ApplyUpdate, TontineType
  <2>2. Known => Known'
    BY <2>1 DEF Known, membership
  <2> QED
    BY <1>2, <2>1, <2>2, Untouched
<1>7. CASE ApplyOpen(s)
  <2>1. /\ call[s].pc = "open" /\ UNCHANGED <<membership, cycles>>
        /\ tontine'.status = "OPEN"
    BY <1>1, <1>7 DEF ApplyOpen, TontineType
  <2>2. Known'
    BY <1>1, <2>1 DEF CallKnows, Known, membership
  <2>3. \A t \in Slots : call[t].pc = "announce" => call'[t] = call[t]
    BY <1>2, <2>1
  <2> QED
    BY <2>1, <2>2, <2>3 DEF HalfDone, cycles
<1>8. CASE SaveMember(s)
  <2>1. Known'
    BY <1>1, <1>8 DEF SaveMember, Known, CallKnows, OneOrganizer, Members, MemberType
  <2>2. call[s].pc = "join" /\ UNCHANGED <<tontine, cycles>>
    BY <1>8 DEF SaveMember
  <2> QED
    BY <1>2, <2>1, <2>2, Untouched
<1>9. CASE FindMember(s)
  <2>1. call[s].pc = "member" /\ UNCHANGED <<tontine, membership, cycles>>
    BY <1>9 DEF FindMember
  <2>2. Known => Known'
    BY <2>1 DEF Known, membership
  <2> QED
    BY <1>2, <2>1, <2>2, Untouched
<1>10. CASE ApplyStatus(s)
  <2>1. call[s].pc = "status" /\ UNCHANGED <<tontine, cycles>>
    BY <1>10 DEF ApplyStatus
  <2>2. Known => Known'
    BY <1>1, <1>10 DEF ApplyStatus, Known, MemberType
  <2> QED
    BY <1>2, <2>1, <2>2, Untouched
<1>11. CASE ApplyStart(s)
  <2>1. /\ call[s].pc = "start" /\ call'[s].pc = "cycles" /\ UNCHANGED <<membership, cycles>>
    BY <1>1, <1>11 DEF ApplyStart, GoTo, CallType
  <2>2. Known'
    BY <1>1, <2>1 DEF Known, CallKnows, membership
  <2>3. \A t \in Slots : call[t].pc = "announce" => call'[t] = call[t]
    BY <1>2, <2>1
  <2> QED
    BY <2>1, <2>2, <2>3 DEF HalfDone, cycles
<1>12. CASE SaveCycles(s)
  <2>1. PICK p \in Orders(call[s].seen) :
           /\ rotations' = Append(rotations, p)
           /\ call' = [call EXCEPT ![s] = [At("announce") EXCEPT !.who = p[1]]]
    BY <1>12 DEF SaveCycles
  <2>2. UNCHANGED <<tontine, membership, announced>> /\ call[s].pc = "cycles"
    BY <1>12 DEF SaveCycles
  <2>3. rotations' # <<>> /\ p[1] = Organizer
    <3>1. /\ Organizer \in call[s].seen /\ Known /\ call[s].seen \in SUBSET Users
          /\ Cardinality(call[s].seen) >= 2
      BY <1>1, <2>2 DEF CallKnows, CallType
    <3>2. p \in Seq(Users) /\ p[1] = Organizer
      BY <2>1, <3>1, OrderProperties
    <3> QED
      BY <1>1, <2>1, <3>2, AppendProperties
  <2>5. call'[s].pc = "announce" /\ call'[s].who = Organizer
    BY <1>1, <2>1, <2>3 DEF At, NoCall
  <2>6. Known'
    BY <1>1, <2>2 DEF Known, CallKnows, membership
  <2> QED
    BY <2>2, <2>3, <2>5, <2>6 DEF HalfDone
<1>13. CASE AnnounceFirst(s)
  <2>1. /\ call[s].pc = "announce" /\ announced' = announced \cup {call[s].who}
        /\ UNCHANGED <<tontine, membership, rotations>>
    BY <1>13 DEF AnnounceFirst
  <2>2. \A t \in Slots : t # s \/ call[t].pc # "announce" => call'[t] = call[t]
    BY <1>2, <2>1
  <2> QED
    BY <2>1, <2>2 DEF HalfDone, Known, membership
<1> QED
  BY <1>3, <1>4, <1>5, <1>6, <1>7, <1>8, <1>9, <1>10, <1>11, <1>12, <1>13
     DEF Request, Continue

(* However requests overlap, as long as none is cut off what one has done by halves is in
   its hands: a started tontine without cycles is about to get them (start, createCycles).
   It is the safety half of StartedRotates. *)
THEOREM HalfDoneCorrect == Spec => []HalfDoneIsInHand
<1>1. HalfDoneIsInHand <=> (lost = 0 => HalfDone)
  BY DEF HalfDoneIsInHand, HalfDone
<1>2. Init => (lost = 0 => HalfDone)
  BY DEF Init, HalfDone
<1>3. TontineInv /\ TontineInv' /\ (lost = 0 => HalfDone) /\ [Next]_vars
         => (lost = 0 => HalfDone)'
  <2> SUFFICES ASSUME TontineInv, TontineInv', lost = 0 => HalfDone, [Next]_vars, lost' = 0
               PROVE  HalfDone'
    OBVIOUS
  <2>1. CASE \E s \in Slots : Request(s) \/ Continue(s)
    BY <2>1, OthersHold, HalfDoneStep
  <2>2. CASE \E s \in Slots : Abandon(s)
    <3>1. lost \in Nat
      BY DEF TontineInv, TypeOK
    <3> QED
      BY <2>2, <3>1 DEF Abandon
  <2>3. CASE UNCHANGED vars
    BY <2>3 DEF vars, HalfDone, Known
  <2> QED
    BY <2>1, <2>2, <2>3 DEF Next
<1>4. Spec => [](lost = 0 => HalfDone)
  BY <1>2, <1>3, TontinesHold, PTL DEF Spec
<1> QED
  BY <1>1, <1>4, PTL
=============================================================================
