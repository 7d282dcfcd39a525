------------------------------ MODULE Tontines ------------------------------
(***************************************************************************)
(* TontinesService (src/src/modules/tontines/tontines.service.ts): one     *)
(* tontine from its creation to its first cycle, and its members.  One     *)
(* action is the code from one await to the next; every handler reads the  *)
(* tontine, checks it, and writes in a later await, with no lock and no    *)
(* condition on what it read.                                              *)
(***************************************************************************)
EXTENDS Naturals, FiniteSets, Sequences, Functions

CONSTANTS
    Users,       \* users of the platform
    Organizer,   \* the one who creates the tontine
    Slots,       \* slots for requests in progress
    Sizes,       \* values of max_members (2 to 50 in CreateTontineDto)
    MaxLost      \* bound on the requests that a crash or a failed await ends

ASSUME TontinesAssumption ==
    /\ Organizer \in Users
    /\ IsFiniteSet(Users)
    /\ Sizes \subseteq Nat \ {0, 1}
    /\ MaxLost \in Nat

VARIABLES
    tontine,     \* the row of the tontine: status and max_members
    member,      \* its rows in tontine_members, by user ("NONE": no such row)
    rotations,   \* what createCycles has saved, once per call: the beneficiaries
                 \* of cycles 1, 2, ...
    approved,    \* users that were CONFIRMED at some time (history)
    announced,   \* users sent CYCLE_STARTED_BENEFICIARY
    call,        \* the requests in progress
    overlapped,  \* whether two requests were ever in progress at once (history)
    lost         \* requests ended by a crash or a failed await

vars == <<tontine, member, approved, rotations, announced, call, overlapped, lost>>
membership == <<member, approved>>
cycles == <<rotations, announced>>

NoMember == [status |-> "NONE", role |-> "NONE"]
NoCall == [pc |-> "idle", who |-> Organizer, value |-> "NONE", max |-> 0, seen |-> {}]

MemberStatus == {"PENDING", "CONFIRMED", "REJECTED"}

Init ==
    /\ tontine = [status |-> "ABSENT", max |-> 0]
    /\ member = [u \in Users |-> NoMember]
    /\ approved = {}
    /\ rotations = <<>>
    /\ announced = {}
    /\ call = [s \in Slots |-> NoCall]
    /\ overlapped = FALSE
    /\ lost = 0

Members == {u \in Users : member[u].status # "NONE"}
Confirmed == {u \in Users : member[u].status = "CONFIRMED"}

At(pc) == [NoCall EXCEPT !.pc = pc]

(* A request passes its checks and goes on to its next await. *)
Begin(s, next) ==
    /\ call[s].pc = "idle"
    /\ overlapped' = (overlapped \/ \E t \in Slots \ {s} : call[t].pc # "idle")
    /\ call' = [call EXCEPT ![s] = next]

GoTo(s, pc) == call' = [call EXCEPT ![s].pc = pc]
Return(s) == call' = [call EXCEPT ![s] = NoCall]

(* The id and the invitation code are known once create has returned. *)
Known == member[Organizer].role = "ORGANIZER"

-----------------------------------------------------------------------------
(* create: the tontine, then its organizer as the first member. *)
SaveTontine(s) ==
    /\ tontine.status = "ABSENT"
    /\ \E n \in Sizes : tontine' = [status |-> "DRAFT", max |-> n]
    /\ Begin(s, At("organizer"))
    /\ UNCHANGED <<membership, cycles, lost>>

SaveOrganizer(s) ==
    /\ call[s].pc = "organizer"
    /\ member' = [member EXCEPT ![Organizer] = [status |-> "CONFIRMED",
                                                role |-> "ORGANIZER"]]
    /\ approved' = approved \cup {Organizer}
    /\ Return(s)
    /\ UNCHANGED <<tontine, cycles, overlapped, lost>>

(* Mutants: the organizer may change a tontine, or open it, at any time. *)
LoadForUpdateAny(s) ==
    /\ Known
    /\ \E n \in Sizes : Begin(s, [At("update") EXCEPT !.max = n])
    /\ UNCHANGED <<tontine, membership, cycles, lost>>

LoadForOpenAny(s) ==
    /\ Known
    /\ Begin(s, At("open"))
    /\ UNCHANGED <<tontine, membership, cycles, lost>>

(* update: only a DRAFT is changed; of the fields, max_members is kept here. *)
LoadForUpdate(s) ==
    /\ Known
    /\ tontine.status = "DRAFT"
    /\ \E n \in Sizes : Begin(s, [At("update") EXCEPT !.max = n])
    /\ UNCHANGED <<tontine, membership, cycles, lost>>

ApplyUpdate(s) ==
    /\ call[s].pc = "update"
    /\ tontine' = [tontine EXCEPT !.max = call[s].max]
    /\ Return(s)
    /\ UNCHANGED <<membership, cycles, overlapped, lost>>

(* open: DRAFT to OPEN, by its organizer. *)
LoadForOpen(s) ==
    /\ Known
    /\ tontine.status = "DRAFT"
    /\ Begin(s, At("open"))
    /\ UNCHANGED <<tontine, membership, cycles, lost>>

ApplyOpen(s) ==
    /\ call[s].pc = "open"
    /\ tontine' = [tontine EXCEPT !.status = "OPEN"]
    /\ Return(s)
    /\ UNCHANGED <<membership, cycles, overlapped, lost>>

-----------------------------------------------------------------------------
(* join: an OPEN tontine with room, by a user who has not asked yet. *)
LoadForJoin(s, u) ==
    /\ Known
    /\ tontine.status = "OPEN"
    /\ Cardinality(Members) < tontine.max
    /\ u \notin Members
    /\ Begin(s, [At("join") EXCEPT !.who = u])
    /\ UNCHANGED <<tontine, membership, cycles, lost>>

(* Mutant: the status of another enum. *)
SaveMemberOpen(s) ==
    LET u == call[s].who IN
    /\ call[s].pc = "join"
    /\ member' = IF u \in Members THEN member
                 ELSE [member EXCEPT ![u] = [status |-> "OPEN", role |-> "MEMBER"]]
    /\ Return(s)
    /\ UNCHANGED <<tontine, approved, cycles, overlapped, lost>>

(* save: the unique index on (tontine_id, user_id) refuses a second row. *)
SaveMember(s) ==
    LET u == call[s].who IN
    /\ call[s].pc = "join"
    /\ member' = IF u \in Members THEN member
                 ELSE [member EXCEPT ![u] = [status |-> "PENDING", role |-> "MEMBER"]]
    /\ Return(s)
    /\ UNCHANGED <<tontine, approved, cycles, overlapped, lost>>

(* Mutant: members are still accepted after the start. *)
LoadForStatusAny(s, u, st) ==
    /\ Known
    /\ u \in Members
    /\ Begin(s, [At("member") EXCEPT !.who = u, !.value = st])
    /\ UNCHANGED <<tontine, membership, cycles, lost>>

(* updateMemberStatus: the organizer, on a member's id, while the tontine is OPEN.
   The dto accepts any MemberStatus. *)
LoadForStatus(s, u, st) ==
    /\ Known
    /\ tontine.status = "OPEN"
    /\ u \in Members
    /\ Begin(s, [At("member") EXCEPT !.who = u, !.value = st])
    /\ UNCHANGED <<tontine, membership, cycles, lost>>

(* The status of the organizer is not to be changed. *)
FindMember(s) ==
    /\ call[s].pc = "member"
    /\ IF member[call[s].who].role = "ORGANIZER" THEN Return(s) ELSE GoTo(s, "status")
    /\ UNCHANGED <<tontine, membership, cycles, overlapped, lost>>

ApplyStatus(s) ==
    /\ call[s].pc = "status"
    /\ member' = [member EXCEPT ![call[s].who].status = call[s].value]
    /\ approved' = IF call[s].value = "CONFIRMED" THEN approved \cup {call[s].who}
                   ELSE approved
    /\ Return(s)
    /\ UNCHANGED <<tontine, cycles, overlapped, lost>>

-----------------------------------------------------------------------------
(* Mutant: start does not look at the status of the members. *)
LoadForStartUnfiltered(s) ==
    /\ Known
    /\ tontine.status = "OPEN"
    /\ Cardinality(Members) >= 2
    /\ Begin(s, [At("start") EXCEPT !.seen = Members])
    /\ UNCHANGED <<tontine, membership, cycles, lost>>

(* start: an OPEN tontine with two confirmed members or more.  The members read
   here are the ones that get a cycle. *)
LoadForStart(s) ==
    /\ Known
    /\ tontine.status = "OPEN"
    /\ Cardinality(Confirmed) >= 2
    /\ Begin(s, [At("start") EXCEPT !.seen = Confirmed])
    /\ UNCHANGED <<tontine, membership, cycles, lost>>

(* Mutant: createCycles is not called yet. *)
ApplyStartOnly(s) ==
    /\ call[s].pc = "start"
    /\ tontine' = [tontine EXCEPT !.status = "ACTIVE"]
    /\ Return(s)
    /\ UNCHANGED <<membership, cycles, overlapped, lost>>

ApplyStart(s) ==
    /\ call[s].pc = "start"
    /\ tontine' = [tontine EXCEPT !.status = "ACTIVE"]
    /\ GoTo(s, "cycles")
    /\ UNCHANGED <<membership, cycles, overlapped, lost>>

(* `payout_order ?? 999`: only create sets a payout_order, the organizer's. *)
PayoutOrder(u) == IF member[u].role = "ORGANIZER" THEN 1 ELSE 999

(* Members sorted by payout_order; those that tie stay in the order the join
   returned them, which nothing fixes. *)
Orders(S) ==
    {p \in Bijection(1 .. Cardinality(S), S) :
        \A i, j \in DOMAIN p : i < j => PayoutOrder(p[i]) <= PayoutOrder(p[j])}

(* createCycles: one cycle per confirmed member, all saved at once. *)
SaveCycles(s) ==
    /\ call[s].pc = "cycles"
    /\ \E p \in Orders(call[s].seen) :
         /\ rotations' = Append(rotations, p)
         /\ call' = [call EXCEPT ![s] = [At("announce") EXCEPT !.who = p[1]]]
    /\ UNCHANGED <<tontine, membership, announced, overlapped, lost>>

AnnounceFirst(s) ==
    /\ call[s].pc = "announce"
    /\ announced' = announced \cup {call[s].who}
    /\ Return(s)
    /\ UNCHANGED <<tontine, membership, rotations, overlapped, lost>>

(* An await rejects or the process dies: the request ends, what it wrote stays. *)
Abandon(s) ==
    /\ call[s].pc # "idle"
    /\ lost < MaxLost
    /\ lost' = lost + 1
    /\ Return(s)
    /\ UNCHANGED <<tontine, membership, cycles, overlapped>>

Continue(s) ==
    \/ SaveOrganizer(s) \/ ApplyUpdate(s) \/ ApplyOpen(s) \/ SaveMember(s)
    \/ FindMember(s) \/ ApplyStatus(s) \/ ApplyStart(s) \/ SaveCycles(s)
    \/ AnnounceFirst(s)

Request(s) ==
    \/ SaveTontine(s) \/ LoadForUpdate(s) \/ LoadForOpen(s) \/ LoadForStart(s)
    \/ \E u \in Users :
          LoadForJoin(s, u) \/ \E st \in MemberStatus : LoadForStatus(s, u, st)

Next == \E s \in Slots : Request(s) \/ Continue(s) \/ Abandon(s)

Spec == Init /\ [][Next]_vars

(* A continuation that can run does. *)
FairSpec == Spec /\ \A s \in Slots : WF_vars(Continue(s))

-----------------------------------------------------------------------------
(* Properties *)

(* Every variable holds values of its type. *)
TypeOK ==
    /\ tontine \in [status : {"ABSENT", "DRAFT", "OPEN", "ACTIVE"}, max : Nat]
    /\ member \in [Users -> [status : MemberStatus \cup {"NONE"},
                             role : {"NONE", "ORGANIZER", "MEMBER"}]]
    /\ approved \subseteq Users
    /\ rotations \in Seq(Seq(Users))
    /\ announced \subseteq Users
    /\ call \in [Slots -> [pc : {"idle", "organizer", "update", "open", "join", "member",
                                 "status", "start", "cycles", "announce"},
                           who : Users, value : MemberStatus \cup {"NONE"},
                           max : Nat, seen : SUBSET Users]]
    /\ overlapped \in BOOLEAN
    /\ lost \in Nat

(* Whatever requests overlap, a rotation has two cycles or more, one per beneficiary,
   only users the organizer once confirmed benefit, and the organizer is the first: the
   one payout_order there is, and the guard on the organizer's status, see to it (create,
   updateMemberStatus, start, createCycles). *)
RotationOfApproved ==
    \A i \in DOMAIN rotations :
       /\ Len(rotations[i]) >= 2
       /\ IsInjective(rotations[i])
       /\ Range(rotations[i]) \subseteq approved
       /\ rotations[i][1] = Organizer

(* As long as requests do not overlap, the tontine never has more members than
   max_members, cycles are created once, and from then on they are one for each
   confirmed member (join, update, start, updateMemberStatus). *)
EnrolmentMatches ==
    ~overlapped =>
       /\ Cardinality(Members) <= tontine.max
       /\ rotations # <<>> => Len(rotations) = 1 /\ Range(rotations[1]) = Confirmed

(* As long as requests do not overlap, a tontine goes from DRAFT to OPEN to ACTIVE
   and its terms are those it was opened with (open, start, update). *)
OpenedOnItsTerms == [][
    ~overlapped' /\ tontine' # tontine =>
       \/ tontine.status \in {"ABSENT", "DRAFT"} /\ tontine'.status = "DRAFT"
       \/ /\ <<tontine.status, tontine'.status>> \in {<<"DRAFT", "OPEN">>, <<"OPEN", "ACTIVE">>}
          /\ tontine'.max = tontine.max ]_vars

(* Until a request is cut off, however many overlap, what a request has done by halves is
   in its hands: a tontine without its organizer, a started one without its cycles, and a
   rotation whose first beneficiary, the organizer, has not been told (create, start,
   createCycles). *)
HalfDoneIsInHand ==
    lost = 0 =>
       /\ tontine.status # "ABSENT" /\ ~Known => \E s \in Slots : call[s].pc = "organizer"
       /\ tontine.status = "ACTIVE" /\ rotations = <<>> => \E s \in Slots : call[s].pc = "cycles"
       /\ rotations # <<>> /\ Organizer \notin announced =>
             \E s \in Slots : call[s].pc = "announce" /\ call[s].who = Organizer

(* A tontine that is started gets its cycles, unless a request is cut off. *)
StartedRotates == tontine.status = "ACTIVE" ~> rotations # <<>> \/ lost > 0

(* "Cree N cycles en base, un par membre CONFIRMED" (cycles.service.ts:39): no
   member has two cycles. *)
OneCyclePerMember ==
    \A i, j \in DOMAIN rotations : i # j =>
       Range(rotations[i]) \cap Range(rotations[j]) = {}
=============================================================================
