------------------------------- MODULE Score -------------------------------
(***************************************************************************)
(* The credit score of the users: ScoreService.addPositiveScore and        *)
(* applyPenalty, and SanctionsService.processLatePayments, which penalises *)
(* the late members of a cycle one by one and tells each by a push         *)
(* (NotificationsService.queuePush).  One action is the code from one await*)
(* to the next; any number of calls may be in progress.                    *)
(***************************************************************************)
EXTENDS Integers, FiniteSets, FiniteSetsExt

CONSTANTS
    Users,
    FirstScores,   \* scores that users may have to begin with
    Slots,         \* calls in progress
    Nobody,
    MaxCalls,      \* bound on the calls ever begun
    MaxFaults      \* bound on failed awaits and crashes

Scores == 0..1000

ASSUME ScoreAssumption ==
    /\ FirstScores \subseteq Scores
    /\ Nobody \notin Users
    /\ IsFiniteSet(Slots)
    /\ {MaxCalls, MaxFaults} \subseteq Nat

VARIABLES
    score,    \* users.credit_score
    call,     \* the calls in progress
    begun,    \* calls ever begun
    asked,    \* how often a run of sanctions was asked to sanction each user (history)
    told,     \* push jobs enqueued for each user
    due,      \* the score by the rules, every change applied at once (history)
    mixed,    \* users whose score was 0 when read, or changed after another call read it
    faults

vars == <<score, call, begun, asked, told, due, mixed, faults>>

NoCall == [pc |-> "idle", op |-> "none", who |-> Nobody, late |-> {}, seen |-> 0]

Init ==
    /\ score \in [Users -> FirstScores]
    /\ call = [s \in Slots |-> NoCall]
    /\ begun = 0
    /\ asked = [u \in Users |-> 0]
    /\ told = [u \in Users |-> 0]
    /\ due = score
    /\ mixed = {}
    /\ faults = 0

-----------------------------------------------------------------------------
(* The rules: 5 points up to 1000 for a contribution, 20 down to 0 for a delay. *)
Rule(op, n) == IF op = "bonus" THEN Min({1000, n + 5}) ELSE Max({0, n - 20})

(* Mutants: a penalty is not taken from a score below 20; no ceiling and no floor. *)
NewScoreSpared(op, seen) ==
    IF op = "penalty" /\ seen < 20 THEN seen ELSE Rule(op, IF seen = 0 THEN 500 ELSE seen)
NewScoreUnbounded(op, seen) == IF op = "bonus" THEN seen + 5 ELSE seen - 20

(* `user.credit_score || 500`: a score of 0 counts as none. *)
NewScore(op, seen) == Rule(op, IF seen = 0 THEN 500 ELSE seen)

Begin(s) ==
    /\ call[s] = NoCall
    /\ begun < MaxCalls
    /\ begun' = begun + 1

(* addPositiveScore. *)
BeginBonus(s, u) ==
    /\ Begin(s)
    /\ call' = [call EXCEPT ![s] = [@ EXCEPT !.pc = "find", !.op = "bonus", !.who = u]]
    /\ UNCHANGED <<score, asked, told, due, mixed, faults>>

(* The loop of processLatePayments: the next late user, or the end. *)
Onward(s, late) ==
    IF late = {} THEN call' = [call EXCEPT ![s] = NoCall]
    ELSE \E u \in late :
            call' = [call EXCEPT ![s] = [NoCall EXCEPT !.pc = "find", !.op = "penalty",
                                         !.who = u, !.late = late \ {u}]]

(* processLatePayments, for the late users of a cycle in the order they come. *)
BeginSanctions(s, late) ==
    /\ Begin(s)
    /\ Onward(s, late)
    /\ asked' = [u \in Users |-> asked[u] + IF u \in late THEN 1 ELSE 0]
    /\ UNCHANGED <<score, told, due, mixed, faults>>

(* findById. *)
FindUser(s) ==
    /\ call[s].pc = "find"
    /\ call' = [call EXCEPT ![s].pc = "update", ![s].seen = score[call[s].who]]
    /\ mixed' = IF score[call[s].who] = 0 THEN mixed \cup {call[s].who} ELSE mixed
    /\ UNCHANGED <<score, begun, asked, told, due, faults>>

(* What follows applyPenalty, or ends addPositiveScore. *)
Scored(s) ==
    call' = [call EXCEPT ![s] = IF call[s].op = "bonus" THEN NoCall
                                ELSE [@ EXCEPT !.pc = "push", !.seen = 0]]

(* updateCreditScore: the value computed from the score as it was read. *)
UpdateScore(s) ==
    LET u == call[s].who IN
    /\ call[s].pc = "update"
    /\ score' = [score EXCEPT ![u] = NewScore(call[s].op, call[s].seen)]
    /\ due' = [due EXCEPT ![u] = Rule(call[s].op, due[u])]
    /\ mixed' = IF \E t \in Slots \ {s} : call[t].pc = "update" /\ call[t].who = u
                THEN mixed \cup {u} ELSE mixed
    /\ Scored(s)
    /\ UNCHANGED <<begun, asked, told, faults>>

Fault == faults < MaxFaults /\ faults' = faults + 1

(* ScoreService catches whatever its awaits throw: the caller goes on. *)
ScoreError(s) ==
    /\ call[s].pc \in {"find", "update"}
    /\ Fault
    /\ Scored(s)
    /\ UNCHANGED <<score, begun, asked, told, due, mixed>>

(* Mutant: the first push ends the loop. *)
QueuePushOnce(s) ==
    /\ call[s].pc = "push"
    /\ told' = [told EXCEPT ![call[s].who] = @ + 1]
    /\ Onward(s, {})
    /\ UNCHANGED <<score, begun, asked, due, mixed, faults>>

(* notificationsQueue.add('send-push'), then the next late user. *)
QueuePush(s) ==
    /\ call[s].pc = "push"
    /\ told' = [told EXCEPT ![call[s].who] = @ + 1]
    /\ Onward(s, call[s].late)
    /\ UNCHANGED <<score, begun, asked, due, mixed, faults>>

(* Nothing catches an error of the queue: the users that are left are not sanctioned. *)
PushError(s) ==
    /\ call[s].pc = "push"
    /\ Fault
    /\ call' = [call EXCEPT ![s] = NoCall]
    /\ UNCHANGED <<score, begun, asked, told, due, mixed>>

Crash ==
    /\ Fault
    /\ call' = [s \in Slots |-> NoCall]
    /\ UNCHANGED <<score, begun, asked, told, due, mixed>>

CallStep(s) == FindUser(s) \/ UpdateScore(s) \/ QueuePush(s)

Next ==
    \/ \E s \in Slots :
          \/ CallStep(s) \/ ScoreError(s) \/ PushError(s)
          \/ \E u \in Users : BeginBonus(s, u)
          \/ \E late \in (SUBSET Users) \ {{}} : BeginSanctions(s, late)
    \/ Crash

Spec == Init /\ [][Next]_vars

-----------------------------------------------------------------------------
(* Properties *)

(* Every variable holds values of its type; a score stays within its bounds. *)
TypeOK ==
    /\ score \in [Users -> Scores]
    /\ call \in [Slots -> [pc : {"idle", "find", "update", "push"},
                           op : {"none", "bonus", "penalty"}, who : Users \cup {Nobody},
                           late : SUBSET Users, seen : Scores]]
    /\ begun \in Nat
    /\ {asked, told} \subseteq [Users -> Nat]
    /\ due \in [Users -> Scores]
    /\ mixed \subseteq Users
    /\ faults \in Nat

(* A user's score is what the rules make of it, whatever calls fail or are cut off, as
   long as two changes of it do not cross and it never was 0 (addPositiveScore and
   applyPenalty read, compute and write in separate awaits). *)
ScoreIsDue == \A u \in Users \ mixed : score[u] = due[u]

(* However runs of sanctions overlap, each late user is told once per run that named
   them, or is still to be told; an error of the queue or a crash may leave users out,
   never tell one twice (processLatePayments). *)
ToTell(u) == {s \in Slots : call[s].op = "penalty" /\ u \in call[s].late \cup {call[s].who}}

ToldOncePerRun ==
    \A u \in Users :
       LET reached == told[u] + Cardinality(ToTell(u)) IN
       reached <= asked[u] /\ (faults = 0 => reached = asked[u])
=============================================================================
