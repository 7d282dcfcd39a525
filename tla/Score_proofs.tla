---------------------------- MODULE Score_proofs ----------------------------
(* Proofs about Score, for any number of users, calls in progress and faults. *)
EXTENDS Score, FiniteSetTheorems, TLAPS

CallType == [pc : {"idle", "find", "update", "push"}, op : {"none", "bonus", "penalty"},
             who : Users \cup {Nobody}, late : SUBSET Users, seen : Scores]

(* A call is about a user; and between its two awaits it holds the score the row still
   has, unless another change came between or the score was 0. *)
CallKnows(s) ==
    /\ call[s].pc # "idle" => call[s].who \in Users
    /\ call[s].pc = "update" /\ call[s].who \notin mixed =>
          call[s].seen = score[call[s].who] /\ call[s].seen # 0

ScoreInv ==
    /\ TypeOK
    /\ \A s \in Slots : CallKnows(s)
    /\ ScoreIsDue

(* The rules keep a score within its bounds. *)
LEMMA RuleBounded ==
    ASSUME NEW op, NEW n \in Scores
    PROVE  Rule(op, n) \in Scores
<1> USE DEF Scores
<1>1. Min({1000, n + 5}) \in 0..1000
  <2>1. Min({1000, n + 5}) = IF n + 5 < 1000 THEN n + 5 ELSE 1000
    <3> DEFINE m == IF n + 5 < 1000 THEN n + 5 ELSE 1000
    <3>1. m \in {1000, n + 5} /\ \A y \in {1000, n + 5} : m <= y
      OBVIOUS
    <3>2. \A x \in {1000, n + 5} : (\A y \in {1000, n + 5} : x <= y) => x = m
      BY <3>1
    <3> HIDE DEF m
    <3>3. Min({1000, n + 5}) = m
      BY <3>1, <3>2 DEF Min
    <3> QED
      BY <3>3 DEF m
  <2> QED
    BY <2>1
<1>2. Max({0, n - 20}) \in 0..1000
  <2>1. Max({0, n - 20}) = IF n - 20 > 0 THEN n - 20 ELSE 0
    <3> DEFINE m == IF n - 20 > 0 THEN n - 20 ELSE 0
    <3>1. m \in {0, n - 20} /\ \A y \in {0, n - 20} : m >= y
      OBVIOUS
    <3>2. \A x \in {0, n - 20} : (\A y \in {0, n - 20} : x >= y) => x = m
      BY <3>1
    <3> HIDE DEF m
    <3>3. Max({0, n - 20}) = m
      BY <3>1, <3>2 DEF Max
    <3> QED
      BY <3>3 DEF m
  <2> QED
    BY <2>1
<1> QED
  BY <1>1, <1>2 DEF Rule

LEMMA NewScoreBounded ==
    ASSUME NEW op, NEW seen \in Scores
    PROVE  /\ NewScore(op, seen) \in Scores
           /\ seen # 0 => NewScore(op, seen) = Rule(op, seen)
<1>1. 500 \in Scores
  BY DEF Scores
<1>2. CASE seen = 0
  <2>1. NewScore(op, seen) = Rule(op, 500)
    BY <1>2 DEF NewScore
  <2> QED
    BY <1>1, <1>2, <2>1, RuleBounded
<1>3. CASE seen # 0
  <2>1. NewScore(op, seen) = Rule(op, seen)
    BY <1>3 DEF NewScore
  <2> QED
    BY <2>1, RuleBounded
<1> QED
  BY <1>2, <1>3

LEMMA ScoreInit == Init => ScoreInv
<1> SUFFICES ASSUME Init PROVE ScoreInv
  OBVIOUS
<1> USE ScoreAssumption DEF Init, NoCall
<1>0. 0 \in Scores
  BY DEF Scores
<1>1. TypeOK
  <2>1. score \in [Users -> Scores] /\ due = score
    BY Zenon
  <2>2. NoCall \in CallType
    BY <1>0 DEF CallType
  <2>3. call \in [Slots -> CallType]
    BY <2>2
  <2>4. /\ asked \in [Users -> Nat] /\ told \in [Users -> Nat]
        /\ begun \in Nat /\ faults \in Nat /\ mixed \subseteq Users
    OBVIOUS
  <2> QED
    BY <2>1, <2>3, <2>4 DEF TypeOK, CallType
<1>2. \A s \in Slots : CallKnows(s)
  BY DEF CallKnows
<1>3. ScoreIsDue
  BY DEF ScoreIsDue
<1> QED
  BY <1>1, <1>2, <1>3 DEF ScoreInv

(* Steps that leave the scores alone and move one call to h, a call that is not about to
   write, or is over. *)
LEMMA CallMoves ==
    ASSUME ScoreInv, NEW s \in Slots, NEW h \in CallType, call' = [call EXCEPT ![s] = h],
           h.pc # "update", h.pc # "idle" => h.who \in Users,
           UNCHANGED <<score, due, mixed>>,
           begun' \in Nat, asked' \in [Users -> Nat], told' \in [Users -> Nat], faults' \in Nat
    PROVE  ScoreInv'
<1>1. TypeOK /\ ScoreIsDue /\ \A t \in Slots : CallKnows(t)
  BY DEF ScoreInv
<1>2. call \in [Slots -> CallType]
  BY <1>1 DEF TypeOK, CallType
<1>3. /\ call' \in [Slots -> CallType] /\ call'[s] = h
      /\ \A t \in Slots : t # s => call'[t] = call[t]
  BY <1>2
<1>4. TypeOK'
  BY <1>1, <1>3 DEF TypeOK, CallType
<1>5. \A t \in Slots : CallKnows(t)'
  BY <1>1, <1>3 DEF CallKnows
<1>6. ScoreIsDue'
  BY <1>1 DEF ScoreIsDue
<1> QED
  BY <1>4, <1>5, <1>6 DEF ScoreInv

(* What the types say of a call, and what the loop makes of it. *)
LEMMA CallTyped ==
    ASSUME ScoreInv, NEW s \in Slots
    PROVE  /\ call[s] \in CallType /\ CallKnows(s) /\ NoCall \in CallType
           /\ call \in [Slots -> CallType]
           /\ begun \in Nat /\ asked \in [Users -> Nat] /\ told \in [Users -> Nat]
           /\ faults \in Nat
<1>1. NoCall \in CallType
  <2>1. 0 \in Scores
    BY DEF Scores
  <2> QED
    BY <2>1 DEF NoCall, CallType
<1> QED
  BY <1>1 DEF ScoreInv, TypeOK, CallType

LEMMA OnwardMoves ==
    ASSUME ScoreInv, NEW s \in Slots, NEW late \in SUBSET Users, Onward(s, late)
    PROVE  \E h \in CallType : /\ call' = [call EXCEPT ![s] = h]
                               /\ h.pc # "update"
                               /\ h.pc # "idle" => h.who \in Users
<1>1. CASE late = {}
  <2>1. call' = [call EXCEPT ![s] = NoCall] /\ NoCall \in CallType /\ NoCall.pc = "idle"
    BY <1>1, CallTyped DEF Onward, NoCall
  <2> QED
    BY <2>1
<1>2. CASE late # {}
  <2>1. PICK u \in late :
            call' = [call EXCEPT ![s] = [NoCall EXCEPT !.pc = "find", !.op = "penalty",
                                         !.who = u, !.late = late \ {u}]]
    BY <1>2 DEF Onward
  <2> DEFINE h == [NoCall EXCEPT !.pc = "find", !.op = "penalty",
                                 !.who = u, !.late = late \ {u}]
  <2>2. h \in CallType /\ h.pc = "find" /\ h.who = u /\ u \in Users
    <3>1. /\ u \in Users /\ late \ {u} \in SUBSET Users
          /\ NoCall \in CallType
      BY CallTyped
    <3> QED
      BY <3>1 DEF CallType
  <2> HIDE DEF h
  <2>3. call' = [call EXCEPT ![s] = h]
    BY <2>1 DEF h
  <2> QED
    BY <2>2, <2>3
<1> QED
  BY <1>1, <1>2

LEMMA ScoredMoves ==
    ASSUME ScoreInv, NEW s \in Slots, call[s].pc \in {"find", "update"}, Scored(s)
    PROVE  \E h \in CallType : /\ call' = [call EXCEPT ![s] = h]
                               /\ h.pc # "update"
                               /\ h.pc # "idle" => h.who \in Users
<1>1. call[s] \in CallType /\ CallKnows(s) /\ NoCall \in CallType /\ call \in [Slots -> CallType]
  BY CallTyped
<1>2. CASE call[s].op = "bonus"
  <2>1. call' = [call EXCEPT ![s] = NoCall] /\ NoCall.pc = "idle"
    BY <1>1, <1>2 DEF Scored, NoCall
  <2> QED
    BY <1>1, <2>1
<1>3. CASE call[s].op # "bonus"
  <2> DEFINE h == [call[s] EXCEPT !.pc = "push", !.seen = 0]
  <2>1. h \in CallType /\ h.pc = "push" /\ h.who = call[s].who
    <3>1. call[s] \in CallType /\ 0 \in Scores
      BY <1>1 DEF Scores
    <3> QED
      BY <3>1 DEF CallType
  <2>2. call' = [call EXCEPT ![s] = h]
    BY <1>1, <1>3 DEF Scored
  <2>3. call[s].who \in Users
    BY <1>1 DEF CallKnows
  <2> HIDE DEF h
  <2> QED
    BY <2>1, <2>2, <2>3
<1> QED
  BY <1>2, <1>3

-----------------------------------------------------------------------------
LEMMA BeginStep ==
    ASSUME ScoreInv, NEW s \in Slots,
           \/ \E u \in Users : BeginBonus(s, u)
           \/ \E late \in (SUBSET Users) \ {{}} : BeginSanctions(s, late)
    PROVE  ScoreInv'
<1>1. begun' \in Nat /\ UNCHANGED <<score, due, mixed, told, faults>>
  <2>1. begun \in Nat
    BY CallTyped
  <2>2. Begin(s) /\ UNCHANGED <<score, due, mixed, told, faults>>
    <3>1. \A u : BeginBonus(s, u) => Begin(s) /\ UNCHANGED <<score, due, mixed, told, faults>>
      BY DEF BeginBonus
    <3>2. \A late : BeginSanctions(s, late) =>
              Begin(s) /\ UNCHANGED <<score, due, mixed, told, faults>>
      BY DEF BeginSanctions
    <3> QED
      BY <3>1, <3>2, Zenon
  <2> QED
    BY <2>1, <2>2 DEF Begin
<1>2. told' \in [Users -> Nat] /\ faults' \in Nat
  BY <1>1, CallTyped
<1>3. ASSUME NEW u \in Users, BeginBonus(s, u) PROVE ScoreInv'
  <2> DEFINE h == [call[s] EXCEPT !.pc = "find", !.op = "bonus", !.who = u]
  <2>1. h \in CallType /\ h.pc = "find" /\ h.who = u
    <3>1. call[s] \in CallType
      BY CallTyped
    <3> QED
      BY <3>1 DEF CallType
  <2>2. call' = [call EXCEPT ![s] = h] /\ asked' = asked
    BY <1>3, CallTyped DEF BeginBonus
  <2> HIDE DEF h
  <2> QED
    BY <1>1, <1>2, <2>1, <2>2, CallMoves, CallTyped
<1>4. ASSUME NEW late \in SUBSET Users, BeginSanctions(s, late) PROVE ScoreInv'
  <2>1. asked' = [u \in Users |-> asked[u] + IF u \in late THEN 1 ELSE 0] /\ Onward(s, late)
    BY <1>4 DEF BeginSanctions
  <2>2. asked' \in [Users -> Nat]
    <3>1. \A u \in Users : asked[u] + (IF u \in late THEN 1 ELSE 0) \in Nat
      BY CallTyped
    <3> QED
      BY <2>1, <3>1
  <2>3. PICK h \in CallType : /\ call' = [call EXCEPT ![s] = h]
                              /\ h.pc # "update"
                              /\ h.pc # "idle" => h.who \in Users
    BY <2>1, OnwardMoves
  <2> QED
    BY <1>1, <1>2, <2>2, <2>3, CallMoves
<1> QED
  BY <1>3, <1>4

LEMMA FindUserStep ==
    ASSUME ScoreInv, NEW s \in Slots, FindUser(s) PROVE ScoreInv'
<1>1. TypeOK /\ ScoreIsDue /\ \A t \in Slots : CallKnows(t)
  BY DEF ScoreInv
<1>2. /\ call[s].pc = "find" /\ call[s].who \in Users
      /\ UNCHANGED <<score, begun, asked, told, due, faults>>
  BY <1>1 DEF FindUser, CallKnows
<1>3. /\ mixed \subseteq mixed' /\ mixed' \subseteq Users
      /\ score[call[s].who] = 0 => call[s].who \in mixed'
  BY <1>1, <1>2 DEF FindUser, TypeOK
<1> DEFINE h == [call[s] EXCEPT !.pc = "update", !.seen = score[call[s].who]]
<1>4. score[call[s].who] \in Scores
  BY <1>1, <1>2 DEF TypeOK
<1>5. h \in CallType /\ h.pc = "update" /\ h.who = call[s].who /\ h.seen = score[call[s].who]
  <2>1. call[s] \in CallType
    BY CallTyped
  <2> QED
    BY <1>4, <2>1 DEF CallType
<1>6. call' = [call EXCEPT ![s] = h]
  <2>1. call \in [Slots -> CallType]
    BY CallTyped
  <2> QED
    BY <2>1 DEF FindUser
<1> HIDE DEF h
<1>7. /\ call' \in [Slots -> CallType] /\ call'[s] = h
      /\ \A t \in Slots : t # s => call'[t] = call[t]
  BY <1>5, <1>6, CallTyped
<1>8. TypeOK'
  BY <1>1, <1>2, <1>3, <1>7 DEF TypeOK, CallType
<1>9. \A t \in Slots : CallKnows(t)'
  <2>1. CallKnows(s)'
    BY <1>2, <1>3, <1>5, <1>7 DEF CallKnows
  <2>2. ASSUME NEW t \in Slots, t # s PROVE CallKnows(t)'
    BY <1>1, <1>2, <1>3, <1>7, <2>2 DEF CallKnows
  <2> QED
    BY <2>1, <2>2
<1>10. ScoreIsDue'
  BY <1>1, <1>2, <1>3 DEF ScoreIsDue
<1> QED
  BY <1>8, <1>9, <1>10 DEF ScoreInv

LEMMA UpdateScoreStep ==
    ASSUME ScoreInv, NEW s \in Slots, UpdateScore(s) PROVE ScoreInv'
<1> DEFINE u == call[s].who
           n == NewScore(call[s].op, call[s].seen)
           r == Rule(call[s].op, due[u])
<1>1. TypeOK /\ ScoreIsDue /\ (\A t \in Slots : CallKnows(t)) /\ call[s] \in CallType
  BY CallTyped DEF ScoreInv
<1>2. /\ call[s].pc = "update" /\ u \in Users
      /\ call[s].seen \in Scores
  BY <1>1 DEF UpdateScore, CallKnows, CallType
<1>3. /\ score' = [score EXCEPT ![u] = n] /\ due' = [due EXCEPT ![u] = r]
      /\ UNCHANGED <<begun, asked, told, faults>> /\ Scored(s)
  BY DEF UpdateScore
<1>4. /\ mixed \subseteq mixed' /\ mixed' \subseteq Users
      /\ \A t \in Slots \ {s} : call[t].pc = "update" /\ call[t].who = u => u \in mixed'
  BY <1>1, <1>2 DEF UpdateScore, TypeOK
<1>5. /\ score \in [Users -> Scores] /\ due \in [Users -> Scores]
      /\ n \in Scores /\ r \in Scores
  <2>1. score \in [Users -> Scores] /\ due \in [Users -> Scores]
    BY <1>1 DEF TypeOK
  <2>2. due[u] \in Scores
    BY <1>2, <2>1
  <2>3. r \in Scores
    BY <2>2, RuleBounded
  <2>4. n \in Scores
    BY <1>2, NewScoreBounded
  <2> QED
    BY <2>1, <2>3, <2>4
<1>6. u \notin mixed => n = r
  <2> HAVE u \notin mixed
  <2>1. call[s].seen = score[u] /\ call[s].seen # 0 /\ score[u] = due[u]
    BY <1>1, <1>2 DEF CallKnows, ScoreIsDue
  <2>2. n = Rule(call[s].op, call[s].seen)
    BY <1>2, <2>1, NewScoreBounded
  <2> QED
    BY <2>1, <2>2
<1>7. PICK h \in CallType : /\ call' = [call EXCEPT ![s] = h]
                            /\ h.pc # "update"
                            /\ h.pc # "idle" => h.who \in Users
  BY <1>2, <1>3, ScoredMoves
<1>8. /\ call' \in [Slots -> CallType] /\ call'[s] = h
      /\ \A t \in Slots : t # s => call'[t] = call[t]
  BY <1>7, CallTyped
<1> HIDE DEF u, n, r
<1>9. TypeOK'
  <2>1. score' \in [Users -> Scores] /\ due' \in [Users -> Scores]
    BY <1>3, <1>5
  <2>2. mixed' \subseteq Users
    BY <1>4
  <2>3. begun' \in Nat /\ {asked', told'} \subseteq [Users -> Nat] /\ faults' \in Nat
    BY <1>1, <1>3 DEF TypeOK
  <2> QED
    BY <1>8, <2>1, <2>2, <2>3 DEF TypeOK, CallType
<1>10. \A t \in Slots : CallKnows(t)'
  <2>1. CallKnows(s)'
    BY <1>7, <1>8 DEF CallKnows
  <2>2. ASSUME NEW t \in Slots, t # s PROVE CallKnows(t)'
    <3>1. CallKnows(t) /\ call'[t] = call[t]
      BY <1>1, <1>8, <2>2
    <3>2. CASE call[t].pc = "update" /\ call[t].who \notin mixed'
      <4>1. call[t].who # u /\ call[t].who \notin mixed
        BY <1>4, <2>2, <3>2
      <4>2. score'[call[t].who] = score[call[t].who]
        BY <1>3, <1>5, <3>1, <3>2, <4>1 DEF CallKnows
      <4> QED
        BY <3>1, <3>2, <4>1, <4>2 DEF CallKnows
    <3>3. CASE ~(call[t].pc = "update" /\ call[t].who \notin mixed')
      BY <3>1, <3>3 DEF CallKnows
    <3> QED
      BY <3>2, <3>3
  <2> QED
    BY <2>1, <2>2
<1>11. ScoreIsDue'
  <2> SUFFICES ASSUME NEW v \in Users \ mixed' PROVE score'[v] = due'[v]
    BY DEF ScoreIsDue
  <2>1. v \notin mixed /\ score[v] = due[v]
    BY <1>1, <1>4 DEF ScoreIsDue
  <2> QED
    BY <1>3, <1>5, <1>6, <2>1
<1> QED
  BY <1>9, <1>10, <1>11 DEF ScoreInv

LEMMA FaultStep ==
    ASSUME ScoreInv, NEW s \in Slots, ScoreError(s) \/ PushError(s) PROVE ScoreInv'
<1>1. /\ UNCHANGED <<score, begun, asked, told, due, mixed>>
      /\ faults' \in Nat
  BY CallTyped DEF ScoreError, PushError, Fault
<1>2. begun' \in Nat /\ asked' \in [Users -> Nat] /\ told' \in [Users -> Nat]
  BY <1>1, CallTyped
<1>3. CASE ScoreError(s)
  <2>1. PICK h \in CallType : /\ call' = [call EXCEPT ![s] = h]
                              /\ h.pc # "update"
                              /\ h.pc # "idle" => h.who \in Users
    BY <1>3, ScoredMoves DEF ScoreError
  <2> QED
    BY <1>1, <1>2, <2>1, CallMoves
<1>4. CASE PushError(s)
  <2>1. call' = [call EXCEPT ![s] = NoCall] /\ NoCall \in CallType /\ NoCall.pc = "idle"
    BY <1>4, CallTyped DEF PushError, NoCall
  <2> QED
    BY <1>1, <1>2, <2>1, CallMoves
<1> QED
  BY <1>3, <1>4

LEMMA QueuePushStep ==
    ASSUME ScoreInv, NEW s \in Slots, QueuePush(s) PROVE ScoreInv'
<1>1. /\ call[s].pc = "push" /\ call[s].who \in Users
      /\ call[s].late \in SUBSET Users /\ Onward(s, call[s].late)
  BY CallTyped DEF QueuePush, CallKnows, CallType
<1>2. /\ UNCHANGED <<score, begun, asked, due, mixed, faults>>
      /\ told' = [told EXCEPT ![call[s].who] = @ + 1]
  BY DEF QueuePush
<1>3. told' \in [Users -> Nat] /\ begun' \in Nat /\ asked' \in [Users -> Nat] /\ faults' \in Nat
  BY <1>1, <1>2, CallTyped
<1>4. PICK h \in CallType : /\ call' = [call EXCEPT ![s] = h]
                            /\ h.pc # "update"
                            /\ h.pc # "idle" => h.who \in Users
  BY <1>1, OnwardMoves
<1> QED
  BY <1>2, <1>3, <1>4, CallMoves

LEMMA CrashStep == ASSUME ScoreInv, Crash PROVE ScoreInv'
<1>1. TypeOK /\ ScoreIsDue
  BY DEF ScoreInv
<1>2. /\ UNCHANGED <<score, begun, asked, told, due, mixed>>
      /\ faults' \in Nat /\ call' = [s \in Slots |-> NoCall]
  BY <1>1 DEF Crash, Fault, TypeOK
<1>3. NoCall \in CallType /\ NoCall.pc = "idle"
  <2>1. 0 \in Scores
    BY DEF Scores
  <2> QED
    BY <2>1 DEF NoCall, CallType
<1>4. TypeOK'
  BY <1>1, <1>2, <1>3 DEF TypeOK, CallType
<1>5. \A s \in Slots : CallKnows(s)'
  BY <1>2, <1>3 DEF CallKnows
<1>6. ScoreIsDue'
  BY <1>1, <1>2 DEF ScoreIsDue
<1> QED
  BY <1>4, <1>5, <1>6 DEF ScoreInv

LEMMA ScoreStep == ScoreInv /\ [Next]_vars => ScoreInv'
<1> SUFFICES ASSUME ScoreInv, [Next]_vars PROVE ScoreInv'
  OBVIOUS
<1>1. ASSUME NEW s \in Slots, CallStep(s) PROVE ScoreInv'
  BY <1>1, FindUserStep, UpdateScoreStep, QueuePushStep DEF CallStep
<1>2. ASSUME NEW s \in Slots, ScoreError(s) \/ PushError(s) PROVE ScoreInv'
  BY <1>2, FaultStep
<1>3. ASSUME NEW s \in Slots,
             \/ \E u \in Users : BeginBonus(s, u)
             \/ \E late \in (SUBSET Users) \ {{}} : BeginSanctions(s, late)
      PROVE  ScoreInv'
  BY <1>3, BeginStep
<1>4. CASE Crash
  BY <1>4, CrashStep
<1>5. CASE UNCHANGED vars
  BY <1>5 DEF vars, ScoreInv, TypeOK, CallKnows, ScoreIsDue
<1> QED
  BY <1>1, <1>2, <1>3, <1>4, <1>5 DEF Next

(* ScoreInv is an invariant of the scores. *)
THEOREM ScoresHold == Spec => []ScoreInv
BY ScoreInit, ScoreStep, PTL DEF Spec

(* The types of TypeOK hold; among them the bounds of the score, 0 to 1000. *)
THEOREM ScoreTypeCorrect == Spec => []TypeOK
<1>1. ScoreInv => TypeOK
  BY DEF ScoreInv
<1> QED
  BY <1>1, ScoresHold, PTL

(* Only two changes of one user's score that cross, or a score of 0, make it another one
   than addPositiveScore and applyPenalty are to make of it. *)
THEOREM ScoreIsDueCorrect == Spec => []ScoreIsDue
<1>1. ScoreInv => ScoreIsDue
  BY DEF ScoreInv
<1> QED
  BY <1>1, ScoresHold, PTL

-----------------------------------------------------------------------------
(* The loop of processLatePayments counted: what a call has still to tell does not hold
   the user it is at twice, and a call that ends or begins has nobody to tell. *)
LoopKnows(s) ==
    /\ call[s].op = "penalty" => call[s].pc # "idle" /\ call[s].who \notin call[s].late
    /\ call[s].pc = "push" => call[s].op = "penalty"
    /\ call[s].pc # "idle" => call[s].op # "none"

ToldInv == (\A s \in Slots : LoopKnows(s)) /\ ToldOncePerRun

LEMMA Counted ==
    ASSUME NEW S \in SUBSET Slots
    PROVE  IsFiniteSet(S) /\ Cardinality(S) \in Nat
BY FS_Subset, FS_CardinalityType, ScoreAssumption

LEMMA ToldInit == Init => ToldInv
<1> SUFFICES ASSUME Init PROVE ToldInv
  OBVIOUS
<1>1. \A s \in Slots : LoopKnows(s)
  BY DEF Init, LoopKnows, NoCall
<1>2. \A u \in Users : ToTell(u) = {} /\ told[u] = 0 /\ asked[u] = 0
  BY DEF Init, ToTell, NoCall
<1>3. ToldOncePerRun
  BY <1>2, FS_EmptySet DEF ToldOncePerRun
<1> QED
  BY <1>1, <1>3 DEF ToldInv

(* A call that moves to h, which has no more users to tell than it had. *)
LEMMA Untold ==
    ASSUME ScoreInv, ToldInv, NEW s \in Slots, NEW h \in CallType,
           call' = [call EXCEPT ![s] = h], UNCHANGED <<told, asked>>,
           h.op = "penalty" => /\ h.pc # "idle" /\ h.who \notin h.late
                               /\ call[s].op = "penalty"
                               /\ h.late = call[s].late /\ h.who = call[s].who,
           h.pc = "push" => h.op = "penalty", h.pc # "idle" => h.op # "none",
           faults' \in Nat, faults' = 0 => faults = 0 /\ (call[s].op = "penalty" => h.op = "penalty")
    PROVE  ToldInv'
<1>1. call'[s] = h /\ \A t \in Slots : t # s => call'[t] = call[t]
  BY CallTyped
<1>2. \A t \in Slots : LoopKnows(t)'
  BY <1>1 DEF ToldInv, LoopKnows
<1>3. ToldOncePerRun'
  <2> SUFFICES ASSUME NEW u \in Users
      PROVE  /\ told[u] + Cardinality(ToTell(u)') <= asked[u]
             /\ faults' = 0 => told[u] + Cardinality(ToTell(u)') = asked[u]
    BY DEF ToldOncePerRun
  <2>1. ToTell(u)' \in SUBSET ToTell(u) /\ ToTell(u) \in SUBSET Slots
    BY <1>1 DEF ToTell
  <2>2. faults' = 0 => ToTell(u)' = ToTell(u)
    BY <1>1 DEF ToTell
  <2>3. /\ told[u] + Cardinality(ToTell(u)) <= asked[u]
        /\ faults = 0 => told[u] + Cardinality(ToTell(u)) = asked[u]
    BY DEF ToldInv, ToldOncePerRun
  <2>4. /\ Cardinality(ToTell(u)') <= Cardinality(ToTell(u))
        /\ Cardinality(ToTell(u)') \in Nat /\ Cardinality(ToTell(u)) \in Nat
    BY <2>1, Counted, FS_Subset
  <2>5. told[u] \in Nat /\ asked[u] \in Nat
    BY CallTyped
  <2> QED
    BY <2>2, <2>3, <2>4, <2>5
<1> QED
  BY <1>2, <1>3 DEF ToldInv

(* The loop as it goes on: whoever is left has the next step, nobody else. *)
LEMMA OnwardTells ==
    ASSUME ScoreInv, NEW s \in Slots, NEW late \in SUBSET Users, Onward(s, late)
    PROVE  \E h \in CallType :
              /\ call' = [call EXCEPT ![s] = h]
              /\ h.op = "penalty" => h.pc # "idle" /\ h.who \notin h.late
              /\ h.pc # "push" /\ (h.pc # "idle" => h.op # "none")
              /\ IF late = {} THEN h.op = "none"
                 ELSE h.op = "penalty" /\ h.late \cup {h.who} = late
<1>1. CASE late = {}
  <2>1. call' = [call EXCEPT ![s] = NoCall] /\ NoCall \in CallType
        /\ NoCall.pc = "idle" /\ NoCall.op = "none"
    BY <1>1, CallTyped DEF Onward, NoCall
  <2> QED
    BY <1>1, <2>1
<1>2. CASE late # {}
  <2>1. PICK u \in late :
            call' = [call EXCEPT ![s] = [NoCall EXCEPT !.pc = "find", !.op = "penalty",
                                         !.who = u, !.late = late \ {u}]]
    BY <1>2 DEF Onward
  <2> DEFINE h == [NoCall EXCEPT !.pc = "find", !.op = "penalty",
                                 !.who = u, !.late = late \ {u}]
  <2>2. h \in CallType /\ h.pc = "find" /\ h.op = "penalty" /\ h.who = u /\ h.late = late \ {u}
    <3>1. u \in Users /\ late \ {u} \in SUBSET Users /\ NoCall \in CallType
      BY CallTyped
    <3> QED
      BY <3>1 DEF CallType
  <2> HIDE DEF h
  <2>3. call' = [call EXCEPT ![s] = h]
    BY <2>1 DEF h
  <2>4. h.late \cup {h.who} = late /\ h.who \notin h.late
    BY <2>2
  <2> QED
    BY <1>2, <2>2, <2>3, <2>4
<1> QED
  BY <1>1, <1>2

LEMMA BeginSanctionsTold ==
    ASSUME ScoreInv, ToldInv, NEW s \in Slots, NEW late \in (SUBSET Users) \ {{}},
           BeginSanctions(s, late)
    PROVE  ToldInv'
<1>1. /\ call[s] = NoCall /\ UNCHANGED <<told, faults>>
      /\ asked' = [u \in Users |-> asked[u] + IF u \in late THEN 1 ELSE 0]
      /\ Onward(s, late)
  BY DEF BeginSanctions, Begin
<1>2. PICK h \in CallType :
         /\ call' = [call EXCEPT ![s] = h]
         /\ h.op = "penalty" => h.pc # "idle" /\ h.who \notin h.late
         /\ h.pc # "push" /\ h.op = "penalty" /\ h.late \cup {h.who} = late
  BY <1>1, OnwardTells
<1>3. call'[s] = h /\ \A t \in Slots : t # s => call'[t] = call[t]
  BY <1>2, CallTyped
<1>4. \A t \in Slots : LoopKnows(t)'
  BY <1>2, <1>3 DEF ToldInv, LoopKnows
<1>5. ToldOncePerRun'
  <2> SUFFICES ASSUME NEW u \in Users
      PROVE  /\ told[u] + Cardinality(ToTell(u)') <= asked'[u]
             /\ faults = 0 => told[u] + Cardinality(ToTell(u)') = asked'[u]
    BY <1>1 DEF ToldOncePerRun
  <2>1. ToTell(u) \in SUBSET Slots /\ s \notin ToTell(u)
    BY <1>1 DEF ToTell, NoCall
  <2>2. /\ told[u] + Cardinality(ToTell(u)) <= asked[u]
        /\ faults = 0 => told[u] + Cardinality(ToTell(u)) = asked[u]
    BY DEF ToldInv, ToldOncePerRun
  <2>3. told[u] \in Nat /\ asked[u] \in Nat /\ Cardinality(ToTell(u)) \in Nat
    BY <2>1, CallTyped, Counted
  <2>4. CASE u \in late
    <3>1. ToTell(u)' = ToTell(u) \cup {s}
      BY <1>2, <1>3, <2>4 DEF ToTell
    <3>2. Cardinality(ToTell(u)') = Cardinality(ToTell(u)) + 1
      BY <2>1, <3>1, Counted, FS_AddElement
    <3>3. asked'[u] = asked[u] + 1
      BY <1>1, <2>4
    <3> QED
      BY <2>2, <2>3, <3>2, <3>3
  <2>5. CASE u \notin late
    <3>1. ToTell(u)' = ToTell(u)
      BY <1>2, <1>3, <2>1, <2>5 DEF ToTell
    <3>2. asked'[u] = asked[u]
      BY <1>1, <2>3, <2>5
    <3> QED
      BY <2>2, <3>1, <3>2
  <2> QED
    BY <2>4, <2>5
<1> QED
  BY <1>4, <1>5 DEF ToldInv

LEMMA QueuePushTold ==
    ASSUME ScoreInv, ToldInv, NEW s \in Slots, QueuePush(s) PROVE ToldInv'
<1> DEFINE w == call[s].who
           late == call[s].late
<1>1. /\ call[s].pc = "push" /\ call[s].op = "penalty" /\ w \notin late /\ w \in Users
      /\ late \in SUBSET Users /\ UNCHANGED <<asked, faults>>
      /\ told' = [told EXCEPT ![w] = @ + 1] /\ Onward(s, late)
  BY CallTyped DEF QueuePush, ToldInv, LoopKnows, CallKnows, CallType
<1>2. PICK h \in CallType :
         /\ call' = [call EXCEPT ![s] = h]
         /\ h.op = "penalty" => h.pc # "idle" /\ h.who \notin h.late
         /\ h.pc # "push" /\ (h.pc # "idle" => h.op # "none")
         /\ IF late = {} THEN h.op = "none"
            ELSE h.op = "penalty" /\ h.late \cup {h.who} = late
  BY <1>1, OnwardTells
<1>3. call'[s] = h /\ \A t \in Slots : t # s => call'[t] = call[t]
  BY <1>2, CallTyped
<1>4. \A t \in Slots : LoopKnows(t)'
  BY <1>2, <1>3 DEF ToldInv, LoopKnows
<1>5. ToldOncePerRun'
  <2> SUFFICES ASSUME NEW u \in Users
      PROVE  /\ told'[u] + Cardinality(ToTell(u)') <= asked[u]
             /\ faults = 0 => told'[u] + Cardinality(ToTell(u)') = asked[u]
    BY <1>1 DEF ToldOncePerRun
  <2>1. ToTell(u) \in SUBSET Slots
    BY DEF ToTell
  <2>2. /\ told[u] + Cardinality(ToTell(u)) <= asked[u]
        /\ faults = 0 => told[u] + Cardinality(ToTell(u)) = asked[u]
    BY DEF ToldInv, ToldOncePerRun
  <2>3. told[u] \in Nat /\ asked[u] \in Nat /\ Cardinality(ToTell(u)) \in Nat
    BY <2>1, CallTyped, Counted
  <2>4. CASE u = w
    <3>1. s \in ToTell(u) /\ ToTell(u)' = ToTell(u) \ {s}
      BY <1>1, <1>2, <1>3, <2>4 DEF ToTell
    <3>2. Cardinality(ToTell(u)') = Cardinality(ToTell(u)) - 1
      BY <2>1, <3>1, Counted, FS_RemoveElement
    <3>3. told'[u] = told[u] + 1
      BY <1>1, <2>4, CallTyped
    <3> QED
      BY <2>2, <2>3, <3>2, <3>3
  <2>5. CASE u # w
    <3>1. ToTell(u)' = ToTell(u)
      BY <1>1, <1>2, <1>3, <2>5 DEF ToTell
    <3>2. told'[u] = told[u]
      BY <1>1, <2>5, CallTyped
    <3> QED
      BY <2>2, <3>1, <3>2
  <2> QED
    BY <2>4, <2>5
<1> QED
  BY <1>4, <1>5 DEF ToldInv

LEMMA OtherTold ==
    ASSUME ScoreInv, ToldInv, NEW s \in Slots,
           \/ FindUser(s) \/ UpdateScore(s) \/ ScoreError(s) \/ PushError(s)
           \/ \E u \in Users : BeginBonus(s, u)
    PROVE  ToldInv'
<1>1. call \in [Slots -> CallType] /\ call[s] \in CallType /\ LoopKnows(s) /\ faults \in Nat
  BY CallTyped DEF ToldInv
<1>2. ASSUME NEW u \in Users, BeginBonus(s, u) PROVE ToldInv'
  <2> DEFINE h == [call[s] EXCEPT !.pc = "find", !.op = "bonus", !.who = u]
  <2>1. h \in CallType /\ h.op = "bonus" /\ h.pc = "find"
    BY <1>1 DEF CallType
  <2>2. call' = [call EXCEPT ![s] = h] /\ UNCHANGED <<told, asked, faults>>
    BY <1>1, <1>2 DEF BeginBonus
  <2>3. call[s].op = "none"
    <3>1. call[s] = NoCall
      BY <1>2 DEF BeginBonus, Begin
    <3> QED
      BY <3>1 DEF NoCall
  <2> HIDE DEF h
  <2>4. h.op # "penalty" /\ h.pc # "push" /\ h.op # "none" /\ call[s].op # "penalty"
    BY <2>1, <2>3
  <2> QED
    BY <1>1, <2>1, <2>2, <2>4, Untold
<1>3. CASE FindUser(s)
  <2> DEFINE h == [call[s] EXCEPT !.pc = "update", !.seen = score[call[s].who]]
  <2>1. score[call[s].who] \in Scores
    BY <1>3, CallTyped DEF FindUser, CallKnows, ScoreInv, TypeOK
  <2>2. /\ h \in CallType /\ h.op = call[s].op /\ h.pc = "update"
        /\ h.who = call[s].who /\ h.late = call[s].late
    BY <1>1, <2>1 DEF CallType
  <2>3. call' = [call EXCEPT ![s] = h] /\ UNCHANGED <<told, asked, faults>>
    BY <1>1, <1>3 DEF FindUser
  <2>4. call[s].op # "none" /\ (call[s].op = "penalty" => call[s].who \notin call[s].late)
    BY <1>1, <1>3 DEF FindUser, LoopKnows
  <2> HIDE DEF h
  <2> QED
    BY <1>1, <2>2, <2>3, <2>4, Untold
<1>4. CASE UpdateScore(s) \/ ScoreError(s)
  <2>1. /\ Scored(s) /\ UNCHANGED <<told, asked>> /\ call[s].pc \in {"find", "update"}
        /\ faults' \in Nat /\ (faults' = 0 => faults = 0)
    BY <1>1, <1>4 DEF UpdateScore, ScoreError, Fault
  <2>2. CASE call[s].op = "bonus"
    <3>1. /\ call' = [call EXCEPT ![s] = NoCall] /\ NoCall \in CallType
          /\ NoCall.pc = "idle" /\ NoCall.op = "none"
      BY <1>1, <2>1, <2>2, CallTyped DEF Scored, NoCall
    <3> QED
      BY <2>1, <2>2, <3>1, Untold
  <2>3. CASE call[s].op # "bonus"
    <3> DEFINE h == [call[s] EXCEPT !.pc = "push", !.seen = 0]
    <3>1. /\ h \in CallType /\ h.pc = "push" /\ h.op = call[s].op
          /\ h.who = call[s].who /\ h.late = call[s].late
      <4>1. 0 \in Scores
        BY DEF Scores
      <4> QED
        BY <1>1, <4>1 DEF CallType
    <3>2. call' = [call EXCEPT ![s] = h]
      BY <1>1, <2>1, <2>3 DEF Scored
    <3> HIDE DEF h
    <3>3. call[s].op = "penalty"
      BY <1>1, <2>1, <2>3 DEF CallType, LoopKnows
    <3> QED
      BY <1>1, <2>1, <3>1, <3>2, <3>3, Untold DEF LoopKnows
  <2> QED
    BY <2>2, <2>3
<1>5. CASE PushError(s)
  <2>1. /\ call' = [call EXCEPT ![s] = NoCall] /\ NoCall \in CallType
        /\ NoCall.pc = "idle" /\ NoCall.op = "none"
        /\ UNCHANGED <<told, asked>> /\ faults' \in Nat /\ faults' # 0
    BY <1>1, <1>5, CallTyped DEF PushError, Fault, NoCall
  <2> QED
    BY <2>1, Untold
<1> QED
  BY <1>2, <1>3, <1>4, <1>5

LEMMA ToldStep == ScoreInv /\ ToldInv /\ [Next]_vars => ToldInv'
<1> SUFFICES ASSUME ScoreInv, ToldInv, [Next]_vars PROVE ToldInv'
  OBVIOUS
<1>1. ASSUME NEW s \in Slots,
             \/ CallStep(s) \/ ScoreError(s) \/ PushError(s)
             \/ \E u \in Users : BeginBonus(s, u)
      PROVE  ToldInv'
  BY <1>1, OtherTold, QueuePushTold DEF CallStep
<1>2. ASSUME NEW s \in Slots, NEW late \in (SUBSET Users) \ {{}}, BeginSanctions(s, late)
      PROVE  ToldInv'
  BY <1>2, BeginSanctionsTold
<1>3. CASE Crash
  <2>1. /\ UNCHANGED <<told, asked>> /\ faults' # 0
        /\ \A s \in Slots : call'[s] = NoCall
    BY <1>3 DEF Crash, Fault, ScoreInv, TypeOK
  <2>2. \A s \in Slots : LoopKnows(s)'
    BY <2>1 DEF LoopKnows, NoCall
  <2>3. ASSUME NEW u \in Users PROVE told[u] + Cardinality(ToTell(u)') <= asked[u]
    <3>1. ToTell(u)' = {} /\ ToTell(u) \in SUBSET Slots
      BY <2>1 DEF ToTell, NoCall
    <3>2. Cardinality(ToTell(u)') = 0 /\ Cardinality(ToTell(u)) \in Nat
      BY <3>1, FS_EmptySet, Counted
    <3>3. told[u] + Cardinality(ToTell(u)) <= asked[u] /\ told[u] \in Nat /\ asked[u] \in Nat
      BY DEF ScoreInv, TypeOK, ToldInv, ToldOncePerRun
    <3> QED
      BY <3>2, <3>3
  <2> QED
    BY <2>1, <2>2, <2>3 DEF ToldInv, ToldOncePerRun
<1>4. CASE UNCHANGED vars
  BY <1>4 DEF vars, ToldInv, LoopKnows, ToldOncePerRun, ToTell
<1> QED
  BY <1>1, <1>2, <1>3, <1>4 DEF Next

(* For any number of users and of runs, each late user is told once per run that named
   them, or is still to be told; only a failure leaves somebody out. *)
THEOREM ToldOnceCorrect == Spec => []ToldOncePerRun
<1>1. ToldInv => ToldOncePerRun
  BY DEF ToldInv
<1>2. Spec => []ToldInv
  BY ToldInit, ToldStep, ScoresHold, PTL DEF Spec
<1> QED
  BY <1>1, <1>2, PTL
=============================================================================
