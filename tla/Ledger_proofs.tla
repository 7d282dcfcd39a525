--------------------------- MODULE Ledger_proofs ---------------------------
(* Proofs that Contributions implements the abstract ledger, for every value of its
   constants, and that it strands no payment while nothing fails. *)
EXTENDS Contributions_proofs, FiniteSetTheorems

(* A step of a delivery moves it on and leaves the others where they are. *)
Moved(w, p) == hook'[w].pc = p /\ hook'[w].ref = hook[w].ref /\ hook'[w].kind = hook[w].kind

LEMMA HookMoves ==
    ASSUME TypeInv, NEW w \in Hooks, HookStep(w)
    PROVE  /\ hook[w].ref \in Refs /\ hook[w].kind \in Outcomes \cup OtherEvents
           /\ \A v \in Hooks : v # w => hook'[v] = hook[v]
           /\ ClaimKey(w) => Moved(w, IF hook[w].ref \in keys THEN "answer" ELSE "find")
           /\ FindContribution(w) => Moved(w, Verdict(hook[w].ref, hook[w].kind))
           /\ Confirm(w) => Moved(w, "proof")
           /\ StoreProof(w) => Moved(w, "enqueue")
           /\ EnqueueRecord(w) => Moved(w, "sms")
           /\ EnqueueSms(w) \/ MarkFailed(w) => Moved(w, "answer")
           /\ Answer(w) => hook'[w] = NoHook
<1> USE DEF TypeInv, TypeOK, Named, Moved
<1>1. hook \in [Hooks -> HookType] /\ hook[w] \in HookType
  OBVIOUS
<1>2. hook[w].pc # "idle"
  BY DEF HookStep, ClaimKey, FindContribution, Confirm, StoreProof, EnqueueRecord, EnqueueSms,
         MarkFailed, Answer
<1>3. \A v \in Hooks : v # w => hook'[v] = hook[v]
  BY <1>1 DEF HookStep, ClaimKey, FindContribution, Confirm, StoreProof, EnqueueRecord,
              EnqueueSms, MarkFailed, Answer
<1>4. ClaimKey(w) => Moved(w, IF hook[w].ref \in keys THEN "answer" ELSE "find")
  <2>1. CASE hook[w].ref \in keys
    BY <1>1, <2>1 DEF ClaimKey, HookType
  <2>2. CASE hook[w].ref \notin keys
    BY <1>1, <2>2 DEF ClaimKey, HookType
  <2> QED
    BY <2>1, <2>2
<1>5. FindContribution(w) => Moved(w, Verdict(hook[w].ref, hook[w].kind))
  BY <1>1 DEF FindContribution, HookType
<1>6. /\ Confirm(w) => Moved(w, "proof")
      /\ StoreProof(w) => Moved(w, "enqueue")
      /\ EnqueueRecord(w) => Moved(w, "sms")
  BY <1>1 DEF Confirm, StoreProof, EnqueueRecord, HookType
<1>7. /\ EnqueueSms(w) \/ MarkFailed(w) => Moved(w, "answer")
      /\ Answer(w) => hook'[w] = NoHook
  BY <1>1 DEF EnqueueSms, MarkFailed, Answer, HookType
<1> QED
  BY <1>2, <1>3, <1>4, <1>5, <1>6, <1>7

-----------------------------------------------------------------------------
(* Every job and sms of a reference goes back to a life of its key.  Ahead holds the
   deliveries that will enqueue a job, Due those that will enqueue an sms; the key, when
   it is free, may let in one more. *)

Ahead(r) == {w \in Hooks : /\ hook[w].ref = r
                           /\ hook[w].pc \in {"find", "confirm", "proof", "enqueue"}}
Due(r) == {w \in Hooks : /\ hook[w].ref = r
                         /\ hook[w].pc \in {"find", "confirm", "proof", "enqueue", "sms"}}
Free(r) == IF r \in keys THEN 0 ELSE 1

Count(r) ==
    /\ IsFiniteSet(Ahead(r)) /\ IsFiniteSet(Due(r)) /\ IsFiniteSet(JobsOf(r))
    /\ Cardinality(JobsOf(r)) + Cardinality(Ahead(r)) + Free(r) <= expired[r] + 1
    /\ sms[r] + Cardinality(Due(r)) + Free(r) <= expired[r] + 1

CountInv == \A r \in Refs : Count(r)

LEMMA CountInit == Init => CountInv
<1> SUFFICES ASSUME Init, NEW r \in Refs PROVE Count(r)
  BY DEF CountInv
<1>1. Ahead(r) = {} /\ Due(r) = {} /\ JobsOf(r) = {}
  BY DEF Init, Ahead, Due, JobsOf, NoHook
<1>2. Free(r) = 1 /\ sms[r] = 0 /\ expired[r] = 0
  BY DEF Init, Free
<1> QED
  BY <1>1, <1>2, FS_EmptySet DEF Count

(* A part of a finite set. *)
LEMMA Fewer ==
    ASSUME NEW S, IsFiniteSet(S), NEW T, \A x \in T : x \in S
    PROVE  /\ IsFiniteSet(T) /\ Cardinality(T) \in Nat /\ Cardinality(S) \in Nat
           /\ Cardinality(T) <= Cardinality(S)
<1>1. T \in SUBSET S
  OBVIOUS
<1>2. IsFiniteSet(T) /\ Cardinality(T) <= Cardinality(S)
  BY <1>1, FS_Subset
<1> QED
  BY <1>2, FS_CardinalityType

(* One element of a finite set replaced by another, which it may have had already. *)
LEMMA OneForOne ==
    ASSUME NEW S, IsFiniteSet(S), NEW x \in S, NEW y
    PROVE  /\ IsFiniteSet((S \ {x}) \cup {y})
           /\ Cardinality((S \ {x}) \cup {y}) <= Cardinality(S)
<1>1. /\ IsFiniteSet(S \ {x}) /\ Cardinality(S \ {x}) = Cardinality(S) - 1
      /\ Cardinality(S) \in Nat
  BY FS_RemoveElement, FS_CardinalityType
<1>2. /\ IsFiniteSet((S \ {x}) \cup {y})
      /\ \/ Cardinality((S \ {x}) \cup {y}) = Cardinality(S \ {x})
         \/ Cardinality((S \ {x}) \cup {y}) = Cardinality(S \ {x}) + 1
  BY <1>1, FS_AddElement
<1> QED
  BY <1>1, <1>2

(* Steps in which no key changes hands: the sets of r have at most the elements they had. *)
LEMMA CountFrame ==
    ASSUME TypeInv, CountInv, NEW r \in Refs,
           \A w \in Hooks : w \in Ahead(r)' => w \in Ahead(r),
           \A w \in Hooks : w \in Due(r)' => w \in Due(r),
           IsFiniteSet(JobsOf(r)'), Cardinality(JobsOf(r)') <= Cardinality(JobsOf(r)),
           r \in keys' <=> r \in keys, expired'[r] = expired[r], sms'[r] = sms[r]
    PROVE  Count(r)'
<1>1. Count(r) /\ expired[r] \in Nat /\ sms[r] \in Nat
  BY DEF CountInv, TypeInv, TypeOK
<1>2. /\ IsFiniteSet(Ahead(r)') /\ Cardinality(Ahead(r)') \in Nat
      /\ Cardinality(Ahead(r)) \in Nat /\ Cardinality(Ahead(r)') <= Cardinality(Ahead(r))
  <2>1. \A w \in Ahead(r)' : w \in Ahead(r)
    BY DEF Ahead
  <2> QED
    BY <1>1, <2>1, Fewer DEF Count
<1>3. /\ IsFiniteSet(Due(r)') /\ Cardinality(Due(r)') \in Nat
      /\ Cardinality(Due(r)) \in Nat /\ Cardinality(Due(r)') <= Cardinality(Due(r))
  <2>1. \A w \in Due(r)' : w \in Due(r)
    BY DEF Due
  <2> QED
    BY <1>1, <2>1, Fewer DEF Count
<1>4. Cardinality(JobsOf(r)) \in Nat /\ Cardinality(JobsOf(r)') \in Nat
  BY <1>1, FS_CardinalityType DEF Count
<1>5. Free(r)' = Free(r) /\ Free(r) \in Nat
  BY DEF Free
<1>6. /\ Cardinality(JobsOf(r)') + Cardinality(Ahead(r)') + Free(r)' <= expired'[r] + 1
      /\ sms'[r] + Cardinality(Due(r)') + Free(r)' <= expired'[r] + 1
  BY <1>1, <1>2, <1>3, <1>4, <1>5 DEF Count
<1> QED
  BY <1>2, <1>3, <1>6 DEF Count

(* Jobs that go on. *)
LEMMA ReplaceCount ==
    ASSUME CountInv, NEW r \in Refs, NEW j \in jobs, NEW k, k.ref = j.ref, Replace(j, k)
    PROVE  IsFiniteSet(JobsOf(r)') /\ Cardinality(JobsOf(r)') <= Cardinality(JobsOf(r))
<1>1. IsFiniteSet(JobsOf(r)) /\ Cardinality(JobsOf(r)) \in Nat
  BY FS_CardinalityType DEF CountInv, Count
<1>2. CASE j.ref = r
  <2>1. j \in JobsOf(r) /\ JobsOf(r)' = (JobsOf(r) \ {j}) \cup {k}
    BY <1>2 DEF JobsOf, Replace
  <2> QED
    BY <1>1, <2>1, OneForOne
<1>3. CASE j.ref # r
  <2>1. JobsOf(r)' = JobsOf(r)
    BY <1>3 DEF JobsOf, Replace
  <2> QED
    BY <1>1, <2>1
<1> QED
  BY <1>2, <1>3

LEMMA JobStepsCount ==
    ASSUME TypeInv, CountInv, NEW r \in Refs, NEW j \in jobs, JobStep(j) \/ MarkError(j)
    PROVE  IsFiniteSet(JobsOf(r)') /\ Cardinality(JobsOf(r)') <= Cardinality(JobsOf(r))
<1>1. j \in JobType
  BY DEF TypeInv, TypeOK
<1>2. CASE TakeJob(j)
  BY <1>1, <1>2, ReplaceCount DEF TakeJob, JobType
<1>3. CASE AttemptThrows(j)
  <2>1. CASE LastAttempt(j)
    BY <1>1, <1>3, <2>1, ReplaceCount DEF AttemptThrows, JobType
  <2>2. CASE ~LastAttempt(j)
    BY <1>1, <1>3, <2>2, ReplaceCount DEF AttemptThrows, JobType
  <2> QED
    BY <2>1, <2>2
<1>4. CASE MarkBlockchainFailed(j) \/ MarkError(j)
  BY <1>1, <1>4, ReplaceCount DEF MarkBlockchainFailed, MarkError, JobType
<1> QED
  BY <1>2, <1>3, <1>4 DEF JobStep

(* A restart may leave two jobs in one state, which then count as one. *)
LEMMA CrashCount ==
    ASSUME TypeInv, CountInv, NEW r \in Refs, Crash
    PROVE  IsFiniteSet(JobsOf(r)') /\ Cardinality(JobsOf(r)') <= Cardinality(JobsOf(r))
<1> DEFINE f == [j \in JobsOf(r) |-> Stall(j)]
<1>1. jobs' = {Stall(j) : j \in jobs} /\ \A j \in jobs : Stall(j).ref = j.ref
  BY StallType DEF Crash, TypeInv, TypeOK
<1>2. \A j \in JobsOf(r) : f[j] \in JobsOf(r)'
  BY <1>1 DEF JobsOf
<1>3. \A i \in JobsOf(r)' : \E j \in JobsOf(r) : f[j] = i
  BY <1>1 DEF JobsOf
<1>4. f \in Surjection(JobsOf(r), JobsOf(r)')
  BY <1>2, <1>3 DEF Surjection
<1>5. IsFiniteSet(JobsOf(r))
  BY DEF CountInv, Count
<1> HIDE DEF f
<1> QED
  BY <1>4, <1>5, FS_Surjection

(* A delivery that takes the free key of its transaction. *)
LEMMA ClaimCount ==
    ASSUME TypeInv, CountInv, NEW w \in Hooks, ClaimKey(w), NEW r \in Refs, r = hook[w].ref, r \notin keys
    PROVE  Count(r)'
<1>1. /\ r \in Refs /\ hook[w].pc = "claim" /\ hook[w] \in HookType
      /\ r \notin keys /\ r \in keys' /\ sms' = sms /\ expired' = expired /\ jobs' = jobs
      /\ hook' = [hook EXCEPT ![w] = [@ EXCEPT !.pc = "find", !.claim = expired[r] + 1]]
  BY DEF ClaimKey, TypeInv, TypeOK, Named, queues
<1>2. hook'[w].pc = "find" /\ hook'[w].ref = r /\ \A v \in Hooks : v # w => hook'[v] = hook[v]
  BY <1>1 DEF HookType, TypeInv, TypeOK
<1>3. Count(r) /\ expired[r] \in Nat /\ sms[r] \in Nat
  BY <1>1 DEF CountInv, TypeInv, TypeOK
<1>4. Free(r) = 1 /\ Free(r)' = 0 /\ JobsOf(r)' = JobsOf(r)
  BY <1>1, <1>2 DEF Free, JobsOf
<1>5. w \notin Ahead(r) /\ Ahead(r)' = Ahead(r) \cup {w}
  BY <1>1, <1>2 DEF Ahead
<1>6. w \notin Due(r) /\ Due(r)' = Due(r) \cup {w}
  BY <1>1, <1>2 DEF Due
<1>7. /\ IsFiniteSet(Ahead(r)') /\ Cardinality(Ahead(r)') = Cardinality(Ahead(r)) + 1
      /\ IsFiniteSet(Due(r)') /\ Cardinality(Due(r)') = Cardinality(Due(r)) + 1
  <2>1. IsFiniteSet(Ahead(r)) /\ IsFiniteSet(Due(r))
    BY <1>3 DEF Count
  <2>2. IsFiniteSet(Ahead(r)') /\ Cardinality(Ahead(r)') = Cardinality(Ahead(r)) + 1
    BY <1>5, <2>1, FS_AddElement
  <2>3. IsFiniteSet(Due(r)') /\ Cardinality(Due(r)') = Cardinality(Due(r)) + 1
    BY <1>6, <2>1, FS_AddElement
  <2> QED
    BY <2>2, <2>3
<1>8. Cardinality(Ahead(r)) \in Nat /\ Cardinality(Due(r)) \in Nat /\ Cardinality(JobsOf(r)) \in Nat
  BY <1>3, FS_CardinalityType DEF Count
<1>9. IsFiniteSet(JobsOf(r)')
  BY <1>3, <1>4 DEF Count
<1>10. /\ Cardinality(JobsOf(r)') + Cardinality(Ahead(r)') + Free(r)' <= expired'[r] + 1
       /\ sms'[r] + Cardinality(Due(r)') + Free(r)' <= expired'[r] + 1
  BY <1>1, <1>3, <1>4, <1>7, <1>8 DEF Count
<1> QED
  BY <1>7, <1>9, <1>10 DEF Count

(* A job is enqueued by a delivery that was ahead of it. *)
LEMMA EnqueueCount ==
    ASSUME TypeInv, CountInv, NEW w \in Hooks, EnqueueRecord(w), NEW r \in Refs, r = hook[w].ref
    PROVE  Count(r)'
<1> DEFINE n == Waiting(r, hook[w].claim)
<1>1. /\ r \in Refs /\ hook[w].pc = "enqueue" /\ hook[w] \in HookType
      /\ sms' = sms /\ expired' = expired /\ keys' = keys /\ jobs' = jobs \cup {n}
      /\ hook' = [hook EXCEPT ![w].pc = "sms"]
  BY DEF EnqueueRecord, TypeInv, TypeOK, Named, redis
<1>2. hook'[w].pc = "sms" /\ hook'[w].ref = r /\ \A v \in Hooks : v # w => hook'[v] = hook[v]
  BY <1>1 DEF HookType, TypeInv, TypeOK
<1>3. Count(r) /\ expired[r] \in Nat /\ sms[r] \in Nat
  BY <1>1 DEF CountInv, TypeInv, TypeOK
<1>4. n.ref = r
  BY DEF Waiting
<1>5. w \in Ahead(r) /\ Ahead(r)' = Ahead(r) \ {w}
  BY <1>1, <1>2 DEF Ahead
<1>6. Due(r)' = Due(r) /\ Free(r)' = Free(r) /\ Free(r) \in Nat
  BY <1>1, <1>2 DEF Due, Free
<1> HIDE DEF n
<1>7. JobsOf(r)' = JobsOf(r) \cup {n}
  BY <1>1, <1>2, <1>4 DEF JobsOf
<1>8. /\ IsFiniteSet(JobsOf(r)')
      /\ \/ Cardinality(JobsOf(r)') = Cardinality(JobsOf(r)) + 1
         \/ Cardinality(JobsOf(r)') = Cardinality(JobsOf(r))
  BY <1>3, <1>7, FS_AddElement DEF Count
<1>9. IsFiniteSet(Ahead(r)') /\ Cardinality(Ahead(r)') = Cardinality(Ahead(r)) - 1
  BY <1>3, <1>5, FS_RemoveElement DEF Count
<1>10. Cardinality(Ahead(r)) \in Nat /\ Cardinality(Due(r)) \in Nat /\ Cardinality(JobsOf(r)) \in Nat
  BY <1>3, FS_CardinalityType DEF Count
<1>11. IsFiniteSet(Due(r)')
  BY <1>3, <1>6 DEF Count
<1>12. /\ Cardinality(JobsOf(r)') + Cardinality(Ahead(r)') + Free(r)' <= expired'[r] + 1
       /\ sms'[r] + Cardinality(Due(r)') + Free(r)' <= expired'[r] + 1
  BY <1>1, <1>3, <1>6, <1>8, <1>9, <1>10 DEF Count
<1> QED
  BY <1>8, <1>9, <1>11, <1>12 DEF Count

(* So is an sms, by a delivery to which it was due. *)
LEMMA SmsCount ==
    ASSUME TypeInv, CountInv, NEW w \in Hooks, EnqueueSms(w), NEW r \in Refs, r = hook[w].ref
    PROVE  Count(r)'
<1>1. /\ r \in Refs /\ hook[w].pc = "sms" /\ hook[w] \in HookType
      /\ sms'[r] = sms[r] + 1 /\ expired' = expired /\ keys' = keys /\ jobs' = jobs
      /\ hook' = [hook EXCEPT ![w].pc = "answer"]
  BY DEF EnqueueSms, TypeInv, TypeOK, Named, redis
<1>2. hook'[w].pc = "answer" /\ \A v \in Hooks : v # w => hook'[v] = hook[v]
  BY <1>1 DEF HookType, TypeInv, TypeOK
<1>3. Count(r) /\ expired[r] \in Nat /\ sms[r] \in Nat
  BY <1>1 DEF CountInv, TypeInv, TypeOK
<1>4. w \in Due(r) /\ Due(r)' = Due(r) \ {w} /\ Ahead(r)' = Ahead(r)
  BY <1>1, <1>2 DEF Ahead, Due
<1>5. Free(r)' = Free(r) /\ Free(r) \in Nat /\ JobsOf(r)' = JobsOf(r)
  BY <1>1, <1>2 DEF Free, JobsOf
<1>6. IsFiniteSet(Due(r)') /\ Cardinality(Due(r)') = Cardinality(Due(r)) - 1
  BY <1>3, <1>4, FS_RemoveElement DEF Count
<1>7. Cardinality(Ahead(r)) \in Nat /\ Cardinality(Due(r)) \in Nat /\ Cardinality(JobsOf(r)) \in Nat
  BY <1>3, FS_CardinalityType DEF Count
<1>8. /\ Cardinality(JobsOf(r)') + Cardinality(Ahead(r)') + Free(r)' <= expired'[r] + 1
      /\ sms'[r] + Cardinality(Due(r)') + Free(r)' <= expired'[r] + 1
  BY <1>1, <1>3, <1>4, <1>5, <1>6, <1>7 DEF Count
<1>9. IsFiniteSet(JobsOf(r)') /\ IsFiniteSet(Ahead(r)')
  BY <1>3, <1>4, <1>5 DEF Count
<1> QED
  BY <1>6, <1>8, <1>9 DEF Count

LEMMA CountStep == TypeInv /\ CountInv /\ [Next]_vars => CountInv'
<1> SUFFICES ASSUME TypeInv, CountInv, [Next]_vars, NEW r \in Refs PROVE Count(r)'
  BY DEF CountInv
<1>1. /\ IsFiniteSet(JobsOf(r))
      /\ jobs' = jobs => IsFiniteSet(JobsOf(r)') /\ Cardinality(JobsOf(r)') <= Cardinality(JobsOf(r))
  <2>1. IsFiniteSet(JobsOf(r)) /\ Cardinality(JobsOf(r)) \in Nat
    BY FS_CardinalityType DEF CountInv, Count
  <2>2. jobs' = jobs => JobsOf(r)' = JobsOf(r)
    BY DEF JobsOf
  <2> QED
    BY <2>1, <2>2
(* The deliveries of r that have work to do are among those that had. *)
<1>2. ASSUME \A w \in Hooks : hook'[w].ref = r /\ hook'[w].pc \in {"find", "confirm", "proof", "enqueue", "sms"}
                => /\ hook[w].ref = r /\ hook[w].pc \in {"find", "confirm", "proof", "enqueue", "sms"}
                   /\ hook'[w].pc # "sms" => hook[w].pc # "sms",
             jobs' = jobs \/ (IsFiniteSet(JobsOf(r)') /\ Cardinality(JobsOf(r)') <= Cardinality(JobsOf(r))),
             r \in keys' <=> r \in keys, expired'[r] = expired[r], sms'[r] = sms[r]
      PROVE  Count(r)'
  <2>1. \A w \in Hooks : w \in Ahead(r)' => w \in Ahead(r)
    BY <1>2 DEF Ahead
  <2>2. \A w \in Hooks : w \in Due(r)' => w \in Due(r)
    BY <1>2 DEF Due
  <2> QED
    BY <1>1, <1>2, <2>1, <2>2, CountFrame
<1>3. ASSUME hook' = hook, jobs' = jobs, redis' = redis, sms' = sms PROVE Count(r)'
  BY <1>2, <1>3 DEF redis
<1>4. ASSUME NEW w \in Hooks, HookStep(w) PROVE Count(r)'
  <2>0. hook \in [Hooks -> HookType] /\ hook[w] \in HookType /\ hook[w].pc # "idle" => hook[w].ref \in Refs
    BY DEF TypeInv, TypeOK, Named
  <2>1. CASE ClaimKey(w) /\ hook[w].ref = r /\ r \notin keys
    BY <2>1, ClaimCount
  <2>2. CASE ClaimKey(w) /\ (hook[w].ref # r \/ r \in keys)
    <3>1. jobs' = jobs /\ sms' = sms /\ expired' = expired /\ (r \in keys' <=> r \in keys)
      BY <2>2 DEF ClaimKey, queues
    <3>2. /\ \A v \in Hooks : v # w => hook'[v] = hook[v]
          /\ hook'[w].ref = hook[w].ref
          /\ hook[w].ref = r => hook'[w].pc = "answer"
      BY <2>2, HookMoves DEF HookStep, Moved
    <3> QED
      BY <1>2, <3>1, <3>2
  <2>3. CASE EnqueueRecord(w) /\ hook[w].ref = r
    BY <2>3, EnqueueCount
  <2>4. CASE EnqueueRecord(w) /\ hook[w].ref # r
    <3>1. /\ sms' = sms /\ expired' = expired /\ keys' = keys /\ JobsOf(r)' = JobsOf(r)
          /\ hook'[w].ref = hook[w].ref /\ \A v \in Hooks : v # w => hook'[v] = hook[v]
      BY <2>0, <2>4 DEF EnqueueRecord, redis, HookType, JobsOf, Waiting
    <3>2. Cardinality(JobsOf(r)) \in Nat
      BY <1>1, FS_CardinalityType
    <3> QED
      BY <1>1, <1>2, <2>4, <3>1, <3>2
  <2>5. CASE EnqueueSms(w) /\ hook[w].ref = r
    BY <2>5, SmsCount
  <2>6. CASE EnqueueSms(w) /\ hook[w].ref # r
    <3>1. /\ sms'[r] = sms[r] /\ expired' = expired /\ keys' = keys /\ jobs' = jobs
          /\ hook'[w].ref = hook[w].ref /\ \A v \in Hooks : v # w => hook'[v] = hook[v]
      BY <2>0, <2>6 DEF EnqueueSms, redis, HookType, TypeInv, TypeOK
    <3> QED
      BY <1>2, <2>6, <3>1
  <2>7. CASE FindContribution(w) \/ Confirm(w) \/ StoreProof(w) \/ MarkFailed(w) \/ Answer(w)
    <3>1. jobs' = jobs /\ sms' = sms /\ expired' = expired /\ keys' = keys
      BY <2>7 DEF FindContribution, Confirm, StoreProof, MarkFailed, Answer, queues, redis
    <3>2. /\ \A v \in Hooks : v # w => hook'[v] = hook[v]
          /\ \/ hook'[w].pc \in {"answer", "fail", "idle"}
             \/ /\ hook'[w].ref = hook[w].ref
                /\ hook[w].pc \in {"find", "confirm", "proof"}
                /\ hook'[w].pc \in {"confirm", "proof", "enqueue"}
      <4>1. FindContribution(w) \/ Confirm(w) \/ StoreProof(w) => hook[w].pc \in {"find", "confirm", "proof"}
        BY DEF FindContribution, Confirm, StoreProof
      <4>2. Verdict(hook[w].ref, hook[w].kind) \in {"answer", "confirm", "fail"}
        BY DEF Verdict
      <4> QED
        BY <1>4, <2>7, <4>1, <4>2, HookMoves DEF Moved, NoHook
    <3> QED
      BY <1>2, <3>1, <3>2
  <2> QED
    BY <1>4, <2>1, <2>2, <2>3, <2>4, <2>5, <2>6, <2>7 DEF HookStep
<1>5. CASE KeyLapses(r)
  <2>1. /\ Ahead(r)' = Ahead(r) /\ Due(r)' = Due(r) /\ JobsOf(r)' = JobsOf(r) /\ sms' = sms
        /\ expired'[r] = expired[r] + 1 /\ Free(r) = 0 /\ Free(r)' = 1
    BY <1>5 DEF KeyLapses, Ahead, Due, JobsOf, Free, queues, TypeInv, TypeOK
  <2>2. Count(r) /\ expired[r] \in Nat /\ sms[r] \in Nat
    BY DEF CountInv, TypeInv, TypeOK
  <2>3. Cardinality(Ahead(r)) \in Nat /\ Cardinality(Due(r)) \in Nat /\ Cardinality(JobsOf(r)) \in Nat
    BY <2>2, FS_CardinalityType DEF Count
  <2>4. /\ Cardinality(JobsOf(r)') + Cardinality(Ahead(r)') + Free(r)' <= expired'[r] + 1
        /\ sms'[r] + Cardinality(Due(r)') + Free(r)' <= expired'[r] + 1
    BY <2>1, <2>2, <2>3 DEF Count
  <2>5. IsFiniteSet(Ahead(r)') /\ IsFiniteSet(Due(r)') /\ IsFiniteSet(JobsOf(r)')
    BY <2>1, <2>2 DEF Count
  <2> QED
    BY <2>4, <2>5 DEF Count
<1>6. ASSUME NEW s \in Refs, s # r, KeyLapses(s) PROVE Count(r)'
  <2>1. /\ hook' = hook /\ jobs' = jobs /\ sms' = sms /\ expired'[r] = expired[r]
        /\ r \in keys' <=> r \in keys
    BY <1>6 DEF KeyLapses, queues, TypeInv, TypeOK
  <2> QED
    BY <1>2, <2>1
<1>7. ASSUME NEW j \in jobs, JobStep(j) \/ MarkError(j) PROVE Count(r)'
  <2>1. hook' = hook /\ redis' = redis /\ sms' = sms
    BY <1>7 DEF JobStep, TakeJob, AttemptThrows, MarkBlockchainFailed, MarkError, redis
  <2> QED
    BY <1>2, <1>7, <2>1, JobStepsCount DEF redis
<1>8. CASE Crash
  <2>1. redis' = redis /\ sms' = sms /\ \A w \in Hooks : hook'[w].pc = "idle"
    BY <1>8 DEF Crash, NoHook, redis
  <2> QED
    BY <1>2, <1>8, <2>1, CrashCount DEF redis
<1>9. ASSUME NEW w \in Hooks, HookError(w) \/ \E e \in owed : Deliver(w, e) PROVE Count(r)'
  <2>1. jobs' = jobs /\ redis' = redis /\ sms' = sms
    BY <1>9 DEF HookError, Deliver, redis, queues
  <2>2. /\ \A v \in Hooks : v # w => hook'[v] = hook[v]
        /\ hook'[w].pc \in {"idle", "claim"}
    BY <1>9 DEF HookError, Deliver, NoHook, TypeInv, TypeOK
  <2> QED
    BY <1>2, <2>1, <2>2 DEF redis
<1>10. ASSUME NEW q \in Requests,
              InitiateStep(q) \/ InitiateError(q) \/ \E m \in Members, c \in CycleIds : ReadCycle(q, m, c)
       PROVE  Count(r)'
  BY <1>3, <1>10 DEF InitiateStep, CheckAlready, SaveIntent, InitiatePayment, RecordTransaction,
                     InitiateError, ReadCycle, redis, queues
<1>11. ASSUME NEW s \in Refs, CustomerPays(s) \/ TransactionDeclined(s) PROVE Count(r)'
  BY <1>3, <1>11 DEF CustomerPays, TransactionDeclined, Settle, redis, queues
<1>12. ASSUME NEW c \in CycleIds, CycleCloses(c) PROVE Count(r)'
  BY <1>3, <1>12 DEF CycleCloses, redis, queues
<1>13. CASE UNCHANGED vars
  BY <1>3, <1>13 DEF vars, redis
<1> QED
  BY <1>4, <1>5, <1>6, <1>7, <1>8, <1>9, <1>10, <1>11, <1>12, <1>13 DEF Next

(* "0 double traitement possible", as far as it goes: however many deliveries of the
   events of a transaction are handled, at once, repeated after an error or a crash, the
   transaction has one chain record job and one sms at most, and one more of each at most
   every time its key lapses. *)
THEOREM ProcessedOnceCorrect == Spec => []ProcessedOnce
<1>1. Spec => [](TypeInv /\ CountInv)
  BY TypeInit, TypeStep, CountInit, CountStep, PTL DEF Spec
<1>2. TypeInv /\ CountInv => ProcessedOnce
  <2> SUFFICES ASSUME TypeInv, CountInv, NEW r \in Refs
               PROVE  sms[r] <= expired[r] + 1 /\ Cardinality(JobsOf(r)) <= expired[r] + 1
    BY DEF ProcessedOnce
  <2>1. Count(r) /\ expired[r] \in Nat /\ sms[r] \in Nat
    BY DEF CountInv, TypeInv, TypeOK
  <2>2. Cardinality(Ahead(r)) \in Nat /\ Cardinality(Due(r)) \in Nat /\ Cardinality(JobsOf(r)) \in Nat
    BY <2>1, FS_CardinalityType DEF Count
  <2> QED
    BY <2>1, <2>2 DEF Count, Free
<1> QED
  BY <1>1, <1>2, PTL

-----------------------------------------------------------------------------
(* The service implements the ledger.  A step of the program changes the outcome of one
   payment, the status of one contribution, one count or nothing of the ledger. *)

PipelineInv == TypeInv /\ LedgerInv /\ OnceInv /\ WorkInv /\ CountInv

LEMMA PipelineInvariant == Spec => []PipelineInv
  BY TypeInit, TypeStep, LedgerInit, LedgerStep, OnceInit, OnceStep, WorkInit, WorkStep,
     CountInit, CountStep, PTL DEF Spec, PipelineInv

LEMMA Quiet ==
    ASSUME \A r \in Refs : Outcome(r)' = Outcome(r) /\ row'[r].status = row[r].status,
           sms' = sms, expired' = expired
    PROVE  [L!LNext]_(L!ledgerVars)
  BY DEF L!ledgerVars

(* The outcome of one payment at most is settled. *)
LEMMA SettleStep ==
    ASSUME PipelineInv, Next, NEW r \in Refs, \A s \in Refs : s # r => tx'[s] = tx[s],
           \A s \in Refs : row'[s].status = row[s].status, sms' = sms, expired' = expired
    PROVE  [L!LNext]_(L!ledgerVars)
<1>1. /\ TxStep(r)
      /\ row[r].status = "ABSENT" => tx[r].status = "none"
  BY TxSteps DEF PipelineInv, LedgerInv, RowsBacked
<1>2. \A s \in Refs : s # r => Outcome(s)' = Outcome(s)
  BY DEF Outcome, Paid, NeverPaid
<1>3. CASE Outcome(r)' = Outcome(r)
  BY <1>2, <1>3, Quiet
<1>4. CASE Outcome(r)' # Outcome(r)
  <2>1. /\ Outcome(r) = "open" /\ Outcome(r)' \in {"paid", "refused"}
        /\ row[r].status # "ABSENT"
    BY <1>1, <1>4 DEF TxStep, Outcome, Paid, NeverPaid
  <2>2. [s \in Refs |-> Outcome(s)]' = [[s \in Refs |-> Outcome(s)] EXCEPT ![r] = Outcome(r)']
    BY <1>2
  <2>3. [s \in Refs |-> row[s].status]' = [s \in Refs |-> row[s].status]
    OBVIOUS
  <2>4. L!Settle(r)
    BY <2>1, <2>2, <2>3 DEF L!Settle
  <2> QED
    BY <2>4 DEF L!LNext
<1> QED
  BY <1>3, <1>4

(* The status of one contribution at most moves. *)
LEMMA EntryStep ==
    ASSUME PipelineInv, Next, NEW r \in Refs,
           \A s \in Refs : s # r => row'[s].status = row[s].status,
           tx' = tx, sms' = sms, expired' = expired
    PROVE  [L!LNext]_(L!ledgerVars)
<1>1. StatusMoves(r) /\ RowStep(r)
  BY MovesStep, RowSteps DEF PipelineInv
<1>2. \A s \in Refs : Outcome(s)' = Outcome(s)
  BY DEF Outcome, Paid, NeverPaid
<1>3. CASE row'[r].status = row[r].status
  BY <1>2, <1>3, Quiet
<1>4. CASE row'[r].status # row[r].status
  <2> DEFINE entry == [s \in Refs |-> row[s].status]
  <2>1. entry[r] = row[r].status /\ entry' = [entry EXCEPT ![r] = row'[r].status]
    OBVIOUS
  <2>2. ASSUME NEW from, NEW to, row[r].status = from, row'[r].status = to
        PROVE  L!Write(r, from, to)
    BY <1>2, <2>1, <2>2 DEF L!Write
  <2>3. /\ row'[r].status = "CONFIRMED" => Outcome(r) = "paid"
        /\ row'[r].status = "FAILED" => Outcome(r) = "refused"
    BY <1>1, <1>4, PaidOrNot DEF RowStep, Outcome
  <2> HIDE DEF entry
  <2>4. L!Intend(r) \/ L!Enter(r) \/ L!WriteOff(r) \/ L!ChainFails(r) \/ L!EnterAgain(r)
    <3>1. [s \in Refs |-> Outcome(s)][r] = Outcome(r)
      OBVIOUS
    <3> QED
      BY <1>1, <1>4, <2>2, <2>3, <3>1
      DEF StatusMoves, L!Intend, L!Enter, L!WriteOff, L!ChainFails, L!EnterAgain
  <2> QED
    BY <2>4 DEF L!LNext
<1> QED
  BY <1>3, <1>4

(* The member is told of a payment that is recorded, and as often as its key allows. *)
LEMMA NotifyStep ==
    ASSUME PipelineInv, NEW w \in Hooks, EnqueueSms(w)
    PROVE  [L!LNext]_(L!ledgerVars)
<1> DEFINE r == hook[w].ref
<1>1. /\ r \in Refs /\ hook[w].pc = "sms" /\ Recorded(r)
      /\ sms' = [sms EXCEPT ![r] = @ + 1] /\ row' = row /\ tx' = tx /\ expired' = expired
  BY DEF EnqueueSms, PipelineInv, TypeInv, Named, WorkInv, provider, redis
<1>2. sms[r] <= expired[r]
  <2>1. Count(r) /\ expired[r] \in Nat /\ sms[r] \in Nat
    BY <1>1 DEF PipelineInv, CountInv, TypeInv, TypeOK
  <2>2. w \in Due(r)
    BY <1>1 DEF Due
  <2>3. Cardinality(Due(r)) \in Nat /\ Cardinality(Due(r)) # 0
    BY <2>1, <2>2, FS_CardinalityType, FS_EmptySet DEF Count
  <2> QED
    BY <2>1, <2>3 DEF Count, Free
<1>3. \A s \in Refs : Outcome(s)' = Outcome(s)
  BY <1>1 DEF Outcome, Paid, NeverPaid
<1>4. L!Notify(r)
  BY <1>1, <1>2, <1>3 DEF L!Notify, Recorded
<1> QED
  BY <1>1, <1>4 DEF L!LNext

LEMMA ForgetStep ==
    ASSUME PipelineInv, NEW r \in Refs, KeyLapses(r)
    PROVE  [L!LNext]_(L!ledgerVars)
<1>1. expired' = [expired EXCEPT ![r] = @ + 1] /\ row' = row /\ tx' = tx /\ sms' = sms
  BY DEF KeyLapses, provider, queues
<1>2. \A s \in Refs : Outcome(s)' = Outcome(s)
  BY <1>1 DEF Outcome, Paid, NeverPaid
<1>3. L!Forget(r)
  BY <1>1, <1>2 DEF L!Forget
<1> QED
  BY <1>3 DEF L!LNext

LEMMA LedgerStepMaps == PipelineInv /\ [Next]_vars => [L!LNext]_(L!ledgerVars)
<1> SUFFICES ASSUME PipelineInv, [Next]_vars PROVE [L!LNext]_(L!ledgerVars)
  OBVIOUS
<1> USE DEF PipelineInv, TypeInv, TypeOK, Named
<1>1. ASSUME row' = row, tx' = tx, sms' = sms, expired' = expired PROVE [L!LNext]_(L!ledgerVars)
  BY <1>1, Quiet DEF Outcome, Paid, NeverPaid
<1>2. CASE UNCHANGED vars
  BY <1>1, <1>2 DEF vars
<1> SUFFICES ASSUME Next PROVE [L!LNext]_(L!ledgerVars)
  BY <1>2
<1>3. ASSUME NEW q \in Requests, InitiateStep(q) PROVE [L!LNext]_(L!ledgerVars)
  <2>1. CASE CheckAlready(q)
    BY <1>1, <2>1 DEF CheckAlready, provider, queues, redis
  <2>2. CASE SaveIntent(q)
    <3>1. tx' = tx /\ sms' = sms /\ expired' = expired
      BY <2>2 DEF SaveIntent, provider, queues, redis
    <3>2. row' = row \/ \E r \in Refs : \A s \in Refs : s # r => row'[s].status = row[s].status
      BY <2>2 DEF SaveIntent, Unused
    <3> QED
      BY <1>1, <3>1, <3>2, EntryStep
  <2>3. CASE InitiatePayment(q)
    <3>1. row' = row /\ sms' = sms /\ expired' = expired /\ req[q].ref \in Refs
      BY <2>3 DEF InitiatePayment, queues, redis
    <3>2. \A s \in Refs : s # req[q].ref => tx'[s] = tx[s]
      BY <2>3 DEF InitiatePayment, CreateTransaction
    <3> QED
      BY <3>1, <3>2, SettleStep
  <2>4. CASE RecordTransaction(q)
    <3>1. sms' = sms /\ expired' = expired /\ req[q].ref \in Refs
      BY <2>4 DEF RecordTransaction, queues, redis
    <3>2. \A s \in Refs : s # req[q].ref => tx'[s] = tx[s]
      BY <2>4 DEF RecordTransaction
    <3>3. \A s \in Refs : row'[s].status = row[s].status
      BY <2>4 DEF RecordTransaction, RowType
    <3> QED
      BY <3>1, <3>2, <3>3, SettleStep
  <2> QED
    BY <1>3, <2>1, <2>2, <2>3, <2>4 DEF InitiateStep
<1>4. ASSUME NEW q \in Requests, InitiateError(q) PROVE [L!LNext]_(L!ledgerVars)
  <2>1. row' = row /\ sms' = sms /\ expired' = expired
    BY <1>4 DEF InitiateError, queues, redis
  <2>2. \/ tx' = tx
        \/ req[q].ref \in Refs /\ \A s \in Refs : s # req[q].ref => tx'[s] = tx[s]
    BY <1>4 DEF InitiateError, CreateTransaction, provider
  <2> QED
    BY <1>1, <2>1, <2>2, SettleStep
<1>5. ASSUME NEW r \in Refs, CustomerPays(r) \/ TransactionDeclined(r)
      PROVE  [L!LNext]_(L!ledgerVars)
  <2>1. row' = row /\ sms' = sms /\ expired' = expired /\ \A s \in Refs : s # r => tx'[s] = tx[s]
    BY <1>5 DEF CustomerPays, TransactionDeclined, Settle, queues, redis
  <2> QED
    BY <2>1, SettleStep
<1>6. ASSUME NEW w \in Hooks, HookStep(w) PROVE [L!LNext]_(L!ledgerVars)
  <2>1. CASE Confirm(w) \/ StoreProof(w) \/ MarkFailed(w)
    <3>1. tx' = tx /\ sms' = sms /\ expired' = expired
      BY <2>1 DEF Confirm, StoreProof, MarkFailed, provider, queues, redis
    <3>2. hook[w].ref \in Refs /\ \A s \in Refs : s # hook[w].ref => row'[s].status = row[s].status
      BY <2>1 DEF Confirm, StoreProof, MarkFailed
    <3> QED
      BY <3>1, <3>2, EntryStep
  <2>2. CASE EnqueueSms(w)
    BY <2>2, NotifyStep
  <2> QED
    BY <1>1, <1>6, <2>1, <2>2
    DEF HookStep, ClaimKey, FindContribution, EnqueueRecord, Answer, provider, queues, redis
<1>7. ASSUME NEW j \in jobs, JobStep(j) \/ MarkError(j) PROVE [L!LNext]_(L!ledgerVars)
  <2>1. CASE MarkBlockchainFailed(j)
    <3>1. tx' = tx /\ sms' = sms /\ expired' = expired /\ j.ref \in Refs
      BY <2>1 DEF MarkBlockchainFailed, provider, redis, JobType
    <3>2. \A s \in Refs : s # j.ref => row'[s].status = row[s].status
      BY <2>1 DEF MarkBlockchainFailed
    <3> QED
      BY <3>1, <3>2, EntryStep
  <2> QED
    BY <1>1, <1>7, <2>1 DEF JobStep, TakeJob, AttemptThrows, MarkError, provider, redis
<1>8. ASSUME NEW r \in Refs, KeyLapses(r) PROVE [L!LNext]_(L!ledgerVars)
  BY <1>8, ForgetStep
<1> QED
  BY <1>1, <1>3, <1>4, <1>5, <1>6, <1>7, <1>8
  DEF Next, ReadCycle, HookError, Deliver, CycleCloses, Crash, provider, queues, redis

(* Seen from outside, the pipeline is the abstract ledger: a contribution is entered as
   paid after its payment is, written off after its payment can never be, taken back
   never, and told once for every time its key could be taken. *)
THEOREM LedgerImplemented == Spec => ImplementsLedger
<1>1. Init => L!LInit
  <2> SUFFICES ASSUME Init PROVE L!LInit
    OBVIOUS
  <2>1. \A r \in Refs : Outcome(r) = "open" /\ row[r].status = "ABSENT"
    BY DEF Init, Outcome, Paid, NeverPaid, NoRow
  <2> QED
    BY <2>1 DEF Init, L!LInit
<1> QED
  BY <1>1, PipelineInvariant, LedgerStepMaps, PTL DEF Spec, ImplementsLedger, L!LSpec

-----------------------------------------------------------------------------
(* Nothing is stranded while nothing has failed.  A key is then taken for good, by a
   delivery of an outcome: until that delivery has written the outcome it is on its way,
   and until the key is taken the event is owed. *)

HasOutcome(r) == tx[r].status \in {"approved", "declined"}
Carries(w, r) == hook[w].ref = r /\ hook[w].pc \in {"find", "confirm", "fail"}

Carried(r) ==
    /\ r \in keys => HasOutcome(r)
    /\ HasOutcome(r) /\ r \notin keys => \E e \in owed : e.ref = r
    /\ HasOutcome(r) /\ r \in keys /\ row[r].status = "PENDING" => \E w \in Hooks : Carries(w, r)

KeysHeld == /\ \A r \in Refs : expired[r] = 0
            /\ \A w \in Hooks : hook[w].pc \notin {"idle", "claim"} => hook[w].ref \in keys

CalmInv == ~Faulted => /\ KeysHeld
                       /\ FailureMarked
                       /\ OtherEvents = {} => \A r \in Refs : Carried(r)

LEMMA CalmInit == Init => CalmInv
  BY DEF Init, CalmInv, KeysHeld, FailureMarked, Carried, HasOutcome, NoHook

(* A fault is remembered. *)
LEMMA FaultsLast ==
    ASSUME TypeInv, Next, ~Faulted'
    PROVE  /\ ~Faulted
           /\ ~Crash
           /\ \A q \in Requests : ~InitiateError(q)
           /\ \A w \in Hooks : ~HookError(w)
           /\ \A j \in jobs : ~MarkError(j)
           /\ \A r \in Refs : ~KeyLapses(r)
<1> USE DEF TypeInv, TypeOK, Faulted, FaultKinds
<1>1. ASSUME NEW k \in FaultKinds, Fault(k) PROVE Faulted'
  BY <1>1 DEF Fault
<1>2. /\ ~Crash
      /\ \A q \in Requests : ~InitiateError(q)
      /\ \A w \in Hooks : ~HookError(w)
      /\ \A j \in jobs : ~MarkError(j)
      /\ \A r \in Refs : ~KeyLapses(r)
  BY <1>1 DEF Crash, InitiateError, HookError, MarkError, KeyLapses
<1>3. faults' = faults
  BY <1>2 DEF Next, InitiateStep, CheckAlready, SaveIntent, InitiatePayment, RecordTransaction,
     ReadCycle, HookStep, ClaimKey, FindContribution, Confirm, StoreProof, EnqueueRecord,
     EnqueueSms, MarkFailed, Answer, Deliver, JobStep, TakeJob, AttemptThrows,
     MarkBlockchainFailed, CustomerPays, TransactionDeclined, Settle, CycleCloses
<1> QED
  BY <1>2, <1>3

(* A key that is taken by a delivery stays taken. *)
LEMMA KeysHeldStep == PipelineInv /\ CalmInv /\ Next /\ ~Faulted' => KeysHeld'
<1> SUFFICES ASSUME PipelineInv, CalmInv, Next, ~Faulted' PROVE KeysHeld'
  OBVIOUS
<1> USE DEF PipelineInv, TypeInv, TypeOK
<1>1. KeysHeld
  BY FaultsLast DEF CalmInv
<1>2. ASSUME expired' = expired, keys' = keys, hook' = hook PROVE KeysHeld'
  BY <1>1, <1>2 DEF KeysHeld
<1>3. ASSUME NEW w \in Hooks, HookStep(w) PROVE KeysHeld'
  <2>1. expired' = expired /\ \A r \in keys : r \in keys'
    BY <1>3 DEF HookStep, ClaimKey, FindContribution, Confirm, StoreProof, EnqueueRecord,
                EnqueueSms, MarkFailed, Answer, redis
  <2>2. CASE ClaimKey(w)
    <3>1. hook[w].ref \in keys'
      BY <2>2 DEF ClaimKey
    <3> QED
      BY <1>1, <1>3, <2>1, <2>2, <3>1, HookMoves DEF KeysHeld, Moved
  <2>3. CASE ~ClaimKey(w)
    <3>1. hook[w].pc \notin {"idle", "claim"}
      BY <1>3, <2>3 DEF HookStep, FindContribution, Confirm, StoreProof, EnqueueRecord,
                        EnqueueSms, MarkFailed, Answer
    <3>2. hook'[w].pc # "idle" => hook'[w].ref = hook[w].ref
      BY <1>3, <2>3, HookMoves DEF HookStep, Moved, NoHook
    <3> QED
      BY <1>1, <1>3, <2>1, <3>1, <3>2, HookMoves DEF KeysHeld
  <2> QED
    BY <2>2, <2>3
<1>4. ASSUME NEW w \in Hooks, NEW e \in owed, Deliver(w, e) PROVE KeysHeld'
  BY <1>1, <1>4 DEF Deliver, KeysHeld, redis
<1>5. ASSUME NEW j \in jobs, JobStep(j) PROVE KeysHeld'
  BY <1>2, <1>5 DEF JobStep, TakeJob, AttemptThrows, MarkBlockchainFailed, redis
<1>6. ASSUME NEW q \in Requests,
             InitiateStep(q) \/ \E m \in Members, c \in CycleIds : ReadCycle(q, m, c)
      PROVE  KeysHeld'
  BY <1>2, <1>6 DEF InitiateStep, CheckAlready, SaveIntent, InitiatePayment, RecordTransaction,
                    ReadCycle, redis
<1> QED
  BY <1>2, <1>3, <1>4, <1>5, <1>6, FaultsLast
  DEF Next, CustomerPays, TransactionDeclined, Settle, CycleCloses, redis

(* A job that has failed has marked its contribution, which stays marked: no key lapsed. *)
LEMMA FailureMarkedStep == PipelineInv /\ CalmInv /\ Next /\ ~Faulted' => FailureMarked'
<1> SUFFICES ASSUME PipelineInv, CalmInv, Next, ~Faulted', NEW j \in jobs', j.pc = "failed"
             PROVE  row'[j.ref].status = "BLOCKCHAIN_FAILED"
  BY DEF FailureMarked
<1> USE DEF PipelineInv, TypeInv, TypeOK
<1>1. KeysHeld /\ FailureMarked /\ ~Faulted
  BY FaultsLast DEF CalmInv
<1>2. CASE j \in jobs
  <2>1. j.ref \in Refs /\ row[j.ref].status = "BLOCKCHAIN_FAILED" /\ expired[j.ref] = 0
    BY <1>1, <1>2 DEF FailureMarked, KeysHeld, JobType
  <2>2. StatusMoves(j.ref)
    BY <2>1, MovesStep
  <2> QED
    BY <2>1, <2>2 DEF StatusMoves
<1>3. CASE j \notin jobs
  <2>1. ASSUME NEW i \in jobs, JobStep(i) PROVE row'[j.ref].status = "BLOCKCHAIN_FAILED"
    <3>1. i \in JobType
      OBVIOUS
    <3>2. CASE TakeJob(i)
      BY <1>3, <3>1, <3>2 DEF TakeJob, Replace, JobType
    <3>3. CASE AttemptThrows(i)
      BY <1>3, <3>1, <3>3 DEF AttemptThrows, Replace, JobType
    <3>4. CASE MarkBlockchainFailed(i)
      <4>1. j.ref = i.ref /\ i.ref \in Refs
        BY <1>3, <3>1, <3>4 DEF MarkBlockchainFailed, Replace, JobType
      <4> QED
        BY <3>4, <4>1 DEF MarkBlockchainFailed, RowType
    <3> QED
      BY <2>1, <3>2, <3>3, <3>4 DEF JobStep
  <2>2. ASSUME NEW w \in Hooks, HookStep(w) PROVE FALSE
    BY <1>3, <2>2 DEF HookStep, ClaimKey, FindContribution, Confirm, StoreProof, EnqueueRecord,
                      EnqueueSms, MarkFailed, Answer, Waiting, queues
  <2>3. jobs' # jobs
    BY <1>3
  <2>4. ASSUME NEW q \in Requests, InitiateStep(q) PROVE FALSE
    BY <2>3, <2>4 DEF InitiateStep, CheckAlready, SaveIntent, InitiatePayment,
                      RecordTransaction, queues
  <2> QED
    BY <2>1, <2>2, <2>3, <2>4, FaultsLast
    DEF Next, ReadCycle, Deliver, CustomerPays, TransactionDeclined, Settle, CycleCloses, queues
<1> QED
  BY <1>2, <1>3

(* Steps that neither settle a payment nor touch its key, its events or its delivery. *)
LEMMA CarriedFrame ==
    ASSUME PipelineInv, Next, NEW r \in Refs, Carried(r), HasOutcome(r)' => HasOutcome(r),
           r \in keys' <=> r \in keys, \A e \in owed : e.ref = r => e \in owed' \/ r \in keys,
           \A w \in Hooks : Carries(w, r) => Carries(w, r)' \/ row'[r].status # "PENDING"
    PROVE  Carried(r)'
<1>1. HasOutcome(r) => HasOutcome(r)'
  BY TxSteps DEF TxStep, HasOutcome, PipelineInv
<1>2. HasOutcome(r) /\ row'[r].status = "PENDING" => row[r].status = "PENDING"
  <2>1. StatusMoves(r) /\ (row[r].status = "ABSENT" => tx[r].status = "none")
    BY MovesStep DEF PipelineInv, LedgerInv, RowsBacked
  <2> QED
    BY <2>1 DEF StatusMoves, HasOutcome
<1> QED
  BY <1>1, <1>2 DEF Carried

LEMMA CarriedStep ==
    ASSUME PipelineInv, CalmInv, Next, ~Faulted', OtherEvents = {}, NEW r \in Refs
    PROVE  Carried(r)'
<1> USE DEF PipelineInv, TypeInv, TypeOK
<1>1. KeysHeld /\ Carried(r) /\ row[r] \in RowType /\ tx[r] \in TxType
  BY FaultsLast DEF CalmInv
<1>2. CASE hook' = hook /\ keys' = keys /\ \A e \in owed : e \in owed'
  <2>1. CASE HasOutcome(r)' => HasOutcome(r)
    <3>1. \A w \in Hooks : Carries(w, r) => Carries(w, r)'
      BY <1>2 DEF Carries
    <3> QED
      BY <1>1, <1>2, <2>1, <3>1, CarriedFrame
(* The payment is settled by this step: its key is free, its event new. *)
  <2>2. CASE HasOutcome(r)' /\ ~HasOutcome(r)
    <3>1. r \notin keys'
      BY <1>1, <1>2, <2>2 DEF Carried
    <3>2. \E e \in owed' : e.ref = r
      <4>1. ASSUME NEW s \in Refs, CustomerPays(s) \/ TransactionDeclined(s)
            PROVE  \E e \in owed' : e.ref = r
        <5>1. PICK outcome, kind : /\ tx' = [tx EXCEPT ![s].status = outcome]
                                   /\ owed' = owed \cup {Event(s, kind)}
          BY <4>1 DEF CustomerPays, TransactionDeclined, Settle
        <5>2. s = r
          BY <2>2, <5>1 DEF HasOutcome
        <5>3. Event(s, kind) \in owed' /\ Event(s, kind).ref = s
          BY <5>1 DEF Event
        <5> QED
          BY <5>2, <5>3
      <4>2. ASSUME NEW q \in Requests, InitiateStep(q) PROVE FALSE
        <5>1. CASE InitiatePayment(q)
          BY <2>2, <5>1 DEF InitiatePayment, CreateTransaction, HasOutcome
        <5>2. CASE RecordTransaction(q)
          BY <1>1, <2>2, <5>2 DEF RecordTransaction, HasOutcome, TxType
        <5> QED
          BY <2>2, <4>2, <5>1, <5>2
          DEF InitiateStep, CheckAlready, SaveIntent, HasOutcome, provider
      <4>3. ASSUME NEW w \in Hooks, HookStep(w) PROVE FALSE
        BY <2>2, <4>3 DEF HookStep, ClaimKey, FindContribution, Confirm, StoreProof,
           EnqueueRecord, EnqueueSms, MarkFailed, Answer, HasOutcome, provider
      <4>4. ASSUME NEW j \in jobs, JobStep(j) PROVE FALSE
        BY <2>2, <4>4 DEF JobStep, TakeJob, AttemptThrows, MarkBlockchainFailed, HasOutcome,
           provider
      <4> QED
        BY <2>2, <4>1, <4>2, <4>3, <4>4, FaultsLast
        DEF Next, ReadCycle, Deliver, CycleCloses, HasOutcome, provider
    <3> QED
      BY <3>1, <3>2 DEF Carried
  <2> QED
    BY <2>1, <2>2
<1>3. ASSUME NEW w \in Hooks, HookStep(w) PROVE Carried(r)'
  <2>1. tx' = tx /\ (HasOutcome(r)' <=> HasOutcome(r))
    BY <1>3 DEF HookStep, ClaimKey, FindContribution, Confirm, StoreProof, EnqueueRecord,
                EnqueueSms, MarkFailed, Answer, provider, HasOutcome
  <2>2. \A v \in Hooks : v # w /\ Carries(v, r) => Carries(v, r)'
    BY <1>3, HookMoves DEF Carries
  <2>3. CASE ClaimKey(w)
    <3>1. owed' = owed /\ row' = row /\ keys' = keys \cup {hook[w].ref} /\ ~Carries(w, r)
      BY <2>3 DEF ClaimKey, provider, Carries
    <3>2. CASE hook[w].ref # r \/ r \in keys
      BY <1>1, <2>1, <2>2, <3>1, <3>2, CarriedFrame
    <3>3. CASE hook[w].ref = r /\ r \notin keys
      <4>1. HasOutcome(r)
        <5>1. Backed(r, hook[w].kind) /\ hook[w].kind \in Outcomes
          BY <1>3, <2>3, <3>3, HookMoves DEF LedgerInv, EventsBacked, ClaimKey
        <5> QED
          BY <5>1 DEF Backed, HasOutcome, Outcomes
      <4>2. Carries(w, r)'
        BY <1>3, <2>3, <3>3, HookMoves DEF Carries, Moved
      <4> QED
        BY <2>1, <3>1, <3>3, <4>1, <4>2 DEF Carried
    <3> QED
      BY <3>2, <3>3
  <2>4. CASE FindContribution(w)
    <3>1. owed' = owed /\ row' = row /\ keys' = keys
      BY <2>4 DEF FindContribution, provider, redis
    <3>2. Carries(w, r) => Carries(w, r)' \/ row'[r].status # "PENDING"
      <4>1. SUFFICES ASSUME Carries(w, r), row[r].status = "PENDING" PROVE Carries(w, r)'
        BY <3>1
      <4>2. hook[w].kind \in Outcomes
        BY <1>3, HookMoves
      <4>3. Verdict(r, hook[w].kind) \in {"confirm", "fail"}
        BY <4>1, <4>2 DEF Verdict, Outcomes, IsSuccessEvent, IsFailureEvent
      <4> QED
        BY <1>3, <2>4, <4>1, <4>3, HookMoves DEF Carries, Moved
    <3> QED
      BY <1>1, <2>1, <2>2, <3>1, <3>2, CarriedFrame
  <2>5. CASE Confirm(w) \/ MarkFailed(w)
    <3>1. owed' = owed /\ keys' = keys
      BY <2>5 DEF Confirm, MarkFailed, provider, redis
    <3>2. Carries(w, r) => row'[r].status # "PENDING"
      BY <1>1, <2>5 DEF Confirm, MarkFailed, Carries, RowType
    <3> QED
      BY <1>1, <2>1, <2>2, <3>1, <3>2, CarriedFrame
  <2>6. CASE StoreProof(w) \/ EnqueueRecord(w) \/ EnqueueSms(w)
    <3>1. owed' = owed /\ keys' = keys /\ ~Carries(w, r)
      BY <2>6 DEF StoreProof, EnqueueRecord, EnqueueSms, provider, redis, Carries
    <3> QED
      BY <1>1, <2>1, <2>2, <3>1, CarriedFrame
  <2>7. CASE Answer(w)
    <3>1. /\ owed' = owed \ {Event(hook[w].ref, hook[w].kind)} /\ keys' = keys
          /\ hook[w].ref \in keys /\ ~Carries(w, r)
      BY <1>1, <2>7 DEF Answer, redis, Carries, KeysHeld
    <3>2. \A e \in owed : e.ref = r => e \in owed' \/ r \in keys
      BY <3>1 DEF Event
    <3> QED
      BY <1>1, <2>1, <2>2, <3>1, <3>2, CarriedFrame
  <2> QED
    BY <1>3, <2>3, <2>4, <2>5, <2>6, <2>7 DEF HookStep
<1>4. ASSUME NEW w \in Hooks, NEW e \in owed, Deliver(w, e) PROVE Carried(r)'
  <2>1. owed' = owed /\ keys' = keys /\ tx' = tx
    BY <1>4 DEF Deliver, provider, redis
  <2>2. \A v \in Hooks : Carries(v, r) => Carries(v, r)'
    BY <1>4 DEF Deliver, Carries
  <2> QED
    BY <1>1, <2>1, <2>2, CarriedFrame DEF HasOutcome
<1>5. ASSUME NEW q \in Requests, InitiateStep(q)
      PROVE  hook' = hook /\ keys' = keys /\ \A e \in owed : e \in owed'
  BY <1>5 DEF InitiateStep, CheckAlready, SaveIntent, InitiatePayment, CreateTransaction,
              RecordTransaction, provider, redis
<1>6. ASSUME NEW j \in jobs, JobStep(j) PROVE hook' = hook /\ keys' = keys /\ owed' = owed
  BY <1>6 DEF JobStep, TakeJob, AttemptThrows, MarkBlockchainFailed, provider, redis
<1>7. ASSUME NEW s \in Refs, CustomerPays(s) \/ TransactionDeclined(s)
      PROVE  hook' = hook /\ keys' = keys /\ \A e \in owed : e \in owed'
  BY <1>7 DEF CustomerPays, TransactionDeclined, Settle, redis
<1> QED
  BY <1>2, <1>3, <1>4, <1>5, <1>6, <1>7, FaultsLast
  DEF Next, ReadCycle, CycleCloses, provider, redis

LEMMA CalmStep == PipelineInv /\ CalmInv /\ [Next]_vars => CalmInv'
<1>1. PipelineInv /\ CalmInv /\ Next => CalmInv'
  BY KeysHeldStep, FailureMarkedStep, CarriedStep DEF CalmInv
<1>2. CalmInv /\ UNCHANGED vars => CalmInv'
  BY DEF CalmInv, vars, Faulted, KeysHeld, FailureMarked, Carried, HasOutcome, Carries
<1> QED
  BY <1>1, <1>2

(* While nothing has failed no settled payment is stranded: if its contribution is PENDING
   its event is owed and the key free, or a delivery carries the outcome to it; and a job
   that gave up has marked its contribution. *)
THEOREM NothingStrandedCorrect == Spec => []NothingStranded
<1>1. CalmInv => NothingStranded
  BY DEF CalmInv, NothingStranded, SettlementCarried, Carried, HasOutcome, Carries
<1> QED
  BY <1>1, PipelineInvariant, CalmInit, CalmStep, PTL DEF Spec

-----------------------------------------------------------------------------
(* Bull's accounts.  A job that is about to be marked is on its third attempt. *)

JobCounted(j) == /\ IF j.pc = "failed" THEN j.made = JobAttempts \/ j.stalls = MaxStalled + 1
                    ELSE j.made < JobAttempts /\ j.stalls <= MaxStalled
                 /\ j.pc = "mark" => j.made = JobAttempts - 1

JobsCounted == \A j \in jobs : JobCounted(j)

LEMMA CountedInit == Init => JobsCounted
  BY DEF Init, JobsCounted

(* The job a step of the queue leaves in the place of j. *)
LEMMA CountedJob ==
    ASSUME NEW j \in JobType, JobCounted(j)
    PROVE  /\ j.pc = "waiting" => JobCounted([j EXCEPT !.pc = "active"])
           /\ j.pc = "active" /\ LastAttempt(j) => JobCounted([j EXCEPT !.pc = "mark"])
           /\ j.pc = "active" /\ ~LastAttempt(j) =>
                 JobCounted([j EXCEPT !.pc = "waiting", !.made = @ + 1])
           /\ j.pc = "mark" => JobCounted([j EXCEPT !.pc = "failed", !.made = @ + 1])
           /\ JobCounted(Stall(j))
<1>0. j.made \in Nat /\ j.stalls \in Nat /\ j.pc \in {"waiting", "active", "mark", "failed"}
  BY DEF JobType
<1> USE <1>0 DEF JobAttempts, MaxStalled
<1>1. j.pc = "waiting" => JobCounted([j EXCEPT !.pc = "active"])
  BY DEF JobCounted, JobType
<1>2. j.pc = "active" /\ LastAttempt(j) => JobCounted([j EXCEPT !.pc = "mark"])
  BY DEF JobCounted, LastAttempt, JobType
<1>3. j.pc = "active" /\ ~LastAttempt(j) =>
         JobCounted([j EXCEPT !.pc = "waiting", !.made = @ + 1])
  BY DEF JobCounted, LastAttempt, JobType
<1>4. j.pc = "mark" => JobCounted([j EXCEPT !.pc = "failed", !.made = @ + 1])
  BY DEF JobCounted, JobType
<1>5. JobCounted(Stall(j))
  <2>1. CASE j.pc \in {"waiting", "failed"}
    BY <2>1 DEF Stall
  <2>2. CASE j.pc \in {"active", "mark"} /\ j.stalls < MaxStalled
    <3>1. Stall(j) = [j EXCEPT !.pc = "waiting", !.stalls = @ + 1]
      BY <2>2 DEF Stall
    <3> QED
      BY <2>2, <3>1 DEF JobCounted, JobType
  <2>3. CASE j.pc \in {"active", "mark"} /\ ~(j.stalls < MaxStalled)
    <3>1. Stall(j) = [j EXCEPT !.pc = "failed", !.stalls = @ + 1]
      BY <2>3 DEF Stall
    <3> QED
      BY <2>3, <3>1 DEF JobCounted, JobType
  <2> QED
    BY <2>1, <2>2, <2>3
<1> QED
  BY <1>1, <1>2, <1>3, <1>4, <1>5

LEMMA CountedStep == TypeInv /\ JobsCounted /\ [Next]_vars => JobsCounted'
<1> SUFFICES ASSUME TypeInv, JobsCounted, [Next]_vars PROVE JobsCounted'
  OBVIOUS
<1>1. \A j \in jobs : j \in JobType /\ JobCounted(j)
  BY DEF TypeInv, TypeOK, JobsCounted
<1>2. ASSUME jobs' = jobs PROVE JobsCounted'
  BY <1>2 DEF JobsCounted, JobCounted
<1>3. ASSUME NEW j \in jobs, NEW k, JobCounted(k), Replace(j, k) PROVE JobsCounted'
  BY <1>1, <1>3 DEF JobsCounted, Replace
<1>4. ASSUME NEW j \in jobs, JobStep(j) \/ MarkError(j) PROVE JobsCounted'
  <2>1. CASE TakeJob(j)
    BY <1>1, <1>3, <2>1, CountedJob DEF TakeJob
  <2>2. CASE AttemptThrows(j) /\ LastAttempt(j)
    BY <1>1, <1>3, <2>2, CountedJob DEF AttemptThrows
  <2>3. CASE AttemptThrows(j) /\ ~LastAttempt(j)
    BY <1>1, <1>3, <2>3, CountedJob DEF AttemptThrows
  <2>4. CASE MarkBlockchainFailed(j) \/ MarkError(j)
    BY <1>1, <1>3, <2>4, CountedJob DEF MarkBlockchainFailed, MarkError
  <2> QED
    BY <1>4, <2>1, <2>2, <2>3, <2>4 DEF JobStep
<1>5. ASSUME NEW w \in Hooks, HookStep(w) PROVE JobsCounted'
  <2>1. CASE EnqueueRecord(w)
    <3>1. JobCounted(Waiting(hook[w].ref, hook[w].claim))
      BY DEF JobCounted, Waiting, JobAttempts, MaxStalled
    <3> QED
      BY <1>1, <2>1, <3>1 DEF EnqueueRecord, JobsCounted
  <2> QED
    BY <1>2, <1>5, <2>1 DEF HookStep, ClaimKey, FindContribution, Confirm, StoreProof,
                            EnqueueSms, MarkFailed, Answer, queues
<1>6. CASE Crash
  BY <1>1, <1>6, CountedJob DEF Crash, JobsCounted
<1>7. ASSUME NEW q \in Requests, InitiateStep(q) \/ InitiateError(q) PROVE JobsCounted'
  BY <1>2, <1>7 DEF InitiateStep, CheckAlready, SaveIntent, InitiatePayment, RecordTransaction,
                    InitiateError, queues
<1> QED
  BY <1>2, <1>4, <1>5, <1>6, <1>7
  DEF Next, ReadCycle, HookError, Deliver, CustomerPays, TransactionDeclined, Settle,
      KeyLapses, CycleCloses, queues, vars

(* A record job ends, and ends only, by its third attempt or its second stall: the
   variant behind its leaving the queue (JobsSettle). *)
THEOREM AttemptsCountedCorrect == Spec => []AttemptsCounted
<1>1. JobsCounted => AttemptsCounted
  BY DEF JobsCounted, JobCounted, AttemptsCounted
<1> QED
  BY <1>1, TypeInit, TypeStep, CountedInit, CountedStep, PTL DEF Spec
=============================================================================
