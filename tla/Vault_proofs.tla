---------------------------- MODULE Vault_proofs ----------------------------
(* Proofs about Vault, for any number of deployment jobs, calls, proofs and faults. *)
EXTENDS Vault, TLAPS

(* A call in progress knows its proof and the vault that the tontine's row shows, and one
   whose transaction was mined has its proof recorded. *)
CallKnows(c) ==
    /\ call[c].pc # "idle" =>
          /\ call[c].proof \in Proofs /\ call[c].vault \in Vaults
          /\ configured => call[c].vault = address
    /\ call[c].pc = "mined" => <<call[c].vault, call[c].proof>> \in recorded

(* A transaction that records a proof goes to the vault that the tontine's row shows, and
   belongs to a call that still waits for it, or to nobody; one that deploys or registers
   a vault belongs to the run of the job that deployed it, or to nobody. *)
TxKnows(t) ==
    /\ t.kind = "record" =>
          /\ t.proof \in Proofs
          /\ configured => t.vault = address
          /\ t.by \in Calls =>
                /\ call[t.by].pc = "wait"
                /\ call[t.by].proof = t.proof /\ call[t.by].vault = t.vault
    /\ t.kind # "record" =>
          /\ t.proof = None
          /\ t.by \in Jobs => t.vault = VaultOf(t.by)

(* With a registry, a job gets to save an address only if it is the registered one, and
   proofs are recorded only where the tontine's row shows. *)
SavesRegistered == configured => \A j \in Jobs : job[j].pc = "save" => VaultOf(j) = registry
RecordedAtAddress == configured => \A v \in Vaults, p \in Proofs : <<v, p>> \in recorded => v = address

VaultInv ==
    /\ TypeOK
    /\ \A c \in Calls : CallKnows(c)
    /\ \A t \in pool : TxKnows(t)
    /\ SavesRegistered
    /\ AddressIsRegistered
    /\ RecordedAtAddress

LEMMA VaultInit == Init => VaultInv
<1> SUFFICES ASSUME Init PROVE VaultInv
  OBVIOUS
<1> USE VaultAssumption DEF Init, NoCall
<1>1. TypeOK
  <2>1. job \in [Jobs -> JobType] /\ call \in [Calls -> CallType]
    BY DEF JobType, CallType
  <2>2. configured \in BOOLEAN
    OBVIOUS
  <2>3. expired \in BOOLEAN
    OBVIOUS
  <2> QED
    BY <2>1, <2>2, <2>3 DEF TypeOK
<1>2. (\A c \in Calls : CallKnows(c)) /\ \A t \in pool : TxKnows(t)
  BY DEF CallKnows, TxKnows
<1>3. SavesRegistered /\ AddressIsRegistered /\ RecordedAtAddress
  BY DEF SavesRegistered, AddressIsRegistered, RecordedAtAddress
<1> QED
  BY <1>1, <1>2, <1>3 DEF VaultInv

(* Forgetting who waits keeps what a transaction is. *)
LEMMA Forgotten ==
    ASSUME NEW S \in SUBSET (Jobs \cup Calls), pool \subseteq TxType,
           NEW t \in Forget(S, pool)
    PROVE  /\ t \in TxType
           /\ t.by \notin S
           /\ \E u \in pool :
                 /\ t.kind = u.kind /\ t.vault = u.vault /\ t.proof = u.proof
                 /\ t.by # Nobody => t = u
<1>1. PICK u \in pool : t = IF u.by \in S THEN [u EXCEPT !.by = Nobody] ELSE u
  BY DEF Forget
<1>2. u \in TxType
  OBVIOUS
<1>3. CASE u.by \in S
  <2>1. t = [u EXCEPT !.by = Nobody]
    BY <1>1, <1>3
  <2> QED
    BY <1>2, <2>1, VaultAssumption DEF TxType
<1>4. CASE u.by \notin S
  BY <1>1, <1>2, <1>4
<1> QED
  BY <1>3, <1>4

(* A deployment job moves, and what it sent is kept, added to or no longer waited for. *)
LEMMA DeployMoves ==
    ASSUME VaultInv, NEW j \in Jobs, NEW h \in JobType, job' = [job EXCEPT ![j] = h],
           UNCHANGED <<configured, contracts, address, recording>>, faults' \in Nat,
           h.pc = "save" => ~configured,
           \/ /\ h.made = job[j].made /\ h.stalls = job[j].stalls
              /\ \/ pool' \subseteq pool
                 \/ \E k \in {"deploy", "register"} :
                       pool' = pool \cup {Tx(k, VaultOf(j), None, j)}
           \/ pool' = Forget({j}, pool)
    PROVE  VaultInv'
<1> USE VaultAssumption DEF contracts, recording
<1>1. /\ TypeOK /\ SavesRegistered /\ AddressIsRegistered /\ RecordedAtAddress
      /\ \A c \in Calls : CallKnows(c) 
      /\ \A t \in pool : TxKnows(t)
  BY DEF VaultInv
<1>2. /\ job \in [Jobs -> JobType] /\ job' \in [Jobs -> JobType] /\ job'[j] = h
      /\ \A i \in Jobs : i # j => job'[i] = job[i]
  BY <1>1 DEF TypeOK
<1>3. VaultOf(j) \in Vaults
  <2>1. job[j].made \in Nat /\ job[j].stalls \in Nat
    BY <1>2 DEF JobType
  <2> QED
    BY <2>1 DEF VaultOf, Vaults
<1>4. pool' \subseteq TxType
  <2>1. pool \subseteq TxType
    BY <1>1 DEF TypeOK
  <2>2. ASSUME NEW k \in {"deploy", "register"} PROVE Tx(k, VaultOf(j), None, j) \in TxType
    BY <1>3 DEF Tx, TxType
  <2>3. CASE pool' = Forget({j}, pool)
    <3>1. {j} \in SUBSET (Jobs \cup Calls)
      OBVIOUS
    <3> QED
      BY <2>1, <2>3, <3>1, Forgotten
  <2> QED
    BY <2>1, <2>2, <2>3
<1>5. TypeOK'
  BY <1>1, <1>2, <1>4 DEF TypeOK
<1>6. \A c \in Calls : CallKnows(c)'
  BY <1>1 DEF CallKnows
<1>7. \A i \in Jobs : i # j => VaultOf(i)' = VaultOf(i)
  BY <1>2 DEF VaultOf
<1>8. ASSUME NEW t \in pool' PROVE TxKnows(t)'
  <2>1. ASSUME NEW u \in pool, u.by # j \/ VaultOf(j)' = VaultOf(j) PROVE TxKnows(u)'
    BY <1>1, <1>7, <2>1 DEF TxKnows
  <2>2. CASE pool' = Forget({j}, pool)
    <3>1. {j} \in SUBSET (Jobs \cup Calls) /\ pool \subseteq TxType
      BY <1>1 DEF TypeOK
    <3>2. /\ t.by # j
          /\ \E u \in pool : /\ t.kind = u.kind /\ t.vault = u.vault /\ t.proof = u.proof
                             /\ t.by # Nobody => t = u
      BY <2>2, <3>1, Forgotten
    <3>3. CASE t.by = Nobody
      BY <1>1, <3>2, <3>3 DEF TxKnows
    <3>4. CASE t.by # Nobody
      BY <2>1, <3>2, <3>4
    <3> QED
      BY <3>3, <3>4
  <2>3. CASE /\ h.made = job[j].made /\ h.stalls = job[j].stalls
             /\ \/ pool' \subseteq pool
                \/ \E k \in {"deploy", "register"} :
                      pool' = pool \cup {Tx(k, VaultOf(j), None, j)}
    <3>1. VaultOf(j)' = VaultOf(j)
      BY <1>2, <2>3 DEF VaultOf
    <3>2. CASE t \in pool
      BY <2>1, <3>1, <3>2
    <3>3. CASE \E k \in {"deploy", "register"} : t = Tx(k, VaultOf(j), None, j)
      BY <3>1, <3>3 DEF Tx, TxKnows
    <3> QED
      BY <2>3, <3>2, <3>3
  <2> QED
    BY <2>2, <2>3
<1>9. SavesRegistered'
  BY <1>1, <1>2, <1>7 DEF SavesRegistered
<1>10. AddressIsRegistered' /\ RecordedAtAddress'
  BY <1>1 DEF AddressIsRegistered, RecordedAtAddress
<1> QED
  BY <1>5, <1>6, <1>8, <1>9, <1>10 DEF VaultInv

(* A call moves: it does not wait for a transaction, it has just sent one, or it has
   ended and left behind what it sent. *)
LEMMA CallMoves ==
    ASSUME VaultInv, NEW c \in Calls, NEW h \in CallType, call' = [call EXCEPT ![c] = h],
           UNCHANGED <<configured, contracts, deployment>>,
           begun' \in Nat, returned' \subseteq Proofs, expired' \in BOOLEAN, faults' \in Nat,
           h.pc # "idle" => /\ h.proof \in Proofs /\ h.vault \in Vaults
                            /\ configured => h.vault = address,
           h.pc # "mined",
           \/ pool' \subseteq pool /\ \A t \in pool' : t.kind = "record" => t.by # c
           \/ call[c].pc # "wait" /\ pool' = pool
           \/ /\ call[c].pc # "wait" /\ h.pc = "wait"
              /\ pool' = pool \cup {Tx("record", h.vault, h.proof, c)}
           \/ pool' = Forget({c}, pool)
    PROVE  VaultInv'
<1> USE VaultAssumption DEF contracts, deployment
<1>1. /\ TypeOK /\ SavesRegistered /\ AddressIsRegistered /\ RecordedAtAddress
      /\ \A d \in Calls : CallKnows(d)
      /\ \A t \in pool : TxKnows(t)
  BY DEF VaultInv
<1>2. /\ call' \in [Calls -> CallType] /\ call'[c] = h
      /\ \A d \in Calls : d # c => call'[d] = call[d]
  BY <1>1 DEF TypeOK
<1>3. pool' \subseteq TxType
  <2>1. pool \subseteq TxType
    BY <1>1 DEF TypeOK
  <2>2. h.pc = "wait" => Tx("record", h.vault, h.proof, c) \in TxType
    BY DEF Tx, TxType
  <2>3. CASE pool' = Forget({c}, pool)
    <3>1. {c} \in SUBSET (Jobs \cup Calls)
      OBVIOUS
    <3> QED
      BY <2>1, <2>3, <3>1, Forgotten
  <2> QED
    BY <2>1, <2>2, <2>3
<1>4. TypeOK'
  BY <1>1, <1>2, <1>3 DEF TypeOK
<1>5. ASSUME NEW d \in Calls PROVE CallKnows(d)'
  BY <1>1, <1>2 DEF CallKnows
<1>6. ASSUME NEW t \in pool' PROVE TxKnows(t)'
  <2>1. ASSUME NEW u \in pool, u.by # c \/ u.kind # "record" PROVE TxKnows(u)'
    <3>1. TxKnows(u)
      BY <1>1
    <3>2. u.by \in Calls /\ u.kind = "record" => call'[u.by] = call[u.by]
      BY <1>2, <2>1
    <3> QED
      BY <3>1, <3>2 DEF TxKnows, VaultOf
  <2>2. CASE call[c].pc # "wait" /\ t \in pool
    <3>1. t.by # c \/ t.kind # "record"
      BY <1>1, <2>2 DEF TxKnows
    <3> QED
      BY <2>1, <2>2, <3>1
  <2>3. CASE h.pc = "wait" /\ t = Tx("record", h.vault, h.proof, c)
    BY <1>2, <2>3 DEF Tx, TxKnows
  <2>4. CASE pool' = Forget({c}, pool)
    <3>1. {c} \in SUBSET (Jobs \cup Calls) /\ pool \subseteq TxType
      BY <1>1 DEF TypeOK
    <3>2. /\ t.by # c
          /\ \E u \in pool : /\ t.kind = u.kind /\ t.vault = u.vault /\ t.proof = u.proof
                             /\ t.by # Nobody => t = u
      BY <2>4, <3>1, Forgotten
    <3>3. CASE t.by = Nobody
      BY <1>1, <3>2, <3>3 DEF TxKnows
    <3>4. CASE t.by # Nobody
      BY <2>1, <3>2, <3>4
    <3> QED
      BY <3>3, <3>4
  <2>5. CASE t \in pool /\ (t.kind = "record" => t.by # c)
    BY <2>1, <2>5
  <2> QED
    BY <2>2, <2>3, <2>4, <2>5
<1>7. SavesRegistered' /\ AddressIsRegistered' /\ RecordedAtAddress'
  BY <1>1 DEF SavesRegistered, AddressIsRegistered, RecordedAtAddress, VaultOf
<1> QED
  BY <1>4, <1>5, <1>6, <1>7 DEF VaultInv

(* Transactions leave the pool, and nothing else that matters changes. *)
LEMMA PoolShrinks ==
    ASSUME VaultInv, pool' \subseteq pool, faults' \in Nat,
           UNCHANGED <<configured, contracts, deployment, recording>>
    PROVE  VaultInv'
<1> USE DEF contracts, deployment, recording
<1>1. TypeOK'
  BY DEF VaultInv, TypeOK
<1>2. (\A c \in Calls : CallKnows(c)') /\ \A t \in pool' : TxKnows(t)'
  BY DEF VaultInv, CallKnows, TxKnows, VaultOf
<1>3. SavesRegistered' /\ AddressIsRegistered' /\ RecordedAtAddress'
  BY DEF VaultInv, SavesRegistered, AddressIsRegistered, RecordedAtAddress, VaultOf
<1> QED
  BY <1>1, <1>2, <1>3 DEF VaultInv

LEMMA DeployStepKeeps ==
    ASSUME VaultInv, NEW j \in Jobs, Enqueue(j) \/ DeployStep(j) \/ DeployError(j)
    PROVE  VaultInv'
<1> USE VaultAssumption
<1>1. /\ TypeOK /\ job \in [Jobs -> JobType] /\ faults \in Nat
  BY DEF VaultInv, TypeOK
<1>2. job[j] \in JobType
  BY <1>1
<1>3. ASSUME NEW pc \in {"waiting", "deploy", "deploying", "registering", "done"}
      PROVE  [job[j] EXCEPT !.pc = pc] \in JobType
  BY <1>2 DEF JobType, Running
<1>4. ASSUME AttemptFails(j), UNCHANGED <<configured, contracts, address, recording>>,
             faults' \in Nat
      PROVE  VaultInv'
  <2> DEFINE made == job[j].made + 1
             pc == IF job[j].made + 1 < DeployAttempts THEN "waiting" ELSE "failed"
             h == [job[j] EXCEPT !.made = made, !.pc = pc]
  <2>1. made \in Nat /\ pc \in {"waiting", "failed"}
    BY <1>2 DEF JobType
  <2>2. job' = [job EXCEPT ![j] = h] /\ pool' = Forget({j}, pool)
    BY <1>1, <1>4 DEF AttemptFails
  <2>3. h \in JobType /\ h.pc # "save"
    <3> HIDE DEF made, pc
    <3> QED
      BY <1>2, <2>1 DEF JobType
  <2> HIDE DEF h
  <2> QED
    BY <1>4, <2>2, <2>3, DeployMoves
<1>5. CASE Enqueue(j) \/ TakeDeploy(j)
  <2>1. PICK pc \in {"waiting", "deploy"} : job' = [job EXCEPT ![j] = [job[j] EXCEPT !.pc = pc]]
    BY <1>1, <1>5 DEF Enqueue, TakeDeploy, GoTo
  <2> DEFINE h == [job[j] EXCEPT !.pc = pc]
  <2>2. h \in JobType /\ h.pc # "save" /\ h.made = job[j].made /\ h.stalls = job[j].stalls
    BY <1>2, <1>3 DEF JobType
  <2>3. job' = [job EXCEPT ![j] = h] /\ pool' \subseteq pool /\ faults' \in Nat
    BY <1>1, <1>5, <2>1 DEF Enqueue, TakeDeploy
  <2>4. UNCHANGED <<configured, contracts, address, recording>>
    BY <1>5 DEF Enqueue, TakeDeploy
  <2> HIDE DEF h
  <2> QED
    BY <2>2, <2>3, <2>4, DeployMoves
<1>6. CASE SendDeployment(j)
  <2> DEFINE h == [job[j] EXCEPT !.pc = "deploying"]
  <2>1. h \in JobType /\ h.pc # "save" /\ h.made = job[j].made /\ h.stalls = job[j].stalls
    BY <1>2, <1>3 DEF JobType
  <2>2. job' = [job EXCEPT ![j] = h] /\ pool' = pool \cup {Tx("deploy", VaultOf(j), None, j)}
    BY <1>1, <1>6 DEF SendDeployment, GoTo
  <2>3. UNCHANGED <<configured, contracts, address, recording>> /\ faults' \in Nat
    BY <1>1, <1>6 DEF SendDeployment
  <2> HIDE DEF h
  <2> QED
    BY <2>1, <2>2, <2>3, DeployMoves
<1>7. CASE Register(j)
  <2>1. UNCHANGED <<configured, contracts, address, recording>> /\ faults' \in Nat
    BY <1>1, <1>7 DEF Register
  <2>2. CASE ~configured
    <3> DEFINE h == [job[j] EXCEPT !.pc = "save"]
    <3>1. h \in JobType /\ h.made = job[j].made /\ h.stalls = job[j].stalls
      BY <1>2 DEF JobType, Running
    <3>2. job' = [job EXCEPT ![j] = h] /\ pool' \subseteq pool
      BY <1>1, <1>7, <2>2 DEF Register, GoTo
    <3> HIDE DEF h
    <3> QED
      BY <2>1, <2>2, <3>1, <3>2, DeployMoves
  <2>3. CASE configured /\ registry # None
    BY <1>4, <1>7, <2>1, <2>3 DEF Register
  <2>4. CASE configured /\ registry = None
    <3> DEFINE h == [job[j] EXCEPT !.pc = "registering"]
    <3>1. h \in JobType /\ h.pc # "save" /\ h.made = job[j].made /\ h.stalls = job[j].stalls
      BY <1>2, <1>3 DEF JobType
    <3>2. job' = [job EXCEPT ![j] = h] /\ pool' = pool \cup {Tx("register", VaultOf(j), None, j)}
      BY <1>1, <1>7, <2>4 DEF Register, GoTo
    <3> HIDE DEF h
    <3> QED
      BY <2>1, <3>1, <3>2, DeployMoves
  <2>5. configured \in BOOLEAN
    BY <1>1 DEF TypeOK
  <2> QED
    BY <2>2, <2>3, <2>4, <2>5
<1>8. CASE RegisterReverted(j)
  BY <1>1, <1>4, <1>8 DEF RegisterReverted
<1>9. CASE DeployError(j)
  <2>1. MaxFaults \in Nat /\ faults' \in Nat
    BY <1>1, <1>9 DEF DeployError, Fault
  <2> QED
    BY <1>4, <1>9, <2>1 DEF DeployError
<1>10. CASE SaveAddress(j)
  <2>1. /\ job' = [job EXCEPT ![j] = [job[j] EXCEPT !.pc = "done"]] /\ address' = VaultOf(j)
        /\ job[j].pc = "save"
        /\ UNCHANGED <<configured, contracts, pool, recording, faults>>
    BY <1>1, <1>10 DEF SaveAddress, GoTo
  <2>2. [job[j] EXCEPT !.pc = "done"] \in JobType
    BY <1>3
  <2>3. /\ job' \in [Jobs -> JobType]
        /\ \A i \in Jobs : /\ job'[i].made = job[i].made /\ job'[i].stalls = job[i].stalls
                           /\ job'[i].pc = "save" => job[i].pc = "save"
    BY <1>1, <1>2, <2>1, <2>2 DEF JobType
  <2>4. \A i \in Jobs : VaultOf(i)' = VaultOf(i)
    BY <2>3 DEF VaultOf
  <2>5. VaultOf(j) \in Vaults
    BY <1>2 DEF JobType, VaultOf, Vaults
  <2>6. configured => VaultOf(j) = registry
    BY <2>1 DEF VaultInv, SavesRegistered
  <2>7. configured /\ address # None => address' = address
    BY <2>1, <2>6 DEF VaultInv, AddressIsRegistered
  <2>8. TypeOK'
    BY <1>1, <2>1, <2>3, <2>5 DEF TypeOK, contracts, recording
  <2>9. None \notin Vaults
    BY DEF Vaults
  <2>10. ASSUME NEW c \in Calls PROVE CallKnows(c)'
    BY <2>1, <2>7, <2>9 DEF VaultInv, CallKnows, contracts, recording
  <2>11. ASSUME NEW t \in pool' PROVE TxKnows(t)'
    <3>1. TxKnows(t) /\ t.vault \in Vaults
      BY <1>1, <2>1 DEF VaultInv, TypeOK, TxType
    <3>2. configured /\ t.kind = "record" => t.vault = address'
      BY <2>7, <2>9, <3>1 DEF TxKnows
    <3> QED
      BY <2>1, <2>4, <3>1, <3>2 DEF TxKnows, recording
  <2>12. SavesRegistered' /\ AddressIsRegistered'
    BY <2>1, <2>3, <2>4, <2>6 DEF VaultInv, SavesRegistered, AddressIsRegistered, contracts
  <2>13. RecordedAtAddress'
    BY <2>1, <2>7, <2>9 DEF VaultInv, RecordedAtAddress, contracts
  <2> QED
    BY <2>8, <2>10, <2>11, <2>12, <2>13 DEF VaultInv
<1> QED
  BY <1>5, <1>6, <1>7, <1>8, <1>9, <1>10 DEF DeployStep

LEMMA RecordStepKeeps ==
    ASSUME VaultInv, NEW c \in Calls,
           RecordStep(c) \/ RecordError(c) \/ \E p \in Proofs : BeginRecord(c, p)
    PROVE  VaultInv'
<1> USE VaultAssumption
<1>1. /\ TypeOK /\ call \in [Calls -> CallType] /\ CallKnows(c) /\ NoCall \in CallType
      /\ faults \in Nat /\ begun \in Nat /\ returned \subseteq Proofs
      /\ \A t \in pool : TxKnows(t)
  BY DEF VaultInv, TypeOK, NoCall, CallType
<1>2. expired \in BOOLEAN
  BY DEF VaultInv, TypeOK
<1>3. call[c] \in CallType
  BY <1>1
<1>4. NoCall.pc = "idle"
  BY DEF NoCall
<1>5. ASSUME Leave(c), UNCHANGED <<configured, contracts, deployment, begun>>,
             returned' \subseteq Proofs, expired' \in BOOLEAN, faults' \in Nat,
             \/ pool' = Forget({c}, pool)
             \/ call[c].pc # "wait" /\ pool' = pool
      PROVE  VaultInv'
  BY <1>1, <1>4, <1>5, CallMoves DEF Leave
<1>6. CASE EstimateGas(c)
  <2>1. CASE Taken(call[c].vault, call[c].proof)
    BY <1>1, <1>2, <1>5, <1>6, <2>1 DEF EstimateGas
  <2>2. CASE ~Taken(call[c].vault, call[c].proof)
    <3> DEFINE h == [call[c] EXCEPT !.pc = "send"]
    <3>1. h \in CallType /\ h.pc = "send" /\ h.proof = call[c].proof /\ h.vault = call[c].vault
      BY <1>3 DEF CallType
    <3>2. call[c].pc = "estimate" /\ call' = [call EXCEPT ![c] = h] /\ pool' = pool
      BY <1>1, <1>6, <2>2 DEF EstimateGas
    <3>3. expired' \in BOOLEAN
      BY <1>2, <1>6 DEF EstimateGas
    <3> HIDE DEF h
    <3> QED
      BY <1>1, <1>6, <3>1, <3>2, <3>3, CallMoves DEF EstimateGas, CallKnows
  <2> QED
    BY <2>1, <2>2
<1>7. CASE SendRecord(c)
  <2> DEFINE h == [call[c] EXCEPT !.pc = "wait"]
  <2>1. h \in CallType /\ h.pc = "wait" /\ h.proof = call[c].proof /\ h.vault = call[c].vault
    BY <1>3 DEF CallType
  <2>2. /\ call[c].pc = "send" /\ call' = [call EXCEPT ![c] = h]
        /\ pool' = pool \cup {Tx("record", h.vault, h.proof, c)}
    BY <1>1, <1>7, <2>1 DEF SendRecord
  <2>3. expired' \in BOOLEAN
    BY <1>2, <1>7 DEF SendRecord
  <2> HIDE DEF h
  <2> QED
    BY <1>1, <1>7, <2>1, <2>2, <2>3, CallMoves DEF SendRecord, CallKnows
<1>8. CASE ReturnHash(c)
  <2>1. returned' \subseteq Proofs /\ expired' \in BOOLEAN
    BY <1>1, <1>2, <1>8 DEF ReturnHash, CallKnows
  <2> QED
    BY <1>1, <1>5, <1>8, <2>1 DEF ReturnHash
<1>9. CASE RecordReverted(c)
  BY <1>1, <1>2, <1>5, <1>9 DEF RecordReverted
<1>10. CASE Timeout(c)
  <2>1. expired' \in BOOLEAN
    BY <1>10 DEF Timeout
  <2> QED
    BY <1>1, <1>5, <1>10, <2>1 DEF Timeout
<1>11. CASE RecordError(c)
  <2>1. expired' \in BOOLEAN /\ faults' \in Nat
    BY <1>1, <1>2, <1>11 DEF RecordError, Fault
  <2> QED
    BY <1>1, <1>5, <1>11, <2>1 DEF RecordError
<1>12. CASE \E p \in Proofs : BeginRecord(c, p)
  <2> PICK p \in Proofs : BeginRecord(c, p)
    BY <1>12
  <2> DEFINE h == [pc |-> "estimate", proof |-> p, vault |-> address]
  <2>1. address \in Vaults
    BY <1>1 DEF BeginRecord, TypeOK
  <2>2. h \in CallType /\ h.pc = "estimate" /\ h.proof = p /\ h.vault = address
    BY <2>1 DEF CallType
  <2>3. /\ call[c].pc # "wait" /\ call' = [call EXCEPT ![c] = h] /\ pool' = pool
        /\ begun' \in Nat
    BY <1>1, <1>4 DEF BeginRecord
  <2>4. expired' \in BOOLEAN
    BY <1>2 DEF BeginRecord
  <2> HIDE DEF h
  <2> QED
    BY <1>1, <2>1, <2>2, <2>3, <2>4, CallMoves DEF BeginRecord
<1> QED
  BY <1>6, <1>7, <1>8, <1>9, <1>10, <1>11, <1>12 DEF RecordStep

(* The chain tells the job that waits, if one does. *)
LEMMA JobTold ==
    ASSUME VaultInv, NEW t \in pool, pool' = pool \ {t}, NEW pc \in {"register", "reverted"},
           TellJob(t, pc),
           UNCHANGED <<configured, contracts, address, recording, faults>>
    PROVE  VaultInv'
<1>1. job \in [Jobs -> JobType] /\ faults' \in Nat
  BY DEF VaultInv, TypeOK
<1>2. CASE t.by \in Jobs
  <2> DEFINE h == [job[t.by] EXCEPT !.pc = pc]
  <2>1. /\ h \in JobType /\ h.pc # "save" /\ h.made = job[t.by].made
        /\ h.stalls = job[t.by].stalls
    BY <1>1, <1>2 DEF JobType, Running
  <2>2. job' = [job EXCEPT ![t.by] = h]
    BY <1>1, <1>2 DEF TellJob
  <2>3. pool' \subseteq pool
    OBVIOUS
  <2> HIDE DEF h
  <2> QED
    BY <1>1, <1>2, <2>1, <2>2, <2>3, DeployMoves
<1>3. CASE t.by \notin Jobs
  BY <1>1, <1>3, PoolShrinks DEF TellJob, deployment
<1> QED
  BY <1>2, <1>3

LEMMA MineKeeps ==
    ASSUME VaultInv, NEW t \in pool, Mine(t)
    PROVE  VaultInv'
<1> USE VaultAssumption
<1>1. /\ TypeOK /\ t \in TxType /\ TxKnows(t) /\ job \in [Jobs -> JobType]
      /\ call \in [Calls -> CallType]
  BY DEF VaultInv, TypeOK
<1>2. CASE MineDeployment(t)
  BY <1>2, JobTold DEF MineDeployment
<1>3. CASE MineRegistration(t) /\ registry # None
  BY <1>3, JobTold DEF MineRegistration, contracts
<1>4. CASE MineRegistration(t) /\ registry = None
  <2>1. /\ pool' = pool \ {t} /\ registry' = t.vault
        /\ UNCHANGED <<configured, recorded, address, recording, faults>>
        /\ job' = IF t.by \in Jobs THEN [job EXCEPT ![t.by].pc = "save"] ELSE job
    BY <1>4 DEF MineRegistration, TellJob
  <2>2. t.kind = "register" /\ registry' \in Vaults
    BY <1>1, <1>4, <2>1 DEF MineRegistration, TxType
  <2>3. /\ job' \in [Jobs -> JobType]
        /\ \A i \in Jobs : /\ job'[i].made = job[i].made /\ job'[i].stalls = job[i].stalls
                           /\ job'[i].pc = "save" => i = t.by \/ job[i].pc = "save"
    BY <1>1, <2>1 DEF JobType, Running
  <2>4. \A i \in Jobs : VaultOf(i)' = VaultOf(i)
    BY <2>3 DEF VaultOf
  <2>5. TypeOK'
    BY <1>1, <2>1, <2>2, <2>3 DEF TypeOK, recording
  <2>6. \A c \in Calls : CallKnows(c)'
    BY <2>1 DEF VaultInv, CallKnows, recording
  <2>7. \A u \in pool' : TxKnows(u)'
    BY <2>1, <2>4 DEF VaultInv, TxKnows, recording
  <2>8. configured => \A i \in Jobs : job[i].pc # "save"
    <3>1. \A i \in Jobs : VaultOf(i) # None
      BY <1>1 DEF VaultOf, JobType
    <3> QED
      BY <1>4, <3>1 DEF VaultInv, SavesRegistered
  <2>9. SavesRegistered'
    BY <1>1, <2>1, <2>2, <2>3, <2>4, <2>8 DEF SavesRegistered, TxKnows
  <2>10. AddressIsRegistered' /\ RecordedAtAddress'
    BY <1>4, <2>1 DEF VaultInv, AddressIsRegistered, RecordedAtAddress
  <2> QED
    BY <2>5, <2>6, <2>7, <2>9, <2>10 DEF VaultInv
<1>5. CASE MineRecord(t)
  <2>1. /\ pool' = pool \ {t} /\ t.kind = "record"
        /\ UNCHANGED <<configured, registry, deployment, begun, returned, expired, faults>>
    BY <1>5 DEF MineRecord
  <2>2. t.proof \in Proofs /\ t.vault \in Vaults /\ (configured => t.vault = address)
    BY <1>1, <2>1 DEF TxKnows, TxType
  <2> DEFINE pc == IF Taken(t.vault, t.proof) THEN "reverted" ELSE "mined"
  <2>3. /\ call' = IF t.by \in Calls THEN [call EXCEPT ![t.by].pc = pc] ELSE call
        /\ pc = "mined" => recorded' = recorded \cup {<<t.vault, t.proof>>}
        /\ pc # "mined" => recorded' = recorded
        /\ pc \in {"mined", "reverted"}
    BY <1>5 DEF MineRecord, TellCall
  <2> HIDE DEF pc
  <2>4. /\ call' \in [Calls -> CallType]
        /\ \A c \in Calls : /\ call'[c].proof = call[c].proof /\ call'[c].vault = call[c].vault
                            /\ c # t.by => call'[c].pc = call[c].pc
        /\ t.by \in Calls => call'[t.by].pc = pc
    BY <1>1, <2>3 DEF CallType
  <2>5. TypeOK'
    BY <1>1, <2>1, <2>2, <2>3, <2>4 DEF TypeOK, deployment
  <2>6. ASSUME NEW c \in Calls PROVE CallKnows(c)'
    <3>1. CallKnows(c) /\ recorded \subseteq recorded'
      BY <2>3 DEF VaultInv
    <3>2. CASE c = t.by
      <4>1. call[c].pc = "wait" /\ call[c].proof = t.proof /\ call[c].vault = t.vault
        BY <1>1, <2>1, <3>2 DEF TxKnows
      <4> QED
        BY <2>1, <2>2, <2>3, <2>4, <3>1, <3>2, <4>1 DEF CallKnows, deployment
    <3>3. CASE c # t.by
      BY <2>1, <2>4, <3>1, <3>3 DEF CallKnows, deployment
    <3> QED
      BY <3>2, <3>3
  <2>7. ASSUME NEW u \in pool' PROVE TxKnows(u)'
    <3>1. u \in TxType /\ TxKnows(u) /\ u # t
      BY <1>1, <2>1 DEF VaultInv, TypeOK
    <3>2. u.kind = "record" /\ u.by \in Calls => u.by # t.by
      BY <1>1, <2>1, <3>1 DEF TxKnows, TxType
    <3> QED
      BY <2>1, <2>4, <3>1, <3>2 DEF TxKnows, VaultOf, deployment
  <2>8. SavesRegistered' /\ AddressIsRegistered'
    BY <2>1 DEF VaultInv, SavesRegistered, AddressIsRegistered, deployment, VaultOf
  <2>9. RecordedAtAddress'
    BY <2>1, <2>2, <2>3 DEF VaultInv, RecordedAtAddress, deployment
  <2> QED
    BY <2>5, <2>6, <2>7, <2>8, <2>9 DEF VaultInv
<1> QED
  BY <1>2, <1>3, <1>4, <1>5 DEF Mine

LEMMA CrashKeeps ==
    ASSUME VaultInv, Crash
    PROVE  VaultInv'
<1> USE VaultAssumption
<1>1. /\ TypeOK /\ job \in [Jobs -> JobType] /\ NoCall \in CallType /\ pool \subseteq TxType
      /\ Jobs \cup Calls \in SUBSET (Jobs \cup Calls)
  BY DEF VaultInv, TypeOK, NoCall, CallType
<1>2. /\ job' = [j \in Jobs |-> Stall(job[j])] /\ call' = [c \in Calls |-> NoCall]
      /\ pool' = Forget(Jobs \cup Calls, pool) /\ faults' \in Nat
      /\ UNCHANGED <<configured, contracts, address, begun, returned, expired>>
  BY <1>1 DEF Crash, Fault, TypeOK
<1>3. ASSUME NEW r \in JobType PROVE Stall(r) \in JobType /\ Stall(r).pc # "save"
  <2> DEFINE n == r.stalls + 1
             pc == IF r.stalls < MaxStalled THEN "waiting" ELSE "failed"
  <2>1. n \in Nat /\ pc \in {"waiting", "failed"}
    BY DEF JobType
  <2>2. Stall(r) = IF r.pc \notin Running THEN r ELSE [r EXCEPT !.pc = pc, !.stalls = n]
    BY DEF Stall
  <2>3. r.pc \notin Running => r.pc # "save"
    BY DEF Running
  <2> HIDE DEF n, pc
  <2> QED
    BY <2>1, <2>2, <2>3 DEF JobType
<1>4. job' \in [Jobs -> JobType] /\ \A j \in Jobs : job'[j].pc # "save"
  BY <1>1, <1>2, <1>3
<1>5. \A t \in pool' : /\ t \in TxType /\ t.by = Nobody
                       /\ \E u \in pool : t.kind = u.kind /\ t.vault = u.vault /\ t.proof = u.proof
  <2> SUFFICES ASSUME NEW t \in pool'
               PROVE  /\ t \in TxType /\ t.by = Nobody
                      /\ \E u \in pool : t.kind = u.kind /\ t.vault = u.vault /\ t.proof = u.proof
    OBVIOUS
  <2>1. /\ t \in TxType /\ t.by \notin Jobs \cup Calls
        /\ \E u \in pool : t.kind = u.kind /\ t.vault = u.vault /\ t.proof = u.proof
    BY <1>1, <1>2, Forgotten
  <2> QED
    BY <2>1 DEF TxType
<1>6. call' \in [Calls -> CallType] /\ pool' \subseteq TxType
  BY <1>1, <1>2, <1>5
<1>7. TypeOK'
  BY <1>1, <1>2, <1>4, <1>6 DEF TypeOK, contracts
<1>8. \A c \in Calls : CallKnows(c)'
  BY <1>2 DEF CallKnows, NoCall
<1>9. ASSUME NEW t \in pool' PROVE TxKnows(t)'
  <2>1. t.by \notin Jobs /\ t.by \notin Calls
    BY <1>5, VaultAssumption
  <2>2. PICK u \in pool : t.kind = u.kind /\ t.vault = u.vault /\ t.proof = u.proof
    BY <1>5
  <2>3. TxKnows(u)
    BY DEF VaultInv
  <2> QED
    BY <1>2, <2>1, <2>2, <2>3 DEF TxKnows
<1>10. SavesRegistered' /\ AddressIsRegistered' /\ RecordedAtAddress'
  BY <1>2, <1>4 DEF VaultInv, SavesRegistered, AddressIsRegistered, RecordedAtAddress, contracts
<1> QED
  BY <1>7, <1>8, <1>9, <1>10 DEF VaultInv

LEMMA VaultStep == VaultInv /\ [Next]_vars => VaultInv'
<1> SUFFICES ASSUME VaultInv, [Next]_vars PROVE VaultInv'
  OBVIOUS
<1>1. CASE \E j \in Jobs : Enqueue(j) \/ DeployStep(j) \/ DeployError(j)
  BY <1>1, DeployStepKeeps
<1>2. CASE \E c \in Calls : RecordStep(c) \/ RecordError(c) \/ \E p \in Proofs : BeginRecord(c, p)
  BY <1>2, RecordStepKeeps
<1>3. CASE \E t \in pool : Mine(t)
  BY <1>3, MineKeeps
<1>4. CASE \E t \in pool : Drop(t)
  BY <1>4, PoolShrinks DEF Drop, Fault, VaultInv, TypeOK
<1>5. CASE Crash
  BY <1>5, CrashKeeps
<1>6. CASE UNCHANGED vars
  BY <1>6, PoolShrinks DEF vars, contracts, deployment, recording, VaultInv, TypeOK
<1> QED
  BY <1>1, <1>2, <1>3, <1>4, <1>5, <1>6 DEF Next

(* Every variable keeps its type. *)
THEOREM VaultTyping == Spec => []TypeOK
<1>1. VaultInv => TypeOK
  BY DEF VaultInv
<1> QED
  BY <1>1, VaultInit, VaultStep, PTL DEF Spec

(* With a registry the address of the tontine's row is the registered vault, however many
   deployments overlap, fail and are run again (handleDeploy, TontineRegistry.register). *)
THEOREM AddressCorrect == Spec => []AddressIsRegistered
<1>1. VaultInv => AddressIsRegistered
  BY DEF VaultInv
<1> QED
  BY <1>1, VaultInit, VaultStep, PTL DEF Spec

-----------------------------------------------------------------------------
(* The proof book.  Its contents change only when a record is mined: the address of the
   row is that of the one registered vault, which nothing was recorded in before. *)
LEMMA BookStep == VaultInv /\ [Next]_vars => [B!PNext]_(B!bookVars)
<1> SUFFICES ASSUME VaultInv, [Next]_vars,
                    ~(Found' = Found /\ Answered' = Answered)
             PROVE  \E p \in Proofs : B!Write(p) \/ B!Acknowledge(p)
  BY DEF B!PNext, B!bookVars
<1> USE VaultAssumption
<1>1. /\ TypeOK /\ RecordedAtAddress /\ AddressIsRegistered /\ SavesRegistered
      /\ \A c \in Calls : CallKnows(c)
      /\ \A t \in pool : TxKnows(t)
  BY DEF VaultInv
<1>2. None \notin Vaults
  BY DEF Vaults
<1>3. CASE \E j \in Jobs : SaveAddress(j)
  <2> PICK j \in Jobs : SaveAddress(j)
    BY <1>3
  <2>1. configured => address' = registry
    BY <1>1 DEF SaveAddress, SavesRegistered
  <2>2. configured /\ address = None => Found' = {}
    <3>1. configured /\ address = None => \A v \in Vaults, p \in Proofs : <<v, p>> \notin recorded
      BY <1>1, <1>2 DEF RecordedAtAddress
    <3>2. address' \in Vaults /\ recorded' = recorded
      <4>1. job[j] \in JobType
        BY <1>1 DEF TypeOK
      <4>2. VaultOf(j) \in Vaults
        BY <4>1 DEF VaultOf, Vaults, JobType
      <4> QED
        BY <4>2 DEF SaveAddress, contracts
    <3> QED
      BY <3>1, <3>2 DEF Found, SaveAddress
  <2>3. configured /\ address # None => address' = address
    BY <1>1, <2>1 DEF AddressIsRegistered
  <2>4. Found' = Found /\ Answered' = Answered
    BY <2>2, <2>3 DEF Found, Answered, SaveAddress, contracts, recording
  <2> QED
    BY <2>4
<1>4. CASE \E c \in Calls : ReturnHash(c)
  <2> PICK c \in Calls : ReturnHash(c)
    BY <1>4
  <2>1. Found' = Found
    BY DEF ReturnHash, Found, contracts, deployment
  <2>2. CASE configured
    <3>1. /\ call[c].proof \in Proofs /\ address # None
          /\ <<address, call[c].proof>> \in recorded
      BY <1>1, <1>2, <2>2 DEF ReturnHash, CallKnows
    <3>2. Answered' = Answered \cup {call[c].proof} /\ call[c].proof \in Found
      BY <2>2, <3>1 DEF ReturnHash, Answered, Found
    <3> QED
      BY <2>1, <3>1, <3>2 DEF B!Acknowledge
  <2>3. CASE ~configured
    BY <2>1, <2>3 DEF ReturnHash, Answered
  <2> QED
    BY <2>2, <2>3
<1>5. CASE \E t \in pool : MineRecord(t)
  <2> PICK t \in pool : MineRecord(t)
    BY <1>5
  <2>1. Answered' = Answered /\ t.proof \in Proofs /\ (configured => t.vault = address)
    BY <1>1 DEF MineRecord, Answered, TxKnows
  <2>2. CASE configured /\ ~Taken(t.vault, t.proof)
    <3>1. recorded' = recorded \cup {<<address, t.proof>>} /\ address' = address /\ configured'
      BY <2>1, <2>2 DEF MineRecord, deployment
    <3>2. address # None
      <4>1. t.vault \in Vaults
        BY <1>1 DEF TypeOK, TxType
      <4> QED
        BY <1>2, <2>1, <2>2, <4>1
    <3>3. Found' = Found \cup {t.proof}
      BY <2>1, <2>2, <3>1, <3>2 DEF Found
    <3>4. \A q \in Found : KeyOf[q] # KeyOf[t.proof]
      BY <2>1, <2>2, <3>2 DEF Found, Taken
    <3> QED
      BY <2>1, <3>3, <3>4 DEF B!Write
  <2>3. CASE ~configured \/ Taken(t.vault, t.proof)
    BY <2>1, <2>3 DEF MineRecord, Found, deployment
  <2> QED
    BY <2>2, <2>3
<1>6. CASE UNCHANGED <<configured, recorded, address, returned>>
  BY <1>6 DEF Found, Answered
<1>7. \/ \E j \in Jobs : SaveAddress(j)
      \/ \E c \in Calls : ReturnHash(c)
      \/ \E t \in pool : MineRecord(t)
      \/ UNCHANGED <<configured, recorded, address, returned>>
  <2> USE DEF contracts, deployment, recording
  <2>1. CASE \E j \in Jobs : Enqueue(j) \/ DeployStep(j) \/ DeployError(j)
    BY <2>1 DEF Enqueue, DeployStep, DeployError, TakeDeploy, SendDeployment, Register,
               RegisterReverted
  <2>2. CASE \E c \in Calls : RecordStep(c) \/ RecordError(c) \/ \E p \in Proofs : BeginRecord(c, p)
    BY <2>2 DEF RecordStep, RecordError, BeginRecord, EstimateGas, SendRecord, RecordReverted,
               Timeout
  <2>3. CASE \E t \in pool : Mine(t) \/ Drop(t)
    BY <2>3 DEF Mine, Drop, MineDeployment, MineRegistration
  <2>4. CASE Crash \/ UNCHANGED vars
    BY <2>4 DEF Crash, vars
  <2> QED
    BY <2>1, <2>2, <2>3, <2>4 DEF Next
<1> QED
  BY <1>3, <1>4, <1>5, <1>6, <1>7

(* Whatever deployments and calls overlap, fail, time out and are repeated, the service
   implements the proof book: no proof is ever replaced, and a hash is returned only for
   a proof that can be looked up at the address the tontine's row shows. *)
THEOREM ProofBookImplemented == Spec => ImplementsProofBook
<1>1. Init => B!PInit
  BY DEF Init, B!PInit, Found, Answered
<1>2. Spec => []VaultInv
  BY VaultInit, VaultStep, PTL DEF Spec
<1> QED
  BY <1>1, <1>2, BookStep, PTL DEF Spec, ImplementsProofBook, B!PSpec

(* What the proof book is good for: there is one proof for each place, and who was answered
   with a hash finds the proof. *)
BookInOrder ==
    /\ \A p, q \in Found : KeyOf[p] = KeyOf[q] => p = q
    /\ Answered \subseteq Found

(* Whatever deployments and calls overlap, time out and are repeated, a member's place in a
   cycle has one proof at the address the tontine's row shows, and a proof whose recording
   was answered with a hash is among those found there (getTontineState). *)
THEOREM BookInOrderCorrect == Spec => []BookInOrder
<1>1. Init => BookInOrder
  BY DEF Init, BookInOrder, Found, Answered
<1>2. BookInOrder /\ [B!PNext]_(B!bookVars) => BookInOrder'
  BY DEF BookInOrder, B!PNext, B!bookVars, B!Write, B!Acknowledge
<1>3. Spec => []VaultInv
  BY VaultInit, VaultStep, PTL DEF Spec
<1> QED
  BY <1>1, <1>2, <1>3, BookStep, PTL DEF Spec

-----------------------------------------------------------------------------
(* Nothing stranded.  A transaction is known to the job that sent it for exactly as long
   as the job waits for it, so that a job which gives up leaves none behind; and as long
   as nothing has failed, the registry has chosen a vault only on its way to the row. *)
Known == \A t \in pool : t.by \in Jobs =>
            \/ t.kind = "deploy" /\ job[t.by].pc = "deploying"
            \/ t.kind = "register" /\ job[t.by].pc = "registering"

(* Without a registry, no job deals with one. *)
Unset == ~configured =>
            registry = None /\ \A j \in Jobs : job[j].pc \notin {"registering", "reverted"}

(* Somebody waits for every transaction, for one of a call unless the call timed out. *)
Awaited == \A t \in pool : /\ t.kind # "record" => t.by \in Jobs
                           /\ t.kind = "record" => t.by \in Calls \/ expired

(* The vault that the registry took is about to be saved, or the row shows it. *)
Chosen == registry # None /\ address = None => \E j \in Jobs : job[j].pc = "save"

(* Until then every job that was enqueued is on its way. *)
Coming == registry = None /\ address = None => \A j \in Jobs : job[j].pc = "none" \/ Underway(j)

(* A proof on chain was reported, is about to be, or its caller gave up. *)
Reported == \A q \in recorded :
               \/ q[2] \in returned \/ expired
               \/ \E c \in Calls : call[c].pc = "mined" /\ call[c].proof = q[2]

Calm == Unset /\ Awaited /\ Chosen /\ Coming /\ Reported
CalmInv == VaultInv /\ Known /\ (faults = 0 => Calm)

(* A transaction that nobody gives up waiting for is still awaited. *)
LEMMA StillAwaited ==
    ASSUME NEW S, NEW t \in pool, t.by \notin S
    PROVE  t \in Forget(S, pool)
BY DEF Forget

(* A job that waits for no transaction has none. *)
LEMMA NoneOfItsOwn ==
    ASSUME Known, NEW j \in Jobs, job[j].pc \notin {"deploying", "registering"}, NEW t \in pool
    PROVE  t.by # j
BY DEF Known

(* A job has at most one transaction that it waits for. *)
LEMMA OneOfItsOwn ==
    ASSUME VaultInv, Known, NEW t \in pool, NEW u \in pool, t.by \in Jobs, u.by = t.by
    PROVE  u = t
<1>1. t \in TxType /\ u \in TxType /\ TxKnows(t) /\ TxKnows(u)
  BY DEF VaultInv, TypeOK
<1>2. t.kind = u.kind /\ t.kind # "record"
  BY DEF Known
<1>3. t.vault = u.vault /\ t.proof = u.proof
  BY <1>1, <1>2 DEF TxKnows
<1> QED
  BY <1>1, <1>2, <1>3 DEF TxType

(* What a step of a job does to the jobs. *)
LEMMA JobGoes ==
    ASSUME VaultInv, NEW j \in Jobs, NEW pc, GoTo(j, pc)
    PROVE  job'[j].pc = pc /\ \A i \in Jobs : i # j => job'[i] = job[i]
<1>1. job \in [Jobs -> JobType]
  BY DEF VaultInv, TypeOK
<1> QED
  BY <1>1 DEF GoTo, JobType

LEMMA JobFails ==
    ASSUME VaultInv, NEW j \in Jobs, AttemptFails(j)
    PROVE  job'[j].pc \in {"waiting", "failed"} /\ \A i \in Jobs : i # j => job'[i] = job[i]
<1>1. job \in [Jobs -> JobType]
  BY DEF VaultInv, TypeOK
<1> QED
  BY <1>1 DEF AttemptFails, JobType

LEMMA KnownStep == VaultInv /\ Known /\ [Next]_vars => Known'
<1> SUFFICES ASSUME VaultInv, Known, [Next]_vars, NEW t \in pool', t.by \in Jobs
             PROVE  \/ t.kind = "deploy" /\ job'[t.by].pc = "deploying"
                    \/ t.kind = "register" /\ job'[t.by].pc = "registering"
  BY DEF Known
<1> USE VaultAssumption
<1>1. /\ job \in [Jobs -> JobType] /\ pool \subseteq TxType
      /\ \A u \in pool : TxKnows(u)
  BY DEF VaultInv, TypeOK
<1>2. CASE t \in pool /\ job'[t.by] = job[t.by]
  BY <1>2 DEF Known
<1>3. ASSUME NEW S \in SUBSET (Jobs \cup Calls), pool' = Forget(S, pool)
      PROVE  t \in pool /\ t.by \notin S
  BY <1>1, <1>3, Forgotten
<1>4. CASE \E j \in Jobs : Enqueue(j) \/ DeployStep(j) \/ DeployError(j)
  <2> PICK j \in Jobs : Enqueue(j) \/ DeployStep(j) \/ DeployError(j)
    BY <1>4
  <2>1. CASE AttemptFails(j)
    <3>1. {j} \in SUBSET (Jobs \cup Calls) /\ pool' = Forget({j}, pool)
      BY <2>1 DEF AttemptFails
    <3>2. t \in pool /\ t.by # j
      BY <1>3, <3>1
    <3>3. job'[t.by] = job[t.by]
      BY <1>1, <2>1, <3>2 DEF AttemptFails
    <3> QED
      BY <1>2, <3>2, <3>3
  <2>2. ASSUME NEW k, NEW pc, job[j].pc \notin {"deploying", "registering"}, GoTo(j, pc),
               pool' = pool \cup {Tx(k, VaultOf(j), None, j)},
               \/ k = "deploy" /\ pc = "deploying"
               \/ k = "register" /\ pc = "registering"
        PROVE  \/ t.kind = "deploy" /\ job'[t.by].pc = "deploying"
               \/ t.kind = "register" /\ job'[t.by].pc = "registering"
    <3>1. job'[j].pc = pc /\ \A i \in Jobs : i # j => job'[i] = job[i]
      BY <2>2, JobGoes
    <3>2. CASE t \in pool
      BY <1>2, <2>2, <3>1, <3>2, NoneOfItsOwn
    <3>3. CASE t = Tx(k, VaultOf(j), None, j)
      BY <2>2, <3>1, <3>3 DEF Tx
    <3> QED
      BY <2>2, <3>2, <3>3
  <2>3. ASSUME pool' = pool, job[j].pc \notin {"deploying", "registering"},
               NEW pc, GoTo(j, pc)
        PROVE  \/ t.kind = "deploy" /\ job'[t.by].pc = "deploying"
               \/ t.kind = "register" /\ job'[t.by].pc = "registering"
    <3>1. t \in pool /\ t.by # j
      BY <2>3, NoneOfItsOwn
    <3> QED
      BY <1>2, <2>3, <3>1, JobGoes
  <2>4. CASE Enqueue(j) \/ TakeDeploy(j) \/ SaveAddress(j)
    BY <2>3, <2>4 DEF Enqueue, TakeDeploy, SaveAddress
  <2>5. CASE SendDeployment(j)
    BY <2>2, <2>5 DEF SendDeployment
  <2>6. CASE Register(j)
    BY <2>1, <2>2, <2>3, <2>6 DEF Register
  <2>7. CASE RegisterReverted(j) \/ DeployError(j)
    BY <2>1, <2>7 DEF RegisterReverted, DeployError
  <2> QED
    BY <2>4, <2>5, <2>6, <2>7 DEF DeployStep
<1>5. CASE \E c \in Calls : RecordStep(c) \/ RecordError(c) \/ \E p \in Proofs : BeginRecord(c, p)
  <2> PICK c \in Calls : RecordStep(c) \/ RecordError(c) \/ \E p \in Proofs : BeginRecord(c, p)
    BY <1>5
  <2>1. job' = job
    BY DEF RecordStep, RecordError, BeginRecord, EstimateGas, SendRecord, ReturnHash,
           RecordReverted, Timeout, deployment
  <2>2. {c} \in SUBSET (Jobs \cup Calls)
    OBVIOUS
  <2>3. CASE pool' = Forget({c}, pool)
    BY <1>2, <1>3, <2>1, <2>2, <2>3
  <2>4. CASE pool' = pool
    BY <1>2, <2>1, <2>4
  <2>5. CASE SendRecord(c)
    <3>1. t \in pool
      BY <2>5 DEF SendRecord, Tx
    <3> QED
      BY <1>2, <2>1, <3>1
  <2> QED
    BY <2>3, <2>4, <2>5 DEF RecordStep, RecordError, BeginRecord, EstimateGas, ReturnHash,
                            RecordReverted, Timeout
<1>6. CASE \E u \in pool : Mine(u) \/ Drop(u)
  <2> PICK u \in pool : Mine(u) \/ Drop(u)
    BY <1>6
  <2>1. t \in pool /\ t # u
    BY DEF Mine, MineDeployment, MineRegistration, MineRecord, Drop
  <2>2. t.by # u.by
    BY <2>1, OneOfItsOwn
  <2>3. job'[t.by] = job[t.by]
    BY <1>1, <2>2 DEF Mine, MineDeployment, MineRegistration, MineRecord, Drop, TellJob, deployment
  <2> QED
    BY <1>2, <2>1, <2>3
<1>7. CASE Crash
  BY <1>3, <1>7 DEF Crash
<1>8. CASE UNCHANGED vars
  BY <1>2, <1>8 DEF vars
<1> QED
  BY <1>4, <1>5, <1>6, <1>7, <1>8 DEF Next

(* A job that a step leaves where it is stays on its way. *)
LEMMA StillUnderway ==
    ASSUME NEW j \in Jobs, Underway(j), job'[j] = job[j],
           \A t \in pool : t.by = j => t \in pool'
    PROVE  Underway(j)'
BY DEF Underway, Sent

LEMMA DeployCalm ==
    ASSUME VaultInv, Known, Calm, NEW j \in Jobs, Enqueue(j) \/ DeployStep(j)
    PROVE  Calm'
<1> USE VaultAssumption
<1>1. /\ TypeOK /\ job \in [Jobs -> JobType] /\ pool \subseteq TxType
      /\ Unset /\ Awaited /\ Chosen /\ Coming /\ Reported
  BY DEF VaultInv, TypeOK, Calm
<1>2. None \notin Vaults
  BY DEF Vaults
<1>3. UNCHANGED <<configured, registry, recorded, call, returned, expired>>
  BY DEF Enqueue, DeployStep, TakeDeploy, SendDeployment, Register, RegisterReverted,
         SaveAddress, contracts, recording
<1>4. Reported'
  BY <1>1, <1>3 DEF Reported
<1>5. ASSUME NEW pc, GoTo(j, pc), pool' = pool, pc \notin {"registering", "reverted"},
             \/ /\ address' = address /\ job[j].pc # "save"
                /\ job[j].pc \notin {"deploying", "registering"}
                /\ pc \in {"waiting", "deploy", "save"}
             \/ address' # None
      PROVE  Calm'
  <2>1. job'[j].pc = pc /\ \A i \in Jobs : i # j => job'[i] = job[i]
    BY <1>5, JobGoes
  <2>2. Unset' /\ Awaited'
    BY <1>1, <1>3, <1>5, <2>1 DEF Unset, Awaited
  <2>3. Chosen'
    BY <1>1, <1>3, <1>5, <2>1 DEF Chosen
  <2>4. Coming'
    <3> SUFFICES ASSUME registry = None, address' = None, NEW i \in Jobs
                 PROVE  job'[i].pc = "none" \/ Underway(i)'
      BY <1>3 DEF Coming
    <3>1. CASE i = j
      BY <1>5, <2>1, <3>1 DEF Underway
    <3>2. CASE i # j
      BY <1>1, <1>5, <2>1, <3>2, StillUnderway DEF Coming
    <3> QED
      BY <3>1, <3>2
  <2> QED
    BY <1>4, <2>2, <2>3, <2>4 DEF Calm
<1>6. ASSUME NEW k, NEW pc, GoTo(j, pc), address' = address,
             pool' = pool \cup {Tx(k, VaultOf(j), None, j)}, job[j].pc # "save",
             \/ k = "deploy" /\ pc = "deploying"
             \/ k = "register" /\ pc = "registering" /\ configured
      PROVE  Calm'
  <2>1. job'[j].pc = pc /\ \A i \in Jobs : i # j => job'[i] = job[i]
    BY <1>6, JobGoes
  <2>2. /\ Tx(k, VaultOf(j), None, j).kind = k /\ Tx(k, VaultOf(j), None, j).by = j
        /\ Tx(k, VaultOf(j), None, j) \in pool'
    BY <1>6 DEF Tx
  <2>3. Unset'
    BY <1>1, <1>3, <1>6, <2>1 DEF Unset
  <2>4. Awaited'
    BY <1>1, <1>3, <1>6, <2>2 DEF Awaited
  <2>5. Chosen'
    BY <1>1, <1>3, <1>6, <2>1 DEF Chosen
  <2>6. Coming'
    <3> SUFFICES ASSUME registry = None, address = None, NEW i \in Jobs
                 PROVE  job'[i].pc = "none" \/ Underway(i)'
      BY <1>3, <1>6 DEF Coming
    <3>1. CASE i = j
      BY <1>6, <2>1, <2>2, <3>1 DEF Underway, Sent
    <3>2. CASE i # j
      BY <1>1, <1>6, <2>1, <3>2, StillUnderway DEF Coming
    <3> QED
      BY <3>1, <3>2
  <2> QED
    BY <1>4, <2>3, <2>4, <2>5, <2>6 DEF Calm
<1>7. ASSUME AttemptFails(j), address' = address, registry # None \/ address # None,
             job[j].pc \in {"register", "reverted"}
      PROVE  Calm'
  <2>1. job'[j].pc \in {"waiting", "failed"} /\ \A i \in Jobs : i # j => job'[i] = job[i]
    BY <1>7, JobFails
  <2>2. pool' = pool
    BY <1>7, NoneOfItsOwn DEF AttemptFails, Forget
  <2>4. Unset' /\ Awaited'
    BY <1>1, <1>3, <2>1, <2>2 DEF Unset, Awaited
  <2>5. Chosen'
    BY <1>1, <1>3, <1>7, <2>1 DEF Chosen
  <2>6. Coming'
    BY <1>3, <1>7 DEF Coming
  <2> QED
    BY <1>4, <2>4, <2>5, <2>6 DEF Calm
<1>8. CASE Enqueue(j) \/ TakeDeploy(j)
  BY <1>5, <1>8 DEF Enqueue, TakeDeploy
<1>9. CASE SendDeployment(j)
  BY <1>6, <1>9 DEF SendDeployment
<1>10. CASE Register(j)
  BY <1>5, <1>6, <1>7, <1>10 DEF Register
<1>11. CASE RegisterReverted(j)
  <2>1. registry # None \/ address # None
    BY <1>1, <1>11 DEF RegisterReverted, Coming, Underway
  <2> QED
    BY <1>7, <1>11, <2>1 DEF RegisterReverted
<1>12. CASE SaveAddress(j)
  <2>1. VaultOf(j) \in Vaults
    <3>1. job[j] \in JobType
      BY <1>1
    <3> QED
      BY <3>1 DEF VaultOf, Vaults, JobType
  <2> QED
    BY <1>2, <1>5, <1>12, <2>1 DEF SaveAddress
<1> QED
  BY <1>8, <1>9, <1>10, <1>11, <1>12 DEF DeployStep

LEMMA RecordCalm ==
    ASSUME VaultInv, Known, Calm, NEW c \in Calls,
           RecordStep(c) \/ \E p \in Proofs : BeginRecord(c, p)
    PROVE  Calm'
<1> USE VaultAssumption
<1>1. /\ TypeOK /\ call \in [Calls -> CallType] /\ pool \subseteq TxType
      /\ Unset /\ Awaited /\ Chosen /\ Coming /\ Reported
  BY DEF VaultInv, TypeOK, Calm
<1>2. UNCHANGED <<configured, registry, recorded, job, address>>
  BY DEF RecordStep, BeginRecord, EstimateGas, SendRecord, ReturnHash, RecordReverted,
         Timeout, contracts, deployment
<1>3. /\ expired => expired'
      /\ returned \subseteq returned'
      /\ \A t \in pool : t.by \in Jobs => t \in pool'
  <2>1. CASE Timeout(c)
    BY <2>1, StillAwaited DEF Timeout
  <2> QED
    BY <2>1 DEF RecordStep, BeginRecord, EstimateGas, SendRecord, ReturnHash, RecordReverted
<1>4. Unset' /\ Chosen'
  BY <1>1, <1>2 DEF Unset, Chosen
<1>5. Coming'
  BY <1>1, <1>2, <1>3, StillUnderway DEF Coming
<1>6. Awaited'
  <2>1. CASE pool' = pool
    BY <1>1, <1>3, <2>1 DEF Awaited
  <2>2. CASE SendRecord(c)
    BY <1>1, <1>3, <2>2 DEF Awaited, SendRecord, Tx
  <2>3. CASE Timeout(c)
    <3> SUFFICES ASSUME NEW t \in pool' PROVE t.kind # "record" => t.by \in Jobs
      BY <2>3 DEF Awaited, Timeout
    <3>1. {c} \in SUBSET (Jobs \cup Calls) /\ pool' = Forget({c}, pool)
      BY <2>3 DEF Timeout
    <3>2. PICK u \in pool : t = IF u.by \in {c} THEN [u EXCEPT !.by = Nobody] ELSE u
      BY <3>1 DEF Forget
    <3>3. t.kind = u.kind
      BY <1>1, <3>2 DEF TxType
    <3>4. u.kind # "record" => u.by \in Jobs /\ u.by # c
      BY <1>1 DEF Awaited
    <3> QED
      BY <3>2, <3>3, <3>4
  <2> QED
    BY <2>1, <2>2, <2>3 DEF RecordStep, BeginRecord, EstimateGas, ReturnHash, RecordReverted
<1>7. Reported'
  <2>1. CASE Timeout(c)
    BY <2>1 DEF Timeout, Reported
  <2>2. /\ \A d \in Calls : d # c => call'[d] = call[d]
        /\ call[c].pc = "mined" => Timeout(c) \/ ReturnHash(c)
    BY <1>1 DEF RecordStep, BeginRecord, EstimateGas, SendRecord, ReturnHash, RecordReverted,
                Timeout, Leave, NoCall
  <2>3. CASE ReturnHash(c)
    BY <1>1, <1>2, <1>3, <2>2, <2>3 DEF Reported, ReturnHash
  <2>4. CASE call[c].pc # "mined"
    BY <1>1, <1>2, <1>3, <2>2, <2>4 DEF Reported
  <2> QED
    BY <2>1, <2>2, <2>3, <2>4
<1> QED
  BY <1>4, <1>5, <1>6, <1>7 DEF Calm

LEMMA MineCalm ==
    ASSUME VaultInv, Known, Calm, NEW t \in pool, Mine(t)
    PROVE  Calm'
<1> USE VaultAssumption
<1>1. /\ TypeOK /\ job \in [Jobs -> JobType] /\ call \in [Calls -> CallType] /\ t \in TxType
      /\ Unset /\ Awaited /\ Chosen /\ Coming /\ Reported /\ TxKnows(t)
  BY DEF VaultInv, TypeOK, Calm
<1>2. /\ pool' = pool \ {t} /\ UNCHANGED <<configured, address, returned, expired>>
  BY DEF Mine, MineDeployment, MineRegistration, MineRecord, deployment, recording
<1>3. Awaited'
  BY <1>1, <1>2 DEF Awaited
<1>4. ASSUME NEW pc, TellJob(t, pc), t.kind # "record"
      PROVE  /\ t.by \in Jobs /\ job'[t.by].pc = pc
             /\ \A i \in Jobs : i # t.by =>
                   job'[i] = job[i] /\ \A u \in pool : u.by = i => u \in pool'
  BY <1>1, <1>2, <1>4 DEF TellJob, Awaited, JobType
<1>5. CASE MineDeployment(t)
  <2>1. /\ t.by \in Jobs /\ job[t.by].pc = "deploying" /\ job'[t.by].pc = "register"
        /\ UNCHANGED <<registry, recorded, call>>
    BY <1>4, <1>5 DEF MineDeployment, Known, contracts, recording
  <2>2. \A i \in Jobs : i # t.by => job'[i] = job[i] /\ \A u \in pool : u.by = i => u \in pool'
    BY <1>4, <1>5 DEF MineDeployment
  <2>3. Unset' /\ Reported'
    BY <1>1, <1>2, <2>1, <2>2 DEF Unset, Reported
  <2>4. Chosen'
    BY <1>1, <1>2, <2>1, <2>2 DEF Chosen
  <2>5. Coming'
    <3> SUFFICES ASSUME registry = None, address = None, NEW i \in Jobs
                 PROVE  job'[i].pc = "none" \/ Underway(i)'
      BY <1>2, <2>1 DEF Coming
    <3>1. CASE i = t.by
      BY <2>1, <3>1 DEF Underway
    <3>2. CASE i # t.by
      BY <1>1, <2>2, <3>2, StillUnderway DEF Coming
    <3> QED
      BY <3>1, <3>2
  <2> QED
    BY <1>3, <2>3, <2>4, <2>5 DEF Calm
<1>6. CASE MineRegistration(t)
  <2> DEFINE pc == IF registry = None THEN "save" ELSE "reverted"
  <2>1. TellJob(t, pc) /\ t.kind = "register" /\ UNCHANGED <<recorded, call>>
    BY <1>6 DEF MineRegistration, recording
  <2>2. /\ t.by \in Jobs /\ job'[t.by].pc = pc
        /\ \A i \in Jobs : i # t.by => job'[i] = job[i]
    BY <1>4, <2>1
  <2>3. job[t.by].pc = "registering"
    BY <2>1, <2>2 DEF Known
  <2>4. configured /\ registry' # None
    <3>1. configured
      BY <1>1, <2>2, <2>3 DEF Unset, TypeOK
    <3>2. t.vault # None
      BY <1>1 DEF TxType, Vaults
    <3> QED
      BY <1>6, <3>1, <3>2 DEF MineRegistration
  <2>5. Unset' /\ Reported' /\ Coming'
    BY <1>1, <1>2, <2>1, <2>4 DEF Unset, Reported, Coming
  <2>6. Chosen'
    <3> SUFFICES ASSUME address = None PROVE \E j \in Jobs : job'[j].pc = "save"
      BY <1>2 DEF Chosen
    <3>1. CASE registry = None
      BY <2>2, <3>1
    <3>2. CASE registry # None
      BY <1>1, <2>2, <2>3, <3>2 DEF Chosen
    <3> QED
      BY <3>1, <3>2
  <2> QED
    BY <1>3, <2>5, <2>6 DEF Calm
<1>7. CASE MineRecord(t)
  <2>1. t.kind = "record" /\ UNCHANGED <<registry, job>>
    BY <1>7 DEF MineRecord, deployment
  <2>2. Unset' /\ Chosen'
    BY <1>1, <1>2, <2>1 DEF Unset, Chosen
  <2>3. Coming'
    <3>1. t.by \notin Jobs
      BY <2>1 DEF Known
    <3>2. \A u \in pool : u.by \in Jobs => u \in pool'
      BY <1>2, <3>1
    <3> QED
      BY <1>1, <1>2, <2>1, <3>2, StillUnderway DEF Coming
  <2>4. Reported'
    <3> SUFFICES ASSUME ~expired PROVE Reported'
      BY <1>2 DEF Reported
    <3>1. t.by \in Calls
      BY <1>1, <2>1 DEF Awaited
    <3>2. call[t.by].pc = "wait" /\ call[t.by].proof = t.proof
      BY <1>1, <2>1, <3>1 DEF TxKnows
    <3> DEFINE pc == IF Taken(t.vault, t.proof) THEN "reverted" ELSE "mined"
    <3>3. /\ call' = [call EXCEPT ![t.by].pc = pc]
          /\ pc = "mined" => recorded' = recorded \cup {<<t.vault, t.proof>>}
          /\ pc # "mined" => recorded' = recorded
      BY <1>7, <3>1 DEF MineRecord, TellCall
    <3> HIDE DEF pc
    <3>4. /\ \A d \in Calls : d # t.by => call'[d] = call[d]
          /\ call'[t.by].pc = pc /\ call'[t.by].proof = t.proof
      BY <1>1, <3>1, <3>2, <3>3 DEF CallType
    <3> SUFFICES ASSUME NEW q \in recorded'
                 PROVE  \/ q[2] \in returned
                        \/ \E d \in Calls : call'[d].pc = "mined" /\ call'[d].proof = q[2]
      BY <1>2 DEF Reported
    <3>5. CASE q \in recorded
      <4>1. CASE q[2] \in returned
        BY <4>1
      <4>2. CASE \E d \in Calls : call[d].pc = "mined" /\ call[d].proof = q[2]
        BY <3>2, <3>4, <4>2
      <4> QED
        BY <1>1, <3>5, <4>1, <4>2 DEF Reported
    <3>6. CASE q \notin recorded
      BY <3>1, <3>3, <3>4, <3>6
    <3> QED
      BY <3>5, <3>6
  <2> QED
    BY <1>3, <2>2, <2>3, <2>4 DEF Calm
<1> QED
  BY <1>5, <1>6, <1>7 DEF Mine

LEMMA CalmInit == Init => CalmInv
<1> SUFFICES ASSUME Init PROVE CalmInv
  OBVIOUS
<1>1. Known /\ Unset /\ Awaited /\ Chosen /\ Coming /\ Reported
  BY DEF Init, Known, Unset, Awaited, Chosen, Coming, Reported
<1> QED
  BY <1>1, VaultInit DEF CalmInv, Calm

LEMMA CalmStep == CalmInv /\ [Next]_vars => CalmInv'
<1> SUFFICES ASSUME CalmInv, [Next]_vars, faults' = 0 PROVE Calm'
  BY VaultStep, KnownStep DEF CalmInv
<1>1. VaultInv /\ Known /\ faults \in Nat
  BY DEF CalmInv, VaultInv, TypeOK
<1>2. ~Fault
  BY <1>1 DEF Fault
<1>3. CASE \E j \in Jobs : Enqueue(j) \/ DeployStep(j)
  <2>1. faults' = faults
    BY <1>3 DEF Enqueue, DeployStep, TakeDeploy, SendDeployment, Register, RegisterReverted,
                SaveAddress
  <2> QED
    BY <1>1, <1>3, <2>1, DeployCalm DEF CalmInv
<1>4. CASE \E c \in Calls : RecordStep(c) \/ \E p \in Proofs : BeginRecord(c, p)
  <2>1. faults' = faults
    BY <1>4 DEF RecordStep, BeginRecord, EstimateGas, SendRecord, ReturnHash, RecordReverted,
                Timeout
  <2> QED
    BY <1>1, <1>4, <2>1, RecordCalm DEF CalmInv
<1>5. CASE \E t \in pool : Mine(t)
  <2>1. faults' = faults
    BY <1>5 DEF Mine, MineDeployment, MineRegistration, MineRecord
  <2> QED
    BY <1>1, <1>5, <2>1, MineCalm DEF CalmInv
<1>6. CASE UNCHANGED vars
  BY <1>6 DEF vars, CalmInv, Calm, Unset, Awaited, Chosen, Coming, Reported, Underway, Sent
<1> QED
  BY <1>2, <1>3, <1>4, <1>5, <1>6 DEF Next, DeployError, RecordError, Drop, Crash

(* As long as nothing has failed, nothing is stranded between the service and the chain:
   until the tontine's row has its address a deployment is on its way to save one, the one
   the registry took if it took one (handleDeploy, registerInRegistry); and a proof on
   chain has been reported or is about to be, unless the three minutes were over
   (recordContributionOnChain). *)
THEOREM VaultNothingStranded == Spec => []NothingStranded
<1>1. CalmInv => NothingStranded
  BY DEF CalmInv, Calm, NothingStranded, Chosen, Coming, Reported, Underway
<1> QED
  BY <1>1, CalmInit, CalmStep, PTL DEF Spec
=============================================================================
