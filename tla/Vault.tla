------------------------------- MODULE Vault -------------------------------
(***************************************************************************)
(* The on-chain side of one tontine: BlockchainWorker.handleDeploy and     *)
(* BlockchainService (src/src/modules/blockchain), and the contracts they  *)
(* write to, TontineVault.sol and TontineRegistry.sol.                     *)
(*                                                                         *)
(* A transaction that was sent is mined later, whether or not the call that*)
(* sent it still waits.  recordContributionOnChain is modelled as a call of*)
(* its own: handleRecord, its one caller, throws before it gets that far   *)
(* (module Contributions), and is meant to pass the address that the       *)
(* tontine's row shows.  Gas, ABIs and the key of the signer are taken to  *)
(* be in order.                                                            *)
(***************************************************************************)
EXTENDS Naturals

CONSTANTS
    Proofs,          \* proof hashes of contributions
    Keys,            \* a member's place in a cycle: <<_cycleNumber, _memberAddress>>
    KeyOf,           \* the place each proof is for
    Jobs,            \* deploy-tontine-vault jobs enqueued for the tontine
    Calls,           \* slots for recordContributionOnChain calls in progress
    Nobody,
    None,
    DeployAttempts,  \* Bull's attempts for a job
    MaxCalls,        \* bound on the calls ever begun
    MaxFaults        \* bound on the faults of all kinds

ASSUME VaultAssumption ==
    /\ KeyOf \in [Proofs -> Keys]
    /\ Nobody \notin Jobs \cup Calls
    /\ None \notin Proofs \cup (Jobs \X Nat)
    /\ Jobs \cap Calls = {}
    /\ DeployAttempts \in Nat \ {0}
    /\ {MaxCalls, MaxFaults} \subseteq Nat

VARIABLES
    configured,  \* REGISTRY_CONTRACT_ADDRESS and its ABI are there
    registry,    \* TontineRegistry: the vault of this tontine
    recorded,    \* TontineVault: contributionProofs, as pairs of vault and proof
    pool,        \* transactions sent and not yet mined
    job,         \* the deployment jobs
    address,     \* contract_address of the tontine's row
    call,        \* the recordContributionOnChain calls in progress
    begun,       \* calls ever begun
    returned,    \* proofs whose caller was given a transaction hash
    expired,     \* a call has run into its three minutes (history)
    faults       \* faults that have happened

vars == <<configured, registry, recorded, pool, job, address, call, begun, returned,
          expired, faults>>
deployment == <<job, address>>
recording == <<call, begun, returned, expired>>
contracts == <<registry, recorded>>

MaxStalled == 1   \* Bull's maxStalledCount

Vaults == Jobs \X Nat

Running == {"deploy", "deploying", "register", "registering", "reverted", "save"}

JobType == [pc : {"none", "waiting", "done", "failed"} \cup Running, made : Nat, stalls : Nat]
CallType == [pc : {"idle", "estimate", "send", "wait", "mined", "reverted"},
             proof : Proofs \cup {None}, vault : Vaults \cup {None}]
TxType == [kind : {"deploy", "register", "record"}, vault : Vaults,
           proof : Proofs \cup {None}, by : Jobs \cup Calls \cup {Nobody}]

NoCall == [pc |-> "idle", proof |-> None, vault |-> None]
Tx(k, v, p, s) == [kind |-> k, vault |-> v, proof |-> p, by |-> s]

(* Whoever sent these does not wait for them any more. *)
Forget(S, txs) == {IF t.by \in S THEN [t EXCEPT !.by = Nobody] ELSE t : t \in txs}

Fault == faults < MaxFaults /\ faults' = faults + 1

Init ==
    /\ configured \in BOOLEAN
    /\ registry = None
    /\ recorded = {}
    /\ pool = {}
    /\ job = [j \in Jobs |-> [pc |-> "none", made |-> 0, stalls |-> 0]]
    /\ address = None
    /\ call = [c \in Calls |-> NoCall]
    /\ begun = 0
    /\ returned = {}
    /\ expired = FALSE
    /\ faults = 0

-----------------------------------------------------------------------------
(* BlockchainWorker.handleDeploy and BlockchainService.deployTontineVault.  *)

GoTo(j, pc) == job' = [job EXCEPT ![j].pc = pc]

(* Every run of the handler deploys a vault of its own. *)
VaultOf(j) == <<j, job[j].made + job[j].stalls>>

(* The attempt throws: Bull runs the job again until its attempts are used up. *)
AttemptFails(j) ==
    /\ job' = [job EXCEPT ![j].made = @ + 1,
                          ![j].pc = IF job[j].made + 1 < DeployAttempts
                                    THEN "waiting" ELSE "failed"]
    /\ pool' = Forget({j}, pool)

Enqueue(j) ==
    /\ job[j].pc = "none"
    /\ GoTo(j, "waiting")
    /\ UNCHANGED <<configured, contracts, pool, address, recording, faults>>

TakeDeploy(j) ==
    /\ job[j].pc = "waiting"
    /\ GoTo(j, "deploy")
    /\ UNCHANGED <<configured, contracts, pool, address, recording, faults>>

(* factory.deploy; waitForDeployment has no time limit. *)
SendDeployment(j) ==
    /\ job[j].pc = "deploy"
    /\ pool' = pool \cup {Tx("deploy", VaultOf(j), None, j)}
    /\ GoTo(j, "deploying")
    /\ UNCHANGED <<configured, contracts, address, recording, faults>>

(* registerInRegistry: left out when there is no registry.  The gas estimation that
   precedes the transaction reverts if the tontine is registered. *)
Register(j) ==
    /\ job[j].pc = "register"
    /\ \/ ~configured /\ GoTo(j, "save") /\ UNCHANGED pool
       \/ configured /\ registry # None /\ AttemptFails(j)
       \/ /\ configured /\ registry = None
          /\ pool' = pool \cup {Tx("register", VaultOf(j), None, j)}
          /\ GoTo(j, "registering")
    /\ UNCHANGED <<configured, contracts, address, recording, faults>>

(* tx.wait() rejects for a transaction that reverted. *)
RegisterReverted(j) ==
    /\ job[j].pc = "reverted"
    /\ AttemptFails(j)
    /\ UNCHANGED <<configured, contracts, address, recording, faults>>

(* Mutant: the address is only returned. *)
SaveAddressNot(j) ==
    /\ job[j].pc = "save"
    /\ GoTo(j, "done")
    /\ UNCHANGED <<configured, contracts, pool, address, recording, faults>>

(* Mutant: the row gets the whole result, {contractAddress, txHash}. *)
SaveAddressResult(j) ==
    /\ job[j].pc = "save"
    /\ address' = <<VaultOf(j), "txHash">>
    /\ GoTo(j, "done")
    /\ UNCHANGED <<configured, contracts, pool, recording, faults>>

(* tontineRepo.update(tontine_id, {contract_address}). *)
SaveAddress(j) ==
    /\ job[j].pc = "save"
    /\ address' = VaultOf(j)
    /\ GoTo(j, "done")
    /\ UNCHANGED <<configured, contracts, pool, recording, faults>>

(* An await rejects: what was sent stays sent. *)
DeployError(j) ==
    /\ job[j].pc \in Running
    /\ Fault
    /\ AttemptFails(j)
    /\ UNCHANGED <<configured, contracts, address, recording>>

-----------------------------------------------------------------------------
(* BlockchainService.recordContributionOnChain.                             *)

Leave(c) == call' = [call EXCEPT ![c] = NoCall]

(* isContributionRecorded: the place of proof p is taken in vault v. *)
Taken(v, p) == \E q \in Proofs : <<v, q>> \in recorded /\ KeyOf[q] = KeyOf[p]

BeginRecord(c, p) ==
    /\ call[c] = NoCall
    /\ address # None
    /\ begun < MaxCalls
    /\ begun' = begun + 1
    /\ call' = [call EXCEPT ![c] = [pc |-> "estimate", proof |-> p, vault |-> address]]
    /\ UNCHANGED <<configured, contracts, pool, deployment, returned, expired, faults>>

(* estimateGas reverts if the place is taken: the call throws, whosever proof it is. *)
EstimateGas(c) ==
    /\ call[c].pc = "estimate"
    /\ IF Taken(call[c].vault, call[c].proof) THEN Leave(c)
       ELSE call' = [call EXCEPT ![c].pc = "send"]
    /\ UNCHANGED <<configured, contracts, pool, deployment, begun, returned, expired, faults>>

SendRecord(c) ==
    /\ call[c].pc = "send"
    /\ pool' = pool \cup {Tx("record", call[c].vault, call[c].proof, c)}
    /\ call' = [call EXCEPT ![c].pc = "wait"]
    /\ UNCHANGED <<configured, contracts, deployment, begun, returned, expired, faults>>

(* Mutant: the hash is not handed on. *)
ReturnHashLost(c) ==
    /\ call[c].pc = "mined"
    /\ Leave(c)
    /\ UNCHANGED <<configured, contracts, pool, deployment, begun, returned, expired, faults>>

(* tx.wait(1) came first, with a receipt. *)
ReturnHash(c) ==
    /\ call[c].pc = "mined"
    /\ returned' = returned \cup {call[c].proof}
    /\ Leave(c)
    /\ UNCHANGED <<configured, contracts, pool, deployment, begun, expired, faults>>

RecordReverted(c) ==
    /\ call[c].pc = "reverted"
    /\ Leave(c)
    /\ UNCHANGED <<configured, contracts, pool, deployment, begun, returned, expired, faults>>

(* The timer of three minutes came first, even if the transaction has been mined and
   its receipt is still on the way: the call throws and the transaction stays sent. *)
Timeout(c) ==
    /\ call[c].pc \in {"wait", "mined", "reverted"}
    /\ expired' = TRUE
    /\ pool' = Forget({c}, pool)
    /\ Leave(c)
    /\ UNCHANGED <<configured, contracts, deployment, begun, returned, faults>>

RecordError(c) ==
    /\ call[c] # NoCall
    /\ Fault
    /\ pool' = Forget({c}, pool)
    /\ Leave(c)
    /\ UNCHANGED <<configured, contracts, deployment, begun, returned, expired>>

-----------------------------------------------------------------------------
(* The chain mines transactions in any order (the signer's come in the order of their
   nonces, which is one of them) and tells who waits. *)
TellJob(t, pc) == job' = IF t.by \in Jobs THEN [job EXCEPT ![t.by].pc = pc] ELSE job
TellCall(t, pc) == call' = IF t.by \in Calls THEN [call EXCEPT ![t.by].pc = pc] ELSE call

MineDeployment(t) ==
    /\ t.kind = "deploy"
    /\ pool' = pool \ {t}
    /\ TellJob(t, "register")
    /\ UNCHANGED <<configured, contracts, address, recording, faults>>

(* Mutant: recordContribution without its require. *)
MineRecordAny(t) ==
    /\ t.kind = "record"
    /\ pool' = pool \ {t}
    /\ recorded' = recorded \cup {<<t.vault, t.proof>>}
    /\ TellCall(t, "mined")
    /\ UNCHANGED <<configured, registry, deployment, begun, returned, expired, faults>>

(* TontineRegistry.register: require(vaults[tontineId] == address(0)). *)
MineRegistration(t) ==
    /\ t.kind = "register"
    /\ pool' = pool \ {t}
    /\ registry' = IF registry = None THEN t.vault ELSE registry
    /\ TellJob(t, IF registry = None THEN "save" ELSE "reverted")
    /\ UNCHANGED <<configured, recorded, address, recording, faults>>

(* TontineVault.recordContribution: require(contributionProofs[..] == bytes32(0)). *)
MineRecord(t) ==
    /\ t.kind = "record"
    /\ pool' = pool \ {t}
    /\ IF Taken(t.vault, t.proof)
       THEN TellCall(t, "reverted") /\ UNCHANGED recorded
       ELSE TellCall(t, "mined") /\ recorded' = recorded \cup {<<t.vault, t.proof>>}
    /\ UNCHANGED <<configured, registry, deployment, begun, returned, expired, faults>>

Mine(t) == MineDeployment(t) \/ MineRegistration(t) \/ MineRecord(t)

(* A transaction never gets mined: too cheap, or replaced by another one that took
   the same nonce of the one signer. *)
Drop(t) ==
    /\ Fault
    /\ pool' = pool \ {t}
    /\ UNCHANGED <<configured, contracts, deployment, recording>>

-----------------------------------------------------------------------------
(* The Node process restarts: calls end where they are, running jobs have stalled. *)
Stall(r) ==
    IF r.pc \notin Running THEN r
    ELSE [r EXCEPT !.pc = IF r.stalls < MaxStalled THEN "waiting" ELSE "failed",
                   !.stalls = @ + 1]

Crash ==
    /\ Fault
    /\ job' = [j \in Jobs |-> Stall(job[j])]
    /\ call' = [c \in Calls |-> NoCall]
    /\ pool' = Forget(Jobs \cup Calls, pool)
    /\ UNCHANGED <<configured, contracts, address, begun, returned, expired>>

DeployStep(j) ==
    \/ TakeDeploy(j) \/ SendDeployment(j) \/ Register(j) \/ RegisterReverted(j)
    \/ SaveAddress(j)

RecordStep(c) ==
    EstimateGas(c) \/ SendRecord(c) \/ ReturnHash(c) \/ RecordReverted(c) \/ Timeout(c)

Next ==
    \/ \E j \in Jobs : Enqueue(j) \/ DeployStep(j) \/ DeployError(j)
    \/ \E c \in Calls :
          \/ RecordStep(c) \/ RecordError(c)
          \/ \E p \in Proofs : BeginRecord(c, p)
    \/ \E t \in pool : Mine(t) \/ Drop(t)
    \/ Crash

Spec == Init /\ [][Next]_vars

(* Bull polls its queue, a call goes on by its receipt or its timer, and the network
   mines what was sent. *)
FairSpec ==
    /\ Spec
    /\ \A j \in Jobs : WF_vars(DeployStep(j))
    /\ \A c \in Calls : WF_vars(RecordStep(c))
    /\ WF_vars(\E t \in pool : Mine(t))

-----------------------------------------------------------------------------
(* Properties *)

(* Every variable holds values of its type. *)
TypeOK ==
    /\ configured \in BOOLEAN
    /\ registry \in Vaults \cup {None}
    /\ recorded \subseteq Vaults \X Proofs
    /\ pool \subseteq TxType
    /\ job \in [Jobs -> JobType]
    /\ address \in Vaults \cup {None}
    /\ call \in [Calls -> CallType]
    /\ begun \in Nat
    /\ returned \subseteq Proofs
    /\ expired \in BOOLEAN
    /\ faults \in Nat

(* With a registry, the address the tontine's row shows is the registered vault,
   however many deployments overlap, fail and are run again: hence it never changes. *)
AddressIsRegistered == configured /\ address # None => address = registry

(* With a registry the service implements the proof book, looked up at the address the
   tontine's row shows: whatever calls overlap, time out and are repeated, no proof is
   replaced and a hash is returned only for the caller's own proof, which stays where
   it can be found. *)
Found == IF configured /\ address # None THEN {p \in Proofs : <<address, p>> \in recorded}
         ELSE {}
Answered == IF configured THEN returned ELSE {}
B == INSTANCE ProofBook WITH book <- Found, acknowledged <- Answered
ImplementsProofBook == B!PSpec

(* A job on its way to an address: what it waits for has been sent and not been mined. *)
Sent(j, k) == \E t \in pool : t.kind = k /\ t.by = j
Underway(j) ==
    \/ job[j].pc \in {"waiting", "deploy", "register", "save"}
    \/ job[j].pc = "deploying" /\ Sent(j, "deploy")
    \/ job[j].pc = "registering" /\ Sent(j, "register")

(* As long as nothing has failed, nothing is stranded between the service and the chain:
   until the tontine's row has its address a deployment is on its way to save one, the
   registered one once the registry has taken it from the others; and a proof on chain
   has been reported, or its caller is about to be, unless the three minutes were over. *)
NothingStranded ==
    faults = 0 =>
       /\ address = None /\ (\E j \in Jobs : job[j].pc # "none") =>
             \E j \in Jobs : Underway(j) /\ (registry # None => job[j].pc = "save")
       /\ \A q \in recorded :
             \/ q[2] \in returned \/ expired
             \/ \E c \in Calls : call[c].pc = "mined" /\ call[c].proof = q[2]

(* A deployment that was enqueued ends with the address of a vault in the tontine's
   row, also if it is enqueued twice, unless something failed on the way. *)
DeployedUnlessFault ==
    (\E j \in Jobs : job[j].pc = "waiting") ~> (address # None \/ faults > 0)

(* A proof that gets on chain is reported to its caller, unless the three minutes were
   over or something failed: a call that is refused has not recorded its proof. *)
RecordedIsAnswered ==
    \A p \in Proofs : p \in {q[2] : q \in recorded} ~> p \in returned \/ expired \/ faults > 0
=============================================================================
