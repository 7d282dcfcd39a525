-------------------------- MODULE MCContributions --------------------------
(* Instances of Contributions for TLC. *)
EXTENDS Contributions, TLC

(* The fault budgets of the runs. *)
AllFaults == [k \in FaultKinds |-> 1]
NoFaults == [k \in FaultKinds |-> 0]
CrashOnly == [NoFaults EXCEPT !["crash"] = 1]
CrashAndError == [AllFaults EXCEPT !["expiry"] = 0]

(* user.sub is the member's id, as ContributionsService.initiate expects. *)
SubIsId == [m \in Members |-> m]

CreatedEvent == {"transaction.created"}

Symmetric == Permutations(Refs) \cup Permutations(Hooks) \cup Permutations(Requests)
=============================================================================
