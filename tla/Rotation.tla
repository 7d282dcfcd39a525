------------------------------ MODULE Rotation ------------------------------
(***************************************************************************)
(* What a tontine promises its members: its cycles are open one at a time, *)
(* in the order of their numbers, none closes before every member has paid *)
(* for it, and none opens again.  CyclesService is to implement this       *)
(* ("complete le cycle et active le suivant", cycles.service.ts:115).      *)
(***************************************************************************)
EXTENDS Naturals

CONSTANT N   \* cycles of the tontine, one per member

VARIABLES
    status,  \* status[c]: PENDING, ACTIVE or COMPLETED
    full     \* cycles for which all contributions have been confirmed once

rotationVars == <<status, full>>

Numbers == 1..N

RInit ==
    /\ status = [c \in Numbers |-> IF c = 1 THEN "ACTIVE" ELSE "PENDING"]
    /\ full = {}

Fill(c) ==
    /\ status[c] # "PENDING"
    /\ full' = full \cup {c}
    /\ UNCHANGED status

Close(c) ==
    /\ status[c] = "ACTIVE"
    /\ c \in full
    /\ status' = [status EXCEPT ![c] = "COMPLETED"]
    /\ UNCHANGED full

(* Every earlier cycle is over, the cycle itself has never been open. *)
Open(c) ==
    /\ status[c] = "PENDING"
    /\ \A d \in Numbers : d < c => status[d] = "COMPLETED"
    /\ status' = [status EXCEPT ![c] = "ACTIVE"]
    /\ UNCHANGED full

RNext == \E c \in Numbers : Fill(c) \/ Close(c) \/ Open(c)

RSpec == RInit /\ [][RNext]_rotationVars
=============================================================================
