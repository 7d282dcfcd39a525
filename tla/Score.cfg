\* Two calls in progress on two users, near the floor and near the ceiling.
CONSTANTS
    u1 = u1
    u2 = u2
    s1 = s1
    s2 = s2
    Users = {u1, u2}
    FirstScores = {15, 997}
    Slots = {s1, s2}
    Nobody = Nobody
    MaxCalls = 4
    MaxFaults = 1
SPECIFICATION Spec
INVARIANTS
    TypeOK
    ScoreIsDue
    ToldOncePerRun
SYMMETRY Interchangeable
CHECK_DEADLOCK FALSE
