\* Two deployments and two records in progress, repeated, timed out and cut off.
CONSTANTS
    p1 = p1
    p2 = p2
    k1 = k1
    j1 = j1
    j2 = j2
    c1 = c1
    c2 = c2
    Proofs = {p1, p2}
    Keys = {k1}
    KeyOf <- OnePlace
    Jobs = {j1, j2}
    Calls = {c1, c2}
    Nobody = Nobody
    None = None
    DeployAttempts = 2
    MaxCalls = 2
    MaxFaults = 1
SPECIFICATION FairSpec
INVARIANTS
    TypeOK
    NothingStranded
PROPERTIES
    ImplementsProofBook
    DeployedUnlessFault
    RecordedIsAnswered
CHECK_DEADLOCK FALSE
