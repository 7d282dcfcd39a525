\* Two requests in progress at once, three seconds in which tokens are signed.
CONSTANTS
    c1 = c1
    c2 = c2
    Slots = {c1, c2}
    MaxSecond = 3
    Parts = 2
    AccessLife = 2
    MaxFaults = 1
SPECIFICATION Spec
INVARIANTS
    TypeOK
    SessionEnds
    RevokedIsRefused
    LatestIsStored
SYMMETRY Symmetric
CHECK_DEADLOCK FALSE
