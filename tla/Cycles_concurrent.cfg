\* Overlapping checks: what still holds.
CONSTANTS
    k1 = k1
    k2 = k2
    N = 2
    Checks = {k1, k2}
    MaxPaid = 2
    MaxLost = 1
SPECIFICATION Spec
INVARIANTS
    TypeOK
    ClosedOnlyWhenFull
    OpensAfterPayout
PROPERTIES
    ReopenedByStaleCheckOnly
SYMMETRY Interchangeable
CHECK_DEADLOCK FALSE
