\* One check at a time: the abstract rotation.
CONSTANTS
    k1 = k1
    N = 3
    Checks = {k1}
    MaxPaid = 3
    MaxLost = 1
SPECIFICATION FairSpec
INVARIANTS
    PayoutOnce
PROPERTIES
    ImplementsRotation
    CompletionAdvances
CHECK_DEADLOCK FALSE
