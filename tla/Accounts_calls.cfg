\* Two calls in progress at once, one failure.
CONSTANTS
    c1 = c1
    c2 = c2
    k1 = k1
    k2 = k2
    a1 = a1
    a2 = a2
    None = None
    Slots = {c1, c2}
    Codes = {k1, k2}
    Addresses = {a1, a2}
    MaxSms = 1
    MaxFaults = 1
SPECIFICATION Spec
INVARIANTS
    TypeOK
    LockGuardsPhone
    LastSmsWorks
    AttemptsExpire
    ThreeAttempts
    AddressMatches
SYMMETRY Symmetric
CHECK_DEADLOCK FALSE
