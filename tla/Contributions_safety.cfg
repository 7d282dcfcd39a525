\* Requests, webhooks and jobs interleaved with one fault of each kind.
CONSTANTS
    m1 = m1
    c1 = c1
    p1 = p1
    q1 = q1
    w1 = w1
    w2 = w2
    Members = {m1}
    CycleIds = {c1}
    Refs = {p1}
    Requests = {q1}
    Hooks = {w1, w2}
    Undefined = Undefined
    SubOf <- SubIsId
    OtherEvents <- CreatedEvent
    MaxFaults <- AllFaults
SPECIFICATION Spec
INVARIANTS
    TypeOK
    LedgerAgreesWithProvider
    ProcessedOnce
    JobCarriesRowProof
PROPERTIES
    StatusMovesForward
    ImplementsLedger
SYMMETRY Symmetric
CHECK_DEADLOCK FALSE
