\* Two payment links for one cycle, both paid.
CONSTANTS
    m1 = m1
    c1 = c1
    p1 = p1
    p2 = p2
    q1 = q1
    w1 = w1
    Members = {m1}
    CycleIds = {c1}
    Refs = {p1, p2}
    Requests = {q1}
    Hooks = {w1}
    Undefined = Undefined
    SubOf <- SubIsId
    OtherEvents = {}
    MaxFaults <- NoFaults
SPECIFICATION Spec
INVARIANT OnePaymentPerCycle
CHECK_DEADLOCK FALSE
