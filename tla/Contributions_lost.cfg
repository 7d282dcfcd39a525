\* A crash between the idempotence key and the update loses the payment.
CONSTANTS
    m1 = m1
    c1 = c1
    p1 = p1
    q1 = q1
    w1 = w1
    Members = {m1}
    CycleIds = {c1}
    Refs = {p1}
    Requests = {q1}
    Hooks = {w1}
    Undefined = Undefined
    SubOf <- SubIsId
    OtherEvents = {}
    MaxFaults <- CrashOnly
SPECIFICATION FairSpec
PROPERTY ApprovedIsRecorded
CHECK_DEADLOCK FALSE
