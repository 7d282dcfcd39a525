\* What must happen in the end, with one crash and one failed call.
CONSTANTS
    m1 = m1
    c1 = c1
    p1 = p1
    q1 = q1
    w1 = w1
    w2 = w2
    Members = {m1}
    CycleIds = {c1}
    Refs = {p1}
    Requests = {q1}
    Hooks = {w1, w2}
    Undefined = Undefined
    SubOf <- SubIsId
    OtherEvents = {}
    MaxFaults <- CrashAndError
SPECIFICATION FairSpec
INVARIANT NothingStranded
PROPERTIES
    EventsAcknowledged
    JobsSettle
    RecordedUnlessFault
CHECK_DEADLOCK FALSE
