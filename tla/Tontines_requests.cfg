\* Two requests in progress at once, one of them cut off.
CONSTANTS
    o = o
    u1 = u1
    u2 = u2
    s1 = s1
    s2 = s2
    Users = {o, u1, u2}
    Organizer = o
    Slots = {s1, s2}
    Sizes = {2, 3}
    MaxLost = 1
SPECIFICATION FairSpec
INVARIANTS
    TypeOK
    RotationOfApproved
    EnrolmentMatches
PROPERTIES
    OpenedOnItsTerms
    StartedRotates
CHECK_DEADLOCK FALSE
