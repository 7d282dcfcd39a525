\* Two starts at once.
CONSTANTS
    o = o
    u1 = u1
    u2 = u2
    s1 = s1
    s2 = s2
    Users = {o, u1, u2}
    Organizer = o
    Slots = {s1, s2}
    Sizes = {2, 3}
    MaxLost = 0
SPECIFICATION Spec
INVARIANT OneCyclePerMember
SYMMETRY Symmetric
CHECK_DEADLOCK FALSE
