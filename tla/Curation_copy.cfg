SPECIFICATION Spec
CONSTANTS
    a = a
    b = b
    c = c
    d = d
    e1 = e1
    v1 = v1
    v2 = v2
    NoEvent = NoEvent
    None = None
    Absent = Absent
    NoWork = NoWork
    Fact = {a, c, d}
    Own = {c, d}
    Event = {e1, v1}
    Versions = {v1}
    Says <- SaysOne
    Similar = {}
    Ops = {"remember", "correct", "forget", "consolidate"}
    FreshOnly = TRUE
    Room = 1
    HardRoom = 2
    MaxFiles = 3
INVARIANTS
    CorrectedHidden
CHECK_DEADLOCK FALSE
