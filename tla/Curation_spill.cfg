SPECIFICATION Spec
CONSTANTS
    a = a
    b = b
    c = c
    d = d
    e1 = e1
    v1 = v1
    v2 = v2
    NoEvent = NoEvent
    None = None
    Absent = Absent
    NoWork = NoWork
    Fact = {a, b, c, d}
    Own = {c, d}
    Event = {e1, v1, v2}
    Versions = {v1, v2}
    Says <- SaysBoth
    Similar <- SimilarFacts
    Ops = {"remember", "correct", "consolidate"}
    FreshOnly = TRUE
    Room = 2
    HardRoom = 3
    MaxFiles = 2
INVARIANTS
    FactOnce
    CorrectedHidden
    ReadableIsReachable
CHECK_DEADLOCK FALSE
