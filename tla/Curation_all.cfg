SPECIFICATION Spec
CONSTANTS
    a = a
    b = b
    c = c
    d = d
    e1 = e1
    v1 = v1
    v2 = v2
    NoEvent = NoEvent
    None = None
    Absent = Absent
    NoWork = NoWork
    Fact = {a, b, c, d}
    Own = {c, d}
    Event = {v1, v2}
    Versions = {v1, v2}
    Says <- VersionsSay
    Similar = {}
    Ops = {"remember", "correct", "forget", "tidy", "erase", "consolidate"}
    FreshOnly = TRUE
    Room = 1
    HardRoom = 2
    MaxFiles = 3
SYMMETRY Callers
INVARIANTS
    TypeOK
    RememberedKept
    FileFactsCurrent
    IndexMatches
PROPERTIES
    BlockedStaysOut
CHECK_DEADLOCK FALSE
