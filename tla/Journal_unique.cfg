SPECIFICATION Spec
CONSTANTS
    p1 = p1
    p2 = p2
    e1 = e1
    e2 = e2
    Proc = {p1, p2}
    Event = {e1, e2}
    Day = {1}
    Ops = {"read", "write", "redact"}
    Tears = {"part", "bare"}
    NoEvent = NoEvent
    Nobody = Nobody
    MaxSeq = 2
    MaxFaults = 0
SYMMETRY Symmetry
INVARIANTS
    TypeOK
    NumbersUnique
    NoDuplicates
