SPECIFICATION Spec
CONSTANTS
    p1 = p1
    p2 = p2
    e1 = e1
    e2 = e2
    Proc = {p1}
    Event = {e1, e2}
    Day = {1, 2}
    Ops = {"read", "write", "redact"}
    Tears = {"part"}
    NoEvent = NoEvent
    Nobody = Nobody
    MaxSeq = 3
    MaxFaults = 2
SYMMETRY Symmetry
INVARIANTS
    AckedReadable
    ErasedStaysErased
