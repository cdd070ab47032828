SPECIFICATION Spec
CONSTANTS
    p1 = p1
    p2 = p2
    e1 = e1
    e2 = e2
    Proc = {p1}
    Event = {e1, e2}
    Day = {1}
    Ops = {"write"}
    Tears = {"part", "bare"}
    NoEvent = NoEvent
    Nobody = Nobody
    MaxSeq = 2
    MaxFaults = 1
INVARIANTS
    AckedReadable
