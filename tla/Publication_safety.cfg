SPECIFICATION Spec
CONSTANTS
    p1 = p1
    p2 = p2
    Proc = {p1, p2}
    ChangeReq = {1, 2}
    BatchReq = {3}
    Refused = {2}
    NoIntent = NoIntent
    MaxBuilds = 3
    MaxFaults = 1
SYMMETRY Processes
CONSTRAINT RefusedBound
INVARIANTS
    TypeOK
    NoLostUpdate
    AtMostOnce
    AckedIsPublished
    NeverLost
    RecoveredBeforeChange
