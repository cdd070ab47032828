SPECIFICATION FairSpec
CONSTANTS
    p1 = p1
    p2 = p2
    Proc = {p1, p2}
    ChangeReq = {1}
    BatchReq = {2}
    Refused = {}
    NoIntent = NoIntent
    MaxBuilds = 2
    MaxFaults = 1
PROPERTIES
    PendingResolved
    ImplementsMemory
