SPECIFICATION FairSpec
CONSTANTS
    p1 = p1
    p2 = p2
    Proc = {p1}
    ChangeReq = {1, 2}
    BatchReq = {}
    Refused = {1}
    NoIntent = NoIntent
    MaxBuilds = 2
    MaxFaults = 0
PROPERTIES
    PendingResolved
