SPECIFICATION ServicesSpec
CONSTANTS
    p1 = p1
    p2 = p2
    p3 = p3
    x = x
    y = y
    Entity = Entity
    Nobody = Nobody
    Proc = {p1, p2}
    Fact = {x, y}
    MaxRequests = 3
    MaxFaults = 1
    SniffLines = 2
    Worlds <- IntakeWorlds
    Project <- Home
    Worker = {p1, p2}
    Commands = {"local", "all", "paths", "consolidate"}
    HighWater = 1
    SyncAt = 2
    MaxDay = 2
    MaxRuns = 2
    MaxKills = 1
    s1 = s1
    s2 = s2
    Free = Free
    Server = {s1, s2}
    Thread = {p1, p2, p3}
    ServerOf <- MCServerOf
    MaxAsks = 3
    MaxCrashes = 1
    RowKinds <- Kinds
    FactLists <- TheFacts
    PageLimit = 2
    RerankPool = 3
    SiblingsPerId = 1
    SiblingsOnPage = 2
    SiblingMax = 2000
    KeptChars = 2048
    Acknowledges = 16
    RecentShorts = 1
    JevLeaders = 1
    JevCap = 2
    MaxRows = 4
    Editor = {p1, p2}
    OwnLine = {x, y}
    Ours = Ours
    HookEvents = {"SessionStart", "SessionEnd"}
    MaxSaves = 5
SYMMETRY Symmetry
CONSTRAINT TasksBound
INVARIANTS
    ServicesTypeOK
    ErasedForGood
    OthersKept
    PrunedForGood
    BranchIntact
    AnsweredMeansRedacted
    MessageOnce
    MessageKept
    OwnProject
    PassedIsCovered
    EachBatchOnce
    OwnResult
    ScanIsTop
    SiblingsKept
    PageIsFull
    OwnTextKept
    OneOfEach
PROPERTIES
    ImplementsPromise
CHECK_DEADLOCK FALSE
