SPECIFICATION MCSpec
CONSTANTS
    s1 = s1
    s2 = s2
    s3 = s3
    Callers = {"one", "other"}
    MaxProc = 4
    Binaries = {"cfnat", "cfdata"}
    SpawnFails = TRUE
    Candidates <- ThreeCandidates
    Legacy <- OneLegacy
    InventoryCap = 2
    EntryFailThreshold = 1
    ProbeBatch = 2
    ProbeMax = 1
    Hosts = {1, 2}
    Workers = 1
    Kinds = {"cfdata", "cfnat"}
    IPNum = 1
INVARIANTS
    OneProcess
    PortFree
    SavedAtRest
    NothingLost
    OnlyMeasured
PROPERTIES
    StopEnds
    LastToGo
    NewComersHeard
    StageEnds
