SPECIFICATION FairSpec
CONSTANTS
    i1 = i1
    i2 = i2
    d1 = d1
    IPs <- TwoIPs
    Domains <- OneDomain
    Explicit <- NoDomain
    ForwardDomains <- OneDomain
    PoolSize = 2
    MinPool = 1
    MaxMembers = 3
    MinFallback = 3
    InitialPools <- Mixed
    Actors = {"revalidate", "reap", "kick", "scheduler", "verdict"}
    Faults = FALSE
INVARIANTS
    NeverLeftStopped
PROPERTIES
    RevalidateResumes
    WaitsEnd
    FileNeverEmptied
