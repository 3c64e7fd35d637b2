SPECIFICATION Spec
CONSTANTS
    i1 = i1
    i2 = i2
    d1 = d1
    IPs <- TwoIPs
    Domains <- OneDomain
    Explicit <- NoDomain
    ForwardDomains <- OneDomain
    PoolSize = 2
    MinPool = 1
    MaxMembers = 3
    MinFallback = 3
    InitialPools <- MixedOrFresh
    Actors = {"scheduler", "refill", "kick", "apply", "reconcile", "promote", "verdict"}
    Faults = FALSE
INVARIANTS
    ServedIsPool
    SoleSwapper
PROPERTIES
    OneSequence
