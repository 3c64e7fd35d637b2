SPECIFICATION Spec
CONSTANTS
    i1 = i1
    i2 = i2
    d1 = d1
    IPs <- TwoIPs
    Domains <- NoDomain
    Explicit <- NoDomain
    ForwardDomains <- NoDomain
    PoolSize = 2
    MinPool = 1
    MaxMembers = 3
    MinFallback = 3
    InitialPools <- TwoMembers
    Actors = {"revalidate", "kick"}
    Faults = FALSE
INVARIANTS
    ValidatedIsActive
