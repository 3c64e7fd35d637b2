SPECIFICATION Spec
CONSTANTS
    i1 = i1
    i2 = i2
    d1 = d1
    IPs <- OneIP
    Domains <- OneDomain
    Explicit <- NoDomain
    ForwardDomains <- OneDomain
    PoolSize = 2
    MinPool = 1
    MaxMembers = 3
    MinFallback = 3
    InitialPools <- Chosen
    Actors = {"auto", "revalidate", "cfnat", "restart", "endorse", "verdict"}
    Faults = TRUE
INVARIANTS
    IInv
    Forwardable
