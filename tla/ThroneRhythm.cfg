SPECIFICATION FairSpec
CONSTANTS
    i1 = i1
    i2 = i2
    d1 = d1
    IPs <- OneIP
    Domains <- OneDomain
    Explicit <- Nobody
    Pinnable <- Nobody
    FailThreshold = 2
    SlowStrikeLimit = 2
PROPERTIES
    RhythmReturns
