SPECIFICATION MCSpec
CONSTANTS
    i1 = i1
    i2 = i2
    d1 = d1
    a1 = a1
    a2 = a2
    a3 = a3
    IPs <- TwoIPs
    Domains <- OneDomain
    Explicit <- Nobody
    Pinnable <- OneIP
    FailThreshold = 2
    SlowStrikeLimit = 2
    Examined = {"x", "y"}
    SampleCap = 6
    MinSamples = 3
    DeadFailures = 3
    RecoveryStreak = 3
    SuccessFloorPct = 60
    Addresses <- ThreeAddresses
    Sources <- TwoURLs
    UserLists <- NoneOrOwn
    CfdataLists <- Scanned
    SubscriptionLists <- Subscribed
    SourceLists <- Listed
    UserCap = 1
    CfdataCap = 1
    SubscriptionCap = 2
    Reserve = 1
    TotalCap = 3
    BackoffAfter = 2
    MaxBackoff = 2
    Cooldown = 3
    Lag = 1
    MinSize = 2
    MaxSize = 2
INVARIANTS
    MarksEarned
    BusyRetriedSoon
    DeadProven
    RecoveryForgets
    EachOnceWithLayer
    ReserveLeft
    FairMerge
PROPERTIES
    FirmReap
    PinnedOnlyForDeath
    RoundLeavesOne
    BackoffEarned
    CooldownKept
