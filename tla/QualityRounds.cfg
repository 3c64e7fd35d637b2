SPECIFICATION FairSpec
CONSTANTS
    IPs = {1, 2}
    Probes <- LatencyProbes
    Window = 1
    FailureThreshold = 2
    RequiredSuperiorRounds = 2
    SwitchInterval = 1
    RelativeGainPct = 25
    AbsoluteGainMbps = 80
    AbsoluteGainMs = 15
    CapacityMbps = 1024
    RecordsCap = 5
    SaveCanFail = FALSE
INVARIANTS SingleActive
PROPERTIES FailoverDecided
