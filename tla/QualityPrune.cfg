SPECIFICATION Spec
CONSTANTS
    IPs = {1, 2}
    Probes <- TwoProbes
    Window = 2
    FailureThreshold = 2
    RequiredSuperiorRounds = 1
    SwitchInterval = 0
    RelativeGainPct = 25
    AbsoluteGainMbps = 80
    AbsoluteGainMs = 15
    CapacityMbps = 1024
    RecordsCap = 1
    SaveCanFail = TRUE
INVARIANTS
    IInv
    ActiveRecorded
PROPERTIES
    OnlyProvenCommitted
    ObservationBounds
