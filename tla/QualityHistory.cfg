SPECIFICATION HistorySpec
CONSTANTS
    IPs = {1, 2, 3}
    Probes <- GoodProbes
    Window = 1
    FailureThreshold = 2
    RequiredSuperiorRounds = 3
    SwitchInterval = 0
    RelativeGainPct = 25
    AbsoluteGainMbps = 80
    AbsoluteGainMs = 15
    CapacityMbps = 1024
    RecordsCap = 5
    SaveCanFail = FALSE

PROPERTIES PromotionProvedAgainstActive
