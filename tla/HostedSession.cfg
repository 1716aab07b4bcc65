CONSTANTS
    MaxScenarios = 2
    StabilitySamples = 2
    Adapters = {"cli", "android"}
INIT Init
NEXT Next
CHECK_DEADLOCK FALSE
INVARIANTS
    TypeOK
    RoutingEvidenceIsTunnel
    CleanEvidenceIsClear
    RestoredOrReported
    PassedLeavesNothing
