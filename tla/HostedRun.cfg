SPECIFICATION Spec
CONSTANTS
    a = a  b = b
    Catalog <- MCCatalog
    Duration <- MCDuration
    Steps <- MCSteps
    Limits = {b}
    Selections <- MCSelections
    Allowlists <- MCAllowlists
    Gaps <- MCGaps
    Lane = 9
    Minimum = 8
    ResetTime = 1
    FinalizeTime = 2
    SetupTime = 3
    WriteTime = 2
    MaxOverruns = 1
CHECK_DEADLOCK FALSE
INVARIANTS
    TypeOK
    ResetOnce
    EvidenceComplete
    PassedInTime
    QualifiedIsComplete
    InTimeIfBounded
    FinalizationReserved
    FinalizedOnce
