CONSTANTS
    Platforms = {"linux", "macos", "windows"}
    Descendants = {3}
    Strangers = {5}
    Pids = {1, 2, 3, 9}
INIT Init
NEXT Next
CHECK_DEADLOCK FALSE
INVARIANTS
    TypeOK
    OnlyProvenSignalled
    SidecarIsCurrent
    CleanMeansGone
    NeverUncontained
    CleanupMeansGone
    RouteStaysRestored
