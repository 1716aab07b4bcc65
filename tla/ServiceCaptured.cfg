CONSTANTS
    Platforms = {"linux"}
    Descendants = {3}
    Strangers = {5}
    Pids = {1, 2, 3, 9}
INIT Init
NEXT Next
CHECK_DEADLOCK FALSE
INVARIANT
    CapturedAreGone
