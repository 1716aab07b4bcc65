SPECIFICATION Spec
CONSTANTS
    s1 = s1  s2 = s2  x1 = x1  f1 = f1
    NoId = NoId
    ServiceId = {s1, s2, f1}
    Foreign = {f1}
    Stale = {}
    LateCreates = FALSE
    MaxResurfaced = 0
    MaxFaults = 2
    DiskFaults = FALSE
    MaxCleanups = 3
PROPERTY
    ImplementsPromise
