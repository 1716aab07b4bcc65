SPECIFICATION Spec
CONSTANTS
    s1 = s1  s2 = s2  x1 = x1  f1 = f1
    NoId = NoId
    ServiceId = {s1, s2, x1, f1}
    Foreign = {f1}
    Stale = {x1}
    LateCreates = TRUE
    MaxResurfaced = 2
    MaxFaults = 3
    DiskFaults = TRUE
    MaxCleanups = 2
SYMMETRY IdSymmetry
INVARIANTS
    TypeOK
    Recoverable
    VerifiedAbsence
    RefusalIsHarmless
    ReapWithinJournal
    OwnServicesNeverRefused
    ForeignUntouched
    NineCalls
