SPECIFICATION SupervisorFairSpec
CONSTANT MaxProcesses <- MCMaxProcesses
INVARIANTS
    SupervisorTypeOK
    NoneEscapes
    CompleteMeansReaped
PROPERTY
    BoundedSupervisorLeaves
CHECK_DEADLOCK FALSE
