SPECIFICATION Spec
CONSTANT MaxProcesses <- MCMaxProcesses
INVARIANTS
    TypeOK
    CleanMeansEmpty
    SurvivorFailsTheCommand
    GoneCoversTheKnown
    OneRecord
PROPERTY
    SupervisorSpec
