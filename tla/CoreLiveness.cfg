SPECIFICATION FairSpec
CONSTANTS
    Groups = {g1}
    Tags = {t1}
    None = None
    Patient = FALSE
    Overwrites = FALSE
    Switches = FALSE
    Quits = TRUE
    WorkerStops = TRUE
    MaxWrites = 2
    MaxStops = 2
    MaxCalls = 3
    MaxBacklog = 1
INVARIANTS
    DrainedBeforeRelease
    ReleasedWhenStopped
    WritesInOrder
PROPERTIES
    WritesProcessed
    StopReleases
    QuitReturns
CHECK_DEADLOCK FALSE
