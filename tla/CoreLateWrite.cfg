SPECIFICATION Spec
CONSTANTS
    Groups = {g1}
    Tags = {t1}
    None = None
    Patient = TRUE
    Overwrites = FALSE
    Switches = FALSE
    Quits = FALSE
    WorkerStops = TRUE
    MaxWrites = 1
    MaxStops = 1
    MaxCalls = 2
    MaxBacklog = 1
PROPERTIES
    EnqueuedWhileRunning
