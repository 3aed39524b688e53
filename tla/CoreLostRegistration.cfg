SPECIFICATION Spec
CONSTANTS
    Groups = {g1}
    Tags = {t1}
    None = None
    Patient = FALSE
    Overwrites = FALSE
    Switches = TRUE
    Quits = FALSE
    WorkerStops = FALSE
    MaxWrites = 1
    MaxStops = 1
    MaxCalls = 2
    MaxBacklog = 1
INVARIANTS
    RegistrationKept
