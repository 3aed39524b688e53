SPECIFICATION Spec
CONSTANTS
    Groups = {g1, g2}
    Tags = {t1, t2}
    None = None
    Patient = TRUE
    Overwrites = FALSE
    Switches = TRUE
    Quits = FALSE
    WorkerStops = FALSE
    MaxWrites = 1
    MaxStops = 1
    MaxCalls = 2
    MaxBacklog = 1
INVARIANTS
    RegistrationKept
    AnnouncedWhenOpen
    AnnouncedAnew
    NoGhosts
    InitCountExact
    ExactHandles
SYMMETRY Symmetry
