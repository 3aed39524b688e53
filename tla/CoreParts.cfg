SPECIFICATION FairParts
CONSTANTS
    main = main
    other = other
    worker = worker
    second = second
    none = none
    group = group
    Producers <- MCProducers
    Consumers <- MCConsumers
    Messages <- MCMessages
    EMPTY = ""
    NoThread = none
    MaxLen = 2
    fast = fast
    slow = slow
    Groups <- MCGroups
    Interval <- MCInterval
    RegisterWait = 2
    SpareWait = 2
    MaxTime = 4
    Threads <- MCThreads
    Main = main
    Worker = worker
    None = none
    MaxErrors = 2
    MaxRuns = 2
    MaxWrites = 3
INVARIANTS
    NoLostWakeup
    NoPollMissed
    StartedInTime
    FailureSignalled
    ErrorOfThisRun
    TakenWhole
PROPERTIES
    ImplementsFifo
    NobodyLeftWaiting
    PollSpacing
    AllTaken
CHECK_DEADLOCK FALSE
