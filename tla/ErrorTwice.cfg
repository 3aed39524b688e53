SPECIFICATION SharedSpec
CONSTANTS
    main = main
    worker = worker
    Threads <- MCThreads
    Main = main
    Worker = worker
    None = None
    MaxErrors = 2
    MaxRuns = 1
    MaxWrites = 1
INVARIANTS
    SignalledOnce
