SPECIFICATION Spec
CONSTANTS
    p1 = p1
    p2 = p2
    t1 = t1
    t2 = t2
    t3 = t3
    NoThread = NoThread
    Procs <- TwoProcs
    Threads <- TwoThreads
    ProcOf <- TwoProcOf
    Postgres = TRUE
    LoseLock = FALSE
    DbFaults = TRUE
    Timeout = 1
    MaxGap = 1
    MaxRows = 3
INVARIANTS
    StatusReportsLiveRuns
