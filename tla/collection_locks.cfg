SPECIFICATION Spec
CONSTANTS
    p1 = p1
    p2 = p2
    t1 = t1
    t2 = t2
    t3 = t3
    NoThread = NoThread
    Procs <- TwoProcs
    Threads <- ThreeThreads
    ProcOf <- ThreeProcOf
    Postgres = TRUE
    LoseLock = FALSE
    DbFaults = TRUE
    Timeout = 1
    MaxGap = 2
    MaxRows = 4
INVARIANTS
    TypeOK
    OneCollector
    LiveRunIsNewest
PROPERTIES
    KeepsHistory
