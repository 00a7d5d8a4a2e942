\* One thread in each of two processes; connections and processes may die.
SPECIFICATION LiveSpec
CONSTANTS
    p1 = p1
    p2 = p2
    t1 = t1
    t2 = t2
    t3 = t3
    NoThread = NoThread
    Procs <- TwoProcs
    Threads <- TwoThreads
    ProcOf <- TwoProcOf
    Postgres = TRUE
    LoseLock = TRUE
    DbFaults = FALSE
    Timeout = 1
    MaxGap = 1
    MaxRows = 3
INVARIANTS
    LiveRunKeepsItsRow
PROPERTIES
    OrphanRowsSettle
