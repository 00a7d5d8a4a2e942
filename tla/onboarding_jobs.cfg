SPECIFICATION LiveSpec
CONSTANTS
    r1 = r1
    r2 = r2
    MaxJobs = 3
    Requests <- OneRequest
    Timeout = 1
    MaxGap = 1
    Faults = TRUE
    Pinned = TRUE
    HostAtStart <- AnyHost
    Patient = TRUE
INVARIANTS
    TypeOK
    CompletedIsPrepared
    CancelledRunTouchesHostOnce
PROPERTIES
    KeepsPromise
    Settles
