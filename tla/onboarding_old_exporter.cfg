SPECIFICATION LiveSpec
CONSTANTS
    r1 = r1
    r2 = r2
    MaxJobs = 1
    Requests <- OneRequest
    Timeout = 1
    MaxGap = 1
    Faults = FALSE
    Pinned = TRUE
    HostAtStart <- OldHost
    Patient = FALSE
PROPERTIES
    HealthyHostCompletes
