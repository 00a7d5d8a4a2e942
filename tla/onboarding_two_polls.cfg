\* Two requests in flight: one judges a copy that is older than the job's row.
SPECIFICATION Spec
CONSTANTS
    r1 = r1
    r2 = r2
    MaxJobs = 2
    Requests <- TwoRequests
    Timeout = 1
    MaxGap = 1
    Faults = TRUE
    Pinned = TRUE
    HostAtStart <- EmptyHost
    Patient = TRUE
PROPERTIES
    ExpirySparesRecentJobs
