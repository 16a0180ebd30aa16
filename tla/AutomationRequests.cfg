SPECIFICATION Spec
CONSTANTS
    p1 = p1
    p2 = p2
    Proc = {p1}
    Lease = 2
    RetryDelay = 1
    MaxQueueDelay = 2
    MaxFailures = 2
    Period <- TwoAndThree
    Deadlines = {1, 2}
    ManualKeys = 1
    Edits = TRUE
    Crashes = FALSE
    LegacyRows = TRUE
    MaxRevision = 2
    MaxRuns = 2
    MaxTime = 4
PROPERTIES
    ScheduleMatchesStatus
    ManualRunsObserve
