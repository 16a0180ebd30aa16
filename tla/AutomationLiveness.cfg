SPECIFICATION FairSpec
CONSTANTS
    p1 = p1
    p2 = p2
    Proc = {p1}
    Lease = 2
    RetryDelay = 1
    MaxQueueDelay = 1
    MaxFailures = 2
    Period <- TwoAndThree
    Deadlines = {2}
    ManualKeys = 0
    Edits = FALSE
    Crashes = TRUE
    LegacyRows = TRUE
    MaxRevision = 1
    MaxRuns = 4
    MaxTime = 6
PROPERTIES
    RunsEnd
    DueSlotsPass
