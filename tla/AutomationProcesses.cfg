SPECIFICATION Spec
CONSTANTS
    p1 = p1
    p2 = p2
    Proc = {p1, p2}
    Lease = 2
    RetryDelay = 1
    MaxQueueDelay = 2
    MaxFailures = 2
    Period <- TwoAndThree
    Deadlines = {2}
    ManualKeys = 0
    Edits = TRUE
    Crashes = TRUE
    LegacyRows = FALSE
    MaxRevision = 2
    MaxRuns = 3
    MaxTime = 4
SYMMETRY ProcessSymmetry
INVARIANTS
    OneRunAtATime
    KeysAreHeldByWork
PROPERTIES
    SlotRunsOnce
    FailuresCountEnds
    ImplementsTaskLease
