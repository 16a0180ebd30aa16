SPECIFICATION Spec
CONSTANTS
    summary = summary
    reminder = reminder
    d1 = d1
    d2 = d2
    NoJob = NoJob
    Never = Never
    Jobs = {summary, reminder}
    Drains = {d1, d2}
    Summaries = {summary}
    Source <- MCSource
    Window <- MCWindow
    RetryDelays <- MCRetryDelays
    AutomationValidity = 3
    Chunks = 2
    MaxAttempts = 2
    Lease = 2
    DeferDelay = 1
    Limit = 2
    MaxCall = 1
    Horizon = 3
    LastEnqueue = 1
    FaultsUntil = 0
SYMMETRY DrainSymmetry
INVARIANTS
    SentMeansDelivered
    DuplicateOnlyAfterFault
    OneCallerPerJob
    RunTellsTheJobsFate
CHECK_DEADLOCK FALSE
