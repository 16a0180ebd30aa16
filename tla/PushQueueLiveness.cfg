SPECIFICATION FairSpec
CONSTANTS
    summary = summary
    reminder = reminder
    d1 = d1
    d2 = d2
    NoJob = NoJob
    Never = Never
    Jobs = {summary, reminder}
    Drains = {d1}
    Summaries = {summary}
    Source <- MCSource
    Window <- MCWindow
    RetryDelays <- MCRetryDelays
    AutomationValidity = 3
    Chunks = 1
    MaxAttempts = 2
    Lease = 2
    DeferDelay = 1
    Limit = 1
    MaxCall = 2
    Horizon = 7
    LastEnqueue = 1
    FaultsUntil = 1
PROPERTIES
    WindowedJobEnds
    EventuallySettled
CHECK_DEADLOCK FALSE
