SPECIFICATION FairSpec
CONSTANTS
    t1 = t1
    t2 = t2
    t3 = t3
    runtime = runtime
    mcp = mcp
    h1 = h1
    NoOwner = NoOwner
    Task = {t1, t2, t3}
    Proc = {runtime, mcp}
    ProcOf <- TwoProcesses
    HostOf <- OneHost
    Key = {1, 2}
    Calls <- Layered
    FaultKinds = {"crash", "pid", "stall", "rm"}
INVARIANTS
    NoLockLeftBehind
    NoCircularWait
PROPERTIES
    ImplementsMutex
    CallsEnd
CHECK_DEADLOCK FALSE
