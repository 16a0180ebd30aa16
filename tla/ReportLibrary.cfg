CONSTANTS
    Call = {c1, c2, c3, c4}
    Report = {r}
    Content = {A, B}
    Size <- OneByte
    UserKey = {k}
    None = None
    Limit = 3
    MaxBusy = 2
    MaxFaults = 1
SPECIFICATION Spec
SYMMETRY Alike
INVARIANTS
    QuotaHolds
    LibraryOpens
    StagedIsCurrent
    RegisteredIsBacked
PROPERTIES
    UserHeadKept
CHECK_DEADLOCK FALSE
