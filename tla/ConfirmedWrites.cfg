SPECIFICATION Spec
CONSTANTS
    c1 = c1
    c2 = c2
    k1 = k1
    k2 = k2
    k3 = k3
    b1 = b1
    i1 = i1
    i2 = i2
    m1 = m1
    m2 = m2
    None = None
    Conf = {c1, c2}
    Call = {k1, k2, k3}
    Target <- TwoAndOne
    Candidate = {m1, m2}
    Batch = {b1}
    Code = {i1, i2}
    Items <- TwoItems
    Operation = {"portfolio", "watchlist", "rule", "preferences", "method"}
    FirstRevision = 1
    TTL = 2
    MaxTime = 3
SYMMETRY Alike
INVARIANTS
    ApprovedBeforeWritten
    ConsumedOnce
    WrittenOnce
    WrittenTogether
PROPERTIES
    ImplementsBook
CHECK_DEADLOCK FALSE
