CONSTANTS
    Call = {c1, c2, c3}
    None = None
    TaskLimit = 2
    MaxFaults = 2
    MaxPublished = 0
SPECIFICATION Spec
SYMMETRY Alike
INVARIANTS
    MarkerIsTheTurn
    RegeneratesItsQuestion
PROPERTIES
    CancelSuppresses
    StoredKeysRunOnce
CHECK_DEADLOCK FALSE
