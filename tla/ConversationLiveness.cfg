CONSTANTS
    Call = {c1, c2}
    None = None
    TaskLimit = 1
    MaxFaults = 1
    MaxPublished = 2
SPECIFICATION Spec
INVARIANTS
    ArtifactsOfTheirTurn
PROPERTIES
    TurnsAreAnswered
    QueueDrains
CHECK_DEADLOCK FALSE
