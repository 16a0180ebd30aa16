SPECIFICATION Spec
CONSTANTS
    local = local
    prod = prod
    q = q
    None = None
    Connector = {local, prod}
    Priority <- ProdFirst
    Conn = {1, 2, 3, 4, 5, 6, 7, 8}
    OwnerOf <- Parity
    Request = {q}
    MaxFaults = 1
INVARIANTS
    InReach
PROPERTIES
    AssistantIsServed
    StoppedIsOffline
    WaitersAreTold
CHECK_DEADLOCK FALSE
