CONSTANTS
    Clients = {c1, c2}
    Slots = {position, monitor}
    Depth = 3
    LagDepth = 1
    MaxClients = 1
    MaxEvents = 4
SPECIFICATION WsSpec
INVARIANTS
    NothingStale
    KeptInStep
CHECK_DEADLOCK FALSE
