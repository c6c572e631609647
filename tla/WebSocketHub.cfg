SPECIFICATION Spec
CONSTANTS
    Clients = {c1, c2}
    SendCap = 1
    BroadcastCap = 1
INVARIANTS
    MapIsOpen
PROPERTIES
    DeadClientsLeave
    ConnectionsClose
CHECK_DEADLOCK FALSE
