SPECIFICATION Spec
CONSTANTS
    Clients = {c1}
    SendCap = 1
    BroadcastCap = 1
PROPERTY FullBuffersUnregistered
CHECK_DEADLOCK FALSE
