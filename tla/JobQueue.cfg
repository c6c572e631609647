SPECIFICATION FairSpec
CONSTANTS
    j1 = j1
    j2 = j2
    j3 = j3
    Priority <- MCPriority
    MaxRetries <- MCRetries
    Jobs = {j1, j2, j3}
    Workers = {w1, w2}
    MaxQueueSize = 2
    ResultsCap = 1
    MaxClock = 2
INVARIANTS
    OnePlace
    MetricsBalance
    FifoWithinPriority
PROPERTIES
    ImplementsContract
    EveryJobFinishes
CHECK_DEADLOCK FALSE
