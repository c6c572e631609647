SPECIFICATION RetryerSpec
CONSTANTS
    Callers = {c1}
    MaxAttempts = 3
    Found = {"up", "down"}
    ListenerCap = 1
    NotifyOnChange = TRUE
    EnableNetlink = TRUE
    WaitForNetwork = TRUE
    Channels <- MCChannels
INVARIANTS
    WaitsOnlyIfMissed
PROPERTIES
    CancelledReturns
CHECK_DEADLOCK FALSE
