SPECIFICATION BackupSpec
CONSTANTS
    m1 = m1
    m2 = m2
    u1 = u1
    u2 = u2
    Makers = {m1, m2}
    Users = {u1, u2}
    Chunks = 2
    MaxTime = 2
    MaxBackups = 1
    MaxAge = 0
    MaxFaults = 1
INVARIANTS
    RestoredIsWhole
    CreatedIsKept
    HeldWhileBusy
CHECK_DEADLOCK FALSE
