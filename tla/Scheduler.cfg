SPECIFICATION SchedulerSpec
CONSTANTS
    Ids = {s1}
    Objs = {o1, o2}
    Execs = {e1, e2}
    HasStore = TRUE
    MaxEntry = 4
    MaxRuns = 1
    MaxClock = 1
SYMMETRY Symmetry
INVARIANTS
    EntriesOwned
    StoredIffKnown
    EnabledIsScheduled
CHECK_DEADLOCK FALSE
