SPECIFICATION FairSpec
CONSTANTS
    f1 = f1
    f2 = f2
    f3 = f3
    Items <- ThreeItems
    Size <- ThreeSizes
    Options <- MCOptions
    Concurrency = 2
    MaxAttempts = 2
    HonoursRange = TRUE
    MaxRuns = 2
    None = None
INVARIANTS
    PrefixOnDisk
    SuccessIsWhole
    CheckpointNotAhead
PROPERTIES
    ImplementsContract
    ExportEnds
CHECK_DEADLOCK FALSE
