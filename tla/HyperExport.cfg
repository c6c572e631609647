SPECIFICATION Spec
CONSTANTS
    Files = {f1, f2}
    Cleans = FALSE
    Setups <- MCSetups
    MaxRuns = 3
    None = None
SYMMETRY Symmetry
INVARIANTS
    ExportKept
    NoClearCopyLeft
PROPERTY ClearStaysHome
CHECK_DEADLOCK FALSE
