SPECIFICATION Spec
CONSTANTS
    o1 = o1
    Ops = {o1}
    MaxEdits = 1
    MaxFaults = 1
    Setups <- MCSetups
INVARIANTS
    VerdictMatchesEffect
PROPERTIES
    TerminalIsFinal
    MigrationEnds
    MachineSettles
CHECK_DEADLOCK FALSE
