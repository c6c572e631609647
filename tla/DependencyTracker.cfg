SPECIFICATION Spec
CONSTANTS
    r1 = r1
    r2 = r2
    j1 = j1
    d1 = d1
    d2 = d2
    Runs = {r1, r2}
    Jobs = {j1}
    Deps = {d1, d2}
    JobOf <- MCJobOf
    DependsOn <- MCDependsOn
    Timed = {j1}
    Reports = {"running", "completed", "failed"}
INVARIANTS
    RunsOnlyAfter
    MissesOnlyEarlier
PROPERTIES
    Served
