------------------------- MODULE MCDependencyTracker -------------------------
(* Instances of DependencyTracker: a job with two dependencies and a timeout *)
(* runs twice, and the runs overlap.                                         *)
EXTENDS DependencyTracker, TLC
CONSTANTS r1, r2, j1, d1, d2
MCJobOf == (r1 :> j1) @@ (r2 :> j1)
MCDependsOn == j1 :> (d1 :> "completed" @@ d2 :> "any")
=============================================================================
