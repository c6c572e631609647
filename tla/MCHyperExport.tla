--------------------------- MODULE MCHyperExport ---------------------------
(* Two files, so that every walk can stop between them; three runs, so that *)
(* one meets what two others left.  Packaging and verifying are asked for   *)
(* in every run but one: without them a run only has fewer ways to fail.    *)
EXTENDS HyperExport, TLC

Flags(e, u, k) ==
    [ova |-> TRUE, verify |-> TRUE, encrypt |-> e, upload |-> u, keepLocal |-> k]

MCSetups == {Flags(TRUE, FALSE, TRUE), Flags(TRUE, TRUE, FALSE),
             Flags(FALSE, TRUE, FALSE), Flags(TRUE, TRUE, TRUE),
             [Flags(FALSE, FALSE, TRUE) EXCEPT !.ova = FALSE, !.verify = FALSE]}

Symmetry == Permutations(Files)
=============================================================================
