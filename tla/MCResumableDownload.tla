------------------------ MODULE MCResumableDownload ------------------------
(* Three files for two slots, one of two units so that a transfer can      *)
(* break in the middle; two runs on one directory, so that a run meets     *)
(* what another one left.                                                  *)
EXTENDS ResumableDownload

CONSTANTS f1, f2, f3

ThreeItems == <<f1, f2, f3>>
ThreeSizes == [f \in {f1, f2, f3} |-> IF f = f1 THEN 2 ELSE 1]

(* With checkpoints, the options that allow most: a load may fail, a save  *)
(* may be skipped, and a cleanup may remove no file.                       *)
MCOptions == {[checkpoints |-> TRUE, resume |-> TRUE, everyFile |-> FALSE,
               cleanup |-> TRUE],
              [checkpoints |-> FALSE, resume |-> FALSE, everyFile |-> FALSE,
               cleanup |-> FALSE]}
=============================================================================
