--------------------------- MODULE MCBackupManager ---------------------------
(* Two creations and two restores or deletions in two seconds: names        *)
(* collide or not, and a second backup is one too many.                       *)
EXTENDS BackupManager, TLC
CONSTANTS m1, m2, u1, u2
=============================================================================
