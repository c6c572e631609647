---------------------------- MODULE MCScheduler ----------------------------
(* One ID and two objects: the current one and one that was replaced while *)
(* a goroutine or a cron entry still held it.  Two goroutines meet in the  *)
(* same second and around a removal.                                       *)
EXTENDS Scheduler, TLC

Symmetry == Permutations(Objs) \cup Permutations(Execs)
=============================================================================
