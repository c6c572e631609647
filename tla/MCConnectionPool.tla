-------------------------- MODULE MCConnectionPool --------------------------
(* Three clients for two places: one always finds the pool full.  Four     *)
(* sessions let the pool replace, one after the other, two that expired.   *)
EXTENDS ConnectionPool, TLC

Symmetry == Permutations(Clients) \cup Permutations(Conns)
=============================================================================
