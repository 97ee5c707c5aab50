-------------------------- MODULE MCConnectionPool --------------------------
(* A pool of two connections, three threads' cursors, one ordinary and one *)
(* template database.                                                      *)
EXTENDS ConnectionPool, TLC

CONSTANTS k1, k2, k3, k4, c1, c2, c3

MCSymmetry == Permutations({k1, k2, k3, k4}) \cup Permutations({c1, c2, c3})
=============================================================================
