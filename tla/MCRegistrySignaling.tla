------------------------ MODULE MCRegistrySignaling ------------------------
(* RegistrySignaling with two processes that write and one that only reads. *)
EXTENDS RegistrySignaling, TLC

CONSTANTS w1, w2, r1, k1, k2

MCProcs == {w1, w2, r1}
MCWriters == {w1, w2}
MCKeys == {k1, k2}
MCSymmetry == Permutations(MCWriters) \cup Permutations(MCKeys)
=============================================================================
