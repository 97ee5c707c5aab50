------------------------------- MODULE MCCron -------------------------------
(* Two workers and two jobs, daily and hourly say: j1 runs missed          *)
(* occurrences (doall), j2 does not; j2 is limited to two calls.           *)
EXTENDS Cron, TLC

CONSTANTS w1, w2, j1, j2

MCSymmetry == Permutations(Workers)
MCPriority == j1 :> 1 @@ j2 :> 2
MCNumberCall == j1 :> 2 @@ j2 :> 2
MCUnlimited == j1 :> -1 @@ j2 :> 2
=============================================================================
