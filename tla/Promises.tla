------------------------------ MODULE Promises ------------------------------
(***************************************************************************)
(* Promises, as the helpers of web.concurrency use them.  A promise that   *)
(* is settled stays as it is: resolve and reject do nothing to it.         *)
(***************************************************************************)
CONSTANTS Calls,      \* the calls of a helper, each with the promise it returns
          Nobody      \* null, undefined, or a promise nobody waits for

ASSUME CallsAssumption == Nobody \notin Calls

PromiseStates == {"none", "pending", "resolved", "rejected"}

Settle(p, outcome) == IF p = "pending" THEN outcome ELSE p
=============================================================================
