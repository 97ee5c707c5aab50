---------------------------- MODULE DropPrevious ----------------------------
(***************************************************************************)
(* The classes DropMisordered and DropPrevious of web.concurrency          *)
(* (src/addons/web/static/src/js/core/concurrency.js): a client sends      *)
(* requests, adds the promise of each to the helper and shows what the     *)
(* promise returned by add resolves to.  Requests are answered in any      *)
(* order, or fail.                                                         *)
(***************************************************************************)
EXTENDS Integers, Promises

VARIABLES
    failMisordered,
    request,    \* Calls -> the promise added
    result,     \* Calls -> the promise add returned
    lsn, rsn,   \* DropMisordered: number of requests, last one received
    seq,        \* Calls -> the call's number
    currentDef  \* DropPrevious: the call whose promise was returned last

dropVars == <<failMisordered, request, result, lsn, rsn, seq, currentDef>>

DropTypeOK ==
    /\ failMisordered \in BOOLEAN
    /\ request \in [Calls -> PromiseStates]
    /\ result \in [Calls -> PromiseStates]
    /\ lsn \in Nat
    /\ rsn \in Int
    /\ seq \in [Calls -> Int]
    /\ currentDef \in Calls \cup {Nobody}

DropInit ==
    /\ failMisordered \in BOOLEAN
    /\ request = [c \in Calls |-> "none"]
    /\ result = [c \in Calls |-> "none"]
    /\ lsn = 0
    /\ rsn = -1
    /\ seq = [c \in Calls |-> -1]
    /\ currentDef = Nobody

Added(c) == result[c] # "none"

-----------------------------------------------------------------------------
(* The request of a call is answered; the helper's callbacks come later.   *)

Answer(c) ==
    /\ request[c] = "pending"
    /\ \E outcome \in {"resolved", "rejected"} :
          request' = [request EXCEPT ![c] = outcome]
    /\ UNCHANGED <<failMisordered, result, lsn, rsn, seq, currentDef>>

(* DropMisordered.add *)
Order(c) ==
    /\ ~Added(c)
    /\ request' = [request EXCEPT ![c] = "pending"]
    /\ result' = [result EXCEPT ![c] = "pending"]
    /\ seq' = [seq EXCEPT ![c] = lsn]
    /\ lsn' = lsn + 1
    /\ UNCHANGED <<failMisordered, rsn, currentDef>>

(* Mutant: every answer counts.                                        *)
MutReceive(c) ==
    /\ request[c] = "resolved"
    /\ result[c] = "pending"
    /\ result' = [result EXCEPT ![c] = "resolved"]
    /\ rsn' = seq[c]
    /\ UNCHANGED <<failMisordered, request, lsn, seq, currentDef>>

(* promise.then: the result counts if no later request was received.  An   *)
(* ignored one is never settled.                                           *)
Receive(c) ==
    /\ request[c] = "resolved"
    /\ result[c] = "pending"
    /\ \/ /\ seq[c] > rsn
          /\ rsn' = seq[c]
          /\ result' = [result EXCEPT ![c] = "resolved"]
       \/ /\ seq[c] <= rsn
          /\ failMisordered
          /\ result' = [result EXCEPT ![c] = "rejected"]
          /\ UNCHANGED rsn
    /\ UNCHANGED <<failMisordered, request, lsn, seq, currentDef>>

(* guardedCatch, or the catch of DropPrevious.                             *)
ReceiveFailure(c) ==
    /\ request[c] = "rejected"
    /\ result[c] = "pending"
    /\ result' = [result EXCEPT ![c] = "rejected"]
    /\ UNCHANGED <<failMisordered, request, lsn, rsn, seq, currentDef>>

OrderedNext ==
    \E c \in Calls : Order(c) \/ Answer(c) \/ Receive(c) \/ ReceiveFailure(c)

OrderedSpec == DropInit /\ [][OrderedNext]_dropVars

-----------------------------------------------------------------------------

(* DropPrevious.add.  seq is only there to tell the order of the calls.    *)
Replace(c) ==
    /\ ~Added(c)
    /\ result' = [d \in Calls |-> IF d = c THEN "pending"
                                  ELSE IF d = currentDef THEN Settle(result[d], "rejected")
                                  ELSE result[d]]
    /\ request' = [request EXCEPT ![c] = "pending"]
    /\ currentDef' = c
    /\ seq' = [seq EXCEPT ![c] = lsn]
    /\ lsn' = lsn + 1
    /\ UNCHANGED <<failMisordered, rsn>>

(* promise.then(resolve)                                                   *)
Relay(c) ==
    /\ request[c] = "resolved"
    /\ result[c] = "pending"
    /\ result' = [result EXCEPT ![c] = "resolved"]
    /\ UNCHANGED <<failMisordered, request, lsn, rsn, seq, currentDef>>

ReplacingNext ==
    \E c \in Calls : Replace(c) \/ Answer(c) \/ Relay(c) \/ ReceiveFailure(c)

ReplacingSpec == DropInit /\ [][ReplacingNext]_dropVars

-----------------------------------------------------------------------------

(* Whatever the order of the answers, the client that shows results as     *)
(* they resolve never goes back to the result of an earlier request        *)
(* (DropMisordered: "its result is obsolete and should be ignored";        *)
(* DropPrevious: "you only care of the result of the last operation").     *)
NeverGoesBack ==
    [][\A c, d \in Calls :
         (result[c] = "resolved" /\ seq[d] < seq[c]) =>
             (result'[d] = "resolved" => result[d] = "resolved")]_dropVars
=============================================================================
