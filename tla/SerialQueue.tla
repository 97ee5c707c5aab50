----------------------------- MODULE SerialQueue -----------------------------
(***************************************************************************)
(* What web.concurrency promises of a mutex ("a primitive for serializing  *)
(* computations"): computations are served one at a time, in the order in  *)
(* which they were submitted.  A computation that never ends is served for *)
(* ever.                                                                   *)
(***************************************************************************)
EXTENDS Naturals

CONSTANTS Calls,
          Nobody     \* not a call

VARIABLES
    ticket,    \* Calls -> rank of the submission, 0 before it
    serving,   \* the computation in progress, or Nobody
    served     \* the computations that ended

queueVars == <<ticket, serving, served>>

Submitted == {c \in Calls : ticket[c] > 0}

QueueInit == /\ ticket = [c \in Calls |-> 0]
             /\ serving = Nobody
             /\ served = {}

Submit(c) == /\ ticket[c] = 0
             /\ \A d \in Calls : ticket[d] < ticket'[c]
             /\ ticket' = [ticket EXCEPT ![c] = ticket'[c]]
             /\ UNCHANGED <<serving, served>>

Serve(c) == /\ serving = Nobody
            /\ c \in Submitted \ served
            /\ \A d \in Submitted : ticket[d] < ticket[c] => d \in served
            /\ serving' = c
            /\ UNCHANGED <<ticket, served>>

Finish(c) == /\ serving = c
             /\ serving' = Nobody
             /\ served' = served \cup {c}
             /\ UNCHANGED ticket

QueueNext == \E c \in Calls : Submit(c) \/ Serve(c) \/ Finish(c)

QueueSpec == QueueInit /\ [][QueueNext]_queueVars
=============================================================================
