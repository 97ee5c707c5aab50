-------------------------------- MODULE Mutex --------------------------------
(***************************************************************************)
(* The class Mutex of web.concurrency                                      *)
(* (src/addons/web/static/src/js/core/concurrency.js), which the           *)
(* controllers of the web client serialize their operations with.          *)
(*                                                                         *)
(* There is no lock: exec chains promises.  Every call waits for the       *)
(* promise the previous call left in this.lock, and leaves its own.        *)
(* JavaScript runs one callback at a time; a step of this model is one     *)
(* callback, and callbacks of different promises may run in any order      *)
(* between the calls of the client.                                        *)
(***************************************************************************)
EXTENDS Naturals, FiniteSets, Promises

CONSTANT Waiters      \* the calls of getUnlockedDef

ASSUME WaitersAssumption == "none" \notin Calls /\ "free" \notin Calls

VARIABLES
    lock,          \* the call whose promise is this.lock
    after,         \* Calls -> the call it waits for (currentLock)
    phase,         \* Calls -> see Phases
    queueSize,
    unlockedProm,  \* the call that made the promise, or Nobody
    awaits,        \* Waiters -> the call that made the promise given out
    ticket         \* Calls -> rank of the call (history)

mutexVars == <<lock, after, phase, queueSize, unlockedProm, awaits, ticket>>

(* "none": exec not called; "queued": its action has not been called;      *)
(* "running": the action's promise is pending; "released": that promise    *)
(* was resolved, or rejected by anything but an Error, and the lock passed *)
(* on; "crashed": the action threw, or rejected with an Error.             *)
Phases == {"none", "queued", "running", "released", "crashed"}

(* "none": not called; "free": resolved.                                   *)
WaiterStates == Calls \cup {"none", "free"}

MutexTypeOK ==
    /\ lock \in Calls \cup {Nobody}
    /\ after \in [Calls -> Calls \cup {Nobody}]
    /\ phase \in [Calls -> Phases]
    /\ queueSize \in Nat
    /\ unlockedProm \in Calls \cup {Nobody}
    /\ awaits \in [Waiters -> WaiterStates]
    /\ ticket \in [Calls -> Nat]

MutexInit ==
    /\ lock = Nobody
    /\ after = [c \in Calls |-> Nobody]
    /\ phase = [c \in Calls |-> "none"]
    /\ queueSize = 0
    /\ unlockedProm = Nobody
    /\ awaits = [w \in Waiters |-> "none"]
    /\ ticket = [c \in Calls |-> 0]

Called == {c \in Calls : phase[c] # "none"}

-----------------------------------------------------------------------------

(* The calls that resolve the promise in this.lock are those that wait for *)
(* it: the promise of a call is resolved when its action released it.      *)
Resolved(p) == p # Nobody => phase[p] = "released"

(* Mutant: a call waits for the one before the last.                       *)
MutExec(c) ==
    /\ phase[c] = "none"
    /\ phase' = [phase EXCEPT ![c] = "queued"]
    /\ after' = [after EXCEPT ![c] = IF Resolved(lock) THEN Nobody ELSE after[lock]]
    /\ lock' = c
    /\ queueSize' = queueSize + 1
    /\ unlockedProm' = IF unlockedProm = Nobody THEN c ELSE unlockedProm
    /\ ticket' = [ticket EXCEPT ![c] = Cardinality(Called) + 1]
    /\ UNCHANGED awaits

(* Mutant: this.lock is read after it was replaced.                        *)
MutExecOrder(c) ==
    /\ phase[c] = "none"
    /\ phase' = [phase EXCEPT ![c] = "queued"]
    /\ lock' = c
    /\ after' = [after EXCEPT ![c] = lock']
    /\ queueSize' = queueSize + 1
    /\ unlockedProm' = IF unlockedProm = Nobody THEN c ELSE unlockedProm
    /\ ticket' = [ticket EXCEPT ![c] = Cardinality(Called) + 1]
    /\ UNCHANGED awaits

Exec(c) ==
    /\ phase[c] = "none"
    /\ phase' = [phase EXCEPT ![c] = "queued"]
    /\ after' = [after EXCEPT ![c] = lock]
    /\ lock' = c
    /\ queueSize' = queueSize + 1
    /\ unlockedProm' = IF unlockedProm = Nobody THEN c ELSE unlockedProm
    /\ ticket' = [ticket EXCEPT ![c] = Cardinality(Called) + 1]
    /\ UNCHANGED awaits

(* currentLock.then: the action is called.  If it throws, the callback     *)
(* ends there and nothing will ever resolve this call's lock.              *)
Start(c) ==
    /\ phase[c] = "queued"
    /\ Resolved(after[c])
    /\ phase' = [phase EXCEPT ![c] = "running"]
    /\ UNCHANGED <<lock, after, queueSize, unlockedProm, awaits, ticket>>

StartThrows(c) ==
    /\ phase[c] = "queued"
    /\ Resolved(after[c])
    /\ phase' = [phase EXCEPT ![c] = "crashed"]
    /\ UNCHANGED <<lock, after, queueSize, unlockedProm, awaits, ticket>>

(* Mutant: unlockedProm is reset while calls are queued.                   *)
MutRelease(c) ==
    /\ phase[c] = "running"
    /\ phase' = [phase EXCEPT ![c] = "released"]
    /\ queueSize' = queueSize - 1
    /\ unlockedProm' = Nobody
    /\ awaits' = IF queueSize' = 0
                 THEN [w \in Waiters |-> IF awaits[w] = unlockedProm THEN "free" ELSE awaits[w]]
                 ELSE awaits
    /\ UNCHANGED <<lock, after, ticket>>

(* The function always: the promise of the action is resolved, or rejected *)
(* with a reason that guardedCatch lets through.                           *)
Release(c) ==
    /\ phase[c] = "running"
    /\ phase' = [phase EXCEPT ![c] = "released"]
    /\ queueSize' = queueSize - 1
    /\ IF queueSize' = 0
       THEN /\ unlockedProm' = Nobody
            /\ awaits' = [w \in Waiters |->
                            IF awaits[w] = unlockedProm THEN "free" ELSE awaits[w]]
       ELSE UNCHANGED <<unlockedProm, awaits>>
    /\ UNCHANGED <<lock, after, ticket>>

(* The promise is rejected with an Error: guardedCatch does not call       *)
(* always.                                                                 *)
Crash(c) ==
    /\ phase[c] = "running"
    /\ phase' = [phase EXCEPT ![c] = "crashed"]
    /\ UNCHANGED <<lock, after, queueSize, unlockedProm, awaits, ticket>>

(* Mutant: nothing is returned when the mutex is idle.                     *)
MutGetUnlockedDef(w) ==
    /\ awaits[w] = "none"
    /\ awaits' = [awaits EXCEPT ![w] = unlockedProm]
    /\ UNCHANGED <<lock, after, phase, queueSize, unlockedProm, ticket>>

GetUnlockedDef(w) ==
    /\ awaits[w] = "none"
    /\ awaits' = [awaits EXCEPT ![w] = IF unlockedProm = Nobody THEN "free" ELSE unlockedProm]
    /\ UNCHANGED <<lock, after, phase, queueSize, unlockedProm, ticket>>

MutexNext ==
    \/ \E c \in Calls : Exec(c) \/ Start(c) \/ StartThrows(c) \/ Release(c) \/ Crash(c)
    \/ \E w \in Waiters : GetUnlockedDef(w)

(* Callbacks of resolved promises are called; actions end, well or badly.  *)
MutexFairness ==
    /\ WF_mutexVars(\E c \in Calls : Start(c) \/ StartThrows(c))
    /\ WF_mutexVars(\E c \in Calls : Release(c) \/ Crash(c))

MutexSpec == MutexInit /\ [][MutexNext]_mutexVars

-----------------------------------------------------------------------------

(* The abstract view: the call that is running, or crashed while it was in *)
(* turn, is the one served.                                                *)
InService == {c \in Calls : phase[c] \in {"running", "crashed"}}
Serving == IF InService = {} THEN Nobody ELSE CHOOSE c \in InService : TRUE
Served == {c \in Calls : phase[c] = "released"}

Queue == INSTANCE SerialQueue WITH serving <- Serving, served <- Served

(* exec serializes: whatever the order in which promises settle, actions   *)
(* run one at a time and in the order of the calls of exec (the class's    *)
(* docstring: "the final state will be the result of the second            *)
(* execution").                                                            *)
Serialized == Queue!QueueSpec

InQueue == {c \in Calls : phase[c] \in {"queued", "running", "crashed"}}

(* The promise of getUnlockedDef is never an old one: as long as it is     *)
(* pending it is the current unlockedProm, there is one exactly while      *)
(* calls are in the queue, and queueSize counts them, so that the release  *)
(* of the last one resolves every waiter.                                  *)
WaitersOnCurrent ==
    /\ queueSize = Cardinality(InQueue)
    /\ unlockedProm = Nobody <=> queueSize = 0
    /\ \A w \in Waiters : awaits[w] \in Calls => awaits[w] = unlockedProm

(* Without a crash, every call of exec has its action run to the end: a    *)
(* queued call is not forgotten by the chain.                              *)
CallsEnd ==
    \A c \in Calls : phase[c] = "queued" ~> \/ phase[c] = "released"
                                            \/ \E d \in Calls : phase[d] = "crashed"
=============================================================================
