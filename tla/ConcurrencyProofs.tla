-------------------------- MODULE ConcurrencyProofs ---------------------------
(***************************************************************************)
(* The concurrency helpers of the web client, for any set of calls and     *)
(* waiters.                                                                *)
(*                                                                         *)
(* Mutex serializes: every behaviour of Mutex is one of SerialQueue, and   *)
(* whoever waits for the mutex waits for its current promise.  A call only *)
(* knows the call before it.  The invariant has to add what the chain of   *)
(* promises amounts to: the calls are numbered without gaps by ticket,     *)
(* each waits for the one numbered just below (Chain), and a call whose    *)
(* action was called has all lower ones behind it, released (InOrder).     *)
(* InOrder says it of all lower numbers, not only of the next one, so that *)
(* no induction along the chain is needed.                                 *)
(*                                                                         *)
(* A client of DropMisordered or DropPrevious never goes back to an        *)
(* earlier result, and MutexedDropPrevious starts the action of the last   *)
(* call only and never resolves an overtaken one.                          *)
(***************************************************************************)
EXTENDS Mutex, DropPrevious, MutexedDropPrevious, FiniteSetTheorems, TLAPS

Numbered ==
    /\ IsFiniteSet(Called)
    /\ \A c \in Calls : ticket[c] > 0 <=> c \in Called
    /\ \A c \in Called : ticket[c] <= Cardinality(Called)
    /\ \A c, d \in Called : ticket[c] = ticket[d] => c = d

LockIsLast ==
    /\ lock = Nobody => Called = {}
    /\ lock # Nobody => lock \in Called /\ ticket[lock] = Cardinality(Called)

Chain ==
    \A c \in Called :
        IF after[c] = Nobody THEN ticket[c] = 1
        ELSE after[c] \in Called /\ ticket[c] = ticket[after[c]] + 1

InOrder ==
    \A c, d \in Called :
        phase[c] # "queued" /\ ticket[d] < ticket[c] => phase[d] = "released"

IInv == /\ MutexTypeOK
        /\ Numbered /\ LockIsLast /\ Chain /\ InOrder
        /\ WaitersOnCurrent

-----------------------------------------------------------------------------

(* The sets the counters count are finite and contain the same calls as    *)
(* the set of all calls made.                                              *)
LEMMA QueueIsFinite ==
    ASSUME MutexTypeOK, IsFiniteSet(Called)
    PROVE  /\ IsFiniteSet(InQueue)
           /\ Cardinality(InQueue) \in Nat /\ Cardinality(Called) \in Nat
<1>1. InQueue \subseteq Called
  BY DEF InQueue, Called
<1> QED
  BY <1>1, FS_Subset, FS_CardinalityType

(* A call whose turn has come has every lower call behind it, released.    *)
LEMMA TurnMeansLowerReleased ==
    ASSUME IInv, NEW c \in Called, Resolved(after[c]),
           NEW d \in Called, ticket[d] < ticket[c]
    PROVE  phase[d] = "released"
<1>1. c \in Calls /\ d \in Calls /\ ticket[c] \in Nat /\ ticket[d] \in Nat /\ ticket[d] > 0
  BY DEF IInv, MutexTypeOK, Called, Numbered
<1>2. CASE after[c] = Nobody
  BY <1>1, <1>2 DEF IInv, Chain
<1>3. CASE after[c] # Nobody
  <2> DEFINE p == after[c]
  <2>1. p \in Called /\ ticket[c] = ticket[p] + 1 /\ ticket[p] \in Nat
    BY <1>3 DEF IInv, Chain, MutexTypeOK, Called
  <2>2. phase[p] = "released"
    BY <1>3 DEF Resolved
  <2>3. ticket[d] = ticket[p] \/ ticket[d] < ticket[p]
    BY <1>1, <2>1
  <2> QED
    BY <2>1, <2>2, <2>3 DEF IInv, Numbered, InOrder
<1> QED
  BY <1>2, <1>3

-----------------------------------------------------------------------------

LEMMA InitIInv == MutexInit => IInv
<1> SUFFICES ASSUME MutexInit PROVE IInv
  OBVIOUS
<1>1. Called = {} /\ InQueue = {}
  BY DEF MutexInit, Called, InQueue
<1>2. IsFiniteSet(Called) /\ Cardinality(InQueue) = 0
  BY <1>1, FS_EmptySet
<1>3. MutexTypeOK
  BY DEF MutexInit, MutexTypeOK, Phases, WaiterStates
<1>4. Numbered /\ LockIsLast /\ Chain /\ InOrder
  BY <1>1, <1>2 DEF MutexInit, Numbered, LockIsLast, Chain, InOrder
<1>5. WaitersOnCurrent
  BY <1>2, WaitersAssumption DEF MutexInit, WaitersOnCurrent
<1> QED
  BY <1>3, <1>4, <1>5 DEF IInv

(* Exec appends a call: it gets the next number and waits for the last.    *)
LEMMA ExecIInv ==
    ASSUME IInv, NEW c \in Calls, Exec(c)
    PROVE  IInv'
<1> USE DEF Exec
<1> DEFINE n == Cardinality(Called)
<1>0. /\ MutexTypeOK /\ Numbered /\ LockIsLast /\ Chain /\ InOrder /\ WaitersOnCurrent
      /\ c \notin Called /\ c # Nobody
  BY CallsAssumption DEF IInv, Called
<1>1. MutexTypeOK' /\ n \in Nat
  <2>1. n \in Nat
    BY <1>0, FS_CardinalityType DEF Numbered
  <2> QED
    BY <1>0, <2>1 DEF MutexTypeOK, Phases
<1>2. /\ Called' = Called \cup {c}
      /\ IsFiniteSet(Called')
      /\ Cardinality(Called') = n + 1
  <2>1. Called' = Called \cup {c}
    BY <1>0 DEF Called, MutexTypeOK
  <2> QED
    BY <1>0, <2>1, FS_AddElement DEF Numbered
<1>3. /\ ticket'[c] = n + 1
      /\ \A d \in Called : d # c /\ ticket'[d] = ticket[d] /\ ticket[d] \in Nat
                                /\ ticket[d] <= n
                                /\ phase'[d] = phase[d] /\ after'[d] = after[d]
  BY <1>0 DEF MutexTypeOK, Numbered, Called
<1>4. Numbered'
  <2>1. \A d \in Calls : ticket'[d] > 0 <=> d \in Called'
    BY <1>0, <1>1, <1>2 DEF Numbered, MutexTypeOK
  <2>2. \A d \in Called' : ticket'[d] <= n + 1
    BY <1>1, <1>2, <1>3
  <2>3. \A d, e \in Called' : ticket'[d] = ticket'[e] => d = e
    BY <1>0, <1>1, <1>2, <1>3 DEF Numbered
  <2> QED
    BY <1>2, <2>1, <2>2, <2>3 DEF Numbered
<1>5. LockIsLast'
  BY <1>0, <1>2, <1>3 DEF LockIsLast
<1>6. Chain'
  <2>1. after'[c] = lock
    BY <1>0 DEF MutexTypeOK
  <2>2. CASE lock = Nobody
    <3>1. Called = {} /\ n = 0
      BY <1>0, <2>2, FS_EmptySet DEF LockIsLast
    <3> QED
      BY <1>2, <1>3, <2>1, <2>2, <3>1 DEF Chain
  <2>3. CASE lock # Nobody
    BY <1>0, <1>2, <1>3, <2>1, <2>3 DEF Chain, LockIsLast
  <2> QED
    BY <2>2, <2>3
<1>7. InOrder'
  <2>1. phase'[c] = "queued"
    BY <1>0 DEF MutexTypeOK
  <2>2. \A d \in Called : ~(ticket'[c] < ticket'[d])
    BY <1>1, <1>3
  <2> QED
    BY <1>0, <1>2, <1>3, <2>1, <2>2 DEF InOrder
<1>8. WaitersOnCurrent'
  <2>1. InQueue' = InQueue \cup {c} /\ c \notin InQueue
    BY <1>0 DEF InQueue, Called, MutexTypeOK
  <2>2. /\ Cardinality(InQueue') = Cardinality(InQueue) + 1
        /\ Cardinality(InQueue) \in Nat
    BY <1>0, <2>1, QueueIsFinite, FS_AddElement DEF Numbered
  <2>3. queueSize' = Cardinality(InQueue') /\ queueSize' # 0
    BY <1>0, <2>2 DEF WaitersOnCurrent
  <2>4. unlockedProm' # Nobody
    BY <1>0
  <2>5. \A w \in Waiters : awaits[w] \notin Calls \/ unlockedProm # Nobody
    BY <1>0, CallsAssumption DEF WaitersOnCurrent
  <2> QED
    BY <1>0, <2>3, <2>4, <2>5 DEF WaitersOnCurrent
<1> QED
  BY <1>1, <1>4, <1>5, <1>6, <1>7, <1>8 DEF IInv

(* A step that moves one call on from a state of the queue, in order, and  *)
(* leaves the chain alone.                                                 *)
LEMMA MoveOn ==
    ASSUME IInv, MutexTypeOK', NEW c \in Called, NEW s \in Phases \ {"none", "queued"},
           phase' = [phase EXCEPT ![c] = s],
           phase[c] # "released",
           \A d \in Called : ticket[d] < ticket[c] => phase[d] = "released",
           UNCHANGED <<lock, after, ticket>>
    PROVE  Called' = Called /\ Numbered' /\ LockIsLast' /\ Chain' /\ InOrder'
<1>0. MutexTypeOK /\ Numbered /\ LockIsLast /\ Chain /\ InOrder /\ c \in Calls
  BY DEF IInv, Called
<1>1. Called' = Called
  BY <1>0 DEF Called, MutexTypeOK
<1>2. Numbered' /\ LockIsLast' /\ Chain'
  BY <1>0, <1>1 DEF Numbered, LockIsLast, Chain
<1>3. InOrder'
  BY <1>0, <1>1 DEF InOrder, MutexTypeOK, Called
<1> QED
  BY <1>1, <1>2, <1>3

(* Calls that start or crash keep their place in the queue.                *)
LEMMA StillQueued ==
    ASSUME IInv, NEW c \in Calls, NEW s \in {"running", "crashed"},
           phase[c] \in {"queued", "running"},
           phase' = [phase EXCEPT ![c] = s],
           UNCHANGED <<queueSize, unlockedProm, awaits>>
    PROVE  WaitersOnCurrent'
<1>1. InQueue' = InQueue
  BY DEF IInv, InQueue, MutexTypeOK
<1> QED
  BY <1>1 DEF IInv, WaitersOnCurrent

LEMMA StartIInv ==
    ASSUME IInv, NEW c \in Calls, Start(c) \/ StartThrows(c)
    PROVE  IInv'
<1> USE DEF Start, StartThrows
<1>1. PICK s \in {"running", "crashed"} : phase' = [phase EXCEPT ![c] = s]
  OBVIOUS
<1>2. c \in Called /\ phase[c] = "queued" /\ s \in Phases \ {"none", "queued"}
  BY DEF Called, Phases
<1>3. MutexTypeOK'
  BY <1>1, <1>2 DEF IInv, MutexTypeOK
<1>4. \A d \in Called : ticket[d] < ticket[c] => phase[d] = "released"
  BY <1>2, TurnMeansLowerReleased
<1>5. Called' = Called /\ Numbered' /\ LockIsLast' /\ Chain' /\ InOrder'
  BY <1>1, <1>2, <1>3, <1>4, MoveOn
<1>6. WaitersOnCurrent'
  BY <1>1, <1>2, StillQueued
<1> QED
  BY <1>3, <1>5, <1>6 DEF IInv

LEMMA CrashIInv ==
    ASSUME IInv, NEW c \in Calls, Crash(c)
    PROVE  IInv'
<1> USE DEF Crash
<1>1. c \in Called /\ "crashed" \in Phases \ {"none", "queued"}
  BY DEF Called, Phases
<1>2. MutexTypeOK'
  BY <1>1 DEF IInv, MutexTypeOK
<1>3. \A d \in Called : ticket[d] < ticket[c] => phase[d] = "released"
  BY <1>1 DEF IInv, InOrder
<1>4. Called' = Called /\ Numbered' /\ LockIsLast' /\ Chain' /\ InOrder'
  BY <1>1, <1>2, <1>3, MoveOn
<1>5. WaitersOnCurrent'
  BY StillQueued
<1> QED
  BY <1>2, <1>4, <1>5 DEF IInv

(* Release takes a call out of the queue; the last one frees the waiters.  *)
LEMMA ReleaseIInv ==
    ASSUME IInv, NEW c \in Calls, Release(c)
    PROVE  IInv'
<1> USE DEF Release
<1>0. MutexTypeOK /\ WaitersOnCurrent /\ IsFiniteSet(Called)
  BY DEF IInv, Numbered
<1>1. c \in Called /\ "released" \in Phases \ {"none", "queued"}
  BY DEF Called, Phases
<1>2. /\ InQueue' = InQueue \ {c} /\ c \in InQueue
      /\ Cardinality(InQueue) \in Nat
      /\ Cardinality(InQueue') = Cardinality(InQueue) - 1
      /\ Cardinality(InQueue') \in Nat
  <2>1. InQueue' = InQueue \ {c} /\ c \in InQueue
    BY <1>0 DEF InQueue, MutexTypeOK
  <2>2. IsFiniteSet(InQueue) /\ Cardinality(InQueue) \in Nat
    BY <1>0, QueueIsFinite
  <2>3. /\ IsFiniteSet(InQueue \ {c})
        /\ Cardinality(InQueue \ {c}) = Cardinality(InQueue) - 1
    BY <2>1, <2>2, FS_RemoveElement
  <2> QED
    BY <2>1, <2>2, <2>3, FS_CardinalityType
<1>3. queueSize = Cardinality(InQueue) /\ queueSize' = Cardinality(InQueue')
  BY <1>0, <1>2 DEF WaitersOnCurrent
<1>4. MutexTypeOK'
  <2>1. phase' \in [Calls -> Phases] /\ queueSize' \in Nat
    BY <1>0, <1>1, <1>2, <1>3 DEF MutexTypeOK
  <2>2. unlockedProm' \in Calls \cup {Nobody} /\ awaits' \in [Waiters -> WaiterStates]
    BY <1>0 DEF MutexTypeOK, WaiterStates
  <2> QED
    BY <1>0, <2>1, <2>2 DEF MutexTypeOK
<1>5. \A d \in Called : ticket[d] < ticket[c] => phase[d] = "released"
  BY <1>1 DEF IInv, InOrder
<1>6. Called' = Called /\ Numbered' /\ LockIsLast' /\ Chain' /\ InOrder'
  BY <1>1, <1>4, <1>5, MoveOn
<1>7. WaitersOnCurrent'
  <2>1. CASE queueSize' = 0
    <3>1. \A w \in Waiters : awaits'[w] \notin Calls
      BY <1>0, <2>1, WaitersAssumption DEF WaitersOnCurrent, MutexTypeOK
    <3> QED
      BY <1>3, <2>1, <3>1 DEF WaitersOnCurrent
  <2>2. CASE queueSize' # 0
    BY <1>0, <1>2, <1>3, <2>2 DEF WaitersOnCurrent
  <2> QED
    BY <2>1, <2>2
<1> QED
  BY <1>4, <1>6, <1>7 DEF IInv

LEMMA GetUnlockedDefIInv ==
    ASSUME IInv, NEW w \in Waiters, GetUnlockedDef(w)
    PROVE  IInv'
<1> USE DEF GetUnlockedDef
<1>1. MutexTypeOK'
  BY DEF IInv, MutexTypeOK, WaiterStates
<1>2. Numbered' /\ LockIsLast' /\ Chain' /\ InOrder'
  BY DEF IInv, Numbered, LockIsLast, Chain, InOrder, Called
<1>3. InQueue' = InQueue
  BY DEF InQueue
<1>4. WaitersOnCurrent'
  BY <1>3, WaitersAssumption DEF IInv, WaitersOnCurrent, MutexTypeOK
<1> QED
  BY <1>1, <1>2, <1>4 DEF IInv

LEMMA StepIInv == IInv /\ [MutexNext]_mutexVars => IInv'
<1> SUFFICES ASSUME IInv, [MutexNext]_mutexVars PROVE IInv'
  OBVIOUS
<1>1. CASE UNCHANGED mutexVars
  BY <1>1 DEF mutexVars, IInv, MutexTypeOK, Numbered, LockIsLast, Chain, InOrder,
              WaitersOnCurrent, Called, InQueue
<1>2. ASSUME NEW c \in Calls, Exec(c) PROVE IInv'
  BY <1>2, ExecIInv
<1>3. ASSUME NEW c \in Calls, Start(c) \/ StartThrows(c) PROVE IInv'
  BY <1>3, StartIInv
<1>4. ASSUME NEW c \in Calls, Release(c) PROVE IInv'
  BY <1>4, ReleaseIInv
<1>5. ASSUME NEW c \in Calls, Crash(c) PROVE IInv'
  BY <1>5, CrashIInv
<1>6. ASSUME NEW w \in Waiters, GetUnlockedDef(w) PROVE IInv'
  BY <1>6, GetUnlockedDefIInv
<1> QED
  BY <1>1, <1>2, <1>3, <1>4, <1>5, <1>6 DEF MutexNext

(* The inductive invariant of the mutex holds in every reachable state.    *)
THEOREM Invariance == MutexSpec => []IInv
<1>1. MutexInit => IInv
  BY InitIInv
<1>2. IInv /\ [MutexNext]_mutexVars => IInv'
  BY StepIInv
<1> QED
  BY <1>1, <1>2, PTL DEF MutexSpec

(* The promises getUnlockedDef has given out are the current one as long   *)
(* as they are pending, and there is a current one exactly while calls are *)
(* in the queue: whoever waits is resolved when the queue empties.         *)
THEOREM NobodyWaitsOnAnOldPromise == MutexSpec => []WaitersOnCurrent
<1>1. IInv => WaitersOnCurrent
  BY DEF IInv
<1> QED
  BY <1>1, Invariance, PTL

(* The variables of the mutex keep their types.                            *)
THEOREM TypeCorrect == MutexSpec => []MutexTypeOK
<1>1. IInv => MutexTypeOK
  BY DEF IInv
<1> QED
  BY <1>1, Invariance, PTL

-----------------------------------------------------------------------------

(* At most one call is in service, and Serving is it.                      *)
LEMMA OneServed ==
    ASSUME IInv
    PROVE  /\ InService = {} => Serving = Nobody
           /\ \A c \in InService : InService = {c} /\ Serving = c
<1>1. ASSUME NEW c \in InService, NEW d \in InService PROVE c = d
  <2>1. /\ c \in Called /\ d \in Called
        /\ phase[c] \notin {"queued", "released"} /\ phase[d] \notin {"queued", "released"}
    BY DEF InService, Called
  <2>2. ~(ticket[c] < ticket[d]) /\ ~(ticket[d] < ticket[c])
    BY <2>1 DEF IInv, InOrder
  <2>3. ticket[c] \in Nat /\ ticket[d] \in Nat
    BY <2>1 DEF IInv, MutexTypeOK, Called
  <2>4. ticket[c] = ticket[d]
    BY <2>2, <2>3
  <2> QED
    BY <2>1, <2>4 DEF IInv, Numbered
<1>2. \A c \in InService : InService = {c}
  BY <1>1
<1> QED
  BY <1>2 DEF Serving

LEMMA SubmittedAreCalled == ASSUME IInv PROVE Queue!Submitted = Called
  BY DEF IInv, Numbered, Queue!Submitted, Called

LEMMA InitRefines == MutexInit => Queue!QueueInit
<1> SUFFICES ASSUME MutexInit PROVE Queue!QueueInit
  OBVIOUS
<1>1. InService = {} /\ Served = {}
  BY DEF MutexInit, InService, Served
<1> QED
  BY <1>1 DEF MutexInit, Queue!QueueInit, Serving

(* Starting a call, or its throwing at once, serves the next submission.   *)
LEMMA StartServes ==
    ASSUME IInv, IInv', NEW c \in Calls, Start(c) \/ StartThrows(c)
    PROVE  Queue!Serve(c)
<1> USE DEF Start, StartThrows
<1>1. c \in Called /\ phase[c] = "queued"
  BY DEF Called
<1>2. \A d \in Called : ticket[d] < ticket[c] => phase[d] = "released"
  BY <1>1, TurnMeansLowerReleased
<1>3. InService = {}
  <2> SUFFICES ASSUME NEW d \in InService PROVE FALSE
    OBVIOUS
  <2>1. d \in Called /\ phase[d] \notin {"queued", "released"} /\ d # c
    BY <1>1 DEF InService, Called
  <2>2. ~(ticket[d] < ticket[c]) /\ ~(ticket[c] < ticket[d])
    BY <1>1, <1>2, <2>1 DEF IInv, InOrder
  <2>3. ticket[c] \in Nat /\ ticket[d] \in Nat
    BY <1>1, <2>1 DEF IInv, MutexTypeOK, Called
  <2>4. ticket[c] = ticket[d]
    BY <2>2, <2>3
  <2> QED
    BY <1>1, <2>1, <2>4 DEF IInv, Numbered
<1>4. Serving = Nobody
  BY <1>3 DEF Serving
<1>5. InService' = {c} /\ Served' = Served
  BY <1>1, <1>3 DEF IInv, MutexTypeOK, InService, Served
<1>6. Serving' = c
  BY <1>5 DEF Serving
<1>7. c \in Queue!Submitted \ Served
  BY <1>1, SubmittedAreCalled DEF Served
<1>8. \A d \in Queue!Submitted : ticket[d] < ticket[c] => d \in Served
  BY <1>2, SubmittedAreCalled DEF Served, Called
<1> QED
  BY <1>4, <1>5, <1>6, <1>7, <1>8 DEF Queue!Serve

LEMMA StepRefines ==
    ASSUME IInv, IInv', [MutexNext]_mutexVars
    PROVE  [Queue!QueueNext]_Queue!queueVars
<1> DEFINE Stutter == UNCHANGED <<ticket, Serving, Served>>
<1>0. MutexTypeOK
  BY DEF IInv
<1>1. ASSUME UNCHANGED mutexVars PROVE Stutter
  BY <1>1 DEF mutexVars, Serving, InService, Served
<1>2. ASSUME NEW c \in Calls, Exec(c) PROVE Queue!Submit(c)
  <2>1. InService' = InService /\ Served' = Served
    BY <1>0, <1>2 DEF Exec, InService, Served, MutexTypeOK
  <2>2. Serving' = Serving
    BY <2>1 DEF Serving
  <2>3. ticket[c] = 0
    BY <1>0, <1>2 DEF Exec, IInv, Numbered, Called, MutexTypeOK
  <2>4. ticket' = [ticket EXCEPT ![c] = ticket'[c]] /\ ticket'[c] = Cardinality(Called) + 1
    BY <1>0, <1>2 DEF Exec, MutexTypeOK
  <2>5. ASSUME NEW d \in Calls PROVE ticket[d] < ticket'[c]
    <3>1. Cardinality(Called) \in Nat /\ ticket[d] \in Nat
      BY <1>0, FS_CardinalityType DEF IInv, Numbered, MutexTypeOK
    <3>2. ticket[d] = 0 \/ ticket[d] <= Cardinality(Called)
      BY <3>1 DEF IInv, Numbered
    <3> QED
      BY <2>4, <3>1, <3>2
  <2> QED
    BY <2>1, <2>2, <2>3, <2>4, <2>5 DEF Queue!Submit
<1>3. ASSUME NEW c \in Calls, Start(c) \/ StartThrows(c) PROVE Queue!Serve(c)
  BY <1>3, StartServes
<1>4. ASSUME NEW c \in Calls, Release(c) PROVE Queue!Finish(c)
  <2>1. c \in InService
    BY <1>4 DEF Release, InService
  <2>2. InService = {c} /\ Serving = c
    BY <2>1, OneServed
  <2>3. InService' = {} /\ Served' = Served \cup {c}
    BY <1>0, <1>4, <2>2 DEF Release, InService, Served, MutexTypeOK
  <2>4. Serving' = Nobody
    BY <2>3 DEF Serving
  <2> QED
    BY <1>4, <2>2, <2>3, <2>4 DEF Release, Queue!Finish
<1>5. ASSUME NEW c \in Calls, Crash(c) PROVE Stutter
  <2>1. InService' = InService /\ Served' = Served
    BY <1>0, <1>5 DEF Crash, InService, Served, MutexTypeOK
  <2> QED
    BY <1>5, <2>1 DEF Crash, Serving
<1>6. ASSUME NEW w \in Waiters, GetUnlockedDef(w) PROVE Stutter
  BY <1>6 DEF GetUnlockedDef, Serving, InService, Served
<1>7. Stutter => UNCHANGED Queue!queueVars
  BY DEF Queue!queueVars
<1> QED
  BY <1>1, <1>2, <1>3, <1>4, <1>5, <1>6, <1>7 DEF MutexNext, Queue!QueueNext

(* The mutex implements the serial queue: whatever the order in which      *)
(* promises settle, and whichever actions crash, the actions run one at a  *)
(* time and in the order of the calls of exec.                             *)
THEOREM MutexSerializes == MutexSpec => Serialized
<1>1. MutexInit => Queue!QueueInit
  BY InitRefines
<1>2. IInv /\ IInv' /\ [MutexNext]_mutexVars => [Queue!QueueNext]_Queue!queueVars
  BY StepRefines
<1> QED
  BY <1>1, <1>2, Invariance, PTL DEF MutexSpec, Serialized, Queue!QueueSpec

-----------------------------------------------------------------------------

(* DropMisordered: what was received is at or below rsn.                   *)
ReceivedBelow == \A c \in Calls : result[c] = "resolved" => seq[c] <= rsn

OrderedInv == DropTypeOK /\ ReceivedBelow

(* Every action of DropMisordered keeps its invariant.                     *)
LEMMA OrderedStep == OrderedInv /\ [OrderedNext]_dropVars => OrderedInv'
<1> SUFFICES ASSUME OrderedInv, [OrderedNext]_dropVars PROVE OrderedInv'
  OBVIOUS
<1> USE DEF OrderedInv, DropTypeOK, ReceivedBelow, PromiseStates
<1>1. CASE UNCHANGED dropVars
  BY <1>1 DEF dropVars
<1>2. ASSUME NEW c \in Calls, Order(c) PROVE OrderedInv'
  BY <1>2 DEF Order, Added
<1>3. ASSUME NEW c \in Calls, Answer(c) PROVE OrderedInv'
  BY <1>3 DEF Answer
<1>4. ASSUME NEW c \in Calls, Receive(c) PROVE OrderedInv'
  BY <1>4 DEF Receive
<1>5. ASSUME NEW c \in Calls, ReceiveFailure(c) PROVE OrderedInv'
  BY <1>5 DEF ReceiveFailure
<1> QED
  BY <1>1, <1>2, <1>3, <1>4, <1>5 DEF OrderedNext

LEMMA OrderedInvariance == OrderedSpec => []OrderedInv
<1>1. DropInit => OrderedInv
  BY DEF DropInit, OrderedInv, DropTypeOK, ReceivedBelow, PromiseStates
<1> QED
  BY <1>1, OrderedStep, PTL DEF OrderedSpec

(* What a step of the helpers may not do: resolve a call when a later one  *)
(* is resolved already.                                                    *)
Forward ==
    \A c, d \in Calls :
        (result[c] = "resolved" /\ seq[d] < seq[c]) =>
            (result'[d] = "resolved" => result[d] = "resolved")

(* DropMisordered: results are used in the order of their requests, those  *)
(* that come after a later one are left out.                               *)
THEOREM MisorderedDropped == OrderedSpec => NeverGoesBack
<1>1. OrderedInv /\ [OrderedNext]_dropVars => [Forward]_dropVars
  <2> SUFFICES ASSUME OrderedInv, OrderedNext PROVE Forward
    BY DEF dropVars, Forward
  <2> USE DEF OrderedInv, DropTypeOK, ReceivedBelow, PromiseStates, Forward
  <2>1. ASSUME NEW c \in Calls, Order(c) PROVE Forward
    BY <2>1 DEF Order, Added
  <2>2. ASSUME NEW c \in Calls, Answer(c) PROVE Forward
    BY <2>2 DEF Answer
  <2>3. ASSUME NEW c \in Calls, Receive(c) PROVE Forward
    BY <2>3 DEF Receive
  <2>4. ASSUME NEW c \in Calls, ReceiveFailure(c) PROVE Forward
    BY <2>4 DEF ReceiveFailure
  <2> QED
    BY <2>1, <2>2, <2>3, <2>4 DEF OrderedNext
<1> QED
  BY <1>1, OrderedInvariance, PTL DEF OrderedSpec, NeverGoesBack, Forward

-----------------------------------------------------------------------------

(* DropPrevious: the current call is the last one, and the only one whose  *)
(* promise can be pending.                                                 *)
OnlyCurrentPending ==
    /\ \A c \in Calls : result[c] = "pending" => c = currentDef
    /\ \A c \in Calls : seq[c] < lsn
    /\ currentDef # Nobody => seq[currentDef] = lsn - 1

ReplacingInv == DropTypeOK /\ OnlyCurrentPending

LEMMA ReplacingStep == ReplacingInv /\ [ReplacingNext]_dropVars => ReplacingInv'
<1> SUFFICES ASSUME ReplacingInv, [ReplacingNext]_dropVars PROVE ReplacingInv'
  OBVIOUS
<1> USE CallsAssumption DEF ReplacingInv, DropTypeOK, OnlyCurrentPending, PromiseStates
<1>1. CASE UNCHANGED dropVars
  BY <1>1 DEF dropVars
<1>2. ASSUME NEW c \in Calls, Replace(c) PROVE ReplacingInv'
  <2>1. DropTypeOK'
    BY <1>2 DEF Replace, Added, Settle
  <2>2. OnlyCurrentPending'
    BY <1>2 DEF Replace, Added, Settle
  <2> QED
    BY <2>1, <2>2
<1>3. ASSUME NEW c \in Calls, Answer(c) PROVE ReplacingInv'
  BY <1>3 DEF Answer
<1>4. ASSUME NEW c \in Calls, Relay(c) PROVE ReplacingInv'
  BY <1>4 DEF Relay
<1>5. ASSUME NEW c \in Calls, ReceiveFailure(c) PROVE ReplacingInv'
  BY <1>5 DEF ReceiveFailure
<1> QED
  BY <1>1, <1>2, <1>3, <1>4, <1>5 DEF ReplacingNext

LEMMA ReplacingInvariance == ReplacingSpec => []ReplacingInv
<1>1. DropInit => ReplacingInv
  BY DEF DropInit, ReplacingInv, DropTypeOK, OnlyCurrentPending, PromiseStates
<1> QED
  BY <1>1, ReplacingStep, PTL DEF ReplacingSpec

(* DropPrevious: the result of an operation that was replaced is not used. *)
THEOREM PreviousDropped == ReplacingSpec => NeverGoesBack
<1>1. ReplacingInv /\ [ReplacingNext]_dropVars => [Forward]_dropVars
  <2> SUFFICES ASSUME ReplacingInv, ReplacingNext PROVE Forward
    BY DEF dropVars, Forward
  <2> USE CallsAssumption
      DEF ReplacingInv, DropTypeOK, OnlyCurrentPending, PromiseStates, Forward
  <2>1. ASSUME NEW c \in Calls, Replace(c) PROVE Forward
    BY <2>1 DEF Replace, Added, Settle
  <2>2. ASSUME NEW c \in Calls, Answer(c) PROVE Forward
    BY <2>2 DEF Answer
  <2>3. ASSUME NEW c \in Calls, Relay(c) PROVE Forward
    BY <2>3 DEF Relay
  <2>4. ASSUME NEW c \in Calls, ReceiveFailure(c) PROVE Forward
    BY <2>4 DEF ReceiveFailure
  <2> QED
    BY <2>1, <2>2, <2>3, <2>4 DEF ReplacingNext
<1> QED
  BY <1>1, ReplacingInvariance, PTL DEF ReplacingSpec, NeverGoesBack, Forward

-----------------------------------------------------------------------------

(***************************************************************************)
(* MutexedDropPrevious: a call that waits (pending) is the last one and is *)
(* not yet settled; the one that runs is the current one; an overtaken one *)
(* is rejected on the side that can still move, so that what happens later *)
(* to its other promise cannot resolve it.                                 *)
(***************************************************************************)
PendingIsLast ==
    pending # Nobody => /\ pending = last /\ pending # running /\ pending \notin overtaken
                        /\ prom[pending] = "pending" /\ inner[pending] = "none"

RunningIsCurrent ==
    running # Nobody =>
        /\ locked /\ current = running
        /\ IF isInner THEN inner[running] \in {"pending", "rejected"}
                      ELSE inner[running] = "none"

CurrentUnresolved ==
    locked => /\ current # Nobody /\ last # Nobody
              /\ running # Nobody => prom[current] \in {"pending", "rejected"}

OvertakenRejected ==
    \A c \in overtaken :
        /\ prom[c] \in {"pending", "rejected"}
        /\ inner[c] \in {"none", "rejected"}
        /\ prom[c] = "pending" => inner[c] = "rejected"

IdleIsEmpty == ~locked => pending = Nobody /\ running = Nobody

NewIsNew ==
    \A c \in Calls : prom[c] = "none" =>
        inner[c] = "none" /\ c \notin overtaken \cup {current, pending, running, last}

MDPInv == /\ MDPTypeOK /\ PendingIsLast /\ RunningIsCurrent /\ CurrentUnresolved
          /\ OvertakenRejected /\ IdleIsEmpty /\ NewIsNew

LEMMA MDPInitInv == MDPInit => MDPInv
  BY CallsAssumption
  DEF MDPInit, MDPInv, MDPTypeOK, PendingIsLast, RunningIsCurrent, CurrentUnresolved,
      OvertakenRejected, IdleIsEmpty, NewIsNew, PromiseStates

LEMMA ExecFreeInv ==
    ASSUME MDPInv, NEW c \in Calls, ExecFree(c)
    PROVE  MDPInv'
<1> USE CallsAssumption
    DEF MDPInv, MDPTypeOK, PendingIsLast, RunningIsCurrent, CurrentUnresolved,
        OvertakenRejected, IdleIsEmpty, NewIsNew, PromiseStates, ExecFree
<1>1. MDPTypeOK'
  OBVIOUS
<1>2. PendingIsLast' /\ IdleIsEmpty'
  OBVIOUS
<1>3. RunningIsCurrent' /\ CurrentUnresolved'
  OBVIOUS
<1>4. OvertakenRejected'
  OBVIOUS
<1>5. NewIsNew'
  OBVIOUS
<1> QED
  BY <1>1, <1>2, <1>3, <1>4, <1>5

LEMMA ExecLockedInv ==
    ASSUME MDPInv, NEW c \in Calls, ExecLocked(c)
    PROVE  MDPInv'
<1> USE CallsAssumption
    DEF MDPInv, MDPTypeOK, PendingIsLast, RunningIsCurrent, CurrentUnresolved,
        OvertakenRejected, IdleIsEmpty, NewIsNew, PromiseStates, ExecLocked, Settle
<1>1. MDPTypeOK'
  OBVIOUS
<1>2. PendingIsLast' /\ IdleIsEmpty'
  OBVIOUS
<1>3. RunningIsCurrent' /\ CurrentUnresolved'
  OBVIOUS
<1>4. OvertakenRejected'
  OBVIOUS
<1>5. NewIsNew'
  OBVIOUS
<1> QED
  BY <1>1, <1>2, <1>3, <1>4, <1>5

LEMMA EndActionInv ==
    ASSUME MDPInv, NEW outcome \in {"resolved", "rejected"}, EndAction(outcome)
    PROVE  MDPInv'
<1> USE CallsAssumption
    DEF MDPInv, MDPTypeOK, PendingIsLast, RunningIsCurrent, CurrentUnresolved,
        OvertakenRejected, IdleIsEmpty, NewIsNew, PromiseStates, EndAction, Settle
<1>1. MDPTypeOK'
  OBVIOUS
<1>2. PendingIsLast' /\ IdleIsEmpty'
  OBVIOUS
<1>3. RunningIsCurrent' /\ CurrentUnresolved'
  OBVIOUS
<1>4. OvertakenRejected'
  OBVIOUS
<1>5. NewIsNew'
  OBVIOUS
<1> QED
  BY <1>1, <1>2, <1>3, <1>4, <1>5

LEMMA CrashActionInv == ASSUME MDPInv, CrashAction PROVE MDPInv'
<1> USE CallsAssumption
    DEF MDPInv, MDPTypeOK, PendingIsLast, RunningIsCurrent, CurrentUnresolved,
        OvertakenRejected, IdleIsEmpty, NewIsNew, PromiseStates, CrashAction, Settle
<1>1. MDPTypeOK'
  OBVIOUS
<1>2. PendingIsLast' /\ IdleIsEmpty'
  OBVIOUS
<1>3. RunningIsCurrent' /\ CurrentUnresolved'
  OBVIOUS
<1>4. OvertakenRejected'
  OBVIOUS
<1>5. NewIsNew'
  OBVIOUS
<1> QED
  BY <1>1, <1>2, <1>3, <1>4, <1>5

LEMMA RelayInnerInv ==
    ASSUME MDPInv, NEW c \in Calls, RelayInner(c)
    PROVE  MDPInv'
<1> USE CallsAssumption
    DEF MDPInv, MDPTypeOK, PendingIsLast, RunningIsCurrent, CurrentUnresolved,
        OvertakenRejected, IdleIsEmpty, NewIsNew, PromiseStates, RelayInner
<1>1. MDPTypeOK'
  OBVIOUS
<1>2. PendingIsLast' /\ IdleIsEmpty'
  OBVIOUS
<1>3. RunningIsCurrent' /\ CurrentUnresolved'
  OBVIOUS
<1>4. OvertakenRejected'
  OBVIOUS
<1>5. NewIsNew'
  OBVIOUS
<1> QED
  BY <1>1, <1>2, <1>3, <1>4, <1>5

LEMMA MDPStep == MDPInv /\ [MDPNext]_mdpVars => MDPInv'
<1> SUFFICES ASSUME MDPInv, [MDPNext]_mdpVars PROVE MDPInv'
  OBVIOUS
<1>1. CASE UNCHANGED mdpVars
  BY <1>1 DEF mdpVars, MDPInv, MDPTypeOK, PendingIsLast, RunningIsCurrent,
              CurrentUnresolved, OvertakenRejected, IdleIsEmpty, NewIsNew
<1>2. CASE MDPNext
  BY <1>2, ExecFreeInv, ExecLockedInv, RelayInnerInv, EndActionInv, CrashActionInv DEF MDPNext
<1> QED
  BY <1>1, <1>2

LEMMA MDPInvariance == MDPSpec => []MDPInv
  BY MDPInitInv, MDPStep, PTL DEF MDPSpec

(* "only the promise returned by the last exec call will be resolved": a   *)
(* call overtaken before its action ended is not.                          *)
THEOREM OvertakenAreNotResolved == MDPSpec => []OvertakenNotResolved
<1>1. MDPInv => OvertakenNotResolved
  BY DEF MDPInv, OvertakenRejected, OvertakenNotResolved
<1> QED
  BY <1>1, MDPInvariance, PTL

(* No action is called for a call that is not the last: useless rpcs are   *)
(* skipped.                                                                *)
THEOREM OnlyLastStarts == MDPSpec => StartsLastOnly
<1>1. MDPInv /\ [MDPNext]_mdpVars =>
        [running' \notin {running, Nobody} => running' = last']_mdpVars
  <2> SUFFICES ASSUME MDPInv, MDPNext, running' \notin {running, Nobody}
               PROVE  running' = last'
    OBVIOUS
  <2>1. ASSUME NEW c \in Calls, ExecFree(c) PROVE running' = last'
    BY <2>1 DEF ExecFree
  <2>2. ASSUME NEW outcome \in {"resolved", "rejected"}, EndAction(outcome)
        PROVE  running' = last'
    BY <2>2 DEF EndAction, MDPInv, PendingIsLast
  <2> QED
    BY <2>1, <2>2 DEF MDPNext, ExecLocked, RelayInner, CrashAction
<1> QED
  BY <1>1, MDPInvariance, PTL DEF MDPSpec, StartsLastOnly
=============================================================================
