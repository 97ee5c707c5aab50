----------------------- MODULE RegistrySignalingProofs -----------------------
(***************************************************************************)
(* For any worker processes, keys and bounds: what a process keeps between *)
(* two requests was committed, and a process that only reads, and whose    *)
(* next check_signaling would find nothing, is up to date.                 *)
(*                                                                         *)
(* NoDirtyEntry rests on the flags: what a transaction wrote, and nothing  *)
(* else, may be cached uncommitted (OwnOrCommitted), and as long as it may  *)
(* abort a flag is up (FlagUp) for reset_changes to see.  A retry and a     *)
(* COMMIT that fails leave such versions behind, and no others.             *)
(* ReadersCoherent rests on the order of a request: an entry, a class or a  *)
(* snapshot that is behind a commit whose signal was given means a sequence *)
(* number that is behind too (ReadersBehind).  A request signals after its  *)
(* commit, when its row locks are gone; a job signals before, and takes its *)
(* snapshot before it checks: jobs may write, and are not among the readers *)
(* of the second theorem (the run registry_cron shows why).                 *)
(***************************************************************************)
EXTENDS RegistrySignaling, TLAPS

Quiet ==
    \A p \in Procs :
        pc[p] \in {"idle", "open", "seen", "ready", "booting"} => wrote[p] = {}

\* Snapshots are of committed versions.
KnownVersions ==
    /\ 0 \in committed
    /\ \A i \in Items : data[i] \in committed
    /\ \A p \in Procs : \A i \in Items \ wrote[p] : view[p][i] \in committed

\* As long as a transaction has changes that no signal has announced.
FlagUp ==
    \A p \in Procs :
        pc[p] = "active" \/ (pc[p] = "done" /\ p \notin Cron) =>
            /\ wrote[p] # {} => regInv[p] \/ cacheInv[p]
            /\ Schema \in wrote[p] => regInv[p]

RequestIsCommitted ==
    \A p \in Procs \ Cron : pc[p] = "done" => Written(p) \subseteq committed

OwnOrCommitted ==
    \A p \in Procs :
        /\ \/ models[p] \in committed \cup lost[p]
           \/ Schema \in wrote[p] /\ models[p] = view[p][Schema]
        /\ \A k \in Keys : \/ cache[p][k] \in committed \cup lost[p] \cup {None}
                           \/ k \in wrote[p] /\ cache[p][k] = view[p][k]

IInv == TypeOK /\ Quiet /\ KnownVersions /\ FlagUp /\ RequestIsCommitted /\ OwnOrCommitted

SeqsBehind ==
    \A p \in Procs :
        /\ mySeqs[p].reg <= regSeq /\ mySeqs[p].cache <= cacheSeq
        /\ seen[p].reg <= regSeq /\ seen[p].cache <= cacheSeq

ReadersWriteNothing ==
    \A p \in Procs \ Writers : wrote[p] = {} /\ ~regInv[p] /\ ~cacheInv[p]

\* The next check_signaling drops the cache.
Behind(p) == mySeqs[p].reg < regSeq \/ mySeqs[p].cache < cacheSeq

\* The version v of i is the one committed last, or no signal followed this.
UpToDate(v, i) == v = data[i] \/ i \in unsignaled

ReadersBehind ==
    \A p \in Procs \ (Writers \cup Cron) :
        /\ pc[p] = "booting" \/ UpToDate(models[p], Schema) \/ mySeqs[p].reg < regSeq
        /\ \A k \in Keys : cache[p][k] = None \/ UpToDate(cache[p][k], k) \/ Behind(p)
        /\ pc[p] = "active" => \A k \in Keys : UpToDate(view[p][k], k) \/ Behind(p)

RInv == SeqsBehind /\ ReadersWriteNothing /\ ReadersBehind

-----------------------------------------------------------------------------
(* The end of a transaction. *)
LEMMA ForgetFacts ==
    ASSUME TypeOK, NEW p \in Procs, Forget(p)
    PROVE  /\ view' \in [Procs -> [Items -> Nat]]
           /\ wrote' \in [Procs -> SUBSET Items]
           /\ tries' \in [Procs -> 0..MaxTries]
           /\ wrote'[p] = {} /\ \A i \in Items : view'[p][i] = 0
           /\ \A q \in Procs \ {p} : view'[q] = view[q] /\ wrote'[q] = wrote[q]
  <1>1. Zero \in [Items -> Nat] /\ \A i \in Items : Zero[i] = 0
        BY DEF Zero
  <1> QED
      BY <1>1, RegistryAssumption DEF TypeOK, Forget

LEMMA CheckReadIInv == ASSUME IInv, NEW p \in Procs, CheckRead(p) PROVE IInv'
  <1> USE RegistryAssumption DEF IInv, CheckRead, Goto, registry, history
  <1>1. TypeOK'
        BY DEF TypeOK, PCs, Seqs, Items, Empty, Zero, NoSeqs, LastValues, Quiet, KnownVersions
  <1>2. Quiet'
        BY DEF TypeOK, Quiet
  <1>3. KnownVersions'
        BY DEF TypeOK, KnownVersions, Zero, Items
  <1>4. FlagUp'
        BY DEF TypeOK, FlagUp, Quiet
  <1>5. RequestIsCommitted'
        BY DEF TypeOK, RequestIsCommitted, Written, Items
  <1>6. OwnOrCommitted'
        BY DEF TypeOK, OwnOrCommitted, KnownVersions, Quiet, FlagUp, Items, Empty, Zero
  <1> QED
      BY <1>1, <1>2, <1>3, <1>4, <1>5, <1>6

LEMMA CheckApplyIInv == ASSUME IInv, NEW p \in Procs, CheckApply(p) PROVE IInv'
  <1> USE RegistryAssumption DEF IInv, CheckApply, Goto, registry, history, DropsCache
  <1>1. TypeOK'
        BY DEF TypeOK, PCs, Seqs, Items, Empty, Zero, NoSeqs, LastValues, Quiet, KnownVersions
  <1>2. Quiet'
        BY DEF TypeOK, Quiet
  <1>3. KnownVersions'
        BY DEF TypeOK, KnownVersions, Zero, Items
  <1>4. FlagUp'
        BY DEF TypeOK, FlagUp, Quiet
  <1>5. RequestIsCommitted'
        BY DEF TypeOK, RequestIsCommitted, Written, Items
  <1>6. OwnOrCommitted'
        BY DEF TypeOK, OwnOrCommitted, KnownVersions, Quiet, FlagUp, Items, Empty, Zero
  <1> QED
      BY <1>1, <1>2, <1>3, <1>4, <1>5, <1>6

LEMMA BeginIInv == ASSUME IInv, NEW p \in Procs, Begin(p) PROVE IInv'
  <1> USE RegistryAssumption DEF IInv, Begin, Goto, registry, history
  <1>1. TypeOK'
        BY DEF TypeOK, PCs, Seqs, Items, Empty, Zero, NoSeqs, LastValues, Quiet, KnownVersions
  <1>2. Quiet'
        BY DEF TypeOK, Quiet
  <1>3. KnownVersions'
        BY DEF TypeOK, KnownVersions, Zero, Items
  <1>4. FlagUp'
        BY DEF TypeOK, FlagUp, Quiet
  <1>5. RequestIsCommitted'
        BY DEF TypeOK, RequestIsCommitted, Written, Items
  <1>6. OwnOrCommitted'
        BY DEF TypeOK, OwnOrCommitted, KnownVersions, Quiet, FlagUp, Items, Empty, Zero
  <1> QED
      BY <1>1, <1>2, <1>3, <1>4, <1>5, <1>6

LEMMA ReadIInv == ASSUME IInv, NEW p \in Procs, NEW k \in Keys, Read(p, k) PROVE IInv'
  <1> USE RegistryAssumption DEF IInv, Read, Goto, registry, history
  <1>1. TypeOK'
    <2>1. cache' \in [Procs -> [Keys -> Nat \cup {None}]]
      <3>1. view[p][k] \in Nat /\ cache[p] \in [Keys -> Nat \cup {None}]
            BY DEF TypeOK, Items
      <3>2. [cache[p] EXCEPT ![k] = view[p][k]] \in [Keys -> Nat \cup {None}]
            BY <3>1
      <3>3. cache' = [cache EXCEPT ![p] = [cache[p] EXCEPT ![k] = view[p][k]]]
            BY DEF TypeOK
      <3> QED
          BY <3>2, <3>3 DEF TypeOK
    <2> QED
        BY <2>1 DEF TypeOK
  <1>2. Quiet'
        BY DEF TypeOK, Quiet
  <1>3. KnownVersions'
        BY DEF TypeOK, KnownVersions, Zero, Items
  <1>4. FlagUp'
        BY DEF TypeOK, FlagUp, Quiet
  <1>5. RequestIsCommitted'
        BY DEF TypeOK, RequestIsCommitted, Written, Items
  <1>6. OwnOrCommitted'
        BY DEF TypeOK, OwnOrCommitted, KnownVersions, Quiet, FlagUp, Items, Empty, Zero
  <1> QED
      BY <1>1, <1>2, <1>3, <1>4, <1>5, <1>6

LEMMA WriteIInv == ASSUME IInv, NEW p \in Procs, NEW k \in Keys, Write(p, k) PROVE IInv'
  <1> USE RegistryAssumption DEF IInv, Write, Goto, registry, history, CanWrite, DoWrite,
     Conflict, Locks
  <1>1. TypeOK'
        BY DEF TypeOK, PCs, Seqs, Items, Empty, Zero, NoSeqs, LastValues, Quiet, KnownVersions
  <1>2. Quiet'
        BY DEF TypeOK, Quiet
  <1>3. KnownVersions'
        BY DEF TypeOK, KnownVersions, Zero, Items
  <1>4. FlagUp'
        BY DEF TypeOK, FlagUp, Quiet
  <1>5. RequestIsCommitted'
        BY DEF TypeOK, RequestIsCommitted, Written, Items
  <1>6. OwnOrCommitted'
        BY DEF TypeOK, OwnOrCommitted, KnownVersions, Quiet, FlagUp, Items, Empty, Zero
  <1> QED
      BY <1>1, <1>2, <1>3, <1>4, <1>5, <1>6

LEMMA AlterIInv == ASSUME IInv, NEW p \in Procs, Alter(p) PROVE IInv'
  <1> USE RegistryAssumption DEF IInv, Alter, Goto, registry, history, CanWrite, DoWrite,
     Conflict, Locks
  <1>1. TypeOK'
        BY DEF TypeOK, PCs, Seqs, Items, Empty, Zero, NoSeqs, LastValues, Quiet, KnownVersions
  <1>2. Quiet'
        BY DEF TypeOK, Quiet
  <1>3. KnownVersions'
        BY DEF TypeOK, KnownVersions, Zero, Items
  <1>4. FlagUp'
        BY DEF TypeOK, FlagUp, Quiet
  <1>5. RequestIsCommitted'
        BY DEF TypeOK, RequestIsCommitted, Written, Items
  <1>6. OwnOrCommitted'
        BY DEF TypeOK, OwnOrCommitted, KnownVersions, Quiet, FlagUp, Items, Empty, Zero
  <1> QED
      BY <1>1, <1>2, <1>3, <1>4, <1>5, <1>6

LEMMA RetryIInv == ASSUME IInv, NEW p \in Procs, Retry(p) PROVE IInv'
  <1> USE RegistryAssumption DEF IInv, Retry, Loses, Written, Goto, registry, history
  <1>1. TypeOK'
    <2>1. /\ view' \in [Procs -> [Items -> Nat]] /\ wrote' \in [Procs -> SUBSET Items]
          /\ tries' \in [Procs -> 0..MaxTries]
          BY DEF TypeOK
    <2> QED
        BY <2>1 DEF TypeOK
  <1>2. Quiet'
        BY DEF TypeOK, Quiet
  <1>3. KnownVersions'
        BY DEF TypeOK, KnownVersions, Zero, Items
  <1>4. FlagUp'
        BY DEF TypeOK, FlagUp, Quiet
  <1>5. RequestIsCommitted'
        BY DEF TypeOK, RequestIsCommitted, Written, Items
  <1>6. OwnOrCommitted'
        BY DEF TypeOK, OwnOrCommitted, KnownVersions, Quiet, FlagUp, Items, Empty, Zero
  <1> QED
      BY <1>1, <1>2, <1>3, <1>4, <1>5, <1>6

LEMMA CommitIInv == ASSUME IInv, NEW p \in Procs, Commit(p) PROVE IInv'
  <1> USE RegistryAssumption DEF IInv, Commit, AtCommit, Goto, registry, history, Written
  <1>1. TypeOK'
    <2>1. data' \in [Items -> Nat]
          BY DEF TypeOK
    <2>2. Written(p) \subseteq Nat
          BY DEF TypeOK
    <2>3. committed' \subseteq Nat /\ unsignaled' \subseteq Items
          BY <2>2 DEF TypeOK
    <2>4. CASE p \in Cron
          BY <2>1, <2>3, <2>4, ForgetFacts DEF TypeOK, PCs
    <2>5. CASE p \notin Cron
          BY <2>1, <2>3, <2>5 DEF TypeOK, PCs
    <2> QED
        BY <2>4, <2>5
  <1>2. Quiet'
        BY ForgetFacts DEF TypeOK, Quiet
  <1>3. KnownVersions'
    <2>1. 0 \in committed' /\ \A i \in Items : data'[i] \in committed'
          BY DEF KnownVersions
    <2>2. CASE p \in Cron
          BY <2>1, <2>2, ForgetFacts DEF KnownVersions
    <2>3. CASE p \notin Cron
          BY <2>1, <2>3 DEF TypeOK, KnownVersions
    <2> QED
        BY <2>2, <2>3
  <1>4. FlagUp'
        BY ForgetFacts DEF TypeOK, FlagUp, Quiet
  <1>5. RequestIsCommitted'
    <2>1. CASE p \in Cron
          BY <2>1, ForgetFacts DEF TypeOK, RequestIsCommitted
    <2>2. CASE p \notin Cron
          BY <2>2, ForgetFacts DEF TypeOK, RequestIsCommitted
    <2> QED
        BY <2>1, <2>2
  <1>6. OwnOrCommitted'
    <2> SUFFICES ASSUME NEW q \in Procs
                 PROVE  OwnOrCommitted!(q)'
        BY DEF OwnOrCommitted
    <2>1. OwnOrCommitted!(q)
          BY DEF OwnOrCommitted
    <2>2. CASE q # p
          BY <2>1, <2>2, ForgetFacts DEF TypeOK
    <2>3. CASE q = p
      <3>1. \A i \in wrote[p] : view[p][i] \in committed'
            OBVIOUS
      <3> QED
          BY <2>1, <2>3, <3>1, ForgetFacts
    <2> QED
        BY <2>2, <2>3
  <1> QED
      BY <1>1, <1>2, <1>3, <1>4, <1>5, <1>6

LEMMA SignalIInv == ASSUME IInv, NEW p \in Procs, Signal(p) PROVE IInv'
  <1> USE RegistryAssumption DEF IInv, Signal, Goto, registry, history, SignalsCache, Written
  <1>1. TypeOK'
    <2>1. regSeq' \in Nat /\ cacheSeq' \in Nat
          BY DEF TypeOK
    <2>4. mySeqs' \in [Procs -> Seqs]
      <3>1. mySeqs[p] \in Seqs
            BY DEF TypeOK
      <3>2. mySeqs'[p] \in Seqs
            BY <2>1, <3>1 DEF TypeOK, Seqs
      <3> QED
          BY <3>2 DEF TypeOK
    <2>2. CASE p \in Cron
          BY <2>1, <2>2, <2>4 DEF TypeOK, PCs
    <2>3. CASE p \notin Cron
          BY <2>1, <2>3, <2>4, ForgetFacts DEF TypeOK, PCs
    <2> QED
        BY <2>2, <2>3
  <1>2. Quiet'
        BY ForgetFacts DEF TypeOK, Quiet
  <1>3. KnownVersions'
    <2>1. CASE p \in Cron
          BY <2>1 DEF TypeOK, KnownVersions
    <2>2. CASE p \notin Cron
          BY <2>2, ForgetFacts DEF KnownVersions
    <2> QED
        BY <2>1, <2>2
  <1>4. FlagUp'
        BY ForgetFacts DEF TypeOK, FlagUp, Quiet
  <1>5. RequestIsCommitted'
    <2>1. CASE p \in Cron
          BY <2>1, ForgetFacts DEF TypeOK, RequestIsCommitted
    <2>2. CASE p \notin Cron
          BY <2>2, ForgetFacts DEF TypeOK, RequestIsCommitted
    <2> QED
        BY <2>1, <2>2
  <1>6. OwnOrCommitted'
    <2>1. CASE p \in Cron
          BY <2>1 DEF TypeOK, OwnOrCommitted
    <2>2. CASE p \notin Cron
      <3>1. \A i \in wrote[p] : view[p][i] \in committed
            BY <2>2 DEF RequestIsCommitted
      <3> SUFFICES ASSUME NEW q \in Procs
                   PROVE  OwnOrCommitted!(q)'
          BY DEF OwnOrCommitted
      <3>2. OwnOrCommitted!(q)
            BY DEF OwnOrCommitted
      <3>3. CASE q # p
            BY <2>2, <3>2, <3>3, ForgetFacts
      <3>4. CASE q = p
            BY <2>2, <3>1, <3>2, <3>4, ForgetFacts
      <3> QED
          BY <3>3, <3>4
    <2> QED
        BY <2>1, <2>2
  <1> QED
      BY <1>1, <1>2, <1>3, <1>4, <1>5, <1>6

LEMMA AbortIInv == ASSUME IInv, NEW p \in Procs, Abort(p) PROVE IInv'
  <1> USE RegistryAssumption DEF IInv, Abort, Reset, Goto, registry, history, Forget, ResetCache
  <1>1. TypeOK'
    <2>1. cache' \in [Procs -> [Keys -> Nat \cup {None}]] /\ models' \in [Procs -> Nat]
          BY DEF TypeOK, Items, Empty
    <2>2. view' \in [Procs -> [Items -> Nat]] /\ wrote' \in [Procs -> SUBSET Items]
          BY DEF TypeOK, Zero
    <2> QED
        BY <2>1, <2>2 DEF TypeOK, PCs
  <1>2. Quiet'
        BY DEF TypeOK, Quiet
  <1>3. KnownVersions'
        BY DEF TypeOK, KnownVersions, Zero, Items
  <1>4. FlagUp'
        BY DEF TypeOK, FlagUp, Quiet
  <1>5. RequestIsCommitted'
        BY DEF TypeOK, RequestIsCommitted, Written, Items
  <1>6. OwnOrCommitted'
        BY DEF TypeOK, OwnOrCommitted, KnownVersions, Quiet, FlagUp, Items, Empty, Zero
  <1> QED
      BY <1>1, <1>2, <1>3, <1>4, <1>5, <1>6

LEMMA CommitFailsIInv == ASSUME IInv, NEW p \in Procs, CommitFails(p) PROVE IInv'
  <1> USE RegistryAssumption DEF IInv, CommitFails, AtCommit, Fault, Loses, Goto, registry, Written
  <1>1. TypeOK'
    <2>1. Written(p) \subseteq Nat
          BY DEF TypeOK
    <2>2. lost' \in [Procs -> SUBSET Nat]
          BY <2>1 DEF TypeOK
    <2> QED
        BY <2>2, ForgetFacts DEF TypeOK, PCs
  <1>2. Quiet'
        BY ForgetFacts DEF TypeOK, Quiet
  <1>3. KnownVersions'
        BY ForgetFacts DEF KnownVersions
  <1>4. FlagUp'
        BY ForgetFacts DEF TypeOK, FlagUp, Quiet
  <1>5. RequestIsCommitted'
        BY ForgetFacts DEF TypeOK, RequestIsCommitted
  <1>6. OwnOrCommitted'
    <2> SUFFICES ASSUME NEW q \in Procs
                 PROVE  OwnOrCommitted!(q)'
        BY DEF OwnOrCommitted
    <2>1. OwnOrCommitted!(q)
          BY DEF OwnOrCommitted
    <2>2. CASE q # p
          BY <2>1, <2>2, ForgetFacts DEF TypeOK
    <2>3. CASE q = p
      <3>1. lost'[p] = lost[p] \cup Written(p)
            BY DEF TypeOK
      <3> QED
          BY <2>1, <2>3, <3>1
    <2> QED
        BY <2>2, <2>3
  <1> QED
      BY <1>1, <1>2, <1>3, <1>4, <1>5, <1>6

LEMMA SignalFailsIInv == ASSUME IInv, NEW p \in Procs, SignalFails(p) PROVE IInv'
  <1> USE RegistryAssumption DEF IInv, SignalFails, Fault, Goto
  <1>1. /\ cache' \in [Procs -> [Keys -> Nat \cup {None}]] /\ models' \in [Procs -> Nat]
        /\ regInv' \in [Procs -> BOOLEAN] /\ cacheInv' \in [Procs -> BOOLEAN]
        /\ lost' \in [Procs -> SUBSET Nat]
    <2>1. CASE Reset(p)
          BY <2>1 DEF TypeOK, Items, Empty, Reset, ResetCache
    <2>2. CASE UNCHANGED <<cache, models, regInv, cacheInv, lost>>
          BY <2>2 DEF TypeOK
    <2> QED
        BY <2>1, <2>2
  <1>2. TypeOK'
    <2>1. /\ view' \in [Procs -> [Items -> Nat]] /\ wrote' \in [Procs -> SUBSET Items]
          /\ tries' \in [Procs -> 0..MaxTries]
          /\ wrote'[p] = {} /\ \A q \in Procs \ {p} : wrote'[q] = wrote[q]
          BY ForgetFacts
    <2> HIDE DEF IInv
    <2>2. TypeOK
          BY DEF IInv
    <2> QED
        BY <1>1, <2>1, <2>2 DEF TypeOK, PCs
  <1>3. Quiet'
        BY ForgetFacts DEF TypeOK, Quiet
  <1>4. KnownVersions'
        BY ForgetFacts DEF KnownVersions
  <1>5. FlagUp'
        BY ForgetFacts DEF TypeOK, FlagUp, Quiet, Reset
  <1>6. RequestIsCommitted'
        BY ForgetFacts DEF TypeOK, RequestIsCommitted, Written
  <1>7. OwnOrCommitted'
    <2> SUFFICES ASSUME NEW q \in Procs
                 PROVE  OwnOrCommitted!(q)'
        BY DEF OwnOrCommitted
    <2>1. OwnOrCommitted!(q)
          BY DEF OwnOrCommitted
    <2>2. CASE q # p
          BY <2>1, <2>2, ForgetFacts DEF TypeOK, Reset
    <2>3. CASE q = p
      <3>1. \A i \in wrote[p] : view[p][i] \in committed
            BY DEF RequestIsCommitted, Written
      <3>2. /\ models[p] \in committed \cup lost[p]
            /\ \A k \in Keys : cache[p][k] \in committed \cup lost[p] \cup {None}
            BY <2>1, <2>3, <3>1
      <3>3. CASE UNCHANGED <<cache, models, regInv, cacheInv, lost>>
            BY <2>3, <3>2, <3>3
      <3>4. CASE Reset(p)
            BY <2>3, <3>2, <3>4 DEF TypeOK, KnownVersions, Reset, ResetCache, Empty, Items
      <3> QED
          BY <3>3, <3>4
    <2> QED
        BY <2>2, <2>3
  <1> QED
      BY <1>2, <1>3, <1>4, <1>5, <1>6, <1>7

LEMMA CrashIInv == ASSUME IInv, NEW p \in Procs, Crash(p) PROVE IInv'
  <1> USE RegistryAssumption DEF IInv, Crash, Fault, Goto, registry, history, Forget
  <1>1. TypeOK'
        BY DEF TypeOK, PCs, Seqs, Items, Empty, Zero, NoSeqs, LastValues, Quiet, KnownVersions
  <1>2. Quiet'
        BY DEF TypeOK, Quiet
  <1>3. KnownVersions'
        BY DEF TypeOK, KnownVersions, Zero, Items
  <1>4. FlagUp'
        BY DEF TypeOK, FlagUp, Quiet
  <1>5. RequestIsCommitted'
        BY DEF TypeOK, RequestIsCommitted, Written, Items
  <1>6. OwnOrCommitted'
        BY DEF TypeOK, OwnOrCommitted, KnownVersions, Quiet, FlagUp, Items, Empty, Zero
  <1> QED
      BY <1>1, <1>2, <1>3, <1>4, <1>5, <1>6

LEMMA LoadModulesIInv == ASSUME IInv, NEW p \in Procs, LoadModules(p) PROVE IInv'
  <1> USE RegistryAssumption DEF IInv, LoadModules, Goto, registry, history
  <1>1. TypeOK'
        BY DEF TypeOK, PCs, Seqs, Items, Empty, Zero, NoSeqs, LastValues, Quiet, KnownVersions
  <1>2. Quiet'
        BY DEF TypeOK, Quiet
  <1>3. KnownVersions'
        BY DEF TypeOK, KnownVersions, Zero, Items
  <1>4. FlagUp'
        BY DEF TypeOK, FlagUp, Quiet
  <1>5. RequestIsCommitted'
        BY DEF TypeOK, RequestIsCommitted, Written, Items
  <1>6. OwnOrCommitted'
        BY DEF TypeOK, OwnOrCommitted, KnownVersions, Quiet, FlagUp, Items, Empty, Zero
  <1> QED
      BY <1>1, <1>2, <1>3, <1>4, <1>5, <1>6

LEMMA InitIInv == Init => IInv
  <1> SUFFICES ASSUME Init PROVE IInv
      OBVIOUS
  <1> USE RegistryAssumption DEF Init, Empty, Zero, Items
  <1>1. TypeOK
        BY DEF TypeOK, PCs, Seqs, NoSeqs
  <1>2. Quiet /\ KnownVersions /\ FlagUp /\ RequestIsCommitted /\ OwnOrCommitted
        BY DEF Quiet, KnownVersions, FlagUp, RequestIsCommitted, OwnOrCommitted
  <1> QED
      BY <1>1, <1>2 DEF IInv

LEMMA NextIInv == IInv /\ [Next]_vars => IInv'
  <1> SUFFICES ASSUME IInv, [Next]_vars PROVE IInv'
      OBVIOUS
  <1>1. CASE Next
    <2>1. PICK p \in Procs :
              \/ CheckRead(p) \/ CheckApply(p) \/ Begin(p) \/ Retry(p)
              \/ \E k \in Keys : Read(p, k) \/ Write(p, k)
              \/ Alter(p) \/ Commit(p) \/ CommitFails(p) \/ Signal(p)
              \/ SignalFails(p) \/ Abort(p)
              \/ Crash(p) \/ LoadModules(p)
          BY <1>1 DEF Next
    <2> QED
        BY <2>1, CheckReadIInv, CheckApplyIInv, BeginIInv, RetryIInv, ReadIInv,
           WriteIInv, AlterIInv, CommitIInv, CommitFailsIInv, SignalFailsIInv,
           SignalIInv, AbortIInv, CrashIInv, LoadModulesIInv
  <1>2. CASE UNCHANGED vars
        BY <1>2 DEF vars, registry, history, IInv, TypeOK, Quiet, KnownVersions, FlagUp,
                    RequestIsCommitted, Written, OwnOrCommitted
  <1> QED
      BY <1>1, <1>2

(***************************************************************************)
(* In every reachable state, with or without jobs: flags are up as long as *)
(* the transaction may abort, and what is cached is committed, the         *)
(* transaction's own, or lost with an earlier one.                         *)
(***************************************************************************)
THEOREM Invariance == Spec => []IInv
  <1> QED
      BY InitIInv, NextIInv, PTL DEF Spec

(* The state of every process is what its code can hold. *)
THEOREM TypeCorrect == Spec => []TypeOK
  <1>1. IInv => TypeOK
        BY DEF IInv
  <1> QED
      BY <1>1, Invariance, PTL

(***************************************************************************)
(* However requests and jobs fail, their COMMITs and signals included,      *)
(* what a process keeps was committed, or was written by a transaction of  *)
(* its own that was rolled back without reset_changes (registry.py): in    *)
(* all other cases reset_changes finds a flag up whenever there is         *)
(* something to drop.                                                      *)
(***************************************************************************)
THEOREM NothingDirtyKept == Spec => []NoDirtyEntry
  <1>1. IInv => NoDirtyEntry
        BY DEF IInv, Quiet, OwnOrCommitted, NoDirtyEntry
  <1> QED
      BY <1>1, Invariance, PTL

-----------------------------------------------------------------------------

LEMMA CheckReadRInv ==
    ASSUME IInv, RInv, NEW p \in Procs, CheckRead(p)
    PROVE  RInv'
  <1> USE RegistryAssumption DEF IInv, RInv, CheckRead, Goto, registry, history
  <1>1. SeqsBehind'
        BY DEF TypeOK, SeqsBehind, Seqs, NoSeqs, LastValues
  <1>2. ReadersWriteNothing'
        BY DEF TypeOK, ReadersWriteNothing
  <1>3. ReadersBehind'
        BY DEF TypeOK, ReadersBehind, Behind, UpToDate, ReadersWriteNothing, SeqsBehind, Seqs,
           Items, Empty, LastValues
  <1> QED
      BY <1>1, <1>2, <1>3

LEMMA CheckApplyRInv ==
    ASSUME IInv, RInv, NEW p \in Procs, CheckApply(p)
    PROVE  RInv'
  <1> USE RegistryAssumption DEF IInv, RInv, CheckApply, Goto, registry, history, DropsCache
  <1>1. SeqsBehind'
        BY DEF TypeOK, SeqsBehind, Seqs, NoSeqs, LastValues
  <1>2. ReadersWriteNothing'
        BY DEF TypeOK, ReadersWriteNothing
  <1>3. ReadersBehind'
        BY DEF TypeOK, ReadersBehind, Behind, UpToDate, ReadersWriteNothing, SeqsBehind, Seqs,
           Items, Empty, LastValues
  <1> QED
      BY <1>1, <1>2, <1>3

LEMMA BeginRInv ==
    ASSUME IInv, RInv, NEW p \in Procs, Begin(p)
    PROVE  RInv'
  <1> USE RegistryAssumption DEF IInv, RInv, Begin, Goto, registry, history
  <1>1. SeqsBehind'
        BY DEF TypeOK, SeqsBehind, Seqs, NoSeqs, LastValues
  <1>2. ReadersWriteNothing'
        BY DEF TypeOK, ReadersWriteNothing
  <1>3. ReadersBehind'
        BY DEF TypeOK, ReadersBehind, Behind, UpToDate, ReadersWriteNothing, SeqsBehind, Seqs,
           Items, Empty, LastValues
  <1> QED
      BY <1>1, <1>2, <1>3

LEMMA ReadRInv ==
    ASSUME IInv, RInv, NEW p \in Procs, NEW k \in Keys, Read(p, k)
    PROVE  RInv'
  <1> USE RegistryAssumption DEF IInv, RInv, Read, Goto, registry, history
  <1>1. SeqsBehind'
        BY DEF TypeOK, SeqsBehind, Seqs, NoSeqs, LastValues
  <1>2. ReadersWriteNothing'
        BY DEF TypeOK, ReadersWriteNothing
  <1>3. ReadersBehind'
        BY DEF TypeOK, ReadersBehind, Behind, UpToDate, ReadersWriteNothing, SeqsBehind, Seqs,
           Items, Empty, LastValues
  <1> QED
      BY <1>1, <1>2, <1>3

LEMMA WriteRInv ==
    ASSUME IInv, RInv, NEW p \in Procs, NEW k \in Keys, Write(p, k)
    PROVE  RInv'
  <1> USE RegistryAssumption DEF IInv, RInv, Write, Goto, registry, history, CanWrite, DoWrite,
                               Locks
  <1>1. SeqsBehind'
        BY DEF TypeOK, SeqsBehind, Seqs, NoSeqs, LastValues
  <1>2. ReadersWriteNothing'
        BY DEF TypeOK, ReadersWriteNothing
  <1>3. ReadersBehind'
        BY DEF TypeOK, ReadersBehind, Behind, UpToDate, ReadersWriteNothing, SeqsBehind, Seqs,
           Items, Empty, LastValues
  <1> QED
      BY <1>1, <1>2, <1>3

LEMMA AlterRInv ==
    ASSUME IInv, RInv, NEW p \in Procs, Alter(p)
    PROVE  RInv'
  <1> USE RegistryAssumption DEF IInv, RInv, Alter, Goto, registry, history, CanWrite, DoWrite,
                               Locks
  <1>1. SeqsBehind'
        BY DEF TypeOK, SeqsBehind, Seqs, NoSeqs, LastValues
  <1>2. ReadersWriteNothing'
        BY DEF TypeOK, ReadersWriteNothing
  <1>3. ReadersBehind'
        BY DEF TypeOK, ReadersBehind, Behind, UpToDate, ReadersWriteNothing, SeqsBehind, Seqs,
           Items, Empty, LastValues
  <1> QED
      BY <1>1, <1>2, <1>3

LEMMA RetryRInv ==
    ASSUME IInv, RInv, NEW p \in Procs, Retry(p)
    PROVE  RInv'
  <1> USE RegistryAssumption DEF IInv, RInv, Retry, Loses, Goto, registry, history
  <1>1. SeqsBehind'
        BY DEF TypeOK, SeqsBehind, Seqs, NoSeqs, LastValues
  <1>2. ReadersWriteNothing'
        BY DEF TypeOK, ReadersWriteNothing
  <1>3. ReadersBehind'
        BY DEF TypeOK, ReadersBehind, Behind, UpToDate, ReadersWriteNothing, SeqsBehind, Seqs,
           Items, Empty, LastValues
  <1> QED
      BY <1>1, <1>2, <1>3

LEMMA CommitRInv ==
    ASSUME IInv, RInv, NEW p \in Procs, Commit(p)
    PROVE  RInv'
  <1> USE RegistryAssumption DEF IInv, RInv, Commit, AtCommit, Goto, registry, history, Written
  <1>1. SeqsBehind'
        BY ForgetFacts DEF TypeOK, SeqsBehind, Seqs, NoSeqs, LastValues
  <1>2. ReadersWriteNothing'
        BY ForgetFacts DEF TypeOK, ReadersWriteNothing
  <1>3. ReadersBehind'
    <2> SUFFICES ASSUME NEW q \in Procs \ (Writers \cup Cron) PROVE ReadersBehind!(q)'
        BY DEF ReadersBehind
    <2>1. ReadersBehind!(q)
          BY DEF ReadersBehind
    <2>2. UNCHANGED <<cache, models, mySeqs, regSeq, cacheSeq>>
          OBVIOUS
    <2>3. view'[q] = view[q]
          BY ForgetFacts
    <2>4. pc'[q] \in {"active", "booting"} => pc'[q] = pc[q]
          BY DEF TypeOK
    <2>5. pc[q] = "booting" => pc'[q] = "booting"
          BY DEF TypeOK
    <2>6. ASSUME NEW i \in Items, NEW v, UpToDate(v, i)
          PROVE  v = data'[i] \/ i \in unsignaled'
          BY <2>6 DEF UpToDate
    <2>7. Schema \in Items /\ Keys \subseteq Items
          BY DEF Items
    <2> QED
        BY <2>1, <2>2, <2>3, <2>4, <2>5, <2>6, <2>7 DEF UpToDate, Behind
  <1> QED
      BY <1>1, <1>2, <1>3

LEMMA SignalRInv ==
    ASSUME IInv, RInv, NEW p \in Procs, Signal(p)
    PROVE  RInv'
  <1> USE RegistryAssumption DEF IInv, RInv, Signal, Goto, registry, history, SignalsCache
  <1>1. SeqsBehind'
        BY ForgetFacts DEF TypeOK, SeqsBehind, Seqs, NoSeqs, LastValues
  <1>2. ReadersWriteNothing'
        BY ForgetFacts DEF TypeOK, ReadersWriteNothing
  <1>3. ReadersBehind'
    <2> SUFFICES ASSUME NEW q \in Procs \ (Writers \cup Cron) PROVE ReadersBehind!(q)'
        BY DEF ReadersBehind
    <2>1. ReadersBehind!(q)
          BY DEF ReadersBehind
    <2>2. /\ regSeq \in Nat /\ cacheSeq \in Nat
          /\ mySeqs[q].reg \in Nat /\ mySeqs[q].cache \in Nat
          BY DEF TypeOK, Seqs
    <2>3. Behind(q) /\ q # p => Behind(q)'
          BY <2>2 DEF TypeOK, Behind
    <2>4. ASSUME q # p, NEW i \in SignaledBy(p)
          PROVE  Behind(q)'
          BY <2>2, <2>4 DEF TypeOK, Behind, SeqsBehind, SignaledBy
    <2>5. ASSUME q # p, Schema \in SignaledBy(p)
          PROVE  mySeqs'[q].reg < regSeq'
          BY <2>2, <2>5 DEF TypeOK, SeqsBehind, SignaledBy
    <2>6. CASE q = p
      <3>1. ~ regInv[p] /\ ~ cacheInv[p] /\ p \notin Cron
            BY <2>6 DEF ReadersWriteNothing
      <3>2. SignaledBy(p) = {} /\ UNCHANGED <<unsignaled, regSeq, cacheSeq, mySeqs>>
            BY <3>1 DEF SignaledBy, TypeOK, Seqs
      <3>3. pc'[q] = "idle" /\ pc[q] = "done"
            BY <3>1, <2>6 DEF TypeOK
      <3> QED
          BY <2>1, <3>2, <3>3 DEF UpToDate, Behind
    <2>7. CASE q # p
      <3>1. /\ UNCHANGED <<cache, models, data>>
            /\ pc'[q] = pc[q] /\ view'[q] = view[q]
            BY <2>7, ForgetFacts DEF TypeOK
      <3>2. mySeqs[q].reg < regSeq => mySeqs'[q].reg < regSeq'
            BY <2>2, <2>7 DEF TypeOK
      <3>3. pc'[q] = "booting" \/ UpToDate(models[q], Schema)' \/ mySeqs'[q].reg < regSeq'
            BY <2>1, <2>5, <2>7, <3>1, <3>2 DEF UpToDate
      <3>4. ASSUME NEW i \in Items, NEW v, UpToDate(v, i) \/ Behind(q)
            PROVE  v = data'[i] \/ i \in unsignaled' \/ Behind(q)'
            BY <2>3, <2>4, <2>7, <3>1, <3>4 DEF UpToDate
      <3>5. Keys \subseteq Items
            BY DEF Items
      <3>6. \A k \in Keys : cache'[q][k] = None \/ UpToDate(cache[q][k], k)' \/ Behind(q)'
            BY <2>1, <3>1, <3>4, <3>5 DEF UpToDate
      <3>7. pc'[q] = "active" => \A k \in Keys : UpToDate(view[q][k], k)' \/ Behind(q)'
            BY <2>1, <3>1, <3>4, <3>5 DEF UpToDate
      <3> QED
          BY <3>3, <3>6, <3>7
    <2> QED
        BY <2>6, <2>7
  <1> QED
      BY <1>1, <1>2, <1>3

LEMMA AbortRInv ==
    ASSUME IInv, RInv, NEW p \in Procs, Abort(p)
    PROVE  RInv'
  <1> USE RegistryAssumption DEF IInv, RInv, Abort, Reset, Goto, registry, history, ResetCache
  <1>1. SeqsBehind'
        BY ForgetFacts DEF TypeOK, SeqsBehind, Seqs, NoSeqs, LastValues
  <1>2. ReadersWriteNothing'
        BY ForgetFacts DEF TypeOK, ReadersWriteNothing
  <1>3. ReadersBehind'
    <2> SUFFICES ASSUME NEW q \in Procs \ (Writers \cup Cron) PROVE ReadersBehind!(q)'
        BY DEF ReadersBehind
    <2>1. ReadersBehind!(q)
          BY DEF ReadersBehind
    <2>3. CASE q = p
          BY <2>1, <2>3 DEF TypeOK, ReadersWriteNothing, UpToDate, Behind
    <2>4. CASE q # p
          BY <2>1, <2>4, ForgetFacts DEF TypeOK, UpToDate, Behind
    <2> QED
        BY <2>3, <2>4
  <1> QED
      BY <1>1, <1>2, <1>3

LEMMA CommitFailsRInv ==
    ASSUME IInv, RInv, NEW p \in Procs, CommitFails(p)
    PROVE  RInv'
  <1> USE RegistryAssumption DEF IInv, RInv, CommitFails, Fault, Goto, registry, AtCommit
  <1>1. SeqsBehind'
        BY ForgetFacts DEF TypeOK, SeqsBehind, Seqs
  <1>2. ReadersWriteNothing'
        BY ForgetFacts DEF TypeOK, ReadersWriteNothing
  <1>3. ReadersBehind'
    <2> SUFFICES ASSUME NEW q \in Procs \ (Writers \cup Cron) PROVE ReadersBehind!(q)'
        BY DEF ReadersBehind
    <2>1. ReadersBehind!(q)
          BY DEF ReadersBehind
    <2>3. CASE q = p
          BY <2>1, <2>3 DEF TypeOK, ReadersWriteNothing, UpToDate, Behind
    <2>4. CASE q # p
          BY <2>1, <2>4, ForgetFacts DEF TypeOK, UpToDate, Behind
    <2> QED
        BY <2>3, <2>4
  <1> QED
      BY <1>1, <1>2, <1>3

LEMMA SignalFailsRInv ==
    ASSUME IInv, RInv, NEW p \in Procs, SignalFails(p)
    PROVE  RInv'
  <1> USE RegistryAssumption DEF IInv, RInv, SignalFails, Fault, Goto, Reset, ResetCache
  <1>1. SeqsBehind'
        BY ForgetFacts DEF TypeOK, SeqsBehind, Seqs
  <1>2. ReadersWriteNothing'
    <2>1. regInv[p] \/ cacheInv[p] => p \in Writers
          BY DEF ReadersWriteNothing
    <2> SUFFICES ASSUME NEW q \in Procs \ Writers
                 PROVE  ReadersWriteNothing!(q)'
        BY DEF ReadersWriteNothing
    <2>2. q # p /\ wrote[q] = {} /\ ~regInv[q] /\ ~cacheInv[q]
          BY <2>1 DEF ReadersWriteNothing
    <2> QED
        BY <2>2, ForgetFacts DEF TypeOK
  <1>3. ReadersBehind'
    <2> SUFFICES ASSUME NEW q \in Procs \ (Writers \cup Cron) PROVE ReadersBehind!(q)'
        BY DEF ReadersBehind
    <2>1. ReadersBehind!(q)
          BY DEF ReadersBehind
    <2>3. CASE q = p
          BY <2>1, <2>3 DEF TypeOK, ReadersWriteNothing, UpToDate, Behind
    <2>4. CASE q # p
          BY <2>1, <2>4, ForgetFacts DEF TypeOK, UpToDate, Behind
    <2> QED
        BY <2>3, <2>4
  <1> QED
      BY <1>1, <1>2, <1>3

LEMMA CrashRInv ==
    ASSUME IInv, RInv, NEW p \in Procs, Crash(p)
    PROVE  RInv'
  <1> USE RegistryAssumption DEF IInv, RInv, Crash, Fault, Goto, registry, history
  <1>1. SeqsBehind'
        BY ForgetFacts DEF TypeOK, SeqsBehind, Seqs, NoSeqs, LastValues
  <1>2. ReadersWriteNothing'
        BY ForgetFacts DEF TypeOK, ReadersWriteNothing
  <1>3. ReadersBehind'
    <2> SUFFICES ASSUME NEW q \in Procs \ (Writers \cup Cron) PROVE ReadersBehind!(q)'
        BY DEF ReadersBehind
    <2>1. ReadersBehind!(q)
          BY DEF ReadersBehind
    <2>3. CASE q = p
          BY <2>3 DEF TypeOK, Empty
    <2>4. CASE q # p
          BY <2>1, <2>4, ForgetFacts DEF TypeOK, UpToDate, Behind
    <2> QED
        BY <2>3, <2>4
  <1> QED
      BY <1>1, <1>2, <1>3

LEMMA LoadModulesRInv ==
    ASSUME IInv, RInv, NEW p \in Procs, LoadModules(p)
    PROVE  RInv'
  <1> USE RegistryAssumption DEF IInv, RInv, LoadModules, Goto, registry, history
  <1>1. SeqsBehind'
        BY DEF TypeOK, SeqsBehind, Seqs, NoSeqs, LastValues
  <1>2. ReadersWriteNothing'
        BY DEF TypeOK, ReadersWriteNothing
  <1>3. ReadersBehind'
        BY DEF TypeOK, ReadersBehind, Behind, UpToDate, ReadersWriteNothing, SeqsBehind, Seqs,
           Items, Empty, LastValues
  <1> QED
      BY <1>1, <1>2, <1>3

LEMMA InitRInv == Init => RInv
  <1> SUFFICES ASSUME Init PROVE RInv
      OBVIOUS
  <1> QED
      BY RegistryAssumption
      DEF Init, RInv, SeqsBehind, ReadersWriteNothing, ReadersBehind,
          UpToDate, Empty, Zero, Items, NoSeqs

LEMMA NextRInv == IInv /\ RInv /\ [Next]_vars => RInv'
  <1> SUFFICES ASSUME IInv, RInv, [Next]_vars PROVE RInv'
      OBVIOUS
  <1>1. CASE Next
    <2>1. PICK p \in Procs :
              \/ CheckRead(p) \/ CheckApply(p) \/ Begin(p) \/ Retry(p)
              \/ \E k \in Keys : Read(p, k) \/ Write(p, k)
              \/ Alter(p) \/ Commit(p) \/ CommitFails(p) \/ Signal(p)
              \/ SignalFails(p) \/ Abort(p)
              \/ Crash(p) \/ LoadModules(p)
          BY <1>1 DEF Next
    <2> QED
        BY <2>1, CheckReadRInv, CheckApplyRInv, BeginRInv, RetryRInv, ReadRInv,
           WriteRInv, AlterRInv, CommitRInv, CommitFailsRInv, SignalFailsRInv,
           SignalRInv, AbortRInv, CrashRInv, LoadModulesRInv
  <1>2. CASE UNCHANGED vars
        BY <1>2 DEF vars, registry, history, RInv, SeqsBehind,
                    ReadersWriteNothing, ReadersBehind, UpToDate, Behind
  <1> QED
      BY <1>1, <1>2

(* Sequence numbers tell readers of all they are behind of and that was    *)
(* signaled.                                                               *)
THEOREM ReadersInvariance == Spec => []RInv
  <1> QED
      BY Invariance, InitRInv, NextRInv, PTL DEF Spec

(***************************************************************************)
(* For any processes, those that run jobs included: a process that serves  *)
(* requests (check_signaling, then a snapshot) and writes nothing is up to *)
(* date whenever the sequence numbers it remembers are the last ones, but  *)
(* for changes that no signal has followed.                                *)
(***************************************************************************)
THEOREM ReadersAreCoherent == Spec => []ReadersCoherent
  <1>1. IInv /\ RInv => ReadersCoherent
    <2> SUFFICES ASSUME IInv, RInv, NEW p \in Procs \ (Writers \cup Cron), Settled(p),
                        NEW i \in Items \ unsignaled
                 PROVE  Fresh(p, i)
        BY DEF ReadersCoherent
    <2>1. /\ pc[p] # "booting" /\ ~(mySeqs[p].reg < regSeq) /\ ~Behind(p)
          BY DEF Settled, LastValues, Behind, IInv, TypeOK
    <2> QED
        BY <2>1 DEF RInv, ReadersBehind, UpToDate, Fresh, Items
  <1> QED
      BY <1>1, Invariance, ReadersInvariance, PTL
=============================================================================
