-------------------------- MODULE RegistrySignaling --------------------------
(***************************************************************************)
(* How the worker processes of a server keep their registries (model       *)
(* classes) and ORM caches coherent through two database sequences         *)
(* (src/autanac/modules/registry.py, tools/cache.py, and the callers that  *)
(* bracket a transaction with check_signaling and signal_changes: HTTP and *)
(* RPC requests, http.py and service/model.py, and scheduled jobs,         *)
(* ir_cron.py).  Each process runs one request or job at a time, as the    *)
(* workers of the prefork server do.                                       *)
(*                                                                         *)
(* A process clears its own cache when it writes, and raises a flag; once  *)
(* the transaction is committed it draws the next value of a sequence.     *)
(* Another process, before a request, compares the sequence with the value *)
(* it remembers, and drops its cache (or reloads its registry) when they   *)
(* differ.  Nothing else connects what is cached to what is committed.     *)
(***************************************************************************)
EXTENDS Naturals, FiniteSets

CONSTANTS
    Procs,      \* worker processes, one registry each
    Cron,       \* those that run scheduled jobs; the others serve requests
    Writers,    \* those whose requests or jobs write
    Keys,       \* what ormcached methods read
    Schema,     \* what model classes are built from
    MaxTries,   \* MAX_TRIES_ON_CONCURRENCY_FAILURE
    MaxWrites,  \* bound on writes
    MaxFaults,  \* bound on deaths, and COMMITs and signals that fail
    None

ASSUME RegistryAssumption ==
    /\ Cron \subseteq Procs /\ Writers \subseteq Procs
    /\ Schema \notin Keys
    /\ MaxTries \in Nat
    /\ None \notin Nat

VARIABLES
    data,       \* committed version of each key and of the schema
    regSeq,     \* last_value of base_registry_signaling
    cacheSeq,   \* last_value of base_cache_signaling
    cache,      \* Procs -> registry.cache: Keys -> version or None
    models,     \* Procs -> version of the schema its classes are built from
    mySeqs,     \* Procs -> registry_sequence and cache_sequence
    regInv,     \* Procs -> registry_invalidated
    cacheInv,   \* Procs -> cache_invalidated
    pc,         \* Procs -> where its request or job is
    seen,       \* Procs -> the sequences read by check_signaling
    view,       \* Procs -> what its transaction sees
    wrote,      \* Procs -> what its transaction has written
    tries,      \* Procs -> retries of the current request
    writes,     \* number of writes so far, the source of versions
    faults,
    committed,  \* every version ever committed (history)
    unsignaled, \* keys, and the schema, whose last committed change no signal
                \* has followed (history)
    lost        \* Procs -> versions its transactions had written when they were
                \* rolled back without reset_changes; they may be in its cache
                \* and classes (history)

registry == <<cache, models, mySeqs, regInv, cacheInv>>
history == <<committed, unsignaled, lost>>
vars == <<data, regSeq, cacheSeq, registry, pc, seen, view, wrote, tries,
          writes, faults, history>>

Items == Keys \cup {Schema}
Seqs == [reg : Nat, cache : Nat]
NoSeqs == [reg |-> 0, cache |-> 0]
LastValues == [reg |-> regSeq, cache |-> cacheSeq]
Empty == [k \in Keys |-> None]
Zero == [i \in Items |-> 0]

\* A request goes idle, seen, ready, active, done, idle; a job goes idle, open,
\* seen, active, done, idle.  A process that has died is replaced by one
\* that is booting.
PCs == {"idle", "open", "seen", "ready", "active", "done", "booting"}

TypeOK ==
    /\ data \in [Items -> Nat]
    /\ regSeq \in Nat /\ cacheSeq \in Nat
    /\ cache \in [Procs -> [Keys -> Nat \cup {None}]]
    /\ models \in [Procs -> Nat]
    /\ mySeqs \in [Procs -> Seqs]
    /\ regInv \in [Procs -> BOOLEAN] /\ cacheInv \in [Procs -> BOOLEAN]
    /\ pc \in [Procs -> PCs]
    /\ seen \in [Procs -> Seqs]
    /\ view \in [Procs -> [Items -> Nat]]
    /\ wrote \in [Procs -> SUBSET Items]
    /\ tries \in [Procs -> 0..MaxTries]
    /\ writes \in Nat /\ faults \in Nat
    /\ committed \subseteq Nat /\ unsignaled \subseteq Items
    /\ lost \in [Procs -> SUBSET Nat]
    /\ \A p \in Procs : pc[p] \in {"idle", "open", "ready"} => wrote[p] = {}

\* Every process has loaded its registry; its cache is empty.
Init ==
    /\ data = Zero
    /\ regSeq = 1 /\ cacheSeq = 1
    /\ cache = [p \in Procs |-> Empty]
    /\ models = [p \in Procs |-> 0]
    /\ mySeqs = [p \in Procs |-> [reg |-> 1, cache |-> 1]]
    /\ regInv = [p \in Procs |-> FALSE] /\ cacheInv = [p \in Procs |-> FALSE]
    /\ pc = [p \in Procs |-> "idle"]
    /\ seen = [p \in Procs |-> NoSeqs]
    /\ view = [p \in Procs |-> Zero]
    /\ wrote = [p \in Procs |-> {}]
    /\ tries = [p \in Procs |-> 0]
    /\ writes = 0 /\ faults = 0
    /\ committed = {0} /\ unsignaled = {} /\ lost = [p \in Procs |-> {}]

Fault == faults < MaxFaults /\ faults' = faults + 1

Goto(p, l) == pc' = [pc EXCEPT ![p] = l]

\* mutant: the transaction outlives the request
MutForget(p) ==
    /\ view' = [view EXCEPT ![p] = Zero]
    /\ tries' = [tries EXCEPT ![p] = 0]
    /\ UNCHANGED wrote

\* The end of p's transaction.
Forget(p) ==
    /\ view' = [view EXCEPT ![p] = Zero]
    /\ wrote' = [wrote EXCEPT ![p] = {}]
    /\ tries' = [tries EXCEPT ![p] = 0]

-----------------------------------------------------------------------------
(* check_signaling *)

\* The two sequences are read in a cursor of its own.
CheckRead(p) ==
    /\ pc[p] = IF p \in Cron THEN "open" ELSE "idle"
    /\ Goto(p, "seen")
    /\ seen' = [seen EXCEPT ![p] = LastValues]
    /\ UNCHANGED <<data, regSeq, cacheSeq, registry, view, wrote, tries, writes,
                   faults, history>>

MutDropsCache(p) == FALSE \* mutant: signals of cache changes are ignored

\* Another process has signaled a change of the caches, and the registry is
\* not reloaded.
DropsCache(p) ==
    mySeqs[p].reg = seen[p].reg /\ mySeqs[p].cache # seen[p].cache

\* A new registry is built from what is committed now; or the cache is
\* cleared, without raising the flag.
CheckApply(p) ==
    LET reload == mySeqs[p].reg # seen[p].reg
    IN  /\ pc[p] = "seen"
        /\ Goto(p, IF p \in Cron THEN "active" ELSE "ready")
        /\ cache' = [cache EXCEPT ![p] =
               IF reload \/ DropsCache(p) THEN Empty ELSE @]
        /\ models' = [models EXCEPT ![p] = IF reload THEN data[Schema] ELSE @]
        /\ regInv' = [regInv EXCEPT ![p] = @ /\ ~ reload]
        /\ cacheInv' = [cacheInv EXCEPT ![p] = @ /\ ~ reload]
        /\ mySeqs' = [mySeqs EXCEPT ![p] = seen[p]]
        /\ seen' = [seen EXCEPT ![p] = NoSeqs]
        /\ lost' = [lost EXCEPT ![p] = IF reload THEN {} ELSE @]
        /\ UNCHANGED <<data, regSeq, cacheSeq, view, wrote, tries, writes,
                       faults, committed, unsignaled>>

-----------------------------------------------------------------------------
(* The transaction of a request or a job *)

\* The first query fixes the snapshot.  A request makes it after
\* check_signaling; a job's cursor has already read the user's time zone when
\* _callback calls check_signaling.
Begin(p) ==
    /\ pc[p] = IF p \in Cron THEN "idle" ELSE "ready"
    /\ Goto(p, IF p \in Cron THEN "open" ELSE "active")
    /\ view' = [view EXCEPT ![p] = data]
    /\ UNCHANGED <<data, regSeq, cacheSeq, registry, seen, wrote, tries, writes,
                   faults, history>>

\* An ormcached method that misses: computed in this transaction, and stored
\* in the cache of the process.  (A hit changes nothing.)
Read(p, k) ==
    /\ pc[p] = "active"
    /\ cache[p][k] = None
    /\ cache' = [cache EXCEPT ![p][k] = view[p][k]]
    /\ UNCHANGED <<data, regSeq, cacheSeq, models, mySeqs, regInv, cacheInv, pc,
                   seen, view, wrote, tries, writes, faults, history>>

\* PostgreSQL's repeatable read: another transaction has committed i since the
\* snapshot.
Conflict(p, i) == i \notin wrote[p] /\ data[i] # view[p][i]

\* The row locks of a transaction end with it: a request's with its COMMIT,
\* before it signals.
Locks(q) == IF pc[q] = "done" /\ q \notin Cron THEN {} ELSE wrote[q]

CanWrite(p, i) ==
    /\ pc[p] = "active" /\ p \in Writers
    /\ writes < MaxWrites
    /\ ~ Conflict(p, i)
    /\ \A q \in Procs \ {p} : i \notin Locks(q)

DoWrite(p, i) ==
    /\ writes' = writes + 1
    /\ view' = [view EXCEPT ![p][i] = writes + 1]
    /\ wrote' = [wrote EXCEPT ![p] = @ \cup {i}]

\* create, write or unlink on a model with cached methods: _clear_cache.
Write(p, k) ==
    /\ CanWrite(p, k)
    /\ DoWrite(p, k)
    /\ cache' = [cache EXCEPT ![p] = Empty]
    /\ cacheInv' = [cacheInv EXCEPT ![p] = TRUE]
    /\ UNCHANGED <<data, regSeq, cacheSeq, models, mySeqs, regInv, pc, seen,
                   tries, faults, history>>

\* A change of models or fields: setup_models in this transaction; it resets
\* the lazy property 'cache', and does not raise cache_invalidated.
Alter(p) ==
    /\ CanWrite(p, Schema)
    /\ DoWrite(p, Schema)
    /\ models' = [models EXCEPT ![p] = writes + 1]
    /\ cache' = [cache EXCEPT ![p] = Empty]
    /\ regInv' = [regInv EXCEPT ![p] = TRUE]
    /\ UNCHANGED <<data, regSeq, cacheSeq, mySeqs, cacheInv, pc, seen, tries,
                   faults, history>>

Written(p) == {view[p][i] : i \in wrote[p]}

\* What p wrote is rolled back, and nothing is done to its registry.
Loses(p) == lost' = [lost EXCEPT ![p] = @ \cup Written(p)]

\* A request that meets a concurrent update is rolled back and run again with
\* a new snapshot; nothing is done to the registry or its flags.
Retry(p) ==
    /\ pc[p] = "active" /\ p \in Writers \ Cron
    /\ \E i \in Items : Conflict(p, i)
    /\ tries[p] < MaxTries
    /\ tries' = [tries EXCEPT ![p] = @ + 1]
    /\ view' = [view EXCEPT ![p] = data]
    /\ wrote' = [wrote EXCEPT ![p] = {}]
    /\ Loses(p)
    /\ UNCHANGED <<data, regSeq, cacheSeq, registry, pc, seen, writes, faults,
                   committed, unsignaled>>

-----------------------------------------------------------------------------
(* The end of a request or a job *)

\* A request commits and then signals; a job has signaled when it commits.
AtCommit(p) == pc[p] = IF p \in Cron THEN "done" ELSE "active"

Commit(p) ==
    /\ AtCommit(p)
    /\ Goto(p, IF p \in Cron THEN "idle" ELSE "done")
    /\ data' = [i \in Items |-> IF i \in wrote[p] THEN view[p][i] ELSE data[i]]
    /\ committed' = committed \cup Written(p)
    /\ unsignaled' = unsignaled \cup wrote[p]
    /\ IF p \in Cron THEN Forget(p) ELSE UNCHANGED <<view, wrote, tries>>
    /\ UNCHANGED <<regSeq, cacheSeq, registry, seen, writes, faults, lost>>

\* The last flush or COMMIT raises: __exit__ closes the cursor, calling neither
\* signal_changes nor reset_changes; _process_job has signaled already.  The
\* flags of the request stay up, those of the job are down.
CommitFails(p) ==
    /\ AtCommit(p)
    /\ Fault
    /\ Goto(p, "idle")
    /\ Loses(p)
    /\ Forget(p)
    /\ UNCHANGED <<data, regSeq, cacheSeq, registry, seen, writes,
                   committed, unsignaled>>

\* A registry signal makes a cache signal needless: the reader's new registry
\* starts with an empty cache.
SignalsCache(p) == cacheInv[p] /\ ~ regInv[p]

\* What the others drop on p's signal.
SignaledBy(p) == IF regInv[p] THEN Items ELSE IF SignalsCache(p) THEN Keys ELSE {}

\* signal_changes: nextval is not transactional, and its result is remembered
\* as this process's own sequence number; the flags are lowered.
Signal(p) ==
    /\ pc[p] = IF p \in Cron THEN "active" ELSE "done"
    /\ Goto(p, IF p \in Cron THEN "done" ELSE "idle")
    /\ regSeq' = IF regInv[p] THEN regSeq + 1 ELSE regSeq
    /\ cacheSeq' = IF SignalsCache(p) THEN cacheSeq + 1 ELSE cacheSeq
    /\ mySeqs' = [mySeqs EXCEPT
           ![p].reg = IF regInv[p] THEN regSeq + 1 ELSE @,
           ![p].cache = IF SignalsCache(p) THEN cacheSeq + 1 ELSE @]
    /\ regInv' = [regInv EXCEPT ![p] = FALSE]
    /\ cacheInv' = [cacheInv EXCEPT ![p] = FALSE]
    /\ unsignaled' = unsignaled \ SignaledBy(p)
    /\ IF p \in Cron THEN UNCHANGED <<view, wrote, tries>> ELSE Forget(p)
    /\ UNCHANGED <<data, cache, models, seen, writes, faults, committed,
                   lost>>

\* mutant: cache_invalidated is not looked at
MutResetCache(p) == IF regInv[p] THEN Empty ELSE cache[p]

\* reset_changes: setup_models and cache.clear both leave the cache empty.
ResetCache(p) == IF regInv[p] \/ cacheInv[p] THEN Empty ELSE cache[p]

\* reset_changes: the classes are set up again from what is committed.
Reset(p) ==
    /\ cache' = [cache EXCEPT ![p] = ResetCache(p)]
    /\ models' = [models EXCEPT ![p] = IF regInv[p] THEN data[Schema] ELSE @]
    /\ regInv' = [regInv EXCEPT ![p] = FALSE]
    /\ cacheInv' = [cacheInv EXCEPT ![p] = FALSE]
    /\ lost' = [lost EXCEPT ![p] = IF regInv[p] THEN {} ELSE @]

\* The request or the job raises (a job, also when its signal fails): its
\* transaction is rolled back.
Abort(p) ==
    /\ pc[p] = "active"
    /\ Goto(p, "idle")
    /\ Reset(p)
    /\ Forget(p)
    /\ UNCHANGED <<data, regSeq, cacheSeq, mySeqs, seen, writes, faults,
                   committed, unsignaled>>

\* The nextval of a request raises, after its COMMIT: __exit__ leaves the flags
\* up; manage_changes, around an RPC, resets them.
SignalFails(p) ==
    /\ p \notin Cron /\ pc[p] = "done"
    /\ regInv[p] \/ cacheInv[p]
    /\ Fault
    /\ Goto(p, "idle")
    /\ Reset(p) \/ UNCHANGED <<cache, models, regInv, cacheInv, lost>>
    /\ Forget(p)
    /\ UNCHANGED <<data, regSeq, cacheSeq, mySeqs, seen, writes,
                   committed, unsignaled>>

-----------------------------------------------------------------------------
(* The death of a process and the registry of the one that replaces it *)

\* PostgreSQL rolls its transaction back, and its memory is lost.  In the process
\* that replaces it, Registry.new: init and setup_signaling.
Crash(p) ==
    /\ Fault
    /\ Goto(p, "booting")
    /\ mySeqs' = [mySeqs EXCEPT ![p] = LastValues]
    /\ cache' = [cache EXCEPT ![p] = Empty]
    /\ models' = [models EXCEPT ![p] = 0]
    /\ regInv' = [regInv EXCEPT ![p] = FALSE]
    /\ cacheInv' = [cacheInv EXCEPT ![p] = FALSE]
    /\ seen' = [seen EXCEPT ![p] = NoSeqs]
    /\ Forget(p)
    /\ lost' = [lost EXCEPT ![p] = {}]
    /\ UNCHANGED <<data, regSeq, cacheSeq, writes, committed, unsignaled>>

\* Registry.new, the rest: load_modules builds the classes.
LoadModules(p) ==
    /\ pc[p] = "booting"
    /\ Goto(p, "idle")
    /\ models' = [models EXCEPT ![p] = data[Schema]]
    /\ UNCHANGED <<data, regSeq, cacheSeq, cache, mySeqs, regInv, cacheInv, seen,
                   view, wrote, tries, writes, faults, history>>

Next ==
    \E p \in Procs :
        \/ CheckRead(p) \/ CheckApply(p) \/ Begin(p) \/ Retry(p)
        \/ \E k \in Keys : Read(p, k) \/ Write(p, k)
        \/ Alter(p) \/ Commit(p) \/ CommitFails(p) \/ Signal(p) \/ SignalFails(p)
        \/ Abort(p) \/ Crash(p) \/ LoadModules(p)

Spec == Init /\ [][Next]_vars

-----------------------------------------------------------------------------
(* Properties *)

\* Between two requests, and with nothing for check_signaling to do.
Settled(p) == pc[p] = "idle" /\ mySeqs[p] = LastValues

\* p holds of i nothing, or what is committed.
Fresh(p, i) ==
    IF i = Schema THEN models[p] = data[i] ELSE cache[p][i] \in {None, data[i]}

\* A process that serves requests and writes nothing itself, and whose next
\* check_signaling would change nothing, holds no stale cache entry and no
\* outdated model class: whatever the order of the commits and the signals of
\* the other processes, of its own check, its snapshot and its misses, and
\* wherever they failed or crashed.  What no signal has followed is left out: the
\* change of a request that has not signaled yet, died before it could or failed
\* to, or of a job, which signals before it commits.  (Jobs also take their
\* snapshot before they check: what they cache may be stale.)
ReadersCoherent ==
    \A p \in Procs \ (Writers \cup Cron) :
        Settled(p) => \A i \in Items \ unsignaled : Fresh(p, i)

\* Between two requests, a process keeps in its cache and its classes only
\* versions that were committed: what a failed request or job computed from its
\* own writes is dropped by reset_changes.  But not where the transaction is
\* rolled back without it: after a retry or a COMMIT that failed, the process
\* may keep what that transaction wrote, that and nothing else (lost), until a
\* reset or a reload rebuilds its classes.
NoDirtyEntry ==
    \A p \in Procs :
        pc[p] = "idle" =>
            /\ models[p] \in committed \cup lost[p]
            /\ \A k \in Keys : cache[p][k] \in committed \cup lost[p] \cup {None}

\* A request has committed its change of i and is about to signal it.
SignalPending(i) == \E q \in Procs \ Cron : pc[q] = "done" /\ i \in wrote[q]

\* What check_signaling's docstring says: "performs all necessary operations to
\* update the registry. Return an up-to-date registry."  A process, one that
\* writes included, for which check_signaling finds nothing to do is up to
\* date, but for changes about to be signaled.
CheckReturnsUpToDate ==
    \A p \in Procs :
        Settled(p) => \A i \in Items : SignalPending(i) \/ Fresh(p, i)
=============================================================================
