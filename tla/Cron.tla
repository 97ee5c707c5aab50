-------------------------------- MODULE Cron --------------------------------
(***************************************************************************)
(* Scheduled jobs (src/autanac/addons/base/models/ir_cron.py).             *)
(*                                                                         *)
(* Workers (cron threads or processes, of any number of servers on one     *)
(* database) poll the table ir_cron for due jobs, keep the rows they read  *)
(* as dictionaries, and then take the jobs one by one: lock the row with   *)
(* FOR UPDATE NOWAIT, run the job from the dictionary read at the poll, in *)
(* a transaction of its own, and advance the schedule in the transaction   *)
(* that holds the lock.  Users edit jobs under the same row lock, module   *)
(* operations suspend the workers, and workers crash.                      *)
(***************************************************************************)
EXTENDS Integers, FiniteSets

CONSTANTS
    Workers,
    Jobs,
    Priority,     \* Jobs -> Nat, the least first
    DoAll,        \* the jobs with doall: missed occurrences are run too
    NumberCall,   \* Jobs -> Int, the numbercall a job is created with
    FirstCall,    \* the first nextcall of every job
    Interval,     \* between two occurrences
    Instants,     \* the values the clock takes
    MaxFailTime,  \* MAX_FAIL_TIME
    MaxFaults,    \* bounds on crashes and failed commits,
    MaxEdits,     \* on edits by users,
    MaxInstalls,  \* and on module operations
    User,
    None

ASSUME UserAssumption == User \notin Workers /\ None \notin Workers /\ None # User
ASSUME TimeAssumption == /\ Instants \subseteq Nat
                         /\ FirstCall \in Nat
                         /\ Interval \in Nat \ {0}
                         /\ MaxFailTime \in Nat
ASSUME JobsAssumption == NumberCall \in [Jobs -> Int] /\ DoAll \subseteq Jobs

VARIABLES
    now,       \* the clock
    row,       \* Jobs -> the committed row of ir_cron
    lock,      \* Jobs -> who holds the row's lock
    changes,   \* is a module in a state 'to install/upgrade/remove'?
    pc,        \* Workers -> where the worker is
    todo,      \* Workers -> the dictionaries of the poll still to be taken
    cur,       \* Workers -> the dictionary in hand, with the loop's variables
    moved,     \* Workers -> was the row updated since lock_cr's snapshot?
    calls,     \* Jobs -> number of calls of the job's method (history)
    settled,   \* Jobs -> how far committed job transactions got (history)
    faults, edits, installs

vars == <<now, row, lock, changes, pc, todo, cur, moved, calls, settled,
          faults, edits, installs>>

(* "idle": in _process_jobs' loop over todo, or asleep if todo is empty;   *)
(* "reset": about to call reset_modules_state; "locking": inside SELECT .. *)
(* FOR UPDATE, after its snapshot; "run": in _process_job's loop;          *)
(* "commit": job_cr is committed, cron_cr is not.                          *)
PCs == {"idle", "reset", "locking", "run", "commit"}

Dict == [id : Jobs, next : Nat, left : Int]
Task == [id : Jobs, next : Nat, left : Int, ok : BOOLEAN, t : Nat]
ASSUME NoneAssumption == None \notin Task

TypeOK ==
    /\ now \in Nat
    /\ row \in [Jobs -> [next : Nat, left : Int, active : BOOLEAN]]
    /\ lock \in [Jobs -> Workers \cup {User, None}]
    /\ changes \in BOOLEAN
    /\ pc \in [Workers -> PCs]
    /\ todo \in [Workers -> SUBSET Dict]
    /\ cur \in [Workers -> Task \cup {None}]
    /\ \A w \in Workers : cur[w] = None <=> pc[w] \in {"idle", "reset"}
    /\ moved \in [Workers -> BOOLEAN]
    /\ calls \in [Jobs -> Nat]
    /\ settled \in [Jobs -> Nat]
    /\ faults \in Nat /\ edits \in Nat /\ installs \in Nat

Init ==
    /\ now = 0
    /\ row = [j \in Jobs |-> [next |-> FirstCall, left |-> NumberCall[j],
                              active |-> TRUE]]
    /\ lock = [j \in Jobs |-> None]
    /\ changes = FALSE
    /\ pc = [w \in Workers |-> "idle"]
    /\ todo = [w \in Workers |-> {}]
    /\ cur = [w \in Workers |-> None]
    /\ moved = [w \in Workers |-> FALSE]
    /\ calls = [j \in Jobs |-> 0]
    /\ settled = [j \in Jobs |-> FirstCall]
    /\ faults = 0 /\ edits = 0 /\ installs = 0

bounds == <<faults, edits, installs>>

-----------------------------------------------------------------------------
(* The WHERE clause of both SELECTs; now() never precedes now.             *)
Due(j) == row[j].left # 0 /\ row[j].active /\ row[j].next <= now

DueJobs == {j \in Jobs : Due(j)}
Dicts == {[id |-> j, next |-> row[j].next, left |-> row[j].left] : j \in DueJobs}

\* The oldest nextcall of the jobs is older than MAX_FAIL_TIME.
Stuck == \E j \in DueJobs : now - row[j].next > MaxFailTime

MutPoll(w) == \* mutant: BadModuleState however long the jobs have been stuck
    /\ pc[w] = "idle" /\ todo[w] = {}
    /\ DueJobs # {}
    /\ ~changes
    /\ todo' = [todo EXCEPT ![w] = Dicts]
    /\ UNCHANGED <<now, row, lock, changes, pc, cur, moved, calls, settled, bounds>>

\* _process_jobs, first transaction: one snapshot for the state of the
\* modules and the due jobs.  BadModuleState leaves the worker asleep.
Poll(w) ==
    /\ pc[w] = "idle" /\ todo[w] = {}
    /\ DueJobs # {}
    /\ changes => Stuck
    /\ todo' = [todo EXCEPT ![w] = Dicts]
    /\ pc' = [pc EXCEPT ![w] = IF changes THEN "reset" ELSE "idle"]
    /\ UNCHANGED <<now, row, lock, changes, cur, moved, calls, settled, bounds>>

ResetModules(w) ==
    /\ pc[w] = "reset"
    /\ changes' = FALSE
    /\ pc' = [pc EXCEPT ![w] = "idle"]
    /\ UNCHANGED <<now, row, lock, todo, cur, moved, calls, settled, bounds>>

MutLockSnapshot(w) == \* mutant: the lock's SELECT has no condition but the id
    /\ pc[w] = "idle"
    /\ \E d \in todo[w] :
        /\ todo' = [todo EXCEPT ![w] = @ \ {d}]
        /\ pc' = [pc EXCEPT ![w] = "locking"]
        /\ cur' = [cur EXCEPT ![w] = [id |-> d.id, next |-> d.next,
                                     left |-> d.left, ok |-> FALSE, t |-> now]]
    /\ moved' = [moved EXCEPT ![w] = FALSE]
    /\ UNCHANGED <<now, row, lock, changes, calls, settled, bounds>>

\* The next dictionary by priority, and lock_cr's snapshot: a row that no
\* longer qualifies is not returned, and the job is skipped.
LockSnapshot(w) ==
    /\ pc[w] = "idle"
    /\ \E d \in todo[w] :
        /\ \A e \in todo[w] : Priority[d.id] <= Priority[e.id]
        /\ todo' = [todo EXCEPT ![w] = @ \ {d}]
        /\ IF Due(d.id)
             THEN /\ pc' = [pc EXCEPT ![w] = "locking"]
                  /\ cur' = [cur EXCEPT ![w] = [id |-> d.id, next |-> d.next,
                                left |-> d.left, ok |-> FALSE, t |-> now]]
             ELSE UNCHANGED <<pc, cur>>
    /\ moved' = [moved EXCEPT ![w] = FALSE]
    /\ UNCHANGED <<now, row, lock, changes, calls, settled, bounds>>

MutNextJob(w) == \* mutant: the job in hand is kept
    pc' = [pc EXCEPT ![w] = "idle"] /\ UNCHANGED cur

\* Back to the loop over the jobs, without what was in hand.
NextJob(w) ==
    /\ pc' = [pc EXCEPT ![w] = "idle"]
    /\ cur' = [cur EXCEPT ![w] = None]

\* 55P03, lock_not_available: another transaction has the row.
LockNotAvailable(w) ==
    /\ pc[w] = "locking"
    /\ lock[cur[w].id] # None
    /\ NextJob(w)
    /\ UNCHANGED <<now, row, lock, changes, todo, moved, calls, settled, bounds>>

\* 40001, the row was updated after the snapshot: the error is raised out of
\* the loop, and the jobs left are given up until the next poll.
LockConflict(w) ==
    /\ pc[w] = "locking"
    /\ lock[cur[w].id] = None /\ moved[w]
    /\ NextJob(w)
    /\ todo' = [todo EXCEPT ![w] = {}]
    /\ UNCHANGED <<now, row, lock, changes, moved, calls, settled, bounds>>

MutLockJob(w) == \* mutant: a plain SELECT, not FOR UPDATE NOWAIT
    /\ pc[w] = "locking"
    /\ pc' = [pc EXCEPT ![w] = "run"]
    /\ cur' = [cur EXCEPT ![w].t = now]
    /\ UNCHANGED <<now, row, lock, changes, todo, moved, calls, settled, bounds>>

\* The lock is granted; _process_job reads the clock.
LockJob(w) ==
    /\ pc[w] = "locking"
    /\ lock[cur[w].id] = None /\ ~moved[w]
    /\ lock' = [lock EXCEPT ![cur[w].id] = w]
    /\ pc' = [pc EXCEPT ![w] = "run"]
    /\ cur' = [cur EXCEPT ![w].t = now]
    /\ UNCHANGED <<now, row, changes, todo, moved, calls, settled, bounds>>

-----------------------------------------------------------------------------
(* _process_job *)

LoopOver(w) == cur[w].next >= cur[w].t \/ cur[w].left = 0

MutLeftAfter(w) == cur[w].left \* mutant: calls are not counted
LeftAfter(w) == IF cur[w].left > 0 THEN cur[w].left - 1 ELSE cur[w].left

\* One turn of the while loop.  The callback may raise: _callback then rolls
\* job_cr back, and the loop goes on just the same.
Occurrence(w) ==
    /\ pc[w] = "run" /\ ~LoopOver(w)
    /\ cur' = [cur EXCEPT ![w].left = LeftAfter(w),
                          ![w].next = IF LeftAfter(w) # 0 THEN @ + Interval ELSE @,
                          ![w].ok = TRUE]
    /\ calls' = IF ~cur[w].ok \/ cur[w].id \in DoAll
                  THEN [calls EXCEPT ![cur[w].id] = @ + 1] ELSE calls
    /\ UNCHANGED <<now, row, lock, changes, pc, todo, moved, settled, bounds>>

MutJobCommit(w) == \* mutant: cron_cr is committed before job_cr
    /\ pc[w] = "run" /\ LoopOver(w)
    /\ pc' = [pc EXCEPT ![w] = "commit"]
    /\ row' = [row EXCEPT ![cur[w].id].next = cur[w].next]
    /\ UNCHANGED <<now, lock, changes, todo, cur, moved, calls, settled, bounds>>

\* The UPDATE on cron_cr, seen by nobody yet, then job_cr.commit().
JobCommit(w) ==
    /\ pc[w] = "run" /\ LoopOver(w)
    /\ pc' = [pc EXCEPT ![w] = "commit"]
    /\ settled' = [settled EXCEPT ![cur[w].id] =
                       IF @ < cur[w].next THEN cur[w].next ELSE @]
    /\ UNCHANGED <<now, row, lock, changes, todo, cur, moved, calls, bounds>>

Unlock(j) == lock' = [lock EXCEPT ![j] = None]

\* Whoever has a snapshot of j's row and wants to lock it will conflict.
RowMoves(j) ==
    moved' = [w \in Workers |-> IF pc[w] = "locking" /\ cur[w].id = j
                                  THEN TRUE ELSE moved[w]]

\* cron_cr.commit(): the schedule advances from the dictionary's values.
CronCommit(w) ==
    /\ pc[w] = "commit"
    /\ row' = [row EXCEPT ![cur[w].id] =
                   [next |-> cur[w].next, left |-> cur[w].left,
                    active |-> @.active /\ cur[w].left # 0]]
    /\ RowMoves(cur[w].id)
    /\ Unlock(cur[w].id)
    /\ NextJob(w)
    /\ UNCHANGED <<now, changes, todo, calls, settled, bounds>>

MutCommitFails(w) == \* mutant: lock_cr is not closed when a commit raises
    /\ (pc[w] = "run" /\ LoopOver(w)) \/ pc[w] = "commit"
    /\ faults < MaxFaults
    /\ faults' = faults + 1
    /\ NextJob(w)
    /\ UNCHANGED <<now, row, lock, changes, todo, moved, calls, settled, edits, installs>>

\* job_cr.commit() or cron_cr.commit() raises: lock_cr is closed, which rolls
\* the schedule back, and the worker goes on with the next job.
CommitFails(w) ==
    /\ (pc[w] = "run" /\ LoopOver(w)) \/ pc[w] = "commit"
    /\ faults < MaxFaults
    /\ faults' = faults + 1
    /\ Unlock(cur[w].id)
    /\ NextJob(w)
    /\ UNCHANGED <<now, row, changes, todo, moved, calls, settled, edits, installs>>

\* The worker dies (kill, memory or time limit); the server rolls its
\* transactions back, and another worker takes its place.
Crash(w) ==
    /\ pc[w] # "idle" \/ todo[w] # {}
    /\ faults < MaxFaults
    /\ faults' = faults + 1
    /\ lock' = [j \in Jobs |-> IF lock[j] = w THEN None ELSE lock[j]]
    /\ NextJob(w)
    /\ todo' = [todo EXCEPT ![w] = {}]
    /\ UNCHANGED <<now, row, changes, moved, calls, settled, edits, installs>>

-----------------------------------------------------------------------------
(* Users, module operations, time *)

\* write() and unlink() take the row lock or raise UserError.
UserLock(j) ==
    /\ edits < MaxEdits
    /\ lock[j] = None
    /\ edits' = edits + 1
    /\ lock' = [lock EXCEPT ![j] = User]
    /\ UNCHANGED <<now, row, changes, pc, todo, cur, moved, calls, settled,
                   faults, installs>>

\* The user (de)activates or reschedules the job, and the request commits.
UserCommit(j) ==
    /\ lock[j] = User
    /\ \/ row' = [row EXCEPT ![j].active = ~@] /\ UNCHANGED settled
       \/ /\ row' = [row EXCEPT ![j].next = now]
          /\ settled' = [settled EXCEPT ![j] = IF @ < now THEN now ELSE @]
    /\ RowMoves(j)
    /\ Unlock(j)
    /\ UNCHANGED <<now, changes, pc, todo, cur, calls, bounds>>

UserRollback(j) ==
    /\ lock[j] = User
    /\ Unlock(j)
    /\ UNCHANGED <<now, row, changes, pc, todo, cur, moved, calls, settled, bounds>>

\* A module operation (a server started with -i or -u) marks modules; it ends,
\* or dies and leaves the marks.  It takes no lock on the jobs; the buttons of
\* the web client do, and mark at fewer instants.
MarkModules ==
    /\ installs < MaxInstalls
    /\ ~changes
    /\ changes' = TRUE
    /\ installs' = installs + 1
    /\ UNCHANGED <<now, row, lock, pc, todo, cur, moved, calls, settled, faults, edits>>

OperationEnds ==
    /\ changes
    /\ changes' = FALSE
    /\ UNCHANGED <<now, row, lock, pc, todo, cur, moved, calls, settled, bounds>>

Tick ==
    /\ \E t \in Instants : t > now /\ now' = t
    /\ UNCHANGED <<row, lock, changes, pc, todo, cur, moved, calls, settled, bounds>>

WorkerStep(w) ==
    \/ Poll(w) \/ ResetModules(w)
    \/ LockSnapshot(w) \/ LockNotAvailable(w) \/ LockConflict(w) \/ LockJob(w)
    \/ Occurrence(w) \/ JobCommit(w) \/ CronCommit(w)

UserEnds(j) == UserCommit(j) \/ UserRollback(j)

Next ==
    \/ \E w \in Workers : WorkerStep(w) \/ CommitFails(w) \/ Crash(w)
    \/ \E j \in Jobs : UserLock(j) \/ UserEnds(j)
    \/ MarkModules \/ OperationEnds
    \/ Tick

Spec == Init /\ [][Next]_vars

(* Workers poll every SLEEP_INTERVAL and their jobs return; a request that *)
(* holds a row ends.  Module operations need never end, nor time pass.     *)
Fairness ==
    /\ \A w \in Workers : WF_vars(WorkerStep(w))
    /\ \A j \in Jobs : WF_vars(UserEnds(j))

FairSpec == Spec /\ Fairness

-----------------------------------------------------------------------------
(* Properties *)

Running(w) == pc[w] \in {"run", "commit"}

(* A job is run by one worker at a time, and not while a user edits it.    *)
MutualExclusion ==
    \A w \in Workers : Running(w) =>
        /\ lock[cur[w].id] = w
        /\ \A v \in Workers \ {w} : Running(v) => cur[v].id # cur[w].id

(* However old the dictionary in hand, the job that runs is due by its     *)
(* committed row: a job that ran elsewhere, was deactivated or exhausted   *)
(* since the poll is not run again.                                        *)
RunsOnlyDue == \A w \in Workers : Running(w) => Due(cur[w].id)

(* The schedule never passes an occurrence whose job transaction has not   *)
(* been committed: a crash between the two commits repeats a run, and      *)
(* never skips one.                                                        *)
NoSkippedRun == \A j \in Jobs : row[j].next <= settled[j]

(* Without doall, the method is called at most numbercall times, and once  *)
(* more for each crash or failed commit.                                   *)
CallsWithinLimit ==
    \A j \in Jobs \ DoAll :
        NumberCall[j] >= 0 => calls[j] <= NumberCall[j] + faults

(* The help of numbercall: "How many times the method is called".          *)
NumberOfCalls ==
    \A j \in Jobs : NumberCall[j] >= 0 => calls[j] <= NumberCall[j]

(* A due job is eventually taken care of, unless modules are marked.       *)
DueJobsRun == \A j \in Jobs : Due(j) /\ ~changes ~> ~Due(j) \/ changes

(* Modules left marked by a dead operation are reset once a job has been   *)
(* due for MAX_FAIL_TIME (the comment at lines 202-204).                   *)
StuckModulesReset == changes /\ Stuck ~> ~changes \/ ~Stuck
=============================================================================
