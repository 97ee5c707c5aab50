----------------------------- MODULE CronProofs -----------------------------
(***************************************************************************)
(* For any number of workers and jobs, any calendar and any bounds: the    *)
(* safety properties of Cron, from an inductive invariant.                 *)
(***************************************************************************)
EXTENDS Cron, TLAPS

(* While a worker waits for the lock of a row that has not moved since its *)
(* snapshot, the row is still due.                                         *)
SnapshotDue == \A w \in Workers : pc[w] = "locking" /\ ~moved[w] => Due(cur[w].id)

(* A worker about to commit the schedule has its job's work committed.     *)
CommitSettled == \A w \in Workers : pc[w] = "commit" => cur[w].next <= settled[cur[w].id]

HoldsLock == \A w \in Workers : Running(w) => lock[cur[w].id] = w

(***************************************************************************)
(* RunsOnlyDue needs SnapshotDue when the lock is granted, and HoldsLock   *)
(* to know that nobody changes the row of a running job.  NoSkippedRun     *)
(* needs CommitSettled at cron_cr.commit().                                *)
(***************************************************************************)
IInv ==
    /\ TypeOK
    /\ HoldsLock
    /\ SnapshotDue
    /\ RunsOnlyDue
    /\ CommitSettled
    /\ NoSkippedRun

LEMMA InitInv == Init => IInv
  <1> SUFFICES ASSUME Init PROVE IInv
    OBVIOUS
  <1>1. TypeOK
    BY TimeAssumption, JobsAssumption DEF Init, TypeOK, PCs
  <1>2. HoldsLock /\ SnapshotDue /\ RunsOnlyDue /\ CommitSettled
    BY DEF Init, HoldsLock, SnapshotDue, RunsOnlyDue, CommitSettled, Running
  <1>3. NoSkippedRun
    BY TimeAssumption DEF Init, NoSkippedRun
  <1> QED
    BY <1>1, <1>2, <1>3 DEF IInv

(* What a worker has in hand is a dictionary.                              *)
LEMMA InHand ==
    ASSUME TypeOK, NEW w \in Workers, pc[w] \notin {"idle", "reset"}
    PROVE  /\ cur[w] \in Task
           /\ cur[w].id \in Jobs /\ cur[w].next \in Nat /\ cur[w].left \in Int
           /\ cur[w].ok \in BOOLEAN /\ cur[w].t \in Nat
  BY DEF TypeOK, Task

(* Steps of one worker that touch no row, no lock and no other worker.     *)
LEMMA PrivateStep ==
    ASSUME IInv, TypeOK', NEW w \in Workers,
           UNCHANGED <<now, row>>,
           \A v \in Workers \ {w} : pc'[v] = pc[v] /\ cur'[v] = cur[v] /\ moved'[v] = moved[v],
           \A v \in Workers \ {w} : Running(v) => lock'[cur[v].id] = lock[cur[v].id],
           \A j \in Jobs : settled[j] <= settled'[j],
           Running(w)' => lock'[cur'[w].id] = w /\ Due(cur'[w].id),
           pc'[w] = "locking" => moved'[w] \/ Due(cur'[w].id),
           pc'[w] = "commit" => cur'[w].next <= settled'[cur'[w].id]
    PROVE  IInv'
  <1>1. \A j : Due(j)' <=> Due(j)
    BY DEF Due
  <1>2. HoldsLock'
    BY DEF IInv, HoldsLock, Running
  <1>3. SnapshotDue' /\ RunsOnlyDue'
    BY <1>1 DEF IInv, SnapshotDue, RunsOnlyDue, Running
  <1>4. CommitSettled'
    <2> SUFFICES ASSUME NEW v \in Workers \ {w}, pc[v] = "commit"
                 PROVE  cur[v].next <= settled'[cur[v].id]
      BY DEF CommitSettled
    <2>1. cur[v].id \in Jobs /\ cur[v].next \in Nat
      BY InHand DEF IInv
    <2> QED
      BY <2>1 DEF IInv, CommitSettled, TypeOK
  <1>5. NoSkippedRun'
    BY DEF IInv, NoSkippedRun, TypeOK
  <1> QED
    BY <1>2, <1>3, <1>4, <1>5 DEF IInv

LEMMA PollInv == ASSUME IInv, NEW w \in Workers, Poll(w) PROVE IInv'
  <1>1. Dicts \subseteq Dict
    BY DEF Dicts, Dict, DueJobs, IInv, TypeOK
  <1>2. TypeOK'
    BY <1>1 DEF Poll, bounds, IInv, TypeOK, PCs
  <1> QED
    BY <1>2, PrivateStep DEF Poll, bounds, Running, IInv, TypeOK

LEMMA ResetModulesInv == ASSUME IInv, NEW w \in Workers, ResetModules(w) PROVE IInv'
  <1>1. TypeOK'
    BY DEF ResetModules, bounds, IInv, TypeOK, PCs
  <1> QED
    BY <1>1, PrivateStep DEF ResetModules, bounds, Running, IInv, TypeOK

LEMMA LockSnapshotInv == ASSUME IInv, NEW w \in Workers, LockSnapshot(w) PROVE IInv'
  <1>1. PICK d \in todo[w] :
           /\ todo' = [todo EXCEPT ![w] = @ \ {d}]
           /\ IF Due(d.id)
                THEN /\ pc' = [pc EXCEPT ![w] = "locking"]
                     /\ cur' = [cur EXCEPT ![w] = [id |-> d.id, next |-> d.next,
                                    left |-> d.left, ok |-> FALSE, t |-> now]]
                ELSE UNCHANGED <<pc, cur>>
    BY DEF LockSnapshot
  <1>2. d \in Dict /\ pc[w] = "idle"
    BY DEF LockSnapshot, IInv, TypeOK
  <1>3. [id |-> d.id, next |-> d.next, left |-> d.left, ok |-> FALSE, t |-> now] \in Task
    BY <1>2 DEF Dict, Task, IInv, TypeOK
  <1>4. TypeOK'
    <2>1. todo' \in [Workers -> SUBSET Dict]
      BY <1>1 DEF IInv, TypeOK
    <2>2. CASE Due(d.id)
      <3> DEFINE new == [id |-> d.id, next |-> d.next, left |-> d.left, ok |-> FALSE, t |-> now]
      <3>1. new \in Task /\ new # None
        BY <1>3, NoneAssumption
      <3>2. pc' = [pc EXCEPT ![w] = "locking"] /\ cur' = [cur EXCEPT ![w] = new]
        BY <1>1, <2>2
      <3> HIDE DEF new
      <3>3. /\ pc' \in [Workers -> PCs]
            /\ cur' \in [Workers -> Task \cup {None}]
            /\ \A v \in Workers : cur'[v] = None <=> pc'[v] \in {"idle", "reset"}
        BY <3>1, <3>2 DEF IInv, TypeOK, PCs
      <3> QED
        BY <2>1, <3>3 DEF LockSnapshot, bounds, IInv, TypeOK
    <2>3. CASE ~Due(d.id)
      BY <1>1, <2>1, <2>3 DEF LockSnapshot, bounds, IInv, TypeOK
    <2> QED
      BY <2>2, <2>3
  <1>5. /\ UNCHANGED <<now, row, lock, settled>>
        /\ \A v \in Workers \ {w} : pc'[v] = pc[v] /\ cur'[v] = cur[v] /\ moved'[v] = moved[v]
    BY <1>1 DEF LockSnapshot, IInv, TypeOK
  <1>6. pc'[w] \in {"idle", "locking"} /\ (pc'[w] = "locking" => Due(cur'[w].id))
    BY <1>1, <1>2 DEF IInv, TypeOK
  <1> QED
    BY <1>4, <1>5, <1>6, PrivateStep DEF Running, IInv, TypeOK

LEMMA LockNotAvailableInv ==
    ASSUME IInv, NEW w \in Workers, LockNotAvailable(w) PROVE IInv'
  <1>1. TypeOK'
    BY DEF LockNotAvailable, NextJob, bounds, IInv, TypeOK, PCs
  <1> QED
    BY <1>1, PrivateStep DEF LockNotAvailable, NextJob, bounds, Running, IInv, TypeOK

LEMMA LockConflictInv == ASSUME IInv, NEW w \in Workers, LockConflict(w) PROVE IInv'
  <1>1. TypeOK'
    BY DEF LockConflict, NextJob, bounds, IInv, TypeOK, PCs
  <1> QED
    BY <1>1, PrivateStep DEF LockConflict, NextJob, bounds, Running, IInv, TypeOK

(* A loop variable set in the dictionary in hand leaves a dictionary.      *)
LEMMA TaskUpdate ==
    ASSUME TypeOK, NEW w \in Workers, pc[w] \notin {"idle", "reset"}, NEW t \in Task,
           pc'[w] \notin {"idle", "reset"}, pc' \in [Workers -> PCs],
           \A v \in Workers \ {w} : pc'[v] = pc[v],
           cur' = [cur EXCEPT ![w] = t]
    PROVE  /\ cur' \in [Workers -> Task \cup {None}]
           /\ \A v \in Workers : cur'[v] = None <=> pc'[v] \in {"idle", "reset"}
  BY NoneAssumption DEF TypeOK

(* The lock is granted on a row that has not moved: it is due, and nobody  *)
(* else holds it.                                                          *)
LEMMA LockJobInv == ASSUME IInv, NEW w \in Workers, LockJob(w) PROVE IInv'
  <1> DEFINE t == [cur[w] EXCEPT !.t = now]
  <1>1. /\ t \in Task /\ t.id = cur[w].id /\ t.next = cur[w].next
        /\ t.id \in Jobs
    BY InHand DEF LockJob, Task, IInv, TypeOK
  <1>2. /\ cur' = [cur EXCEPT ![w] = t]
        /\ pc' = [pc EXCEPT ![w] = "run"]
        /\ lock' = [lock EXCEPT ![cur[w].id] = w]
        /\ pc[w] = "locking" /\ lock[cur[w].id] = None /\ ~moved[w]
        /\ UNCHANGED <<now, row, changes, todo, moved, calls, settled, faults, edits, installs>>
    BY DEF LockJob, bounds
  <1> HIDE DEF t
  <1>3. TypeOK'
    <2>1. pc' \in [Workers -> PCs] /\ lock' \in [Jobs -> Workers \cup {User, None}]
      BY <1>2 DEF IInv, TypeOK, PCs
    <2>2. /\ cur' \in [Workers -> Task \cup {None}]
          /\ \A v \in Workers : cur'[v] = None <=> pc'[v] \in {"idle", "reset"}
      BY <1>1, <1>2, <2>1, TaskUpdate DEF IInv, TypeOK
    <2> QED
      BY <1>2, <2>1, <2>2 DEF IInv, TypeOK
  <1>4. cur'[w] = t /\ pc'[w] = "run" /\ lock'[t.id] = w /\ Due(t.id)
    BY <1>1, <1>2 DEF IInv, TypeOK, SnapshotDue
  <1>5. ASSUME NEW v \in Workers \ {w}, Running(v)
        PROVE  lock'[cur[v].id] = lock[cur[v].id]
    <2>1. lock[cur[v].id] = v /\ cur[v].id \in Jobs
      BY <1>5, InHand DEF IInv, HoldsLock, Running
    <2> QED
      BY <1>2, <2>1, UserAssumption DEF IInv, TypeOK
  <1>6. \A v \in Workers \ {w} : pc'[v] = pc[v] /\ cur'[v] = cur[v] /\ moved'[v] = moved[v]
    BY <1>2 DEF IInv, TypeOK
  <1> QED
    BY <1>2, <1>3, <1>4, <1>5, <1>6, PrivateStep DEF IInv, TypeOK

LEMMA OccurrenceInv == ASSUME IInv, NEW w \in Workers, Occurrence(w) PROVE IInv'
  <1> DEFINE l == LeftAfter(w)
             n == IF LeftAfter(w) # 0 THEN cur[w].next + Interval ELSE cur[w].next
             t == [cur[w] EXCEPT !.left = l, !.next = n, !.ok = TRUE]
  <1>1. t \in Task /\ t.id = cur[w].id /\ t.id \in Jobs
    <2>1. l \in Int /\ n \in Nat
      BY InHand, TimeAssumption DEF Occurrence, LeftAfter, IInv
    <2>2. cur[w] \in Task
      BY InHand DEF Occurrence, IInv
    <2> HIDE DEF l, n
    <2> QED
      BY <2>1, <2>2 DEF Task
  <1>2. /\ cur' = [cur EXCEPT ![w] = t]
        /\ pc[w] = "run"
        /\ UNCHANGED <<now, row, lock, changes, pc, todo, moved, settled, faults, edits,
           installs>>
    BY DEF Occurrence, bounds
  <1> HIDE DEF t
  <1>3. TypeOK'
    <2>1. /\ cur' \in [Workers -> Task \cup {None}]
          /\ \A v \in Workers : cur'[v] = None <=> pc'[v] \in {"idle", "reset"}
      BY <1>1, <1>2, TaskUpdate DEF IInv, TypeOK
    <2>2. calls' \in [Jobs -> Nat]
      BY <1>1 DEF Occurrence, IInv, TypeOK
    <2> QED
      BY <1>2, <2>1, <2>2 DEF IInv, TypeOK
  <1>4. cur'[w] = t
    BY <1>2 DEF IInv, TypeOK
  <1>5. \A v \in Workers \ {w} : pc'[v] = pc[v] /\ cur'[v] = cur[v] /\ moved'[v] = moved[v]
    BY <1>2 DEF IInv, TypeOK
  <1>6. lock'[cur'[w].id] = w /\ Due(cur'[w].id)
    BY <1>1, <1>2, <1>4 DEF IInv, HoldsLock, RunsOnlyDue, Running
  <1> QED
    BY <1>2, <1>3, <1>5, <1>6, PrivateStep DEF IInv, TypeOK

LEMMA JobCommitInv == ASSUME IInv, NEW w \in Workers, JobCommit(w) PROVE IInv'
  <1>1. cur[w].id \in Jobs /\ cur[w].next \in Nat
    BY InHand DEF JobCommit, IInv
  <1>2. settled' \in [Jobs -> Nat] /\ \A j \in Jobs : settled[j] <= settled'[j]
    BY <1>1 DEF JobCommit, IInv, TypeOK
  <1>3. cur[w].next <= settled'[cur[w].id]
    BY <1>1 DEF JobCommit, IInv, TypeOK
  <1>4. TypeOK'
    BY <1>2 DEF JobCommit, bounds, IInv, TypeOK, PCs
  <1>5. lock[cur[w].id] = w /\ Due(cur[w].id)
    BY DEF JobCommit, IInv, HoldsLock, RunsOnlyDue, Running
  <1> QED
    BY <1>2, <1>3, <1>4, <1>5, PrivateStep DEF JobCommit, bounds, IInv, TypeOK

-----------------------------------------------------------------------------

(* A step that rewrites one row, of a job that no other worker runs, and   *)
(* that is seen as moved by those who wait for its lock.                   *)
LEMMA RowStep ==
    ASSUME IInv, TypeOK', NEW j \in Jobs, RowMoves(j), UNCHANGED now,
           \A k \in Jobs \ {j} : row'[k] = row[k] /\ lock'[k] = lock[k],
           \A v \in Workers : pc'[v] = "idle" \/ (pc'[v] = pc[v] /\ cur'[v] = cur[v]),
           \A v \in Workers : Running(v) /\ pc'[v] # "idle" => cur[v].id # j,
           \A k \in Jobs : settled[k] <= settled'[k],
           row'[j].next <= settled'[j]
    PROVE  IInv'
  <1>1. \A k \in Jobs \ {j} : Due(k)' <=> Due(k)
    BY DEF Due
  <1>2. ASSUME NEW v \in Workers, pc'[v] \notin {"idle", "reset"}
        PROVE  cur'[v] = cur[v] /\ pc'[v] = pc[v] /\ cur[v].id \in Jobs
                 /\ cur[v].next \in Nat
    BY <1>2, InHand DEF IInv
  <1>3. HoldsLock'
    BY <1>2 DEF IInv, HoldsLock, Running
  <1>4. RunsOnlyDue'
    BY <1>1, <1>2 DEF IInv, RunsOnlyDue, Running
  <1>5. SnapshotDue'
    <2> SUFFICES ASSUME NEW v \in Workers, pc'[v] = "locking", ~moved'[v]
                 PROVE  Due(cur[v].id)'
      BY DEF SnapshotDue
    <2>1. pc[v] = "locking" /\ cur'[v] = cur[v] /\ cur[v].id \in Jobs
      BY <1>2
    <2>2. cur[v].id # j /\ ~moved[v]
      BY <2>1 DEF RowMoves
    <2> QED
      BY <1>1, <2>1, <2>2 DEF IInv, SnapshotDue
  <1>6. CommitSettled'
    <2> SUFFICES ASSUME NEW v \in Workers, pc'[v] = "commit"
                 PROVE  cur'[v].next <= settled'[cur'[v].id]
      BY DEF CommitSettled
    <2>1. /\ cur'[v] = cur[v] /\ pc[v] = "commit"
          /\ cur[v].id \in Jobs /\ cur[v].next \in Nat
      BY <1>2
    <2>2. cur[v].next <= settled[cur[v].id]
      BY <2>1 DEF IInv, CommitSettled
    <2> QED
      BY <2>1, <2>2 DEF IInv, TypeOK
  <1>7. NoSkippedRun'
    BY DEF IInv, NoSkippedRun, TypeOK
  <1> QED
    BY <1>3, <1>4, <1>5, <1>6, <1>7 DEF IInv

(* The committed schedule is the dictionary's, which is settled; whoever   *)
(* else runs holds another row.                                            *)
LEMMA CronCommitInv == ASSUME IInv, NEW w \in Workers, CronCommit(w) PROVE IInv'
  <1> DEFINE j == cur[w].id
             new == [next |-> cur[w].next, left |-> cur[w].left,
                     active |-> row[j].active /\ cur[w].left # 0]
  <1>1. j \in Jobs /\ cur[w].next \in Nat /\ cur[w].left \in Int
    BY InHand DEF CronCommit, IInv
  <1>2. /\ row' = [row EXCEPT ![j] = new]
        /\ lock' = [lock EXCEPT ![j] = None]
        /\ pc' = [pc EXCEPT ![w] = "idle"] /\ cur' = [cur EXCEPT ![w] = None]
        /\ pc[w] = "commit" /\ RowMoves(j)
        /\ UNCHANGED <<now, changes, todo, calls, settled, faults, edits, installs>>
    BY DEF CronCommit, NextJob, Unlock, bounds
  <1>3. new \in [next : Nat, left : Int, active : BOOLEAN] /\ new.next = cur[w].next
    BY <1>1
  <1>4. ASSUME NEW v \in Workers, Running(v), v # w
        PROVE  cur[v].id # j
    BY <1>2, <1>4 DEF IInv, HoldsLock, Running
  <1>5. cur[w].next <= settled[j]
    BY <1>2 DEF IInv, CommitSettled
  <1> HIDE DEF new, j
  <1>6. TypeOK'
    <2>1. row' \in [Jobs -> [next : Nat, left : Int, active : BOOLEAN]]
      BY <1>1, <1>2, <1>3 DEF IInv, TypeOK
    <2>2. moved' \in [Workers -> BOOLEAN]
      BY <1>2 DEF RowMoves, IInv, TypeOK
    <2> QED
      BY <1>2, <2>1, <2>2 DEF IInv, TypeOK, PCs
  <1>7. /\ \A k \in Jobs \ {j} : row'[k] = row[k] /\ lock'[k] = lock[k]
        /\ row'[j] = new
        /\ \A v \in Workers : pc'[v] = "idle" \/ (pc'[v] = pc[v] /\ cur'[v] = cur[v])
        /\ pc'[w] = "idle"
        /\ \A k \in Jobs : settled[k] <= settled'[k]
    BY <1>1, <1>2 DEF IInv, TypeOK
  <1> QED
    BY <1>1, <1>2, <1>3, <1>4, <1>5, <1>6, <1>7, RowStep

(* A user holds the row, so no worker runs the job.                        *)
LEMMA UserCommitInv == ASSUME IInv, NEW j \in Jobs, UserCommit(j) PROVE IInv'
  <1>1. \A v \in Workers : Running(v) => cur[v].id # j
    BY UserAssumption DEF UserCommit, IInv, HoldsLock
  <1>2. row[j] \in [next : Nat, left : Int, active : BOOLEAN] /\ row[j].next <= settled[j]
    BY DEF IInv, TypeOK, NoSkippedRun
  <1>3. /\ row' \in [Jobs -> [next : Nat, left : Int, active : BOOLEAN]]
        /\ row'[j].next <= settled'[j]
        /\ \A k \in Jobs : settled[k] <= settled'[k]
        /\ settled' \in [Jobs -> Nat]
    <2>1. CASE row' = [row EXCEPT ![j].active = ~@] /\ UNCHANGED settled
      <3> DEFINE r == [row[j] EXCEPT !.active = ~@]
      <3>1. r \in [next : Nat, left : Int, active : BOOLEAN] /\ r.next = row[j].next
        BY <1>2
      <3>2. row' = [row EXCEPT ![j] = r]
        BY <2>1
      <3> HIDE DEF r
      <3> QED
        BY <1>2, <2>1, <3>1, <3>2 DEF IInv, TypeOK
    <2>2. CASE /\ row' = [row EXCEPT ![j].next = now]
               /\ settled' = [settled EXCEPT ![j] = IF @ < now THEN now ELSE @]
      <3> DEFINE r == [row[j] EXCEPT !.next = now]
      <3>1. r \in [next : Nat, left : Int, active : BOOLEAN] /\ r.next = now
        BY <1>2 DEF IInv, TypeOK
      <3>2. row' = [row EXCEPT ![j] = r]
        BY <2>2
      <3> HIDE DEF r
      <3> QED
        BY <1>2, <2>2, <3>1, <3>2 DEF IInv, TypeOK
    <2> QED
      BY <2>1, <2>2 DEF UserCommit
  <1>4. moved' \in [Workers -> BOOLEAN]
    BY DEF UserCommit, RowMoves, IInv, TypeOK
  <1>5. TypeOK'
    BY <1>3, <1>4 DEF UserCommit, Unlock, bounds, IInv, TypeOK
  <1>6. \A k \in Jobs \ {j} : row'[k] = row[k] /\ lock'[k] = lock[k]
    BY DEF UserCommit, Unlock, IInv, TypeOK
  <1> QED
    BY <1>1, <1>3, <1>5, <1>6, RowStep DEF UserCommit

(* A step that changes neither rows nor what any worker has in hand.       *)
LEMMA OutsideStep ==
    ASSUME IInv, TypeOK', UNCHANGED <<row, settled, moved>>, now <= now',
           \A v \in Workers : pc'[v] = "idle" \/ (pc'[v] = pc[v] /\ cur'[v] = cur[v]),
           \A v \in Workers : Running(v) /\ pc'[v] # "idle" => lock'[cur[v].id] = v
    PROVE  IInv'
  <1>1. \A j \in Jobs : Due(j) => Due(j)'
    BY DEF Due, IInv, TypeOK
  <1>2. ASSUME NEW v \in Workers, pc'[v] \notin {"idle", "reset"}
        PROVE  cur'[v] = cur[v] /\ pc'[v] = pc[v] /\ cur[v].id \in Jobs
    BY <1>2, InHand DEF IInv
  <1>3. HoldsLock' /\ RunsOnlyDue' /\ SnapshotDue'
    BY <1>1, <1>2 DEF IInv, HoldsLock, RunsOnlyDue, SnapshotDue, Running
  <1>4. CommitSettled' /\ NoSkippedRun'
    BY <1>2 DEF IInv, CommitSettled, NoSkippedRun
  <1> QED
    BY <1>3, <1>4 DEF IInv

LEMMA CommitFailsInv == ASSUME IInv, NEW w \in Workers, CommitFails(w) PROVE IInv'
  <1>1. cur[w].id \in Jobs /\ Running(w)
    BY InHand DEF CommitFails, IInv, Running
  <1>2. TypeOK'
    BY <1>1 DEF CommitFails, NextJob, Unlock, IInv, TypeOK, PCs
  <1>3. ASSUME NEW v \in Workers, Running(v), pc'[v] # "idle"
        PROVE  lock'[cur[v].id] = v
    <2>1. v # w
      BY <1>3 DEF CommitFails, NextJob, IInv, TypeOK
    <2>2. lock[cur[v].id] = v /\ lock[cur[w].id] = w
      BY <1>1, <1>3 DEF IInv, HoldsLock
    <2> QED
      BY <1>1, <1>3, <2>1, <2>2, InHand DEF CommitFails, Unlock, Running, IInv, TypeOK
  <1> QED
    BY <1>2, <1>3, OutsideStep DEF CommitFails, NextJob, IInv, TypeOK

LEMMA CrashInv == ASSUME IInv, NEW w \in Workers, Crash(w) PROVE IInv'
  <1>1. TypeOK'
    BY DEF Crash, NextJob, IInv, TypeOK, PCs
  <1>2. ASSUME NEW v \in Workers, Running(v), pc'[v] # "idle"
        PROVE  lock'[cur[v].id] = v
    <2>1. v # w /\ lock[cur[v].id] = v /\ cur[v].id \in Jobs
      BY <1>2, InHand DEF Crash, NextJob, Running, IInv, TypeOK, HoldsLock
    <2> QED
      BY <2>1 DEF Crash
  <1> QED
    BY <1>1, <1>2, OutsideStep DEF Crash, NextJob, IInv, TypeOK

LEMMA UserLockInv == ASSUME IInv, NEW j \in Jobs, UserLock(j) PROVE IInv'
  <1>1. TypeOK'
    BY DEF UserLock, IInv, TypeOK
  <1>2. ASSUME NEW v \in Workers, Running(v)
        PROVE  lock'[cur[v].id] = v
    <2>1. lock[cur[v].id] = v /\ lock[j] = None
      BY <1>2 DEF UserLock, IInv, HoldsLock
    <2> QED
      BY <2>1, UserAssumption DEF UserLock, IInv, TypeOK
  <1> QED
    BY <1>1, <1>2, OutsideStep DEF UserLock, IInv, TypeOK

LEMMA UserRollbackInv == ASSUME IInv, NEW j \in Jobs, UserRollback(j) PROVE IInv'
  <1>1. TypeOK'
    BY DEF UserRollback, Unlock, bounds, IInv, TypeOK
  <1>2. ASSUME NEW v \in Workers, Running(v)
        PROVE  lock'[cur[v].id] = v
    <2>1. lock[cur[v].id] = v /\ lock[j] = User
      BY <1>2 DEF UserRollback, IInv, HoldsLock
    <2> QED
      BY <2>1, UserAssumption DEF UserRollback, Unlock, IInv, TypeOK
  <1> QED
    BY <1>1, <1>2, OutsideStep DEF UserRollback, bounds, IInv, TypeOK

LEMMA OthersInv ==
    ASSUME IInv, MarkModules \/ OperationEnds \/ Tick \/ UNCHANGED vars
    PROVE  IInv'
  <1>1. now' \in Nat /\ now <= now'
    BY TimeAssumption DEF MarkModules, OperationEnds, Tick, vars, IInv, TypeOK
  <1>2. TypeOK'
    <2>1. /\ changes' \in BOOLEAN /\ installs' \in Nat
          /\ UNCHANGED <<row, lock, pc, todo, cur, moved, calls, settled, faults, edits>>
      <3>1. CASE MarkModules
        BY <3>1 DEF MarkModules, IInv, TypeOK
      <3>2. CASE OperationEnds
        BY <3>2 DEF OperationEnds, bounds, IInv, TypeOK
      <3>3. CASE Tick
        BY <3>3 DEF Tick, bounds, IInv, TypeOK
      <3>4. CASE UNCHANGED vars
        BY <3>4 DEF vars, IInv, TypeOK
      <3> QED
        BY <3>1, <3>2, <3>3, <3>4
    <2> QED
      BY <1>1, <2>1 DEF IInv, TypeOK
  <1>3. UNCHANGED <<row, lock, pc, cur, moved, settled>>
    BY DEF MarkModules, OperationEnds, Tick, vars
  <1> QED
    BY <1>1, <1>2, <1>3, OutsideStep DEF IInv, HoldsLock

-----------------------------------------------------------------------------

LEMMA NextInv == IInv /\ [Next]_vars => IInv'
  <1> SUFFICES ASSUME IInv, [Next]_vars PROVE IInv'
    OBVIOUS
  <1>1. ASSUME NEW w \in Workers, WorkerStep(w) \/ CommitFails(w) \/ Crash(w)
        PROVE  IInv'
    BY <1>1, PollInv, ResetModulesInv, LockSnapshotInv, LockNotAvailableInv, LockConflictInv,
       LockJobInv, OccurrenceInv, JobCommitInv, CronCommitInv, CommitFailsInv, CrashInv
    DEF WorkerStep
  <1>2. ASSUME NEW j \in Jobs, UserLock(j) \/ UserEnds(j)
        PROVE  IInv'
    BY <1>2, UserLockInv, UserCommitInv, UserRollbackInv DEF UserEnds
  <1> QED
    BY <1>1, <1>2, OthersInv DEF Next

(* IInv holds in every reachable state.                                    *)
THEOREM Invariance == Spec => []IInv
  BY InitInv, NextInv, PTL DEF Spec

(* The tables and the workers' variables keep their types.                 *)
THEOREM TypeCorrect == Spec => []TypeOK
  <1>1. IInv => TypeOK
    BY DEF IInv
  <1> QED
    BY <1>1, Invariance, PTL

(* For any number of workers: one runner per job, never beside a user's    *)
(* edit (_process_jobs' FOR UPDATE NOWAIT, _try_lock).                     *)
THEOREM OneRunner == Spec => []MutualExclusion
  <1>1. IInv => MutualExclusion
    BY DEF IInv, HoldsLock, MutualExclusion
  <1> QED
    BY <1>1, Invariance, PTL

(* A stale dictionary never starts a job its committed row does not call   *)
(* for.                                                                    *)
THEOREM OnlyDueJobsRun == Spec => []RunsOnlyDue
  <1>1. IInv => RunsOnlyDue
    BY DEF IInv
  <1> QED
    BY <1>1, Invariance, PTL

(* Whatever crashes and failed commits: no occurrence is passed over       *)
(* before its job's transaction is committed (_process_job's two commits). *)
THEOREM NothingSkipped == Spec => []NoSkippedRun
  <1>1. IInv => NoSkippedRun
    BY DEF IInv
  <1> QED
    BY <1>1, Invariance, PTL

-----------------------------------------------------------------------------
(***************************************************************************)
(* CallsWithinLimit.  The schedule of a job and the calls it has left are  *)
(* in step (OnSlot), so a dictionary that is behind its row in calls is    *)
(* behind it in time too, and the loop of _process_job catches up with the *)
(* row before it ends: every committed transaction leaves fewer calls than *)
(* it found (Behind), and at most one call is neither subtracted from the  *)
(* row nor charged to a fault: that of the worker that runs (Counted).     *)
(*                                                                         *)
(* Both hypotheses are needed.  A user who reschedules a job (UserCommit)  *)
(* takes it out of step; and if the clock reads an occurrence's very       *)
(* instant, a stale dictionary is put back on the row it came from, with a *)
(* call made and none subtracted.                                          *)
(***************************************************************************)
OffBeat == \A n \in Instants \cup {0}, k \in Nat : n # FirstCall + Interval * k

Limited == {j \in Jobs : NumberCall[j] >= 0}
Slot(j, l) == FirstCall + Interval * (NumberCall[j] - l)

OnSlot(j, d) ==
    /\ d.left \in 0 .. NumberCall[j]
    /\ d.left > 0 => d.next = Slot(j, d.left)

NoUser == now \in Instants \cup {0} /\ edits = 0 /\ \A j \in Jobs : lock[j] # User

RowsOnSlot == \A j \in Limited : OnSlot(j, row[j])

TodoBehind(w) ==
    \A d \in todo[w] : d.id \in Limited =>
        OnSlot(d.id, d) /\ d.left >= row[d.id].left /\ d.left > 0

HandBehind(w) ==
    pc[w] \notin {"idle", "reset"} /\ cur[w].id \in Limited =>
        /\ OnSlot(cur[w].id, cur[w])
        /\ ~cur[w].ok => cur[w].left >= row[cur[w].id].left /\ cur[w].left > 0
        /\ pc[w] = "locking" => ~cur[w].ok
        /\ Running(w) => cur[w].t \in Instants \cup {0} /\ row[cur[w].id].next <= cur[w].t
        /\ pc[w] = "commit" => cur[w].left < row[cur[w].id].left

Behind == \A w \in Workers : TodoBehind(w) /\ HandBehind(w)

Ran(j) == \E w \in Workers : Running(w) /\ cur[w].id = j /\ cur[w].ok

Counted ==
    \A j \in Limited \ DoAll :
        calls[j] + row[j].left <= NumberCall[j] + faults + (IF Ran(j) THEN 1 ELSE 0)

LInv == IInv /\ NoUser /\ RowsOnSlot /\ Behind /\ Counted

(* Fewer calls left, later in time. *)
LEMMA SlotOrder ==
    ASSUME NEW j \in Limited, NEW k \in 0 .. NumberCall[j], NEW l \in 0 .. NumberCall[j]
    PROVE  /\ Slot(j, k) \in Nat /\ Slot(j, l) \in Nat
           /\ k <= l => Slot(j, l) <= Slot(j, k)
           /\ Slot(j, k - 1) = Slot(j, k) + Interval
           /\ OffBeat => \A n \in Instants \cup {0} : n # Slot(j, k)
  <1> DEFINE m == NumberCall[j] - k
             n == NumberCall[j] - l
  <1>1. m \in Nat /\ n \in Nat /\ NumberCall[j] \in Int
    BY JobsAssumption DEF Limited
  <1>2. \A a \in Nat : Interval * a \in Nat /\ Interval * (a + 1) = Interval * a + Interval
    BY TimeAssumption
  <1>3. \A a, b \in Nat : Interval * (a + b) = Interval * a + Interval * b
    BY TimeAssumption
  <1>4. NumberCall[j] - (k - 1) = m + 1
    BY <1>1
  <1>5. k <= l => m = n + (l - k) /\ l - k \in Nat
    BY <1>1
  <1>6. Slot(j, k) = FirstCall + Interval * m /\ Slot(j, l) = FirstCall + Interval * n
    BY DEF Slot
  <1>7. Slot(j, k - 1) = FirstCall + Interval * (m + 1)
    BY <1>4 DEF Slot
  <1> HIDE DEF m, n
  <1>8. k <= l => Slot(j, l) <= Slot(j, k)
    <2> SUFFICES ASSUME k <= l PROVE Slot(j, l) <= Slot(j, k)
      OBVIOUS
    <2>1. Interval * m = Interval * n + Interval * (l - k)
      BY <1>1, <1>3, <1>5
    <2> QED
      BY <1>1, <1>2, <1>5, <1>6, <2>1, TimeAssumption
  <1>9. Slot(j, k) \in Nat /\ Slot(j, l) \in Nat /\ Slot(j, k - 1) = Slot(j, k) + Interval
    BY <1>1, <1>2, <1>6, <1>7, TimeAssumption
  <1>10. OffBeat => \A i \in Instants \cup {0} : i # Slot(j, k)
    BY <1>1, <1>6 DEF OffBeat
  <1> QED
    BY <1>8, <1>9, <1>10

(* Steps of one worker that change no row. *)
LEMMA BehindStep ==
    ASSUME LInv, IInv', NEW w \in Workers, UNCHANGED <<row, edits>>,
           now' \in Instants \cup {0}, \A j \in Jobs : lock'[j] # User,
           \A v \in Workers \ {w} : pc'[v] = pc[v] /\ cur'[v] = cur[v] /\ todo'[v] = todo[v],
           TodoBehind(w)', HandBehind(w)', Counted'
    PROVE  LInv'
  <1>1. NoUser' /\ RowsOnSlot'
    BY DEF LInv, NoUser, RowsOnSlot, OnSlot, Slot
  <1>2. ASSUME NEW v \in Workers \ {w}
        PROVE  TodoBehind(v)' /\ HandBehind(v)'
    <2>1. TodoBehind(v) /\ HandBehind(v)
      BY DEF LInv, Behind
    <2> QED
      BY <2>1 DEF TodoBehind, HandBehind, OnSlot, Slot, Running
  <1> QED
    BY <1>1, <1>2 DEF LInv, Behind

(* ... and make no call. *)
LEMMA CountStep ==
    ASSUME LInv, IInv', UNCHANGED <<row, calls>>, faults' \in Nat, faults <= faults',
           \A j \in Jobs : Ran(j) /\ ~Ran(j)' => faults' > faults
    PROVE  Counted'
  <1> SUFFICES ASSUME NEW j \in Limited \ DoAll
               PROVE  calls[j] + row[j].left
                         <= NumberCall[j] + faults' + (IF Ran(j)' THEN 1 ELSE 0)
    BY DEF Counted
  <1>1. /\ calls[j] \in Nat /\ row[j].left \in Int /\ NumberCall[j] \in Int /\ faults \in Nat
        /\ calls[j] + row[j].left <= NumberCall[j] + faults + (IF Ran(j) THEN 1 ELSE 0)
        /\ j \in Jobs
    BY JobsAssumption DEF LInv, IInv, TypeOK, Counted, Limited
  <1> QED
    BY <1>1

(* Nobody else runs the job in hand. *)
LEMMA OnlyRunner ==
    ASSUME IInv, NEW v \in Workers, NEW w \in Workers, Running(v), Running(w),
           cur[v].id = cur[w].id
    PROVE  v = w
  BY DEF IInv, HoldsLock

LEMMA PollLim == ASSUME LInv, IInv', NEW w \in Workers, Poll(w) PROVE LInv'
  <1>1. /\ UNCHANGED <<now, row, lock, cur, calls, edits, faults>> /\ pc[w] = "idle"
        /\ pc' = [pc EXCEPT ![w] = IF changes THEN "reset" ELSE "idle"]
        /\ todo' = [todo EXCEPT ![w] = Dicts]
    BY DEF Poll, bounds
  <1>2. /\ pc'[w] \in {"idle", "reset"} /\ todo'[w] = Dicts
        /\ \A v \in Workers \ {w} : pc'[v] = pc[v] /\ todo'[v] = todo[v]
    BY <1>1 DEF LInv, IInv, TypeOK
  <1>3. TodoBehind(w)'
    <2> SUFFICES ASSUME NEW d \in Dicts, d.id \in Limited
                 PROVE  OnSlot(d.id, d) /\ d.left >= row[d.id].left /\ d.left > 0
      BY <1>1, <1>2 DEF TodoBehind, OnSlot, Slot
    <2>1. /\ d.id \in Jobs /\ row[d.id].left # 0
          /\ d.next = row[d.id].next /\ d.left = row[d.id].left
      BY DEF Dicts, DueJobs, Due
    <2>2. OnSlot(d.id, row[d.id])
      BY DEF LInv, RowsOnSlot
    <2> QED
      BY <2>1, <2>2, JobsAssumption DEF OnSlot, Limited
  <1>4. HandBehind(w)' /\ \A j \in Jobs : Ran(j) => Ran(j)'
    BY <1>1, <1>2 DEF HandBehind, Ran, Running
  <1> QED
    BY <1>1, <1>2, <1>3, <1>4, BehindStep, CountStep DEF LInv, IInv, TypeOK, NoUser

(* The dictionary that is left lies on top. *)
LEMMA LockSnapshotLim == ASSUME LInv, IInv', NEW w \in Workers, LockSnapshot(w) PROVE LInv'
  <1>1. PICK d \in todo[w] :
           /\ todo' = [todo EXCEPT ![w] = @ \ {d}]
           /\ IF Due(d.id)
                THEN /\ pc' = [pc EXCEPT ![w] = "locking"]
                     /\ cur' = [cur EXCEPT ![w] = [id |-> d.id, next |-> d.next,
                                    left |-> d.left, ok |-> FALSE, t |-> now]]
                ELSE UNCHANGED <<pc, cur>>
    BY DEF LockSnapshot
  <1>2. pc[w] = "idle" /\ UNCHANGED <<now, row, lock, calls, edits, faults>>
    BY DEF LockSnapshot, bounds
  <1>3. /\ todo'[w] \subseteq todo[w]
        /\ \A v \in Workers \ {w} : pc'[v] = pc[v] /\ cur'[v] = cur[v] /\ todo'[v] = todo[v]
        /\ pc'[w] \in {"idle", "locking"}
    BY <1>1, <1>2 DEF LInv, IInv, TypeOK
  <1>4. TodoBehind(w)
    BY DEF LInv, Behind
  <1>5. TodoBehind(w)'
    BY <1>2, <1>3, <1>4 DEF TodoBehind, OnSlot, Slot
  <1>6. HandBehind(w)'
    <2> SUFFICES ASSUME pc'[w] = "locking", cur'[w].id \in Limited
                 PROVE  HandBehind(w)'
      BY <1>3 DEF HandBehind
    <2>1. /\ cur'[w].id = d.id /\ cur'[w].next = d.next /\ cur'[w].left = d.left
          /\ cur'[w].ok = FALSE
      BY <1>1, <1>2 DEF LInv, IInv, TypeOK
    <2>2. OnSlot(d.id, d) /\ d.left >= row[d.id].left /\ d.left > 0
      BY <1>4, <2>1 DEF TodoBehind
    <2> QED
      BY <1>2, <2>1, <2>2 DEF HandBehind, OnSlot, Slot, Running
  <1>7. \A j \in Jobs : Ran(j) => Ran(j)'
    BY <1>2, <1>3 DEF Ran, Running
  <1> QED
    BY <1>2, <1>3, <1>5, <1>6, <1>7, BehindStep, CountStep DEF LInv, IInv, TypeOK, NoUser

(* Back to the loop over the jobs, from the waiting for a lock or after a  *)
(* failure. *)
LEMMA GivenUpLim ==
    ASSUME LInv, IInv', NEW w \in Workers, pc' = [pc EXCEPT ![w] = "idle"],
           cur' = [cur EXCEPT ![w] = None], UNCHANGED <<now, row, calls, edits>>,
           \A v \in Workers \ {w} : todo'[v] = todo[v], todo'[w] \subseteq todo[w],
           \A j \in Jobs : lock'[j] \in {lock[j], None},
           faults' \in Nat, faults <= faults', Running(w) => faults' > faults
    PROVE  LInv'
  <1>1. /\ pc'[w] = "idle"
        /\ \A v \in Workers \ {w} : pc'[v] = pc[v] /\ cur'[v] = cur[v]
    BY DEF LInv, IInv, TypeOK
  <1>2. TodoBehind(w)
    BY DEF LInv, Behind
  <1>3. TodoBehind(w)' /\ HandBehind(w)'
    BY <1>1, <1>2 DEF TodoBehind, HandBehind, OnSlot, Slot
  <1>4. \A j \in Jobs : Ran(j) /\ ~Ran(j)' => Running(w)
    BY <1>1 DEF Ran, Running
  <1>5. \A j \in Jobs : lock'[j] # User
    BY UserAssumption DEF LInv, NoUser
  <1> QED
    BY <1>1, <1>3, <1>4, <1>5, BehindStep, CountStep DEF LInv, NoUser

LEMMA LockJobLim == ASSUME LInv, IInv', NEW w \in Workers, LockJob(w) PROVE LInv'
  <1>1. /\ UNCHANGED <<now, row, todo, calls, edits, faults>> /\ pc[w] = "locking"
        /\ lock' = [lock EXCEPT ![cur[w].id] = w] /\ pc' = [pc EXCEPT ![w] = "run"]
        /\ cur' = [cur EXCEPT ![w].t = now]
    BY DEF LockJob, bounds
  <1>2. /\ cur[w] \in Task
        /\ cur' = [cur EXCEPT ![w] = [cur[w] EXCEPT !.t = now]]
    BY <1>1, InHand DEF LInv, IInv
  <1>3. /\ cur'[w].id = cur[w].id /\ cur'[w].left = cur[w].left /\ cur'[w].ok = cur[w].ok
        /\ cur'[w].next = cur[w].next /\ cur'[w].t = now
        /\ pc'[w] = "run"
        /\ \A v \in Workers \ {w} : pc'[v] = pc[v] /\ cur'[v] = cur[v]
    BY <1>1, <1>2 DEF Task, LInv, IInv, TypeOK
  <1>4. TodoBehind(w)'
    BY <1>1 DEF LInv, Behind, TodoBehind, OnSlot, Slot
  <1>5. HandBehind(w)'
    <2>1. HandBehind(w)
      BY DEF LInv, Behind
    <2>2. row[cur[w].id].next <= now
      BY <1>1, <1>3 DEF IInv, RunsOnlyDue, Running, Due
    <2> QED
      BY <1>1, <1>3, <2>1, <2>2 DEF HandBehind, OnSlot, Slot, Running, LInv, NoUser
  <1>6. \A j \in Jobs : Ran(j) => Ran(j)'
    BY <1>1, <1>3 DEF Ran, Running
  <1>7. \A j \in Jobs : lock'[j] # User
    BY <1>1, UserAssumption DEF LInv, NoUser, IInv, TypeOK
  <1> QED
    BY <1>1, <1>3, <1>4, <1>5, <1>6, <1>7, BehindStep, CountStep
    DEF LInv, IInv, TypeOK, NoUser

(* The first call is counted for the worker that runs. *)
LEMMA OccurrenceLim == ASSUME LInv, IInv', NEW w \in Workers, Occurrence(w) PROVE LInv'
  <1> DEFINE l == LeftAfter(w)
             n == IF LeftAfter(w) # 0 THEN cur[w].next + Interval ELSE cur[w].next
             j == cur[w].id
  <1>1. /\ pc[w] = "run" /\ cur[w].left # 0
        /\ cur' = [cur EXCEPT ![w] = [cur[w] EXCEPT !.left = l, !.next = n, !.ok = TRUE]]
        /\ calls' = IF ~cur[w].ok \/ cur[w].id \in DoAll
                      THEN [calls EXCEPT ![cur[w].id] = @ + 1] ELSE calls
        /\ UNCHANGED <<now, row, lock, pc, todo, edits, faults>>
    BY DEF Occurrence, LoopOver, bounds
  <1>2. cur[w] \in Task /\ cur[w].left \in Int /\ j \in Jobs
    BY <1>1, InHand DEF LInv, IInv
  <1>3. /\ cur'[w].id = j /\ cur'[w].left = l /\ cur'[w].next = n /\ cur'[w].ok = TRUE
        /\ cur'[w].t = cur[w].t
        /\ \A v \in Workers \ {w} : cur'[v] = cur[v]
    BY <1>1, <1>2 DEF Task, LInv, IInv, TypeOK
  <1>4. TodoBehind(w)'
    BY <1>1 DEF LInv, Behind, TodoBehind, OnSlot, Slot
  <1>5. HandBehind(w)'
    <2> SUFFICES ASSUME j \in Limited PROVE HandBehind(w)'
      BY <1>3 DEF HandBehind
    <2>1. HandBehind(w)
      BY DEF LInv, Behind
    <2>2. OnSlot(j, cur[w]) /\ NumberCall[j] \in Int
      BY <1>1, <2>1, JobsAssumption DEF HandBehind, Limited
    <2>3. cur[w].left \in 0 .. NumberCall[j] /\ cur[w].left > 0 /\ l = cur[w].left - 1
      BY <1>1, <2>2 DEF OnSlot, LeftAfter
    <2>4. l \in 0 .. NumberCall[j] /\ (l > 0 => n = Slot(j, l))
      BY <2>2, <2>3, SlotOrder DEF OnSlot
    <2> HIDE DEF l, n, j
    <2> QED
      BY <1>1, <1>3, <2>1, <2>4 DEF HandBehind, OnSlot, Slot, Running, j
  <1>6. Counted'
    <2> SUFFICES ASSUME NEW k \in Limited \ DoAll
                 PROVE  calls'[k] + row[k].left
                           <= NumberCall[k] + faults + (IF Ran(k)' THEN 1 ELSE 0)
      BY <1>1 DEF Counted
    <2>1. /\ calls[k] \in Nat /\ row[k].left \in Int /\ NumberCall[k] \in Int /\ faults \in Nat
          /\ calls[k] + row[k].left <= NumberCall[k] + faults + (IF Ran(k) THEN 1 ELSE 0)
      BY JobsAssumption DEF LInv, IInv, TypeOK, Counted, Limited
    <2>2. Ran(k) => Ran(k)'
      BY <1>1, <1>3 DEF Ran, Running
    <2>3. CASE k = j /\ ~cur[w].ok
      <3>1. ~Ran(k)
        BY <1>1, <2>3, OnlyRunner DEF Ran, LInv, Running
      <3>2. Ran(k)'
        BY <1>1, <1>3, <2>3 DEF Ran, Running
      <3>3. calls'[k] = calls[k] + 1
        BY <1>1, <1>2, <2>3 DEF LInv, IInv, TypeOK
      <3> QED
        BY <2>1, <3>1, <3>2, <3>3
    <2>4. CASE k # j \/ cur[w].ok
      <3>1. calls'[k] = calls[k]
        BY <1>1, <1>2, <2>4 DEF LInv, IInv, TypeOK
      <3> QED
        BY <2>1, <2>2, <3>1
    <2> QED
      BY <2>3, <2>4
  <1> QED
    BY <1>1, <1>3, <1>4, <1>5, <1>6, BehindStep DEF LInv, NoUser

(* When the loop ends, fewer calls are left than in the row. *)
LEMMA JobCommitLim ==
    ASSUME LInv, OffBeat, IInv', NEW w \in Workers, JobCommit(w) PROVE LInv'
  <1> DEFINE j == cur[w].id
  <1>1. /\ UNCHANGED <<now, row, lock, todo, cur, calls, edits, faults>>
        /\ pc[w] = "run" /\ LoopOver(w) /\ pc' = [pc EXCEPT ![w] = "commit"]
    BY DEF JobCommit, bounds
  <1>2. pc'[w] = "commit" /\ \A v \in Workers \ {w} : pc'[v] = pc[v]
    BY <1>1 DEF LInv, IInv, TypeOK
  <1>3. TodoBehind(w)'
    BY <1>1 DEF LInv, Behind, TodoBehind, OnSlot, Slot
  <1>4. HandBehind(w)'
    <2> SUFFICES ASSUME j \in Limited PROVE HandBehind(w)'
      BY <1>1 DEF HandBehind
    <2>1. HandBehind(w) /\ OnSlot(j, row[j])
      BY DEF LInv, Behind, RowsOnSlot
    <2>2. /\ cur[w].next \in Nat /\ cur[w].t \in Nat /\ NumberCall[j] \in Int
          /\ row[j].next \in Nat /\ j \in Jobs
      BY <1>1, InHand, JobsAssumption DEF LInv, IInv, TypeOK
    <2>3. /\ OnSlot(j, cur[w]) /\ cur[w].t \in Instants \cup {0} /\ row[j].next <= cur[w].t
      BY <1>1, <2>1 DEF HandBehind, Running
    <2>4. row[j].left > 0 /\ row[j].left \in 0 .. NumberCall[j]
          /\ row[j].next = Slot(j, row[j].left)
      <3>1. row[j].left # 0
        BY <1>1 DEF LInv, IInv, RunsOnlyDue, Running, Due
      <3> QED
        BY <2>1, <2>2, <3>1 DEF OnSlot
    <2>5. row[j].next < cur[w].t
      BY <2>2, <2>3, <2>4, SlotOrder
    <2>6. cur[w].left < row[j].left
      <3> SUFFICES ASSUME cur[w].left >= row[j].left PROVE FALSE
        BY <2>2, <2>3, <2>4 DEF OnSlot
      <3>1. /\ cur[w].left \in 0 .. NumberCall[j] /\ cur[w].left > 0
            /\ cur[w].next = Slot(j, cur[w].left)
        BY <2>2, <2>3, <2>4 DEF OnSlot
      <3>2. Slot(j, cur[w].left) <= Slot(j, row[j].left)
        BY <2>4, <3>1, SlotOrder
      <3>3. cur[w].next >= cur[w].t
        BY <1>1, <3>1 DEF LoopOver
      <3> QED
        BY <2>2, <2>4, <2>5, <3>1, <3>2, <3>3
    <2> QED
      BY <1>1, <1>2, <2>1, <2>6 DEF HandBehind, OnSlot, Slot, Running
  <1>5. \A k \in Jobs : Ran(k) => Ran(k)'
    BY <1>1, <1>2 DEF Ran, Running
  <1> QED
    BY <1>1, <1>2, <1>3, <1>4, <1>5, BehindStep, CountStep DEF LInv, IInv, TypeOK, NoUser

(* The row goes back by one call or more: dictionaries stay behind it. *)
LEMMA CronCommitLim == ASSUME LInv, IInv', NEW w \in Workers, CronCommit(w) PROVE LInv'
  <1> DEFINE j == cur[w].id
             new == [next |-> cur[w].next, left |-> cur[w].left,
                     active |-> row[j].active /\ cur[w].left # 0]
  <1>1. /\ row' = [row EXCEPT ![j] = new]
        /\ lock' = [lock EXCEPT ![j] = None]
        /\ pc' = [pc EXCEPT ![w] = "idle"] /\ cur' = [cur EXCEPT ![w] = None]
        /\ pc[w] = "commit" /\ UNCHANGED <<now, todo, calls, edits, faults>>
    BY DEF CronCommit, NextJob, Unlock, bounds
  <1>2. j \in Jobs /\ cur[w].left \in Int /\ new.next = cur[w].next /\ new.left = cur[w].left
    BY <1>1, InHand DEF LInv, IInv
  <1> HIDE DEF new
  <1>3. /\ row'[j] = new /\ \A k \in Jobs \ {j} : row'[k] = row[k]
        /\ pc'[w] = "idle"
        /\ \A v \in Workers \ {w} : pc'[v] = pc[v] /\ cur'[v] = cur[v]
    BY <1>1, <1>2 DEF LInv, IInv, TypeOK
  <1>4. NoUser'
    BY <1>1, UserAssumption DEF LInv, NoUser, IInv, TypeOK
  <1>5. HandBehind(w) /\ (j \in Limited => OnSlot(j, cur[w]) /\ cur[w].left < row[j].left)
    BY <1>1 DEF LInv, Behind, HandBehind
  <1>6. RowsOnSlot'
    <2> SUFFICES ASSUME NEW k \in Limited PROVE OnSlot(k, row'[k])
      BY DEF RowsOnSlot, OnSlot, Slot
    <2> QED
      BY <1>2, <1>3, <1>5 DEF LInv, RowsOnSlot, OnSlot, Limited
  <1>7. \A k \in Limited : /\ row'[k].left <= row[k].left
                           /\ row'[k].left \in Int /\ row[k].left \in Int
    BY <1>2, <1>3, <1>5 DEF LInv, IInv, TypeOK, Limited
  <1>8. ASSUME NEW v \in Workers
        PROVE  TodoBehind(v)'
    <2>1. TodoBehind(v) /\ todo[v] \subseteq Dict
      BY DEF LInv, Behind, IInv, TypeOK
    <2> QED
      BY <1>1, <1>7, <2>1 DEF TodoBehind, OnSlot, Slot, Dict
  <1>9. ASSUME NEW v \in Workers
        PROVE  HandBehind(v)'
    <2> SUFFICES ASSUME v # w, pc[v] \notin {"idle", "reset"}, cur[v].id \in Limited
                 PROVE  HandBehind(v)'
      BY <1>3 DEF HandBehind
    <2>1. HandBehind(v) /\ cur[v].left \in Int
      BY InHand DEF LInv, Behind, IInv
    <2>2. CASE Running(v)
      <3>1. cur[v].id # j /\ cur[v].id \in Jobs
        BY <1>1, <2>2, OnlyRunner DEF LInv, Running, Limited
      <3> QED
        BY <1>3, <2>1, <3>1 DEF HandBehind, OnSlot, Slot, Running
    <2>3. CASE ~Running(v)
      BY <1>3, <1>7, <2>1, <2>3 DEF HandBehind, OnSlot, Slot, Running
    <2> QED
      BY <2>2, <2>3
  <1>10. Counted'
    <2> SUFFICES ASSUME NEW k \in Limited \ DoAll
                 PROVE  calls[k] + row'[k].left
                           <= NumberCall[k] + faults + (IF Ran(k)' THEN 1 ELSE 0)
      BY <1>1 DEF Counted
    <2>1. /\ calls[k] \in Nat /\ row[k].left \in Int /\ NumberCall[k] \in Int /\ faults \in Nat
          /\ calls[k] + row[k].left <= NumberCall[k] + faults + (IF Ran(k) THEN 1 ELSE 0)
      BY JobsAssumption DEF LInv, IInv, TypeOK, Counted, Limited
    <2>2. CASE k = j
      BY <1>2, <1>3, <1>5, <2>1, <2>2
    <2>3. CASE k # j
      <3>1. Ran(k) => Ran(k)'
        BY <1>3, <2>3 DEF Ran, Running
      <3>2. row'[k] = row[k]
        BY <1>3, <2>3 DEF Limited
      <3> QED
        BY <2>1, <3>1, <3>2
    <2> QED
      BY <2>2, <2>3
  <1> QED
    BY <1>4, <1>6, <1>8, <1>9, <1>10 DEF LInv, Behind

(* Steps that leave workers and rows as they are. *)
LEMMA OthersLim ==
    ASSUME LInv, IInv', now' \in Instants \cup {0}, UNCHANGED <<row, lock, todo, cur, calls,
           edits, faults>>,
           \A v \in Workers : pc'[v] = pc[v] \/ (pc[v] = "reset" /\ pc'[v] = "idle")
    PROVE  LInv'
  <1>1. NoUser' /\ RowsOnSlot'
    BY DEF LInv, NoUser, RowsOnSlot, OnSlot, Slot
  <1>2. ASSUME NEW v \in Workers
        PROVE  TodoBehind(v)' /\ HandBehind(v)'
    <2>1. TodoBehind(v) /\ HandBehind(v)
      BY DEF LInv, Behind
    <2> QED
      BY <2>1 DEF TodoBehind, HandBehind, OnSlot, Slot, Running
  <1>3. \A j \in Jobs : Ran(j) => Ran(j)'
    BY DEF Ran, Running
  <1>4. Counted'
    BY <1>3, CountStep DEF LInv, IInv, TypeOK
  <1> QED
    BY <1>1, <1>2, <1>4 DEF LInv, Behind

LEMMA NextLim ==
    ASSUME MaxEdits = 0, OffBeat, LInv, [Next]_vars
    PROVE  LInv'
  <1>1. IInv'
    BY NextInv DEF LInv
  <1>2. ASSUME NEW w \in Workers, WorkerStep(w)
        PROVE  LInv'
    <2>1. CASE ResetModules(w)
      BY <1>1, <2>1, OthersLim DEF ResetModules, bounds, LInv, NoUser, IInv, TypeOK
    <2>2. CASE LockNotAvailable(w) \/ LockConflict(w)
      <3>1. /\ pc' = [pc EXCEPT ![w] = "idle"] /\ cur' = [cur EXCEPT ![w] = None]
            /\ UNCHANGED <<now, row, lock, calls, edits, faults>> /\ ~Running(w)
        BY <2>2 DEF LockNotAvailable, LockConflict, NextJob, bounds, Running
      <3>2. /\ todo'[w] \subseteq todo[w]
            /\ \A v \in Workers \ {w} : todo'[v] = todo[v]
        BY <2>2 DEF LockNotAvailable, LockConflict, LInv, IInv, TypeOK
      <3>3. faults \in Nat /\ faults <= faults
        BY DEF LInv, IInv, TypeOK
      <3> QED
        BY <1>1, <3>1, <3>2, <3>3, GivenUpLim
    <2> QED
      BY <1>1, <1>2, <2>1, <2>2, PollLim, LockSnapshotLim, LockJobLim, OccurrenceLim,
         JobCommitLim, CronCommitLim
      DEF WorkerStep
  <1>3. ASSUME NEW w \in Workers, CommitFails(w) \/ Crash(w)
        PROVE  LInv'
    <2>1. /\ pc' = [pc EXCEPT ![w] = "idle"] /\ cur' = [cur EXCEPT ![w] = None]
          /\ UNCHANGED <<row, calls, edits, now>> /\ faults' = faults + 1
      BY <1>3 DEF CommitFails, Crash, NextJob
    <2>2. /\ todo'[w] \subseteq todo[w]
          /\ \A v \in Workers \ {w} : todo'[v] = todo[v]
          /\ \A j \in Jobs : lock'[j] \in {lock[j], None}
      BY <1>3 DEF CommitFails, Crash, Unlock, LInv, IInv, TypeOK
    <2>3. faults' \in Nat /\ faults <= faults' /\ faults' > faults
      BY <2>1 DEF LInv, IInv, TypeOK
    <2> QED
      BY <1>1, <2>1, <2>2, <2>3, GivenUpLim
  <1>4. ASSUME NEW j \in Jobs, UserLock(j) \/ UserEnds(j)
        PROVE  FALSE
    BY <1>4 DEF UserLock, UserEnds, UserCommit, UserRollback, LInv, NoUser
  <1>5. CASE MarkModules \/ OperationEnds \/ Tick \/ UNCHANGED vars
    <2>1. now' \in Instants \cup {0}
      BY <1>5 DEF MarkModules, OperationEnds, Tick, vars, LInv, NoUser
    <2>2. UNCHANGED <<row, lock, todo, cur, calls, edits, faults, pc>>
      BY <1>5 DEF MarkModules, OperationEnds, Tick, vars, bounds
    <2> QED
      BY <1>1, <2>1, <2>2, OthersLim
  <1> QED
    BY <1>2, <1>3, <1>4, <1>5 DEF Next

LEMMA InitLim == Init => LInv
  <1> SUFFICES ASSUME Init PROVE LInv
    OBVIOUS
  <1>1. NoUser
    BY UserAssumption DEF Init, NoUser
  <1>2. ASSUME NEW j \in Limited
        PROVE  /\ j \in Jobs /\ row[j].left = NumberCall[j] /\ row[j].next = FirstCall
               /\ NumberCall[j] \in Nat
    BY JobsAssumption DEF Init, Limited
  <1>3. RowsOnSlot
    <2>1. \A j \in Limited : Slot(j, NumberCall[j]) = FirstCall
      BY <1>2, TimeAssumption DEF Slot
    <2> QED
      BY <1>2, <2>1 DEF RowsOnSlot, OnSlot
  <1>4. Behind
    BY DEF Init, Behind, TodoBehind, HandBehind
  <1>5. Counted
    <2>1. \A j \in Limited : calls[j] = 0 /\ faults = 0 /\ ~Ran(j)
      BY <1>2 DEF Init, Ran, Running
    <2> QED
      BY <1>2, <2>1 DEF Counted
  <1> QED
    BY <1>1, <1>3, <1>4, <1>5, InitInv DEF LInv

(* Schedules and calls left are in step, in every reachable state. *)
THEOREM CallsInvariance == MaxEdits = 0 /\ OffBeat /\ Spec => []LInv
  <1>1. MaxEdits = 0 /\ OffBeat => [](MaxEdits = 0 /\ OffBeat)
    BY DEF OffBeat
  <1>2. MaxEdits = 0 /\ OffBeat /\ LInv /\ [Next]_vars => LInv'
    BY NextLim
  <1> QED
    BY <1>1, <1>2, InitLim, PTL DEF Spec

(* For any number of workers, jobs, crashes and failed commits: while the  *)
(* jobs are not edited and the clock does not read an occurrence's instant,*)
(* the method of a job without doall is called at most numbercall times,   *)
(* and once more for each fault (_process_job).                            *)
THEOREM LimitKept == MaxEdits = 0 /\ OffBeat /\ Spec => []CallsWithinLimit
  <1>1. LInv => CallsWithinLimit
    <2> SUFFICES ASSUME LInv, NEW j \in Jobs \ DoAll, NumberCall[j] >= 0
                 PROVE  calls[j] <= NumberCall[j] + faults
      BY DEF CallsWithinLimit
    <2>1. /\ calls[j] \in Nat /\ NumberCall[j] \in Int /\ faults \in Nat
          /\ calls[j] + row[j].left <= NumberCall[j] + faults + (IF Ran(j) THEN 1 ELSE 0)
          /\ row[j].left \in 0 .. NumberCall[j]
      BY JobsAssumption DEF LInv, IInv, TypeOK, Counted, Limited, RowsOnSlot, OnSlot
    <2>2. Ran(j) => row[j].left # 0
      BY DEF Ran, LInv, IInv, RunsOnlyDue, Due
    <2> QED
      BY <2>1, <2>2
  <1> QED
    BY <1>1, CallsInvariance, PTL
=============================================================================
