# A verification project for autanac

TLA+ models, TLC runs and TLAPS proofs for this repository (an ERP framework: an
ORM on PostgreSQL, HTTP and RPC services, scheduled jobs, a notification bus,
business addons, a JavaScript client). Line numbers below refer to the sources;
`PROJECT.json` maps every definition to the lines it models.

## 1. Inventory of the system

Paths are under `src/autanac` unless they say `addons/`, which is `src/addons`.
`src/addons/base` repeats `src/autanac/addons/base`; the latter is the one read.

| component | state | operations | what is hard | what makes it correct |
|---|---|---|---|---|
| Connection pool, cursors (`sql_db.py`) | list of (connection, used), the attribute `leaked`, each cursor's connection | `borrow`, `give_back`, `close_all` (locked); `Cursor.__init__`, `execute`, `commit`, `rollback`, `close`, `__exit__`, `__del__` (not locked) | threads, the garbage collector, rollbacks that fail, dead backends, `close_db` at any time | no shared connection, `db_maxconn` respected, no lost entry, eviction of the oldest |
| Scheduled jobs (`addons/base/models/ir_cron.py`) | table `ir_cron`, row locks, the dictionaries of a poll | poll, lock, run, reschedule; edit, toggle, run manually; `reset_modules_state` | several workers and servers, stale dictionaries, two commits, crashes, marked modules | one runner, only due jobs, none skipped, all run eventually |
| Registry and caches (`modules/registry.py`, `tools/cache.py`) | one registry per process and database: classes, LRU cache, remembered sequences, invalidation flags; two sequences in the database | `check_signaling`, `signal_changes`, `reset_changes`, `setup_models`, `_clear_cache`, `lookup` | order of snapshot, check, commit and signal over processes; retries; crashes | after a check, nothing stale; nothing uncommitted kept |
| Request life cycle (`http.py`, `service/model.py`) | the request's cursor and environment | dispatch, retry on serialization failures, commit, signal, abort | retries and partial failure | atomicity; bracketing by check and signal |
| Servers (`service/server.py`) | workers, watchdog pipes, signal queue; or threads and a semaphore | spawn, kill, zombies, signals, watchdog, graceful stop | signals, timeouts, races with exiting workers | population kept, stop ends, no signal lost |
| Module loading (`modules/loading.py`, `modules/graph.py`) | dependency graph, module states | mark, load in order, uninstall | long operations that die | dependencies first; states never stuck |
| LRU (`tools/lru.py`) | linked list and map under a lock | get, set, delete, iterate | iteration outside the lock | list and map agree; bounded |
| Number sequences (`addons/base/models/ir_sequence.py`) | `number_next` and PostgreSQL sequences, of the sequence or of its date ranges | next (standard, no gap), creation of a date range | concurrent transactions, cached reads, aborts | no duplicate; no gap where promised |
| Attachments (`addons/base/models/ir_attachment.py`) | rows, files, checklist | create, write, unlink, garbage collection | files are outside transactions; crashes between file and mark | a committed row has its file; garbage is found |
| Bus (`addons/bus/models/bus.py`) | table, NOTIFY, registered events, a client's last id | send, notify, poll, dispatch, listen again | ids committed out of order, lost wake-ups | nothing passed over; waiting polls are woken |
| Cross-tab bus (`crosstab_bus.js`, `longpolling_bus.js` of `addons/bus`) | local storage: master, heartbeat, peers, channels, last; each tab's bus | register, elect, heartbeat, storage events, poll, unload | unsynchronised tabs, late events, throttled or killed tabs | one master, eventually; every tab notified |
| Client: concurrency helpers (`addons/web/static/src/js/core/concurrency.js`) | chains of promises, sequence numbers | `Mutex.exec`, `getUnlockedDef`; `add`; `MutexedDropPrevious.exec` | promises that settle in any order, reject, or crash | serialized, nobody forgotten, nothing obsolete shown |
| Client: form view (`views/basic`, `views/form`, `field_manager_mixin.js` of `addons/web/static/src/js`) | mode, `_changes`, `_isDirty`, the controller's mutex, the rpcs in flight | edit, onchange, save, discard, reload | the user goes on while rpcs are in flight; rpcs fail | what was entered is saved, what was discarded is not |
| Client: the rest (actions, list and kanban views, widgets) | | | | not modelled, see section 11 |
| Stock quants (`addons/stock/models/stock_quant.py`) | quantities and reservations per place | update, reserve, merge | locked quants are skipped and duplicated | sums kept |
| Mail queue (`addons/mail/models/mail_mail.py`) | mail states | send with a commit per mail | crash between SMTP and commit | no mail lost |
| ORM (`models.py`, `fields.py`, `api.py`, `osv/expression.py`), hardware proxy | | | | not modelled, see section 11 |

How they interact: a worker (or thread) of the server takes a request; the
request checks the signaling sequences with a cursor of its own, opens its
cursor from the pool, runs model methods that fill the process's cache, commits,
signals, and gives the connection back. Cron workers do the same with jobs, in
another order (check inside the transaction, signal, then commit). Everything
that several processes share is in PostgreSQL: rows, locks, sequences, NOTIFY;
and in the filestore. In the browser, a form's controller serializes its work
with a `Mutex` and calls the server by rpc; one tab polls the bus for all and
passes on what it gets through the local storage.

The hazards of this code, each at its line, are in `PROJECT.json`.

## 2. The plan

Done, in this order:

1. `ConnectionPool`, the abstract `Leases` that it implements, and its proofs:
   everything else runs on cursors.
2. `Cron` and its proofs: the most concurrent protocol on the database.
3. `RegistrySignaling`, the coherence protocol between processes, and its proofs.
4. The client's concurrency helpers (`Promises`, `Mutex`, `DropPrevious`,
   `MutexedDropPrevious`), the abstract `SerialQueue` that `Mutex` implements,
   and `ConcurrencyProofs`; then `Form`, the protocol the form view builds on a
   mutex, and its proofs.
5. `Crosstab`: the election of a master tab, what passes through it, and its
   proofs.
6. The services that transactions share with what no rollback undoes:
   `Filestore` with its proofs, `NumberSequence` and `BusDispatch` with theirs
   (`ServicesProofs`).

Worth doing next: threads that share a registry; the prefork server's signals
and stop; stock quants.

## 3. ConnectionPool

*State.* `ConnectionPool._connections` is a list of entries. It is kept as the
state of each connection's entry (`slot`: none, idle, used) and the order of the
list as a relation (`before`), because what the code does with the order is to
pop entries, append them and look for the first of a kind. `conn` is the state of
the connection itself (open; dead: the server is gone and the client does not
know; closed), `leaked` the attribute of that name, `pc`, `held` and `db` the
cursors.

*Actions.* `borrow` is one action per outcome (`BorrowReuse`, `BorrowNew`,
`BorrowConnectFails`, `BorrowFull`), each with the sweep at its head (`Swept*`:
closed entries dropped, leaked ones freed and moved to the end in the order of a
backward walk with appends). `CursorInit` is the rest of `Cursor.__init__`;
`Execute`, `EndTransaction` are queries, COMMIT and ROLLBACK; `CloseCursor` is
`_close` up to the rollback and `GiveBack` what follows, since other threads run
between them; `ExitCommitFails` is `__exit__` when commit raises; `Leak` is
`__del__`. `CloseAll` is `close_db` and `close_all`, `BackendDies` the server's
doing. Abstracted: SQL, isolation levels, logging, statistics. A connection
object is reused as an identity only when no cursor refers to it.

*Run `pool_safety`*: three cursors, two databases of which one is a template (its
connections are not kept), `db_maxconn` 2, four connection identities (two in the
list, and up to two more in the hands of cursors whose entries `close_all` took).
That is enough for the pool to be full, to evict, to be full of leaks, and for
`give_back` to find its entry gone. It checks that no two cursors share a
connection (`NoSharing`), that no open connection escapes the list or the limit
(`OpenBound`), that a used entry can always come back (`NoLostSlot`), that "The
Connection Pool Is Full" is said only when all connections are held
(`FullOnlyWhenBusy`) and that the list stays a total order (`EntriesInLine`;
that the first unused entry of that order is the one evicted is how `Victims`
reads the code, and no property says it again).
`GivesLeases` says that the pool implements `Leases`, the abstract specification
of what its callers rely on: a cursor takes a connection to its own database and
keeps it, alone, until it gives it up; what the pool closes on its own account,
the connections it cannot reset and the one it evicts, is in nobody's hands; only
`close_db` and `close_all` take a connection from under a cursor, and no
database's but those they name; whoever takes one finds at most `db_maxconn`
open. A dying backend is no step of `Leases` until the cursor notices.

*Run `pool_with`* finds that a `with` block whose commit raises leaves its
cursor open, against the docstring of `__enter__`. The garbage collector makes
up for it: that is `Leak`, and `NoLostSlot` holds with it.

*Proved* (`ConnectionPoolProofs`), for any sets of connections, cursors (finite)
and databases and any limit: all six invariants of the run and the refinement.
The invariant `IInv` joins `TypeOK`, `NoSharing`, `OpenBound`, `NoLostSlot` and
`RightDatabase` (a cursor's connection goes to its database) to two facts: the
entries are a finite set, and a connection marked leaked has an entry in use. The
properties need each other: a borrow turns leaked entries idle and then hands
idle entries out, so `NoSharing` is kept only because a held connection is
neither marked leaked nor idle; that only used entries are marked is
`LeakedUsed`; `OpenBound` makes whatever is reused one of the entries. Each step
of the pool is one of `Leases` or none (`NextLeases`): what a borrow closes is
unused after the sweep, and nobody's (`SweepLemma`); that the connection it
reuses is not among those it has failed to reset needs the list to be a line;
that `close_db` closes all that is open of its databases needs `OpenBound`.
`FullOnlyWhenBusy` follows from `IInv` by an injection from used entries to
cursors; `EntriesInLine` is inductive on top of `IInv`, with a lemma for pop and
one for append.

## 4. Cron

*State.* The table (`row`: nextcall, numbercall, active), the row locks, whether
modules are marked, and per worker the dictionaries of its poll (`todo`), the
one in hand with the loop's local variables (`cur`), and whether the row it
wants to lock was updated after its snapshot (`moved`), which is what makes
PostgreSQL's repeatable read refuse the lock. `calls` and `settled` are
histories.

*Actions.* `Poll` is the first transaction of `_process_jobs`; `LockSnapshot`,
`LockNotAvailable`, `LockConflict` and `LockJob` are the locking SELECT, by
outcome; `Occurrence` is one turn of the loop of `_process_job`; `JobCommit` and
`CronCommit` are its two commits; `CommitFails` and `Crash` the failures;
`UserLock`, `UserCommit`, `UserRollback` a write to a job; `MarkModules`,
`OperationEnds` and `ResetModules` the module operations. A callback that raises
is an `Occurrence` too: `_callback` swallows the exception and the loop goes on.
Not modelled: what a job does to other tables, `lastcall`, manual triggers,
deletion of jobs, jobs whose interval is in months.

*Run `cron_safety`*: two workers, two jobs (one with doall, limited to two
calls each), one edit, one fault, clock 0 to 4, jobs due at 1 and every 2: the
clock meets `nextcall` exactly, where SQL's `<=` and Python's `<` differ. It
checks `MutualExclusion`, `RunsOnlyDue` (by the committed row, however old the
dictionary) and `NoSkippedRun`. Time stops at the last instant, so the runs do
not check for deadlock.

*Run `cron_live`*: fairness is weak fairness of each worker (it polls every
`SLEEP_INTERVAL` and jobs return or are killed) and of the requests that hold a
row. Time and module operations need not go on. `DueJobsRun`: a due job stops
being due, or modules are marked; `StuckModulesReset`: marks are removed once a
job has been due for `MAX_FAIL_TIME`. Instants are even and `nextcall` odd here:
if the clock stood still at `nextcall` for ever, the job would be locked and run
zero times for ever. `CallsWithinLimit` bounds the calls of a job without doall.

*Run `cron_calls`* finds that with doall a stale dictionary calls the method
more often than `numbercall`, with no crash.

*Proved* (`CronProofs`), for any workers, jobs, schedules, clocks and bounds:
type correctness, `MutualExclusion`, `RunsOnlyDue`, `NoSkippedRun`. The invariant
adds to them that a worker between `LockJob` and `CronCommit` holds the row lock
and that a worker whose snapshot is still good (`~moved`) sees a due row, which
is what a granted lock turns into `RunsOnlyDue`.

`CallsWithinLimit` is proved (`LimitKept`) under two hypotheses: users do not
edit jobs (`MaxEdits = 0`), and the clock is never read at the very instant of an
occurrence (`OffBeat`). Its invariant: the schedule of a job and the calls it has
left are in step (`OnSlot`), so that a dictionary that is behind its row in calls
is behind it in time too, and the loop catches up with the row before it ends
(`Behind`); hence at most one call, of the worker that runs, is neither
subtracted from the row nor charged to a fault (`Counted`). Each hypothesis is
needed. A user who reschedules a job takes it out of step. If the clock reads an
occurrence's very instant, SQL's `<=` selects the job and Python's `<` ends the
loop before it: a stale dictionary is then put back with a call made and none
subtracted. The code has `OffBeat` but for a chance in a million, as `nextcall`
is kept in whole seconds and `datetime.now()` (`ir_cron.py` line 137) has
microseconds. The liveness properties are TLC's.

## 5. RegistrySignaling

*State.* `data` is the committed version of each cached key and of the schema;
the two sequences; per process the registry (cache, classes, remembered
sequences, two flags) and the request or job in hand with its snapshot, its
writes and its retries. Versions are numbered by writes. `committed`,
`unsignaled` and `lost` are histories.

*Actions.* `CheckRead` and `CheckApply` are `check_signaling`, in two steps since
other processes commit and signal in between; `Begin` fixes the snapshot (for a
job it precedes the check: `_process_job` reads the user's time zone first);
`Read` is a cache miss, `Write` a change with `clear_caches`, `Alter` a change of
classes with `setup_models`; `Retry` is a serialization failure; `Commit`,
`Signal`, `Abort` the ends, in the request's or the job's order; `Crash` and
`LoadModules` a replaced worker. `CommitFails` is a last flush or COMMIT that
raises: `__exit__` (http.py 278-287) and `_process_job` (ir_cron.py 163) then call
neither `signal_changes` nor `reset_changes`, and a job has lowered its flags
already; `SignalFails` is a nextval that raises after the COMMIT, which only
`manage_changes` (RPC) resets. Processes have one thread, as the prefork
server's workers have: `signal_changes` is then one step, as nothing in its
process interleaves. Conflicts between writers are PostgreSQL's (repeatable read,
and row locks, which end with the transaction: a request has none any more
between its COMMIT and its signal, and another writer of the same key may commit
and signal there).

*Run `registry_requests`*: two writing workers, one that only reads, one key and
the schema, two writes, one fault (a death, or a COMMIT or a signal that fails),
one retry per request: every order of two commits, two signals, a check, a
snapshot and a miss, both writers of one key committed and not yet signaled
included. `ReadersCoherent` says that a worker that only reads and whose check
would find nothing to do holds nothing stale, except for changes that no signal
has followed (`unsignaled`): the writer has not signaled yet, died or failed
before, or was a job, which signals too early. `NoDirtyEntry` says that an idle
process holds only what was committed, or what its own transaction had written
when it was rolled back without `reset_changes`, by a retry or a failed COMMIT
(`lost`). So the code does leave uncommitted versions behind in these two cases,
until the cache is cleared; the property says that they are the only ones, and
that what they leave is the transaction's own. Two writes are enough for one
process to miss another's and for a conflict; the search is exhaustive. The
writers are requests: a job among them makes the search too long for a run of
five minutes.

*Run `registry_writers`* finds that a process that writes may stay stale: one
writer commits, another writes on top of it, commits and signals first; the
signal of the first then draws the next value and jumps over the other's. What
the first holds from before stays stale. *Run `registry_cron`* finds that a job's
signal, sent before its commit, reaches the others too early.
Both contradict "Return an up-to-date registry" of `check_signaling`.

*Proved* (`RegistrySignalingProofs`), for any processes, keys and bounds: type
correctness and `NoDirtyEntry`. What a process holds is committed, or is its own
transaction's, or was lost with an earlier one (`OwnOrCommitted`), and while a
transaction has changes that no signal has announced, a flag is up (`FlagUp`)
that `reset_changes` sees. `ReadersCoherent` is proved whichever processes write
and whichever run jobs. The invariant (`RInv`) says of a process that serves
requests and only reads that the classes, entries and snapshot it has are those
committed last, unless no signal has followed their change, or else that the
sequence numbers it remembers are behind too (`ReadersBehind`): its next check
drops what it holds. A process that only runs jobs is left out even if it writes
nothing: `Begin` precedes its check, so that it may read an old snapshot into a
cache the check has just cleared.

## 6. The client's concurrency helpers

JavaScript runs one callback at a time, so a step is one callback; promises may
settle in any order, be rejected, or never settle. The four helpers share the
run `web_client`; each behaviour is about one of them, or about the form
(section 7): `part` in `MCWebClient` says which.

*`Mutex`* keeps no lock: `exec` makes the promise the next call waits for.
`lock` is the call whose promise is `this.lock`, `after` the chain
(`currentLock`), `phase` where each action is. `Start` is the callback of
`currentLock.then`, `Release` the function `always`, and `StartThrows` and
`Crash` are an action that throws or rejects with an Error: `guardedCatch`
(`promise_extension.js`) does not call `always` then, and nothing resolves the
promise the next call waits for. `WaitersOnCurrent` says that `getUnlockedDef`
never leaves anybody on an old promise; `Serialized` that `Mutex` implements
`SerialQueue`, the abstract queue that serves computations one at a time and in
the order of their submission; `CallsEnd` that no call is forgotten, unless an
action crashed.

*`DropPrevious`* has the classes DropMisordered and DropPrevious, with requests
answered in any order. `NeverGoesBack`: once a later request has been
resolved, no earlier one is. DropMisordered does not settle the promises it
ignores unless `failMisordered`; DropPrevious rejects them.

*`MutexedDropPrevious`*: `prom` is what a caller holds, `inner` the promise of
the `exec` that `unlock` calls for a pending action, which settles the first.
`OvertakenNotResolved` and `StartsLastOnly` are what its docstring promises;
`EveryCallSettles` adds that the overtaken callers get an answer too.

*Bounds*: four calls, two waiters: a running one, an old pending one, a new
pending one, and one that finds the helper free again. *Fairness*: callbacks of
settled promises run, and actions end, well or badly: `MutexFairness` and
`MDPFairness` are weak fairness of the callbacks, which the event loop gives,
and of the end of actions (rpcs have a timeout or fail).

*Proved* (`ConcurrencyProofs`), for any set of calls and waiters:
`WaitersOnCurrent`, type correctness, and `Serialized`, the refinement. The
invariant says that the calls form one chain in the order of their tickets (each
waits for the call before it, the last one is `lock`), that whoever is running
or crashed has only released calls before it, and that `queueSize` is the
cardinality of what is in the queue; so when a call starts, everything submitted
before it has been served, and that is the guard of the abstract `Serve`. Also
proved: `NeverGoesBack` of both classes, with the invariants that sequence
numbers are drawn in order and `rsn` is not below any resolved one, or that only
`currentDef` may be pending; `OvertakenNotResolved` and `StartsLastOnly`, with
the invariant that an overtaken call is neither the last one nor able to be
resolved any more. The liveness properties are TLC's.

## 7. Form

*State.* `changes` and `isDirty` are `_changes` and `_isDirty` of the record;
`ops` are the operations of the controller's mutex, of which the first is in
progress and at `stage`; `saving` is each `saveRecord` under way, which waits for
the mutex, lets the widgets commit and then queues the save: the one by a click
(`Click`), and those by keyboard (`KeySaves`); `server` is the database.
Values are numbered by edits (2n, and 2n+1 for what the onchange of edit n
computes), so that a greater value is a newer one.

*Actions.* The user's: `Edit` (in readonly mode too: such an edit is saved at
once), `StartSave`, `ClickEdit`, `ClickDiscard` with its dialog. Those of the
operation in progress: `ApplyChange`, the onchange answered or failed,
`ConfirmChange`, `SaveRecord`, `Save`, the write answered or failed (also
written with its answer lost), the reading of the saved record, `ConfirmSave`,
`NothingSaved`, `RejectSave`, `Reloaded`; `EndOp` lets the mutex go on and wakes
who waits for it. A click on Save disables the buttons, for keys as well, until
the save has ended. ENTER and ESCAPE on the buttons (form_controller.js 329-348)
save and discard without disabling anything: a discard, its dialog or another
save may come at any moment of a save by keyboard, before it is queued, behind
other operations, during its write or its reading.

*Properties.* `DiscardedStays`: what was discarded does not come back to the
record, where the next save would find it. One case is excused, because TLC finds
that the code does bring discarded changes back: an onchange in flight at the
discard fails later, and `_applyChange` restores `_changes` as they were, with
`_isDirty` false. The property says nothing of a write already sent, which no
discard calls back: its values are then in the database although they were
discarded. `NewestKept`: no
interleaving replaces a field's value by an older one. `SavedIsWritten`: when a
save ends well, the database has what the user had entered when he asked for it
and has not discarded since. (A save may well end with nothing written, as its
edits were discarded while it waited.) A failed reading after the write leaves
the save unsettled for ever (`stuck`); the model has it, no property excludes
it.

*Bounds*: two fields, one with an onchange, two edits: one applied or with its
onchange in flight, one behind it; one save by click and one by keyboard at a
time. A third edit makes the run too long; the proofs have no such bound. A
record that exists, with scalar fields.

*Proved* (`FormProofs`), for any fields and any number of edits: type
correctness, `DiscardedStays` (with its exception), `NewestKept` and
`SavedIsWritten`. The invariant `FormInv`: the mutex holds the edits in the
order they were made (`EditsInOrder`), so all that the record, the server or an
onchange in flight holds is older than what is to come, and newer than what the
database has (`AllOlder`); while a write is in flight the record still has what
is written, or was discarded (`InSave`); an onchange that a discard overtook
finds no changes (`InOnchange`); a save is in the queue once (`Queued`); and
while it waits, what was entered when it was asked for is in the record or
precedes the save in the queue (`Asked`), unless it was dropped, and a failing
onchange does not undo it (`Base`). Type correctness of the helpers and the form
together is `WebClientTypesCorrect`, for the behaviours of the run: each of the
parts moves alone there, so its own theorems apply.

## 8. Crosstab

*State.* The local storage (`store`; timestamps as ages), each tab's bus
(`tab`), the storage events on their way to each tab (`inbox`). An action is one
handler of one tab and takes the storage from one consistent state to the next;
events reach the other tabs later, in order, and only for values that changed. A
`notification` is the list of what the notifications of one poll hold (`Held`),
without their ids, as in the code: two polls that return the same channels and
messages store the same value, and the second fires no event (`untold`). The
server returns all that follows the poll's `last`; what it leaves out of a first
answer is in `BusDispatch`.

*Actions.* `Load` (init), `Start` (startPolling), `AddChannel`, `Heartbeat`,
`OnStorage`, `OnPoll`, `PollFails`, `PollAgain`, `Unload`, `CrashTab` (no
handler runs), `Send` (the server), `Tick`. `Beat` is `_heartbeat` as written:
the list of peers read before the election is written back after it.

*Run `crosstab`*. The unit of time is five seconds; the periods of the code
become 1 (heartbeat of the master, and its tolerance), 2 and 3. Each behaviour
keeps within one of seven budgets of opened tabs, notifications, calls of
addChannel, failures and delays (`MCBudgets`): all of them at once are out of
reach, and each budget has one kind of trouble with the things it may disturb.
There are two channels, which one tab or two may add, and two messages, so that
consecutive batches may be equal or not. *Fairness* is what the browser's event loop and the server give an open tab:
its timers and handlers run, polls are answered, time passes. Opening, closing,
crashing and sending need not happen.

`NothingSkipped`, `OnceWithOneMaster`, `EveryTabNotified` are about
notifications, `OneMasterInTheEnd` about the election, `ChannelsPolled` about
channels. Their exceptions are what the model showed of the code:

- A batch equal to the one before is never told to the tabs that do not poll,
  while `last` advances for all (`untold`).
- A tab that is master ignores the `notification` of another master but takes
  its `last` (319-327): what it skipped then is lost to it (`skipped`), and
  `_lastNotificationID` may go back, so that notifications are triggered twice
  once masters have changed.
- Two masters can overlap: when `master` is removed, every remaining tab runs
  the election on the list as it finds it. One of them steps down at its next
  heartbeat.
- The tab that steps down clears its list of channels (`stopPolling`), and
  shares the shortened list with the next `addChannel`; two tabs with different
  lists may then go on answering each other's `channels` events for ever.
- So may two lists under one stable master, when a channel is added (by this tab
  or another) while a list is on its way: a tab that hears of a list adopts it
  channel by channel and shares each result again, the older list after the newer
  one (`crossed`).
- A tab whose first call is `addChannel` takes the list of the storage in place
  of its own when it registers as a slave (line 124).

None of this is contradicted by a doc or a test, so they are stated as the
properties' exceptions and in the hazards, not as findings.

*Proved* (`CrosstabProofs`), for any tabs, periods and budgets: `NothingSkipped`
and `OnceWithOneMaster`. The invariant `CInv` says that no tab knows an
identifier beyond the storage's `last` (`Sane`); that every notification up to
there was triggered in the tab, or is in an event on its way, or was ignored as
master, or was told to no tab (`Shown`); and that while one tab alone was
elected, what each tab has triggered, followed by what is on its way to it,
rises and lies before what this tab asks for next (`Line`, `Ordered`), so that
its next answer goes on where they are. Most handlers touch none of this
(`Quiet`): one lemma carries the invariant over all of them, election and
heartbeat included. With two masters, two polls may ask from the same
identifier: this is why the exceptions stand.

`TypeOK` is proved as well, and is inductive as it stands: what a handler works
on stays in `Worlds`, through every operation it is made of, and what it commits
is again typed. Its part that could fail is that the list of peers never holds a
tab twice, though elections and heartbeats filter it, add to it and write back an
older reading of it. A list is filtered by the places that stay (`At`), so that
no recursion is needed; `AtFacts` says that what is left comes from different
places of the list, by counting the places up to each one (`Ranks`).
Identifiers are typed by what was sent so far, not by the bound of a budget, so
no tab ever knows of a notification that the server has not committed. The
liveness properties are TLC's.

## 9. Services

Run `services` has three parts that share nothing (`service` in `MCServices`
says which a behaviour is about).

*`Filestore`*: `disk`, `checklist` and the committed `store_fname` of each row;
`tx` is what each transaction is at, `gc` the collection. A transaction may be
rolled back or die between any two steps, and with `IOErrors` calls of the file
system fail as the code lets them: `WriteFails` and `MarkFails` are the `except
IOError` of `_file_write`, which logs and goes on; a file that cannot be
unlinked is logged and its mark removed (`GcUnlink`, `GcUncheck`); a mark that
cannot be removed stays (`GcUncheckFails`). `RemovesOnlyGarbage`: a collection
removes no file that a committed attachment, or one that a transaction has
stored, uses; the lock is there for this. `GarbageListed`: a file nothing uses
is in the checklist, apart from four windows (`unlisted`): the process died, or
the file system refused, between the writing of the file (or of a part of it)
and its mark; a collection unchecked a name that a write had just entered while
its UPDATE was still in the cache; or a file written again meanwhile; or one it
could not unlink. *Run `filestore_gc`* finds that an attachment may be committed
without its file (`AttachmentsHaveFiles`), with no failing file operation
(`IOErrors` is FALSE there): `create` writes and marks the file before its
INSERT, hence before it holds any lock on the table, and a collection that
begins in between removes it.

*Proved* (`FilestoreProofs`), for any attachments, files and transactions:
`RemovesOnlyGarbage` and `GarbageListed`. The invariant is in two parts. While
a collection is at work no transaction has flushed (`GcAlone`), so its
whitelist is what the table says. Every file is in a row or listed
(`AllAccounted`), which a commit preserves because it gives up just the file
that was committed before (`OldIsCommitted`, PostgreSQL's repeatable read) and
because that file was entered before (`OldListed`).

*`NumberSequence`*: `number_next` read in the snapshot, the row lock, PostgreSQL
sequences that no rollback undoes, date ranges created on the way. Both
implementations are chosen initially, with and without date ranges.
`NumbersInLine`: per row, no-gap numbers are 1, 2, 3... in the order of the
commits, standard ones differ. Per row only: two transactions may each create a
range for the same date and then both draw 1. The docstring of the class
(ir_sequence.py 84-86) says that sequences "generate unique identifiers in a
transaction-safe way", which this does not give; the model has both ranges, and
`NumbersInLine` does not speak of numbers of different rows.

*`BusDispatch`*: the table, NOTIFY after commit, the dispatcher's thread and the
polls. `NothingPassedOver`: a client does not move beyond a notification it did
not get, except one committed after a later one was delivered (`late`: ids are
drawn before commit), and one already `old` when the client got its first: a
client whose last is 0 is sent only what was created in the last TIMEOUT (50)
seconds (bus.py 76-78), so that a notification whose answer was lost, whose
NOTIFY was missed or whose transaction was long may be left out (`aged`).
`Expire` is the passing of these seconds, for any notification and at any
moment; it is enough to let it happen while some client still has no
notification. `WaitersWoken`: a poll that waits while there is something to
return is about to be woken, unless the NOTIFY failed, or came between the
poll's first read and its registration, or while nobody listened; such a poll
waits for its timeout.

*Proved* (`ServicesProofs`), for any number of transactions, rows, clients
and notifications. `NumbersInLine`: with no_gap, a row is written by one
transaction at a time (`OneWriter`), from the committed number (`Current`), and
what it has drawn continues what is committed (`DrawnInLine`); with standard, all
that was drawn lies below `nextval` (`BelowNextval`) and no two draws are equal
(`DrawnApart`), whoever commits. `NothingPassedOver` and `WaitersWoken`: a
client's last is an identifier in the table (`LastGiven`), and each notification
that is new to a client that has read either is still to be notified, or was
notified while the client was deaf, or has its NOTIFY at the dispatcher
(`ReadersWoken`; each one, since the seconds pass and a notification may drop out
of what a first poll returns). Type correctness of the three parts is
`ServicesTypesCorrect`, from the three invariants, as in a behaviour of the run
two parts stand still.

*Bounds*: two attachments, files and transactions; two requests, two numbers
each, five numbers committed, two ranges; two clients, three notifications, one
failure. Two transactions are enough for each conflict, the third notification
for one that overtakes. Types of the three parts are joined in `TypesOK`; no
liveness is claimed here, since a poll that is not woken ends at its timeout.
Symmetry is used over attachments, files, transactions and clients.

## 10. Reading the proofs

One lemma per action shows that the action preserves the invariant; a lemma
collects them and the theorems end with a temporal step. Assumptions are those of
the constants in the modules: `db_maxconn` is at least 1; `Cursors` is finite;
`None`, `Nobody`, `NoRow`, `Schema` and the like are none of the values they
stand beside; instants, intervals and bounds are natural numbers; writers and
the processes that run jobs are processes, fields with an onchange are fields; a
tab's heartbeat comes before its entry is out of date, and the master's is at
least as frequent; tabs are numbers, periods are natural numbers, and there is a
budget. TLC evaluates each of them in the runs.

One theorem has hypotheses besides: `LimitKept` (`MaxEdits = 0` and `OffBeat`);
section 4 says why. The run that checks this property, `cron_live`, satisfies
them.

Checked by TLC only:

- liveness (`DueJobsRun`, `StuckModulesReset`, `CallsEnd`, `EveryCallSettles`,
  `EveryTabNotified`, `OneMasterInTheEnd`, `ChannelsPolled`): the prover handles
  neither fairness nor ENABLED;
- what the runs refute.

The modules proved about declare no recursive operators.

Every property of a passing run has a mutant: an operator `Mut...` defined before
the definition it replaces, changed as a plausible bug would change it,
under which TLC finds the property violated.

## 11. Not modelled

- The ORM and the expression compiler: large sequential code over arbitrary
  classes, with no small faithful state.
- HTTP routing, sessions and rendering: sequential, or I/O. Module loading, but
  for the marks that stop scheduled jobs: it runs arbitrary code and SQL.
- The servers' processes, signals and sockets; threads that share one registry.
  The hazards list says what could go wrong there.
- The LRU, stock quants, the mail queue: each has its hazard listed and no
  module yet.
- Of the web client: widgets, rendering, actions, the views other than the form,
  relational fields and new records, the point of sale and other applications.
  Most of the JavaScript under `static/lib` is third-party libraries (editors,
  charts, PDF viewer, jQuery); these are not part of this system's own logic and
  nothing of them is modelled. They are the greater part of the repository's
  JavaScript, so the share of lines that the models map is small by nature.
- The hardware proxy: device I/O loops.
