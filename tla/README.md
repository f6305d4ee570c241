# dbgold: specifications, model checking and proofs

dbgold is a database migration tool: a Go server with a Vue front end that
copies schemas and data between many database systems and, from MySQL, keeps a
target up to date by change data capture (CDC) until the application is cut
over. This directory holds TLA+ specifications of the parts of it in which order, failure and
concurrency decide whether data is right, the TLC instances that check them,
and TLAPS proofs for seven of them. `PROJECT.json` lists, for every definition, the
source lines it stands for.

## 1. Inventory of the system

| Part | Source | State it keeps | Operations |
|---|---|---|---|
| CDC runner | `datamigrate/cdc/runner.go` | stream position, buffer of the transaction being read, last applied position (memory); checkpoint row in the target | read an event, commit, publish, pause on DDL, stop on cancel, restart from the checkpoint |
| Target applier | `datamigrate/cdc/postgres.go`, `dameng_dml.go`, `dameng_checkpoint.go` | target rows, checkpoint and bootstrap record | `Apply`, `SaveCheckpoint`, `LoadCheckpoint`, bootstrap record operations |
| Job registry | `datamigrate/cdc/registry.go` | per running job: cancel function, action, cutover boundary | `Register`, `Cancel`, `RequestCutover`, `ClearCutover`, `Remove`, `Running` |
| Incremental handlers | `api/handler/incremental.go` | `incrementalStartMu` | start, pause, prepare / complete / cancel cutover, abort, resume, acknowledge DDL, accept exclusions |
| Incremental job rows | `store/incremental.go` | SQLite row: status, checkpoint copy, boundary, blocking DDL, conflict, bootstrap columns | unconditional and compare-and-set updates, restart sweep |
| Initial copy | `datamigrate/cdc/bootstrap.go`, `dameng_checkpoint.go`, `api/handler/incremental.go` 353-559 | record on the target (state, manifest, position), cleanup plan, excluded tables | snapshot, copy, review, accept, clean up, abort, resume |
| Portable upgrade | `portable_upgrade.go`, `portable.go` | marker `.dbgold-upgrade.json`, snapshot directories, installed files, two kinds of lock files | stage, snapshot, seal, mark, install, probe, restore, recover |
| JDBC bridge manager | `internal/jdbcbridge/manager.go`, `lob.go`, `datamigrate/target/oscar.go` | the JVM process, pending calls, sessions and batches of the writers | start, handshake, call, cancel, reap |
| JDBC bridge server | `jdbcbridge/java/.../BridgeMain.java` | futures, sessions with connection pools, batches, LOB spool files | dispatch, cancel, open, begin, add, commit, abort, close |
| Repair ledger | `store/migration_repair.go` | objects with units and versions, attempts, binding, target lock | claim, finish, lock, restart sweep |
| Repair and recovery | `api/handler/migration_repair.go`, `migration_recovery.go`, `datamigrate/repair_recovery.go`, `datamigrate/target/repair.go` | a worker per attempt and its cancel function | draft, bind, preview, execute, recover, cancel |
| Full migration jobs | `api/handler/datamigration.go`, `batchmigration.go`, `datamigrate/migrator.go`, `repair_manifest.go`, `mysql_full_scan.go` | job and batch rows, cancel registry, failed tables, manifest in memory and store, table goroutines | start, batch, cancel, plan, create, copy, post-DDL, count, report |
| Tickets, users, audit | `store/ticket.go`, `store/user.go`, `store/query_audit.go` | rows | approve, execute, log |
| Middleware, logging, start-up | `middleware`, `logger/rotate.go`, `main.go` | rate windows, log files | limit, rotate, start, shut down |
| Translation | `datamigrate/typemap`, `dialect`, `source`, `target`, `valueconv`, trigger and view converters | none | text and value conversion |

How they interact. A handler reads a job row, works on registry, target and
source, and writes the row back; a launch registers the job and starts one
goroutine, which runs `Runner.Run`. `Run` reports through hooks that write the
row (status, statistics, blocking DDL, conflict) and reads the cutover boundary
from the registry; when it returns, the goroutine removes the registry entry
and writes the row a last time. The row is a report, the checkpoint in the
target is the truth: it is written in the same target transaction as the rows
it covers. After a restart of the server nothing is relaunched; active jobs
become `paused_restart` and an operator resumes them.

A full migration is independent of that: `runDataMigration` takes the lock of
the target schema, and its `Migrator` saves a manifest of the objects before it
touches the target, so that a repair can later go on from what is known to have
happened. The repair handlers work on that manifest (the ledger) under the same
lock. The initial copy of an incremental job uses the same `Migrator`. A writer
for an Oscar target does its work through the JDBC bridge, a JVM that all
writers of the server share.

What is hard. (a) The replayed, half-read or unanswered transaction: the target
may have tables without a key, so one apply too many is silent corruption. (b)
Handlers, goroutines and restart sweeps all write the same rows, some
unconditionally, some by compare-and-set, some under a mutex and some not. (c)
Multi-step durable procedures (initial copy with review, repair, full migration,
portable upgrade) that may die between any two steps, with two databases that
then disagree. (d) Cancellation: it arrives before, during and after the call it
is meant for, on the other side of a pipe, or between a check and the step the
check was for. (e) Goroutines that wait for slots, processes and locks which a
failed sibling must give back. Section 4 of this file and `hazards` in
`PROJECT.json` name the lines.

What makes each component right: CDC, every source change is in the target
exactly once as of the checkpoint; lifecycle, one runner per target, a
terminated job stays terminated, a completed cutover is complete; initial copy, a completed
copy is whole and what it left out was acknowledged; bridge, one process, whole
pages, every call ends; repair, no unit twice, a ledger that says what is so;
full migration, done means complete and the manifest is true at any moment;
upgrade, a whole release or a marker.

## 2. Modules

| Module | Models | Extends |
|---|---|---|
| `SourceLog` | the binlog as entries with rows; what a target with the first n entries must hold | |
| `ReplicatedCopy` | abstract specification: the target always equals the source as of some entry and only moves forward | `SourceLog` |
| `CdcRunner` | `Runner.Run`, `Apply`, the checkpoint, `AckIncrementalDDL`, cutover requests; crashes, reconnects, lost answers, cancels | `SourceLog`, instance of `ReplicatedCopy` |
| `CdcRunnerProofs` | inductive invariant and theorems | `CdcRunner`, `TLAPS` |
| `IncrementalLifecycle` | handlers, runner goroutines, registry, job rows, restart | |
| `IncrementalLifecycleProofs` | two inductive invariants and theorems | `IncrementalLifecycle`, `TLAPS` |
| `AtomicUpgrade` | abstract specification: an installation is one whole release with its data and is replaced in one step | |
| `PortableUpgrade` | the portable updater, its probe process, the portable server, kills and damage | instance of `AtomicUpgrade` |
| `PortableUpgradeProofs` | inductive invariant and theorems | `PortableUpgrade`, `TLAPS` |
| `Bootstrap` | initial copy to a Dameng target, record, review, cleanup, accept, resume, abort | |
| `BootstrapProofs` | inductive invariant and theorems | `Bootstrap`, `TLAPS` |
| `BridgeServer` | the JVM of the JDBC bridge: requests, sessions, pool, batches | |
| `JdbcBridge` | manager and writers, composed with the JVM over the pipe | `BridgeServer` |
| `JdbcBridgeProofs` | inductive invariants of the manager and of the pages, and theorems | `JdbcBridge`, `TLAPS` |
| `BridgeBatchProofs` | inductive invariants of who knows a batch and who holds a connection, and theorems | `JdbcBridgeProofs` |
| `MigrationRepair` | repair ledger, handlers, workers, unit execution, reload, restart | |
| `MigrationRepairProofs` | inductive invariant and theorems | `MigrationRepair`, `TLAPS` |
| `DataMigration` | batches, jobs, the run of a full migration, its manifest, restart | |
| `DataMigrationProofs` | inductive invariant and theorems | `DataMigration`, `TLAPS` |
| `MCCdcRunner`, `MCIncrementalLifecycle`, `MCBootstrap`, `MCJdbcBridge`, `MCMigrationRepair`, `MCDataMigration`, `MCPortableUpgrade` | TLC instances | |

`CdcRunner` has the data and one runner at a time; `IncrementalLifecycle` has
many threads and abstracts the data to numbers. The runner actions of the
second (`RunApply`, `RunDDL`, `RunPublish`, ...) are the durable effects of the
first. `Bootstrap` is what comes before both: it ends with the first changes CDC
applies. `MigrationRepair` starts from a ledger that `DataMigration` may leave
behind: some units failed, the data of a table failed, nothing running.

### 2.1 `CdcRunner`: state and code

| Variable | Code |
|---|---|
| `binlog` | the MySQL binlog; an entry is a GTID event, its row events and one closing event (XID, COMMIT, ROLLBACK, DDL, other statement, XA statement) |
| `ckpt`, `copies` | checkpoint row and content of the target; `copies` counts how often each source row change is there, the view of a table without a key |
| `mode`, `blocking`, `boundary` | the job row as far as it decides what the runner may do |
| `up`, `ti`, `tk` | `Run` is in its loop; the next event of the stream |
| `gset` | the GTID set of go-mysql's syncer |
| `pos`, `applied`, `changes`, `currentGTID`, `graceful` | the locals of `Run` with these names (`gracefulStop`) |
| `cancelled` | `ctx` is cancelled |
| `ack`, `acked` | requests in `AckIncrementalDDL`; history of acknowledged DDL |

Actions: `StartRun` (lines 30-202, with the first `publish`), `OnGTIDEvent`,
`OnRowsEvent`, `CommitReplayed` / `CommitApply` / `CommitUnanswered` (the three
outcomes of `commit`), `DDLPause`, `OnIgnoredClosing`, `Publish`, `OnCancelled`,
`RunError`, `Crash`, `Reconnect` (go-mysql), `Cancel`, `RequestCutover`,
`CancelCutover`, `AckRead` / `AckSave` / `AckSwap`. File positions are compared
only at closing events, so the entry's number stands for File/Pos; a GTID set
is a set of entry numbers. go-mysql is external: on a reconnect by GTID it asks
for everything outside the set it had before the transaction read last, so that
transaction comes again (the comment in `commit` says so); by file it goes on.

Not in this module: values and SQL, statistics, lag, row conflicts as such (a
failed `Apply` is `RunError`), `XA COMMIT` (the rolled-back branch is enough to
show what happens to buffered XA rows).

### 2.2 `IncrementalLifecycle`: state and code

A thread is a request handler or a runner goroutine; every access to SQLite,
registry, target checkpoint or source head is one step, so two threads
interleave between any two of them. `status`, `cutover`, `blocking` are columns
of the row, `reg` the registry entry (`action`, `cutover`), `mutex` is
`incrementalStartMu`, `th[t]` holds what a handler has read so far (`st`, `pos`,
`cut`: its copy of the row) and, for a runner, the last status it published and
how `Run` ended. A handler that launches a runner ends with that, so the
goroutine takes over its slot. `ended` is history: the jobs that were terminated
once, which a late write may have opened again. `ready_with_warnings` is merged with
`ready_to_cutover`. Jobs are past their initial copy, which is `Bootstrap`.

### 2.3 `PortableUpgrade`: state and code

| Variable | Code |
|---|---|
| `disk` | the installation directory: program files, user directories, Java runtime; a number stands for a content, `Broken` for half removed or half copied |
| `marker` | `.dbgold-upgrade.json`: snapshot and token (the attempt's number), checksum (the content it covers), `KeepRuntime` |
| `snap`, `attempt` | the latest snapshot under `backups/` and its number, which is also the number of the release being installed |
| `pc`, `todo`, `cur` | the updater; unless idle it holds the installation's lock, in `restore`, `runtime` and `unmark` the snapshot's lock too |
| `server` | the portable server, which holds the installation's lock |
| `probe` | per attempt, the process that runs the installed program; `locked` and `serving` hold the snapshot's lock |

Every removal, rename and copy of a name, the marker's rename and its removal
are steps of their own, so a kill fits between any two (`StopUpdater`, which is
also an error return that leads to no rollback). A probe is not killed with its
updater. `InitInterrupted` is an installation that an early updater left behind
(marker without `KeepRuntime`, runtime replaced too). The loops' order is fixed
but arbitrary. Not in this module: power loss (the code does not call `fsync`
on copied files; a kill leaves completed writes in place), damage while a
recovery reads the snapshot, tampering with the lock files.

### 2.4 `Bootstrap`: state and code

| Variable | Code |
|---|---|
| `policy`, `row` | `bootstrap_policy` and the SQLite row: status, bootstrap state, manifest, position |
| `rec` | the bootstrap record on the target, with the checkpoint and the plan of the cleanup |
| `tab`, `fks`, `nextId` | tables and foreign keys of the target with the object ids Dameng gives them |
| `reg`, `run` | registry entry and runner goroutine (`launchIncremental`, `runIncrementalBootstrap`, `Migrator.run`) |
| `req` | the handler that holds `incrementalStartMu` (accept, resume, abort) |
| `fin` | a `FinalizeBootstrap` in progress, which holds `damengBootstrapMu` |
| `published`, `acked`, `made`, `dropped` | history for the properties |

Handlers run one at a time, under the mutex, beside the goroutine.
`SaveBootstrapRecord` is one step (it holds `damengBootstrapMu` and ends with a
transaction); `FinalizeBootstrap` is one step per item, because DDL on Dameng is
not transactional. The identity check of an item and its `DROP` are one step:
the operator of the model replaces a table only while no request is handled.
SQLite does not fail in this module; the hash of a manifest is the manifest.

### 2.5 `BridgeServer` and `JdbcBridge`: state and code

`BridgeServer` has the JVM: `in` and `out` are the two pipes, `tasks` the
requests in work (`futures`, one worker each, and scheduled cleanups), `input`
the cancellation the input thread is in the middle of, `sessions` with their
pools (`open`, `idle`, `shut`), `batches` with monitor, connection and LOBs.
Every acquisition of a pool or a batch's monitor is a step. `JdbcBridge` adds
the manager (`cmd`, `starting`, `pending`, the `readLoop` and the reaper of each
process) and the writers. A process whose frame `readLoop` cannot use
(`BadFrame`, manager.go 382-412) is unregistered and not killed. Until the next
one is started it is modelled in full; from then on it is in `adrift`, nobody
hears of it, and of what it still does only its commits are kept (`late`,
`LateCommit`), since they reach the database; `refused` is history. `phase` is where `OscarWriter.CopyData` is, `handle`
the id it was given, with the process that gave it out. A cancelled call sends a
cancel frame and waits no longer. Rows and SQL are left out; a JDBC call
succeeds or fails.

### 2.6 `MigrationRepair`: state and code

`objs` are the ledger rows of a table object, whose data can be loaded again,
and of an index object with DDL units; `attempts`, `binding`, `preview` and
`lock` are the other rows; `handlers` hold what each request has loaded so far,
`workers` the goroutine of each attempt (`startRepairWorker`), `applied` and
`rows` the effects on the target, `tx` whether the target executes units in a
transaction (PostgreSQL) or one by one (Dameng). A request loads its rows step
by step and ends with one transaction; a unit is saved as running, executed and
saved again, three steps. `migration` is another job that wants the target.

### 2.7 `DataMigration`: state and code

| Variable | Code |
|---|---|
| `batch`, `loop` | the batch row; where `runBatch` is |
| `asked`, `cancels` | a `CancelBatch` handler: read, save, list, cancel are steps of their own |
| `jobs`, `reg`, `ctxs` | job rows, `datamigrate.Registry`, cancelled contexts |
| `lock` | `migration_repair_locks`: the job that owns the target schema |
| `run` | the `Migrator`: phase, `stop` (the child context of `Run` was cancelled by a task error), failed tables and views, counts, the statement in work |
| `work` | per table, its goroutine, the lanes still to start and the lanes in work |
| `mem`, `stored` | the manifest in memory and in the store |
| `tab`, `objs` | the target: tables with how often each source row was written, keys, foreign keys, views |
| `touched`, `late`, `unread` | history for the properties; `late` counts the jobs started after the batch was saved as cancelled, `unread` the checks since then that could not read the batch |

Every statement is three steps, as in `captureRepairCall`: save as running,
execute, save the outcome; each may fail, and a statement that fails with a
connection error may have had its effect. A lane is what one reader does: the
whole table page by page (serial), one page (parallel and stream), or a key
range; `Split` and `Rest` have the arithmetic of pages and ranges. Sequences and
indexes stand with the primary keys of their table as `key`; the order within a
category is arbitrary; counts are one step; the jobs of a batch have one target;
the source does not change. Foreign keys are between migrated tables, views
depend on each other without a cycle.

## 3. Runs

Every cfg but `PortableUpgrade.cfg` says `CHECK_DEADLOCK FALSE`: the binlog, the
requests and the faults of an instance are bounded and a system without further
requests may rest.

| Run | Instance | Shows |
|---|---|---|
| `cdc_gtid` | 3 entries, up to 2 rows each, 2 faults, XID / ROLLBACK / DDL / other | `ExactlyOnce`, `DDLBarrier`, `CutoverComplete`, `CheckpointMonotone`, refinement `ImplementsCopy` |
| `cdc_file` | file positions, COMMIT / DDL / XA branches, fairness | `EventuallyReplicated` |
| `cdc_xa` | GTID positions with XA branches | violates `RolledBackNeverApplied` (finding) |
| `life_cutover` | two jobs on a target, three threads, five requests: every operation but the acknowledgement; conflict, error, restart | `TwoRunnersOneEnded`, `CompletedAtBoundary`, `SettledStays` |
| `life_mutex` | two jobs on a target, the operations under the mutex (start, abort, resume), no runner error, restart | `OneRunnerPerTarget` |
| `life_cutover_ends` | one job; every operation but cancel; a runner may end by its boundary, a DDL statement, a conflict or an error; fairness | `CutoverEnds`, `AbortTakesEffect` |
| `bootstrap` | two tables of two pages, a foreign key, 4 requests, 3 faults, 1 replaced table, fairness | `CompletedIsWhole`, `OnlyOwnDropped`, `RowNeverAhead`, `OnlyAcknowledged`, `RecordOneWay`, `CopyEnds` |
| `bridge_restart` | two writers, one worker, pages of two requests, 2 faults (a crash, a failed start, an unreadable frame, a JDBC error); hello, open and add may be cancelled | `OneProcess`, `WholePages` |
| `bridge_copy` | one writer, two workers, a pool of one connection, 1 fault; everything but commit may be cancelled; fairness | `NoUnknownBatch`, `PoolCountsConnections`, `EveryCallEnds` |
| `repair` | two handlers, two request ids, two units, two pages, 3 requests, 1 fault, fairness | `OneWriter`, `AtMostOnce`, `LedgerTruth`, `DataTruth`, `Reviewed`, `CancelReaches`, `AttemptEnds` |
| `migration` | a batch of two rows or a single job; tables of 3, 2 and 0 rows in a chain of foreign keys, a view on a view, pages of 2, 2 tables and 1 or 2 lanes at a time, three read strategies, 1 fault (a read of the batch may fail too), 1 cancel, fairness | `DoneIsWhole`, `ManifestTruth`, `RetainedKeysKept`, `QuietAfterRelease`, `OneMoreJob`, `BatchEnds` |
| `portable_upgrade` | two program files, two user directories and the runtime, 2 attempts, 2 writes, 3 faults, fairness | `WholeWithoutMarker`, refinement `ImplementsAtomicUpgrade`, `OperatorRuntimeKept`, `Recovers` |

The modules define a few more properties that hold in the same instances and
are not part of a run: the `TypeOK` of each module, `OneRunnerPerJob`
(lifecycle; `TerminalForever` too, in `life_mutex`), `AnswerOnTheWay`, `LobsDieWithBatch` and `ClosedSessionDrains`
(bridge). Larger instances were checked for safety once: `repair` with 4 requests
(5.5 million states) and `migration` with 2 faults (2.7 million).

Bounds and why they are enough. Three entries, of which the first is history,
give an entry to be replayed, an entry to be lost and one behind it; two rows
are the least for a half-read transaction; two faults allow a fault during the
recovery of another one (a crash after a lost answer, a cancel during a
reconnect). In the lifecycle, three threads are a runner and two racing
handlers, five requests are start, prepare, cancel, prepare, stop, or two
starts, an abort, a resume and one more: the longest sequences the properties
need; source positions up to 2 let a second boundary differ from the first. In the initial copy, two tables are one that is excluded
and one that stays, with the key between them either way; four requests are
accept, abort or resume on both sides of a restart; three faults are a table
that fails, a cleanup that fails and a kill. For the bridge, two writers race
for the first call, two workers for the one connection of the pool, and with two
faults a process dies while its successor is being started. For the repair, two
handlers race with each other and with the worker, and a third request comes
after a restart. For the migration, tables of 3, 2 and 0 rows with pages of 2
are a short last page, a full last page and an empty table; the chain of foreign
keys has length two, so that protection must be transitive; a second row is what
a late cancel can let through. For the upgrade, two program files are the least
for a mixed program, two attempts let a probe of the first meet the second, and
three faults are a kill of the upgrade, a kill of its recovery and one more.
Thread slots are interchangeable (`SlotSymmetry`), used in a safety run only.

Fairness. `CdcRunner!Fairness`: the event loop, the publish and the end of a
cancelled run are steps of a running goroutine (Go's scheduler); `StartRun` and
`AckRead` are fair because the promise "every transaction arrives" is made to
an operator who resumes and acknowledges. No fault, cancel or cutover is ever
required to happen. `IncrementalLifecycle!FairSpec`: only threads that are in
the middle of something are fair; no request, error or source write is.
`Bootstrap!Fairness`: the runner, the handler in work and the cleanup go on.
`JdbcBridge!Fairness`: callers, `readLoop`, the JVM's input thread and workers
are scheduled, a JDBC call ends, and a killed process dies; no crash, error or
cancellation has to come. `MigrationRepair!Fairness`: handlers and workers go
on; a statement ends, at the latest with the context's deadline.
`DataMigration!Fairness`: `runBatch`, table goroutines and the cancel handler go
on, and their calls end. `PortableUpgrade!FairSpec`: a running updater and a
running probe go on, a probe that serves becomes ready or fails
(`runServerWithReady` returns), and the operator, whose server refuses to start,
runs the updater again while the marker is there. Kills are bounded by
`MaxFaults`, never required.

## 4. Findings

The violation run `cdc_xa`: rows of an XA branch stay in the buffer and are
committed with the next transaction (with GTID positions; with file positions
the next anonymous GTID event drops them, which `cdc_file` includes).
`PROJECT.json` has the lines and the quote.

Further races of the same models, reached with the constants given (they are
not runs of their own). `CdcRunner` and `IncrementalLifecycle`:

| Property | `Ops` / other constants | What happens |
|---|---|---|
| `NeverAppliedTwice` | `Ackers = {a1, a2}` | `AckIncrementalDDL` saves the checkpoint before its compare-and-set (1222); a stale second acknowledgement moves the checkpoint back and rows are applied again |
| (no job active with nobody at work on it) | start, pause | the pause handler's `pausing` (902) overwrites the runner's `paused_manual`; no operation but abort leaves that state |
| (the same) | start, ack; `DDLAt = {2}` | the acknowledgement's launch finds the old runner registered and returns silently (incremental.go 232-235); the job stays `initializing` |
| (the same) | start, prepare, cancel | cancel uses a stale `running` (1046); the job says `running` without a runner |
| `OneRunnerPerTarget` | two jobs; start, prepare, cancel, abort | cancel-cutover launches without the mutex (1078) |
| `OneRunnerPerTarget` | two jobs; start, abort, resume; `Outcomes = {"error"}` | the runner's late `failed` reopens an aborted job after another one was started, and it is resumed beside that. `TwoRunnersOneEnded` is what holds with every operation: one of the two had been terminated |
| `TerminalForever` | start, abort; `Outcomes = {"error"}` | the runner's late `failed` reopens an aborted job (308-310). `SettledStays` is what holds with every operation: only who was at work on the job when it was terminated can reopen it |
| `ReadyIsReached` | start, prepare, cancel, 4 requests | a boundary prepared during the validation of another one is offered as ready |
| `StoppedIsComplete` | start, prepare, stop, cancel; one job, 4 threads, 7 requests, `MaxHead = 2` | `StopIncremental` swaps on the status alone (1025): between its checks and its swap the cutover is cancelled, prepared again for a later boundary and offered as ready by the claim of the older one (315); the job is completed for a boundary the target has not reached. `CompletedAtBoundary` is what does hold: the boundary that was read and checked is reached |
| `AbortTakesEffect` without `EndedItself` | start, abort; `DDLAt = {2}`, fairness | an accepted abort is dropped when the runner ends with a DDL pause, a conflict or at its boundary (260-282); the property says that this is the only way |
| `CutoverEnds` | add cancel | a late `ClearCutover` (1075) removes a newer boundary; the job stays `cutting_over` |

The other modules:

* Bridge, `NoStaleId` with two writers and a crash: a comment (manager.go
  488-491) says a crash cannot turn an old session id into an implicit retry
  against a fresh process, but ids start at 1 again in every JVM (BridgeMain
  110-111), so an old id names a fresh session or batch. `WholePages`,
  `NoUnknownBatch` and `PoolCountsConnections` therefore speak of behaviours in
  which no id met another process (`aliased`).
* Bridge, `PoolCountsConnections` with `"commit"` in `Cancellable`: a cancelled
  commit whose `catch` and cleanup both give the connection back (BridgeMain
  739-746).
* Bridge: when `readLoop` meets a frame of a wrong size, version or marker
  (382-412) it unregisters the process, which lives, and nothing kills it; the next
  call starts another one (226). The comment "Manager owns the single lazy JVM bridge
  process" (69) then does not hold: the old JVM keeps its connections and open
  transactions, and commits what it was asked to. `OneProcess` says that this is the
  only way to a second process.
* Bridge: a cancelled `OpenSession` leaves a session nobody will close (242), an
  `AbortBatch` that is dropped keeps its connection until the session closes,
  and a request registered before `processDied` that captures the new pipe gets
  the old process' failure.
* Repair: `persistRepairProgress` (migration_repair.go 1127) does not raise the
  version, so when a recovery cannot store the outcome of a related object, a
  request loaded before passes the version checks and runs its units again;
  `AtMostOnce` and `LedgerTruth` exclude that by the history `unsaved`. A failed
  `FinishRepairAttempt` leaves the attempt running and the target locked until a
  restart.
* Initial copy: an accept between the review row (534) and `Registry.Remove`
  (261) launches nothing, and the job stays `catching_up` until a restart (884);
  an abort in that window is dropped (282). A failed `AbortTargetBootstrap` is
  ignored. Between the identity check and the `DROP` (dameng_checkpoint.go
  369-381) an object may be replaced.
* Batches: `CancelBatch` between `runBatch`'s check (458) and the row of the next
  job lets that job run to its end, so the bound of `OneMoreJob` is reached. The
  check also passes when the read of the batch fails (`err == nil &&`): each such
  read lets one more job start, two after the cancel when both meet. The
  comment at 457 says the remaining jobs are marked cancelled, but no rows are
  made for them. `CancelBatch` saves a row it read before, so it can overwrite a
  batch that has just finished. After a restart the batch row stays running.
* Jobs: `StartDataMigration` leaves the registry entry behind when the job's row
  cannot be created (272), and `updateJobStatus` ignores a failed write, so the
  row stays running. Tables without a key are paged with `LIMIT` and `OFFSET` and
  no order (source/mysql.go 378), which the model takes as a stable order.

## 5. Proofs

### 5.1 `CdcRunnerProofs`

For every value of `StartTxn`, `MaxTxn`, `MaxRows`, `MaxFaults`, `Kinds` and
both kinds of positions, under two hypotheses that are not consequences of the
code: `OneAck` (at most one acknowledgement in flight) and `NoXA` (no XA
statements in the binlog). `cdc_xa` shows that `NoXA` is needed, the race of two
acknowledgements in section 4 that `OneAck` is.

* `InvariantHolds`: `Spec => []IInv`.
* `TypeCorrect`, `AppliesExactlyOnce`, `DDLIsBarrier`, `CutoverIsComplete`:
  `TypeOK`, `ExactlyOnce`, `DDLBarrier`, `CutoverComplete` are invariants.
* `CheckpointNeverMovesBack`: the action property `CheckpointMonotone`.
* `RunnerImplementsCopy`: `Spec => Copy!Spec`, the refinement.

The argument. `ExactlyOnce` is not inductive: a state with the right target but
a wrong buffer satisfies it. `IInv` adds: every stored position is the position
of a prefix of the binlog (`PositionsInv`, which turns `PositionReached` into
`>=`, lemma `ReachedIsOrder`); the runner's `applied` is the checkpoint and the
stream stands at the entry behind it, or again at the last one after a
reconnect (`StreamInv`); the buffer is exactly the replicated rows read of the
current entry, or left over from the same transaction, which its GTID event
will drop (`BufferInv`); a stopped runner has no buffer (`StoppedInv`); a
pending DDL is the entry behind the checkpoint until its acknowledgement moves
the checkpoint onto it (`DDLInv`). With that, `CommitApply` adds exactly one
entry (`ApplyExact`, `ExpectedNext`), a replayed commit is recognised because
`applied` covers it, and an acknowledgement adds an entry without rows. There is
one lemma per action; the refinement follows from `ExactlyOnce` and `DoneGrows`.

The assumptions used are `SourceAssumption` and `RunnerAssumption` (types of the
constants, `StartTxn >= 1`), which TLC evaluates in every run.

### 5.2 `PortableUpgradeProofs`

For any sets `Program` and `User` and any number of attempts, writes and faults:
`InvariantHolds` (`Spec => []Inv`), `TypeCorrect`, `WholeUnlessMarked`
(`WholeWithoutMarker`), `RuntimeIsKept` (`OperatorRuntimeKept`) and
`UpgradeIsAtomic` (the refinement of `AtomicUpgrade`). The assumptions are
`NamesAssumption` (the names are different) and `BoundsAssumption`.

The argument. `WholeWithoutMarker` says nothing while the marker is there, so it
is not inductive. `Inv` adds: the marker is there exactly from the first file
replaced to the last restored, and what it covers is whole and older than the
attempt (`MarkerInv`); a name that has been copied into the snapshot, installed
or restored is equal to what it was copied from, as the names still to do shrink
(`SnapshotInv`, `InstallInv`, `RestoreInv`); and a probe that serves belongs to
the marker while nobody restores (`ProbeInv`), which holds because the marker is
read again under the snapshot's lock. `RemoveMarker` is the only visible step of
the updater: after `done` it is the abstract `Upgrade`, after `unmark` the disk
equals what the marker covered and nothing is seen.

### 5.3 `DataMigrationProofs`

For every finite set of tables with sizes, views with dependencies, foreign keys
(any graph, cycles included), page size, parallelism, read strategy, number of
rows of the batch, faults and cancels: `InvariantHolds`, `TypeCorrect`,
`DoneMeansWhole` (`DoneIsWhole`), `ManifestIsTrue` (`ManifestTruth`),
`RetainedKeysStay` (`RetainedKeysKept`), `ReleasedIsQuiet` (`QuietAfterRelease`)
and `AtMostOneMore` (`OneMoreJob`: one job more than the checks that could not
read the batch). The assumption is `MigrationAssumption`: the
tables are numbered, pages are not empty, the three bounds are numbers.

The argument. None of the properties is inductive: they speak of a job that has
ended, a lock that was released or a manifest in the store, and hold because of
what the run knew before. `Inv` says who owns the target and that only the owner
has statements and goroutines in work (`OwnerInv`, `StepInv`); that the manifest
in memory is true while a run keeps it and the stored one always, with the object
of the statement in flight marked as running in both (`RecordInv`); for each table
that has not failed, that it is empty, or has exactly the rows outside the lanes
still to do, or is whole (`CopyInv`, which uses that `Split` and `Rest` partition
the rows, lemmas on `CeilDiv` and pages); that as long as nothing has failed
everything of the earlier phases is there (`CompleteInv`); and that a retained
table's parent is retained too or was rebuilt before (`RetainInv`, from the fixed
point of `Protected`). The cases of `FinalData` are written as disjoint, so that
`CASE` has one value.

### 5.4 `IncrementalLifecycleProofs`

For every set of jobs and threads, every set of DDL positions, and any number of
requests and restarts.

* Without any further hypothesis: `GeneralHolds`, `TypeCorrect` and
  `EntriesMatchRunners` (`OneRunnerPerJob`): whichever of the eight operations
  race, a registered job has exactly one replicating thread, another one none.
* `CompletionAtBoundary` (`CompletedAtBoundary`) for all operations but `ack`.
  The acknowledgement saves a checkpoint it computed before (1222), which may move
  it back after the request that completes the job has compared it; this is the
  race of two acknowledgements of section 4.
* Without any further hypothesis too: `TwoRunners` (`TwoRunnersOneEnded`) and
  `TerminatedStays` (`SettledStays`). They bound what the launches outside
  `incrementalStartMu` and the late writes of section 4 can do.

`OneRunnerPerTarget` and `AbortTakesEffect` are only model-checked, the first with the
operations under the mutex and no runner error: with more it fails.

The argument. `Paired` states `OneRunnerPerJob` without a cardinality: a
replicating thread has a registry entry, two such threads have different jobs, an
entry has a thread. `StopThread` carries what a completing request has compared
through its steps; the checkpoint and the head only grow. `EndedInv` is about
the rows: of two jobs that exist one has been terminated. It is inductive because
a row is created only under the mutex, after all others were found terminated, and
while the mutex is held no other row can appear; that a terminated job is opened
again, by whomever, does not make it one that never was. A settled job has nobody
at work on it, and a request that looks at it finds it terminated and not
registered (`Paired`), so nobody comes back to it.

### 5.5 `BootstrapProofs`

For any number of tables and pages, any foreign keys between different tables,
both policies, any number of requests, failures, kills, replaced tables and
changes: `InvariantHolds`, `TypeCorrect`, `CompletedCopyIsWhole`
(`CompletedIsWhole`), `DropsOnlyOwn` (`OnlyOwnDropped`), `RowStaysBehind`
(`RowNeverAhead`), `ExclusionsAcknowledged` (`OnlyAcknowledged`) and
`RecordMovesForward` (`RecordOneWay`). The assumption is `BootstrapAssumption`.

The argument. Ids are given out once, so an object of the operator never has an id
of `made` (`IdInv`). While the copy is made nobody but an abort can act on the job
(`EarlyInv`), which is why the record the runner saves is still unpublished; from
then on the row follows the record (`RowInv`), and a handler in work knows what it
has read to be still true (`ReqInv`). The plan of the cleanup, once it is there,
names only objects the copy made and every one that must go, and an item marked
as done is gone (`PlanInv`): a plan is made before anybody can replace a table,
and a replaced table has an id that no plan has. `FinInv` follows
`FinalizeBootstrap` through the plan, and `WholeInv` says that a record in review
or completed has its followed tables whole. The order of the plan within its two
kinds is left open (`SetToSeq`): the proof does not use it.

### 5.6 `MigrationRepairProofs`

For any number of units, pages, handlers, request ids, requests and faults, with and
without transactions on the target: `InvariantHolds`, `TypeCorrect`, `WritesAlone`
(`OneWriter`), `UnitsRunOnce` (`AtMostOnce`), `LedgerIsTrue` (`LedgerTruth`),
`DataIsTrue` (`DataTruth`), `RunsWhatWasReviewed` (`Reviewed`) and `CancelsArrive`
(`CancelReaches`). The assumption is `RepairAssumption`, the types of the numbers.

The argument. `LockInv` ties the lock row to the one running attempt, its claimed
request and its worker, so a step of a worker can leave out everybody else
(`Alone`, `Moves`). `ReviewInv` says that the versions checked in the claim are still
those of the rows: drafts and bindings are refused while an attempt runs.
`LoadedInv` is about what a request carries between its read and its transaction: a
row it has loaded with the current version has the current units, unless an attempt
is changing them. This is where `unsaved` comes in: a related object whose outcome
was not stored keeps its version although its units have run, and a request that
loaded it earlier passes the version check. `UnitInv` follows `ExecuteRepair`: in the
loop the ledger is behind the target by the unit in work at most (`Executing`),
after the commit by the whole transaction (`Committed`), and when the attempt
is stored the worker knows what became of each unit (`Decided`). `AtMostOnce` alone
is not inductive, since a unit may be selected again only because the ledger shows
it as not applied, and that must be so (`Truth`) also of rows loaded earlier and
after the restart sweep, which only ever replaces `running` by `unknown`. `DataInv`
follows the reload: the pages up to the cursor are there once and no others
(`Loaded`), because a reload starts from a table that was truncated or counted as
empty. What a count of 0 says of the pages (`Counting`) is proved from the recursive
function behind `MapThenSumSet`, with a least set of pages instead of an induction.

### 5.7 `JdbcBridgeProofs` and `BridgeBatchProofs`

For any writers, workers, operations that can be cancelled and number of faults:
`InvariantHolds` and `SingleProcess` (`OneProcess`), from `ThreadsAssumption` (a worker
has a writer, and no thread is the value that stands for "nobody").

The argument. `cmd = nil` does not mean that there is no process: a failed handshake
takes the process out of the registry before it is dead. `ManagerInv` says that a process
that is not registered is still awaited by the thread whose startup failed
(`"reaped"`), that this thread is the one in `starting`, so nobody else starts, and that
the reaper is through only when the process is dead; or the process is `Gone`: dead, or
one whose frame was refused. `readLoop` and the reaper unregister only their own
generation, the reaper after the end of the process, `readLoop` after its end or after a
frame it cannot use, and then the process is in `refused`. `SingleProcess` says no
more: any process besides the newest is one of those, and calls are written only to
a process that is being read.

Both modules join the callers, the pipe and the JVM, for any number of
writers, workers, connections, faults and processes, from the same assumption:
`PagesAreWhole` (`WholePages`), `NoBatchUnknown` (`NoUnknownBatch`), `NoConnectionIsLost`
and, for behaviours in which no commit is cancelled (`"commit" \notin Cancellable`, the
hypothesis of the theorem), `PoolsCount` (`PoolCountsConnections`). No property is near
to inductive: they speak of the database, the batches or the pools, and what
decides is which request is where. The invariants, each proved from those before it:

* `BaseInv`: the types of both sides; what a task is about at each step (`TaskOk`: a
  `beginBatch` that registered its batch knows it, a discard has taken its batch out of
  the map); what a call is about in each phase of its thread (`CallOk`); and that no
  message, task, response or batch has an id that its thread has not used yet
  (`IdInv`), which is why a new request cannot be taken for an old one.
* `PageInv`: a request that is in the pipe or at work fits its caller (`Fits`: the
  batch is the one this process gave to the worker, an add carries a row of the
  worker's page, a commit goes to a batch that has the whole page or refuses every
  commit, because it is closing); a batch holds rows of its opener only; a success on
  its way to a waiting call means what the caller concludes from it (`Good`), whether
  it is still a task's, in the pipe or in the call's channel. A page is then whole in
  the database when it gets there. The "or refuses" matters: rows vanish when a batch is
  discarded under a commit that is already queued. What a JVM that was given up may still
  commit (`late`) are whole pages too (`LateRowsInv`): they are fixed when the next
  process is started, from the requests at work, in its pipe and about to be written.
* `LinkInv`: every request is in one place (pipe, task or response), a call without an
  answer is registered, a worker's `beginBatch` is about a session of this process, and
  a `beginBatch` whose call was answered is nowhere any more.
* `KnownInv`, of a registered process that lives: a mapped batch is owned (`Owned`): its
  worker has the id or will get it, or somebody is going to discard it: a task that has
  it on its list, the `beginBatch` that is about to check for cancellation, or a
  cancellation that is being read, in the pipe, or still to be sent. `AskInv` and
  `EarlyInv` carry the race of `cancelRequest` with `beginBatch`: a `beginBatch`
  nobody waits for has its cancellation behind it in the pipe, or was marked before its
  check. When nothing is under way, only "its worker has the id" is left, which is the
  property.
* `CountInv`, for `NoConnectionIsLost` (`NoConnectionLost`, the first part of
  `PoolCountsConnections`): the tasks are finitely many, and what a pool takes to be in
  use (`Away`, open minus idle) is at most what requests and batches hold. Each step
  keeps this for each session (`Keeps`), takes a connection (`Takes`), gives one back
  (`Returns`) or hands it from the request to its batch (`Hands`), and cardinalities of
  finite sets do the rest. Two tasks must not become one when a step or a cancellation
  rewrites them, which is `UniqueInv`. It needs neither `aliased` nor a word about
  what may be cancelled: a commit that is cancelled makes the counter too small, never
  too large, so a pool may admit one connection too many but does not run dry.
* The other half of `PoolCountsConnections` (`OverInv`: every connection that is held is
  counted) hangs on one step. A discard looks at `disposed` before it gives the
  connection back; `commitBatch` does not. So a commit that has the monitor must find
  its batch undisposed (`CommitInv`), and why it does takes the history of the worker,
  of its writer and of the session:
  * `CalmInv`: who cancels, aborts or closes has given up: such a worker works on its
    batch no more, such a writer opens nothing, and a `beginBatch` that is late belongs
    to a worker that is done.
  * `ClaimInv`: no session of a JVM is given to two writers, counting the answers that
    are on their way; so the close of one writer is not about another one's batch.
  * `TodoInv`: a task discards only batches of the worker that aborts or whose request
    was cancelled, the one its own `beginBatch` opened, or those of the session it
    closes.
  * `LateInv`: a commit in the pipe or at work is still waited for by its worker, or the
    manager has taken the process out of the registry and worker and writer are through
    with it: their aborts and closes are not sent to this JVM any more. In both
    cases nothing in the pipe, at work or being read disturbs the worker. This is where
    the hypothesis is needed: a commit whose caller gives up is followed by a
    cancellation, and section 4 says what happens then.

`LinkInv`, `KnownInv`, `CountInv` and the invariants of the last point are in
`BridgeBatchProofs`, the others in `JdbcBridgeProofs`.

The proofs do not go through every step of the system for every part: each worker step
is shown once to have a common effect on batches, task and pipe (`WorkEffects`,
`WorkShape`), each step of a thread to be one of eight kinds (`ThreadKinds`), and the
invariants follow from those. Ids that met another process (`aliased`, finding
`NoStaleId`) are excluded as in the properties.

### 5.8 Only model-checked

Liveness (`EventuallyReplicated`, `CutoverEnds`, `AbortTakesEffect`, `CopyEnds`,
`EveryCallEnds`, `AttemptEnds`, `BatchEnds`, `Recovers`) is out of the prover's
reach, and `OneRunnerPerTarget` holds only without the operations that `life_mutex`
leaves out. Every other invariant and action property of a passing run is also a
theorem; `PoolCountsConnections` with the hypothesis that no commit is cancelled, as in its run.

## 6. Plan

1. Done: `SourceLog`, `ReplicatedCopy`, `CdcRunner`, `IncrementalLifecycle`,
   `AtomicUpgrade`, `PortableUpgrade`, `Bootstrap`, `MigrationRepair`,
   `DataMigration`, `BridgeServer` and `JdbcBridge`, each system with proofs.
2. Done: a proof of every invariant and action property of a passing run but
   `OneRunnerPerTarget`.
3. More of the migration: content validation, partitions, triggers and the
   dedicated routes (Oracle, SQL Server, PostgreSQL, Dameng to Dameng), each as a
   phase of `DataMigration`'s run.

## 7. Not modelled

Type maps, dialects, SQL generation, value conversion and trigger / view
conversion are text transformations without state. Preflight and metadata code
reads catalogs. The front end, deployment scripts, the stress tool and the
vendored drivers are outside. Values inside rows, row location (keys, full-row
match) and conflicts are abstracted to "applied" or "failed". Times (lag, the
five-minute grace period, the six-hour validation limit) are nondeterministic
choices.

Of the modelled parts, left out are: in the bridge, read cursors, `Close` and
shutdown, the sweep of the spool directory and
`ConfigureDefault`; in the repair, the choice and editing of units, regenerated
candidates, native and manual triggers, legacy bindings, partitions and sequence
calibration (an interrupted statement is taken not to have an effect after the
restart); in the initial copy, translation, locator strategies, reports and the
record on PostgreSQL, which compares neither manifest nor identity; in the full
migration, the dedicated routes from and to Oracle, SQL Server, PostgreSQL and
Dameng, partitions, triggers, comments, owner changes, content validation,
object-only and view-only jobs, and foreign keys to tables outside the
migration. Query tickets, users, audit rows, the rate limiter and log rotation
are single rows or maps under one lock and are not modelled.
