---------------------------- MODULE DataMigration ----------------------------
(***************************************************************************)
(* A batch of full migrations: the rows of an uploaded sheet are migrated  *)
(* one after the other by the goroutine runBatch, each as a job of its     *)
(* own with a row in the store, an entry in the registry and a context,    *)
(* while CancelBatch and CancelDataMigration run beside it.  A single      *)
(* migration is such a job without a batch around it.                      *)
(*                                                                         *)
(* A job takes the lock of its target schema, saves a manifest of every    *)
(* object it will create, drops and creates the tables, copies the rows    *)
(* with one goroutine per table and several lanes per table, adds keys,    *)
(* foreign keys and views, counts the rows and records how it ended.       *)
(* Every statement goes through captureRepairCall, which saves the object  *)
(* as running before the statement and saves its outcome after it.         *)
(***************************************************************************)
EXTENDS Integers, FiniteSets, Sequences, Functions

CONSTANTS
    Rows,                \* rows of the sheet: the jobs of the batch
    Tables,              \* 1 .. n, in the order the source lists them
    Size,                \* the number of source rows of each table
    Refs,                \* foreign keys, as pairs <<child, parent>>
    Views,               \* views of the source
    Deps,                \* the tables and views each view reads
    PageSize,            \* rows per read and write
    MaxParallel,         \* tables copied at the same time
    Parallels,           \* intra_table_parallel of the request
    Strategies,          \* mysql_read_strategy of the request: offset, stream, range
    MaxFaults,           \* bound: errors, lost connections, crashes
    MaxCancels           \* bound: cancel requests

ASSUME MigrationAssumption ==
    /\ Rows \in Nat \ {0} /\ PageSize \in Nat \ {0}
    /\ MaxParallel \in Nat \ {0} /\ Parallels \subseteq Nat \ {0}
    /\ IsFiniteSet(Tables) /\ Tables = 1 .. Cardinality(Tables)
    /\ Size \in [Tables -> Nat]
    /\ Views \cap Tables = {} /\ Deps \in [Views -> SUBSET (Tables \cup Views)]
    /\ Refs \subseteq Tables \X Tables
    /\ Strategies \subseteq {"offset", "stream", "range"}
    /\ MaxFaults \in Nat /\ MaxCancels \in Nat

VARIABLES
    batch,    \* the row batch_migrations.status
    loop,     \* runBatch: where it is and which row of the sheet
    asked,    \* a CancelBatch handler: where it is and what it has read
    cancels,  \* cancel requests so far
    jobs,     \* the rows data_migration_jobs.status
    reg,      \* datamigrate.Registry: the registered jobs
    ctxs,     \* the jobs whose context is cancelled
    lock,     \* migration_repair_locks: the job that owns the target, or 0
    run,      \* the Migrator of the current job
    work,     \* the copy of each table: goroutine, lanes
    mem,      \* the manifest in memory: object and data states
    stored,   \* the manifest in the store
    tab,      \* target tables: existence, how often each row was written
    objs,     \* keys, foreign keys and views on the target
    touched,  \* ghost: objects whose statement was sent under this manifest
    late,     \* ghost: jobs created after the batch was saved as cancelled
    unread,   \* ghost: how often the loop could not read that it is cancelled
    faults

batchVars == <<batch, loop, asked, cancels, jobs, reg, ctxs, late, unread>>
manifest  == <<mem, stored>>
target    == <<tab, objs, touched>>
vars == <<batchVars, lock, run, work, manifest, target, faults>>

-----------------------------------------------------------------------------
(* Objects and their states.                                               *)

Keys    == {<<"key", t>> : t \in Tables}   \* primary keys, indexes, sequences
Fks     == {<<"fk", r>> : r \in Refs}
ViewObs == {<<"view", v>> : v \in Views}
Objects == {<<"table", t>> : t \in Tables} \cup Keys \cup Fks \cup ViewObs

\* Object.Dependencies
DependsOn(o) ==
    CASE o[1] = "key" -> {<<"table", o[2]>>}
      [] o[1] = "fk"  -> {<<"table", o[2][1]>>, <<"table", o[2][2]>>, <<"key", o[2][2]>>}
      [] OTHER        -> {}

Inventory == [obj |-> [o \in Objects |-> "pending"], data |-> [t \in Tables |-> "pending"]]

NoCall == [obj |-> <<>>, pc |-> "none", res |-> ""]
NoRun  == [pc |-> "none", strategy |-> "", parallel |-> 1, stop |-> FALSE, sink |-> FALSE, failed |-> FALSE,
           fail |-> [t \in Tables |-> ""], vfail |-> {}, at |-> 1, todo |-> {},
           counted |-> [t \in Tables |-> ""], call |-> NoCall]
Idle   == [st |-> "idle", todo |-> <<>>, active |-> {}, bad |-> FALSE]

Whole(t) == tab[t].there /\ \A i \in 1 .. Size[t] : tab[t].copied[i] = 1

Init ==
    /\ batch = "none" /\ loop = [pc |-> "off", row |-> 1]
    /\ asked = [pc |-> "idle", seen |-> {}] /\ cancels = 0
    /\ jobs = [j \in 1 .. Rows |-> "none"] /\ reg = {} /\ ctxs = {} /\ lock = 0
    /\ run = NoRun /\ work = [t \in Tables |-> Idle]
    /\ mem = Inventory /\ stored = Inventory
    /\ \E old \in BOOLEAN :   \* an empty target, or tables of an earlier design
          /\ tab = [t \in Tables |-> [there |-> old, copied |-> [i \in 1 .. Size[t] |-> 0]]]
          /\ objs = IF old THEN Fks ELSE {}
    /\ touched = {} /\ late = 0 /\ unread = 0 /\ faults = 0

Row == loop.row

\* The job's context, or the child that a task error cancels, is done.
Stopped == run.stop \/ Row \in ctxs

\* How a call may end: well, with an error of its own, or with one that
\* concerns the whole task (isMigrationTaskError).
Ends == {"ok"} \cup (IF faults < MaxFaults THEN {"error", "task"} ELSE {})

\* A call under a cancelled context may end with the context's error.
EndsUnder == Ends \cup (IF Stopped THEN {"task"} ELSE {})

Charge(end) == faults' = IF end = "ok" \/ (end = "task" /\ Stopped) THEN faults ELSE faults + 1

-----------------------------------------------------------------------------
(* runBatch and the job around the migration.                              *)

Unused == batch = "none" /\ jobs[1] = "none" /\ reg = {}

NewRun(strategy, parallel) ==
    [NoRun EXCEPT !.pc = "connect", !.strategy = strategy, !.parallel = parallel]

\* A single job.  Without a row the request fails and the job stays registered.
StartDataMigration ==
    /\ Unused
    /\ reg' = {1}
    /\ \/ /\ jobs' = [jobs EXCEPT ![1] = "running"]
          /\ loop' = [pc |-> "run", row |-> 1]
          /\ \E s \in Strategies, n \in Parallels : run' = NewRun(s, n)
          /\ UNCHANGED faults
       \/ /\ faults < MaxFaults /\ faults' = faults + 1
          /\ UNCHANGED <<jobs, loop, run>>
    /\ UNCHANGED <<batch, asked, cancels, ctxs, late, unread, lock, work, manifest, target>>

StartBatch ==
    /\ Unused
    /\ batch' = "running"
    /\ loop' = [pc |-> "check", row |-> 1]
    /\ UNCHANGED <<asked, cancels, jobs, reg, ctxs, late, unread, lock, run, work, manifest, target, faults>>

\* A call of the store that fails.
StoreFails == faults < MaxFaults /\ faults' = faults + 1

\* Variant: the loop does not look at the batch again.
CheckCancelledOnce ==
    /\ loop.pc = "check"
    /\ loop' = [loop EXCEPT !.pc = IF Row > Rows THEN "read" ELSE "create"]
    /\ UNCHANGED <<unread, faults>>
    /\ UNCHANGED <<batch, asked, cancels, jobs, reg, ctxs, late, lock, run, work, manifest, target>>

\* The batch is read before each row; when that fails, the row is migrated.
CheckCancelled ==
    /\ loop.pc = "check"
    /\ \/ /\ loop' = [loop EXCEPT !.pc = IF Row > Rows \/ batch = "cancelled" THEN "read" ELSE "create"]
          /\ UNCHANGED <<unread, faults>>
       \/ /\ Row <= Rows /\ StoreFails
          /\ loop' = [loop EXCEPT !.pc = "create"]
          /\ unread' = IF batch = "cancelled" THEN unread + 1 ELSE unread
    /\ UNCHANGED <<batch, asked, cancels, jobs, reg, ctxs, late, lock, run, work, manifest, target>>

\* Registry.Register and the job's row; without a row the job is passed over.
\* A batch has no read strategy.
CreateJob ==
    /\ loop.pc = "create"
    /\ \/ /\ jobs' = [jobs EXCEPT ![Row] = "running"]
          /\ reg' = reg \cup {Row}
          /\ loop' = [loop EXCEPT !.pc = "run"]
          /\ \E n \in Parallels : run' = NewRun("offset", n)
          /\ late' = IF batch = "cancelled" THEN late + 1 ELSE late
          /\ UNCHANGED faults
       \/ /\ faults < MaxFaults /\ faults' = faults + 1
          /\ loop' = [pc |-> "check", row |-> Row + 1]
          /\ UNCHANGED <<jobs, reg, run, late>>
    /\ UNCHANGED <<batch, asked, cancels, ctxs, unread, lock, work, manifest, target>>

\* close(LogCh), Registry.Remove, cancel: the deferred end of a job.
CloseJob ==
    /\ run.pc = "close"
    /\ reg' = reg \ {Row} /\ ctxs' = ctxs \cup {Row}
    /\ run' = NoRun
    /\ work' = [t \in Tables |-> IF work[t].active = {} THEN Idle ELSE work[t]]
    /\ loop' = IF batch = "none" THEN [loop EXCEPT !.pc = "off"] ELSE [pc |-> "check", row |-> Row + 1]
    /\ UNCHANGED <<batch, asked, cancels, jobs, late, unread, lock, manifest, target, faults>>

\* The end of the batch is read, then written; an error of either leaves the
\* batch as it is.
ReadBatch ==
    /\ loop.pc = "read"
    /\ \/ /\ loop' = [loop EXCEPT !.pc = IF batch = "cancelled" THEN "keep" ELSE "done"]
          /\ UNCHANGED faults
       \/ StoreFails /\ loop' = [loop EXCEPT !.pc = "off"]
    /\ UNCHANGED <<batch, asked, cancels, jobs, reg, ctxs, late, unread, lock, run, work, manifest, target>>

FinishBatch ==
    /\ loop.pc \in {"keep", "done"}
    /\ \/ batch' = (IF loop.pc = "done" THEN "done" ELSE "cancelled") /\ UNCHANGED faults
       \/ StoreFails /\ UNCHANGED batch
    /\ loop' = [loop EXCEPT !.pc = "off"]
    /\ UNCHANGED <<asked, cancels, jobs, reg, ctxs, late, unread, lock, run, work, manifest, target>>

\* CancelBatch: the batch is read, ...
CancelRead ==
    /\ asked.pc = "idle" /\ batch # "none" /\ cancels < MaxCancels
    /\ cancels' = cancels + 1
    /\ asked' = [asked EXCEPT !.pc = IF batch = "running" THEN "save" ELSE "list"]
    /\ UNCHANGED <<batch, loop, jobs, reg, ctxs, late, unread, lock, run, work, manifest, target, faults>>

\* ... saved as cancelled (errors of this and the next step are ignored), ...
CancelSave ==
    /\ asked.pc = "save"
    /\ \/ batch' = "cancelled" /\ UNCHANGED faults
       \/ StoreFails /\ UNCHANGED batch
    /\ asked' = [asked EXCEPT !.pc = "list"]
    /\ UNCHANGED <<loop, cancels, jobs, reg, ctxs, late, unread, lock, run, work, manifest, target>>

\* ... its running jobs are listed ...
CancelList ==
    /\ asked.pc = "list"
    /\ \/ /\ asked' = [pc |-> "cancel", seen |-> {j \in 1 .. Rows : jobs[j] = "running"}]
          /\ UNCHANGED faults
       \/ StoreFails /\ asked' = [pc |-> "cancel", seen |-> {}]
    /\ UNCHANGED <<batch, loop, cancels, jobs, reg, ctxs, late, unread, lock, run, work, manifest, target>>

\* ... and those still registered are cancelled.
CancelJobs ==
    /\ asked.pc = "cancel"
    /\ ctxs' = ctxs \cup (asked.seen \cap reg)
    /\ asked' = [pc |-> "idle", seen |-> {}]
    /\ UNCHANGED <<batch, loop, cancels, jobs, reg, late, unread, lock, run, work, manifest, target, faults>>

CancelDataMigration(j) ==
    /\ cancels < MaxCancels /\ cancels' = cancels + 1
    /\ jobs[j] # "none" /\ j \in reg
    /\ ctxs' = ctxs \cup {j}
    /\ UNCHANGED <<batch, loop, asked, jobs, reg, late, unread, lock, run, work, manifest, target, faults>>

-----------------------------------------------------------------------------
(* The migration of one row, from runDataMigration to its status.          *)

At(p)   == loop.pc = "run" /\ run.pc = p /\ run.call = NoCall
Goto(p) == run' = [run EXCEPT !.pc = p]

\* migrationStartup.begin and finish: cancelled first, then failed.
Status(s) == jobs' = [jobs EXCEPT ![Row] = s]

JobKeeps == UNCHANGED <<batch, loop, asked, cancels, reg, ctxs, late, unread>>

\* Reader, writer and target schema are connected and checked.
Connect ==
    /\ At("connect")
    /\ \/ Stopped /\ Status("cancelled") /\ Goto("close") /\ UNCHANGED faults
       \/ ~Stopped /\ UNCHANGED <<jobs, faults>> /\ Goto("lock")
       \/ ~Stopped /\ faults < MaxFaults /\ faults' = faults + 1 /\ Status("failed") /\ Goto("close")
    /\ JobKeeps /\ UNCHANGED <<lock, work, manifest, target>>

\* prepareMigrationRepair: AcquireMigrationScope.
AcquireScope ==
    /\ At("lock")
    /\ \/ lock = 0 /\ lock' = Row /\ Goto("manifest") /\ UNCHANGED <<jobs, faults>>
       \/ lock # 0 /\ Status(IF Stopped THEN "cancelled" ELSE "failed") /\ Goto("close")
          /\ UNCHANGED <<lock, faults>>
    /\ JobKeeps /\ UNCHANGED <<work, manifest, target>>

\* beginRepair: the inventory of all objects is saved before any statement.
BeginRepair ==
    /\ At("manifest")
    /\ \/ /\ Stopped /\ Status("cancelled") /\ Goto("release")
          /\ UNCHANGED <<manifest, touched, faults>>
       \/ /\ ~Stopped /\ mem' = Inventory /\ touched' = {}
          /\ \/ stored' = Inventory /\ Goto("plan") /\ UNCHANGED faults
             \/ /\ faults < MaxFaults /\ faults' = faults + 1
                /\ run' = [run EXCEPT !.pc = "finish", !.sink = TRUE, !.failed = TRUE]
                /\ UNCHANGED stored
          /\ UNCHANGED jobs
    /\ JobKeeps /\ UNCHANGED <<lock, work, tab, objs>>

\* Variant: only the parents of the failed tables themselves are protected.
ProtectedOnce(failed, completed) ==
    failed \cup {t \in Tables \ completed : \E c \in failed : <<"fk", <<c, t>>>> \in objs}

\* The tables whose rebuild would cut a foreign key of a retained one: the
\* least set that holds the failed tables and, with a child, its parents that
\* are not yet rebuilt.
Protected(failed, completed) ==
    LET Closed(S) == /\ failed \subseteq S
                     /\ \A r \in Refs : <<"fk", r>> \in objs /\ r[1] \in S
                                        => r[2] \in S \cup completed
    IN  {t \in Tables : \A S \in SUBSET Tables : Closed(S) => t \in S}

\* protectRetainedMigrationTables asks the catalog only if a table failed and
\* another one is still to be rebuilt.
Failed(r) == {t \in Tables : r.fail[t] # ""}
AsksCatalog(r, completed) == Failed(r) # {} /\ Tables \ (Failed(r) \cup completed) # {}

Protect(r, completed, end) ==
    IF ~AsksCatalog(r, completed) THEN run' = r
    ELSE IF end = "ok"
         THEN run' = [r EXCEPT !.fail =
                        [t \in Tables |-> IF @[t] = "" /\ t \in Protected(Failed(r), completed)
                                          THEN "dependency" ELSE @[t]]]
         ELSE run' = [r EXCEPT !.pc = "finish", !.stop = TRUE]

\* All plans are made before the first DROP; a table without a plan fails.
Plan ==
    /\ At("plan")
    /\ \/ Stopped /\ Goto("finish") /\ UNCHANGED faults
       \/ /\ ~Stopped /\ faults < MaxFaults /\ faults' = faults + 1
          /\ run' = [run EXCEPT !.pc = "finish", !.stop = TRUE]
       \/ /\ ~Stopped
          /\ \E bad \in {{}} \cup {{t} : t \in Tables}, end \in {"ok", "task"} :
                LET r == [run EXCEPT !.pc = "create", !.failed = bad # {},
                             !.fail = [t \in Tables |-> IF t \in bad THEN "preflight" ELSE ""]]
                IN  /\ end = "ok" \/ AsksCatalog(r, {})
                    /\ faults' = faults + Cardinality(bad) + (IF end = "ok" THEN 0 ELSE 1)
                    /\ faults' <= MaxFaults
                    /\ Protect(r, {}, end)
    /\ JobKeeps /\ UNCHANGED <<jobs, lock, work, manifest, target>>

-----------------------------------------------------------------------------
(* captureRepairCall: save the object as running, execute, save the result. *)

\* Variant: the object is not saved before its statement.
CallBeginUnsaved(o, r) ==
    /\ mem' = [mem EXCEPT !.obj[o] = "running"]
    /\ run' = [r EXCEPT !.call = [obj |-> o, pc |-> "exec", res |-> ""]]
    /\ UNCHANGED <<stored, faults>>

\* r is the run as it is to be when the call has begun.
CallBegin(o, r) ==
    \/ /\ mem' = [mem EXCEPT !.obj[o] = "running"]
       /\ stored' = [stored EXCEPT !.obj[o] = "running"]
       /\ run' = [r EXCEPT !.call = [obj |-> o, pc |-> "exec", res |-> ""]]
       /\ UNCHANGED faults
    \/ /\ faults < MaxFaults /\ faults' = faults + 1   \* nothing is executed
       /\ mem' = [mem EXCEPT !.obj[o] = "failed"]
       /\ run' = [r EXCEPT !.pc = "finish", !.stop = TRUE, !.sink = TRUE]
       /\ UNCHANGED stored

\* What a statement needs on the target.
Possible(o) ==
    CASE o[1] = "key"  -> tab[o[2]].there
      [] o[1] = "fk"   -> tab[o[2][1]].there /\ tab[o[2][2]].there /\ <<"key", o[2][2]>> \in objs
      [] o[1] = "view" -> \A d \in Deps[o[2]] :
                             IF d \in Views THEN <<"view", d>> \in objs ELSE tab[d].there
      [] OTHER         -> TRUE

\* DROP TABLE ... CASCADE takes the keys on both sides and the views along.
CutBy(t) == {<<"key", t>>} \cup {<<"fk", r>> : r \in {q \in Refs : t \in {q[1], q[2]}}}
                           \cup {<<"view", v>> : v \in {w \in Views : t \in Deps[w]}}

\* A table is dropped and created by two statements: effect "half" is the
\* first alone.
Apply(o, effect) ==
    IF effect = "none" THEN UNCHANGED <<tab, objs>>
    ELSE IF o[1] = "table"
         THEN /\ tab' = [tab EXCEPT ![o[2]] = [there  |-> effect = "full",
                                               copied |-> [i \in 1 .. Size[o[2]] |-> 0]]]
              /\ objs' = objs \ CutBy(o[2])
         ELSE objs' = objs \cup {o} /\ UNCHANGED tab

CallExec ==
    /\ loop.pc = "run" /\ run.call.pc = "exec"
    /\ LET o == run.call.obj
           ends == IF Possible(o) THEN EndsUnder ELSE {"error"} \cup (EndsUnder \ {"ok"})
       IN  \E end \in ends, effect \in {"none", "half", "full"} :
              /\ effect = "half" => o[1] = "table"
              /\ effect = "full" => Possible(o)
              /\ end = "ok" => effect = "full"
              /\ end = "error" => effect # "full"
              /\ Apply(o, effect)
              /\ touched' = touched \cup {o}
              /\ run' = [run EXCEPT !.call.pc = "record", !.call.res = end]
              /\ IF end = "error" /\ ~Possible(o) THEN UNCHANGED faults ELSE Charge(end)
    /\ JobKeeps /\ UNCHANGED <<jobs, lock, work, manifest>>

\* The run after a call that ended by itself.
After(o, res) ==
    LET r == [run EXCEPT !.call = NoCall, !.failed = @ \/ res # "ok"]
        t == o[2]
    IN  CASE o[1] = "table" -> [r EXCEPT !.at = @ + 1,
                                         !.fail[t] = IF res = "ok" THEN @ ELSE "execute"]
          [] o[1] = "view"  -> [r EXCEPT !.vfail = IF res = "ok" THEN @ ELSE @ \cup {t}]
          [] OTHER          -> r

Completed == {t \in Tables : t < run.at /\ run.fail[t] = ""}

CallRecord ==
    /\ loop.pc = "run" /\ run.call.pc = "record"
    /\ LET o == run.call.obj
           res == run.call.res
           state == CASE res = "ok" -> "succeeded" [] res = "error" -> "failed" [] OTHER -> "unknown"
           Ended(sink) == run' = [run EXCEPT !.pc = "finish", !.call = NoCall, !.stop = TRUE,
                                             !.sink = @ \/ sink]
       IN  /\ mem' = [mem EXCEPT !.obj[o] = state]
           /\ \/ /\ stored' = [stored EXCEPT !.obj[o] = state]
                 /\ \/ res = "task" /\ Ended(FALSE) /\ UNCHANGED faults
                    \/ res = "ok" /\ run' = After(o, res) /\ UNCHANGED faults
                    \/ /\ res = "error" /\ o[1] # "table"
                       /\ run' = After(o, res) /\ UNCHANGED faults
                    \/ /\ res = "error" /\ o[1] = "table"
                       /\ \E end \in {"ok"} \cup (Ends \cap {"task"}) :
                             /\ end = "ok" \/ AsksCatalog(After(o, res), Completed)
                             /\ Protect(After(o, res), Completed, end)
                             /\ Charge(end)
              \/ /\ faults < MaxFaults /\ faults' = faults + 1
                 /\ Ended(TRUE) /\ UNCHANGED stored
    /\ JobKeeps /\ UNCHANGED <<jobs, lock, work, target>>

\* Phase 1: the tables are created in their order.
CreateTable ==
    /\ At("create")
    /\ \/ /\ run.at \notin Tables /\ Goto("copy") /\ UNCHANGED <<manifest, faults>>
       \/ /\ run.at \in Tables /\ run.fail[run.at] # ""
          /\ run' = [run EXCEPT !.at = @ + 1] /\ UNCHANGED <<manifest, faults>>
       \/ /\ run.at \in Tables /\ run.fail[run.at] = "" /\ Stopped
          /\ Goto("finish") /\ UNCHANGED <<manifest, faults>>
       \/ /\ run.at \in Tables /\ run.fail[run.at] = "" /\ ~Stopped
          /\ CallBegin(<<"table", run.at>>, run)
    /\ JobKeeps /\ UNCHANGED <<jobs, lock, work, target>>

-----------------------------------------------------------------------------
(* Phase 2: one goroutine per table, and lanes [from, to] of its rows.     *)

Least(a, b) == IF a < b THEN a ELSE b
CeilDiv(a, b) == (a + b - 1) \div b

Serial == run.strategy = "offset" /\ run.parallel = 1
Scan   == run.strategy \in {"stream", "range"}

\* The rows 1 .. n in consecutive lanes of the given width.
Split(n, width) ==
    [k \in 1 .. CeilDiv(n, width) |-> [from |-> (k - 1) * width + 1, to |-> Least(k * width, n)]]

\* Serial paging is one lane, parallel paging and streaming have one per page,
\* key ranges one for each of at most intra_table_parallel ranges.
Lanes(t) ==
    CASE Serial -> <<[from |-> 1, to |-> Size[t]]>>
      [] run.strategy = "range" /\ run.parallel > 1 /\ Size[t] > 0
             -> Split(Size[t], CeilDiv(Size[t], run.parallel))
      [] OTHER -> Split(Size[t], PageSize)

\* The context of a scanned table is cancelled by its first error as well.
TableStopped(t) == Stopped \/ (Scan /\ work[t].bad)

InWork == {t \in Tables : work[t].st = "run"}
Waiting == {t \in Tables : run.fail[t] = "" /\ work[t].st = "idle"}

CopyKeeps == JobKeeps /\ UNCHANGED <<jobs, lock, manifest, objs, touched>>

\* The dispatcher takes a slot and starts the next table, which plans its lanes.
CopyTable ==
    /\ At("copy") /\ ~Stopped /\ Waiting # {} /\ Cardinality(InWork) < MaxParallel
    /\ LET t == CHOOSE u \in Waiting : \A w \in Waiting : u <= w
       IN  \E end \in Ends :
              /\ work' = [work EXCEPT ![t] = [st |-> "run", active |-> {}, bad |-> end # "ok",
                                              todo |-> IF end = "ok" THEN Lanes(t) ELSE <<>>]]
              /\ run' = [run EXCEPT !.stop = @ \/ end = "task"]
              /\ Charge(end)
    /\ CopyKeeps /\ UNCHANGED tab

StartLane(t) ==
    /\ work[t].st = "run" /\ work[t].todo # <<>> /\ ~TableStopped(t)
    /\ Cardinality(work[t].active) < run.parallel
    /\ work' = [work EXCEPT ![t].todo = Tail(@), ![t].active = @ \cup {Head(work[t].todo)}]
    /\ CopyKeeps /\ UNCHANGED <<run, tab, faults>>

\* The lane after a page of n rows: serial paging ends on a short page, so a
\* table of full pages is read once more; the others know where they end.
Rest(l, n) ==
    IF (Serial /\ n < PageSize) \/ (~Serial /\ l.from + n > l.to)
    THEN {} ELSE {[l EXCEPT !.from = @ + n]}

\* A page is read and written in one transaction.  Its table fails with it, and
\* the task with an error of the connection; a lane whose table is stopped ends
\* without an effect on the task.  A page that succeeds after a cancel is one
\* that had begun before it.
CopyPage(t, l) ==
    /\ l \in work[t].active
    /\ LET n == Least(PageSize, l.to - l.from + 1)
           page == l.from .. (l.from + n - 1)
           Write(by) == tab' = [tab EXCEPT ![t].copied =
                                   [i \in DOMAIN @ |-> IF i \in page THEN @[i] + by ELSE @[i]]]
           quiet == Scan /\ TableStopped(t)
       IN  \/ /\ Write(1)
              /\ work' = [work EXCEPT ![t].active = (@ \ {l}) \cup
                                                    (IF quiet THEN {} ELSE Rest(l, n))]
              /\ UNCHANGED <<run, faults>>
           \/ /\ quiet
              /\ work' = [work EXCEPT ![t].active = @ \ {l}, ![t].bad = TRUE]
              /\ UNCHANGED <<run, tab, faults>>
           \/ /\ ~quiet
              /\ \E end \in EndsUnder \ {"ok"}, by \in 0 .. 1 :
                    /\ end = "error" => by = 0
                    /\ Write(by) /\ Charge(end)
                    /\ run' = [run EXCEPT !.stop = @ \/ end = "task"]
                    /\ work' = [work EXCEPT ![t].active = @ \ {l}, ![t].bad = TRUE]
    /\ CopyKeeps

\* Variant: a table that fails returns without wg.Done.
CopyTableEndLost(t) ==
    /\ work[t].st = "run" /\ work[t].active = {} /\ work[t].todo = <<>>
    /\ ~work[t].bad
    /\ work' = [work EXCEPT ![t] = [Idle EXCEPT !.st = "ok"]]
    /\ CopyKeeps /\ UNCHANGED <<run, tab, faults>>

\* wg.Wait of the table: it is copied if no page failed and, but for serial
\* paging and an empty table, the task is not cancelled either.
CopyTableEnd(t) ==
    /\ work[t].st = "run" /\ work[t].active = {}
    /\ work[t].todo = <<>> \/ TableStopped(t)
    /\ LET ok == /\ ~work[t].bad /\ work[t].todo = <<>>
                 /\ ~Stopped \/ Serial \/ (~Scan /\ Size[t] = 0)
       IN  /\ work' = [work EXCEPT ![t] = [Idle EXCEPT !.st = IF ok THEN "ok" ELSE "err"]]
           /\ run' = IF ok THEN run ELSE [run EXCEPT !.fail[t] = "data", !.failed = TRUE]
    /\ CopyKeeps /\ UNCHANGED <<tab, faults>>

\* Variant: a cancelled phase does not wait for its goroutines.
CopyEndAtOnce ==
    /\ At("copy") /\ (Stopped \/ InWork \cup Waiting = {})
    /\ Goto(IF Stopped THEN "finish" ELSE "read_keys")
    /\ CopyKeeps /\ UNCHANGED <<work, tab, faults>>

\* wg.Wait of the phase.
CopyEnd ==
    /\ At("copy") /\ InWork = {} /\ (Stopped \/ Waiting = {})
    /\ Goto(IF Stopped THEN "finish" ELSE "read_keys")
    /\ CopyKeeps /\ UNCHANGED <<work, tab, faults>>

-----------------------------------------------------------------------------
(* Phase 3: createPostDDL, then the row counts.                            *)

Category(p) == CASE p = "keys" -> Keys [] p = "fks" -> Fks [] p = "views" -> ViewObs
Phases == {"keys", "fks", "views"}
Reads(p) == CASE p = "keys" -> "read_keys" [] p = "fks" -> "read_fks" [] p = "views" -> "read_views"
Next3(p) == CASE p = "keys" -> "read_fks" [] p = "fks" -> "read_views" [] p = "views" -> "count"

\* Variant: an unreadable category is only logged.
ReadObjectsLogged(p) ==
    /\ At(Reads(p))
    /\ \E end \in EndsUnder :
          /\ run' = CASE end = "ok"    -> [run EXCEPT !.pc = p, !.todo = Category(p)]
                      [] end = "error" -> [run EXCEPT !.pc = Next3(p)]
                      [] OTHER         -> [run EXCEPT !.pc = "finish", !.stop = TRUE]
          /\ Charge(end)
    /\ JobKeeps /\ UNCHANGED <<jobs, lock, work, manifest, target>>

\* The objects of a category are read from the source; an unreadable category
\* is passed over and counts as failed.
ReadObjects(p) ==
    /\ At(Reads(p))
    /\ \E end \in EndsUnder :
          /\ run' = CASE end = "ok"    -> [run EXCEPT !.pc = p, !.todo = Category(p)]
                      [] end = "error" -> [run EXCEPT !.pc = Next3(p), !.failed = TRUE]
                      [] OTHER         -> [run EXCEPT !.pc = "finish", !.stop = TRUE]
          /\ Charge(end)
    /\ JobKeeps /\ UNCHANGED <<jobs, lock, work, manifest, target>>

\* An object is not tried if a table or view it rests on failed.
Blocked(o) ==
    CASE o[1] = "key"  -> run.fail[o[2]] # ""
      [] o[1] = "fk"   -> run.fail[o[2][1]] # "" \/ run.fail[o[2][2]] # ""
      [] o[1] = "view" -> \/ o[2] \in run.vfail
                          \/ \E d \in Deps[o[2]] : IF d \in Views THEN d \in run.vfail
                                                                  ELSE run.fail[d] # ""
      [] OTHER         -> FALSE

\* A view waits for the views it reads.
Ready(o) == o[1] = "view" => \A d \in Deps[o[2]] : <<"view", d>> \notin run.todo

CreateObject(p, o) ==
    /\ At(p) /\ o \in run.todo
    /\ \/ /\ Stopped /\ Goto("finish") /\ UNCHANGED <<manifest, faults>>
       \/ /\ ~Stopped /\ Blocked(o)
          /\ run' = [run EXCEPT !.todo = @ \ {o}, !.failed = TRUE,
                                !.vfail = IF p = "views" THEN @ \cup {o[2]} ELSE @]
          /\ UNCHANGED <<manifest, faults>>
       \/ /\ ~Stopped /\ ~Blocked(o) /\ Ready(o)
          /\ CallBegin(o, [run EXCEPT !.todo = @ \ {o}])
    /\ JobKeeps /\ UNCHANGED <<jobs, lock, work, target>>

CategoryEnd(p) ==
    /\ At(p) /\ run.todo = {}
    /\ Goto(IF p = "views" /\ Stopped THEN "finish" ELSE Next3(p))
    /\ JobKeeps /\ UNCHANGED <<jobs, lock, work, manifest, target, faults>>

\* Phase 4: rows of source and target are counted for the tables that are left.
CountRows ==
    /\ At("count")
    /\ \E end \in EndsUnder, bad \in Tables :
          LET left == {t \in Tables : run.fail[t] = ""}
              same == {t \in left : FoldFunction(LAMBDA a, b : a + b, 0, tab[t].copied) = Size[t]}
                         \ (IF end = "error" THEN {bad} ELSE {})
          IN  /\ end = "error" => bad \in left
              /\ run' = IF end = "task" THEN [run EXCEPT !.pc = "finish", !.stop = TRUE]
                        ELSE [run EXCEPT !.pc = "finish", !.failed = @ \/ same # left,
                                 !.counted = [t \in Tables |-> IF t \in same THEN "match"
                                                               ELSE IF t \in left THEN "differ" ELSE ""]]
              /\ Charge(end)
    /\ JobKeeps /\ UNCHANGED <<jobs, lock, work, manifest, target>>

\* finishRepair and reconcileMigrationFailures: what was never tried is blocked
\* by what failed, and the data of a table is judged by the copy and the counts.
FinalObject(o) ==
    LET state == mem.obj[o]
        f == run.fail[o[2]]
    IN  IF state # "pending" THEN state
        ELSE IF o[1] = "table"
             THEN CASE f = "" -> "pending" [] f = "dependency" -> "blocked" [] OTHER -> "failed"
             ELSE IF Blocked(o) \/ \E d \in DependsOn(o) : mem.obj[d] # "succeeded"
                  THEN "blocked" ELSE "pending"

FinalData(t) ==
    CASE run.fail[t] = "data"            -> "failed"
      [] run.fail[t] \notin {"", "data"} -> "blocked"
      [] run.fail[t] = "" /\ run.counted[t] = "match"  -> "succeeded"
      [] run.fail[t] = "" /\ run.counted[t] = "differ" -> "failed"
      [] OTHER                           -> "pending"

Final == [obj |-> [o \in Objects |-> FinalObject(o)], data |-> [t \in Tables |-> FinalData(t)]]

\* A task error is reported, then the whole manifest is saved once more.
FinishRepair ==
    /\ At("finish")
    /\ mem' = Final
    /\ \/ /\ stored' = Final /\ UNCHANGED faults
          /\ run' = [run EXCEPT !.pc = "status", !.failed = @ \/ Stopped \/ run.sink]
       \/ /\ faults < MaxFaults /\ faults' = faults + 1 /\ UNCHANGED stored
          /\ run' = [run EXCEPT !.pc = "status", !.failed = TRUE]
    /\ JobKeeps /\ UNCHANGED <<jobs, lock, work, target>>

\* The report is saved and the job's status written; a failed write of the
\* status is ignored, and the row stays running.
FinishJob ==
    /\ At("status")
    /\ \/ /\ Status(CASE Row \in ctxs -> "cancelled" [] Row \notin ctxs /\ run.failed -> "failed"
                      [] OTHER -> "done")
          /\ UNCHANGED faults
       \/ faults < MaxFaults /\ faults' = faults + 1 /\ Status("failed")
       \/ faults < MaxFaults /\ faults' = faults + 1 /\ UNCHANGED jobs
    /\ Goto("release")
    /\ JobKeeps /\ UNCHANGED <<lock, work, manifest, target>>

\* releaseRepair; an error is logged and the lock stays until a restart.
ReleaseScope ==
    /\ At("release")
    /\ \/ lock' = 0 /\ UNCHANGED faults
       \/ faults < MaxFaults /\ faults' = faults + 1 /\ UNCHANGED lock
    /\ Goto("close")
    /\ JobKeeps /\ UNCHANGED <<jobs, work, manifest, target>>

\* The server dies and starts again: MarkInterruptedRepairsUnknown.  Nobody
\* takes up the batch.
Crash ==
    /\ ~Unused /\ faults < MaxFaults /\ faults' = faults + 1
    /\ loop' = [loop EXCEPT !.pc = "off"]
    /\ asked' = [pc |-> "idle", seen |-> {}]
    /\ reg' = {} /\ ctxs' = {} /\ lock' = 0
    /\ run' = NoRun /\ work' = [t \in Tables |-> Idle] /\ mem' = Inventory
    /\ stored' = [stored EXCEPT !.obj = [o \in Objects |-> IF @[o] = "running" THEN "unknown" ELSE @[o]]]
    /\ jobs' = [j \in 1 .. Rows |-> IF jobs[j] = "running" THEN "failed" ELSE jobs[j]]
    /\ UNCHANGED <<batch, cancels, late, unread, target>>

-----------------------------------------------------------------------------

BatchNext == CheckCancelled \/ CreateJob \/ CloseJob \/ ReadBatch \/ FinishBatch
CancelNext == CancelSave \/ CancelList \/ CancelJobs
CallNext == CallExec \/ CallRecord
PostNext == \E p \in Phases : ReadObjects(p) \/ CategoryEnd(p) \/ \E o \in run.todo : CreateObject(p, o)
RunNext ==
    \/ Connect \/ AcquireScope \/ BeginRepair \/ Plan \/ CreateTable \/ CallNext
    \/ CopyTable \/ CopyEnd \/ PostNext \/ CountRows
    \/ FinishRepair \/ FinishJob \/ ReleaseScope
TableNext(t) == StartLane(t) \/ CopyTableEnd(t) \/ \E l \in work[t].active : CopyPage(t, l)

Next ==
    \/ StartDataMigration \/ StartBatch \/ CancelRead \/ Crash
    \/ \E j \in 1 .. Rows : CancelDataMigration(j)
    \/ BatchNext \/ CancelNext \/ RunNext
    \/ \E t \in Tables : TableNext(t)

Spec == Init /\ [][Next]_vars

\* The goroutines of the batch, of the tables and of the handlers are
\* scheduled, and their calls end; no request, error or crash has to come.
Fairness ==
    /\ WF_vars(BatchNext) /\ WF_vars(CancelNext) /\ WF_vars(RunNext)
    /\ \A t \in Tables : WF_vars(TableNext(t))

FairSpec == Spec /\ Fairness

-----------------------------------------------------------------------------
(* Properties.                                                             *)

(* Type correctness of the batch, the job rows, the run and the target.    *)
TypeOK ==
    /\ batch \in {"none", "running", "done", "cancelled"}
    /\ loop.pc \in {"off", "check", "create", "run", "read", "keep", "done"}
    /\ jobs \in [1 .. Rows -> {"none", "running", "done", "failed", "cancelled"}]
    /\ reg \subseteq 1 .. Rows /\ ctxs \subseteq 1 .. Rows /\ lock \in 0 .. Rows
    /\ run.fail \in [Tables -> {"", "preflight", "dependency", "execute", "data"}]
    /\ \A t \in Tables : work[t].st \in {"idle", "run", "ok", "err"}
    /\ \A m \in {mem, stored} :
          /\ m.obj \in [Objects -> {"pending", "running", "succeeded", "failed", "unknown", "blocked"}]
          /\ m.data \in [Tables -> {"pending", "succeeded", "failed", "blocked"}]
    /\ objs \subseteq Objects /\ touched \subseteq Objects

(* When runDataMigration writes the status done, the target is the source: *)
(* every table is there with each of its rows exactly once, and every key, *)
(* foreign key and view exists, whatever strategy, errors of single        *)
(* objects, lost connections and cancels the run has seen.                 *)
DoneIsWhole ==
    [][\A j \in 1 .. Rows : jobs'[j] = "done" /\ jobs[j] # "done"
          => /\ \A t \in Tables : Whole(t)
             /\ Keys \cup Fks \cup ViewObs \subseteq objs]_vars

(* The manifest that a repair works from is true whenever it may be read,  *)
(* between a statement and its record and after a crash too: what it calls *)
(* succeeded is on the target, what it calls pending or blocked was never  *)
(* sent there, and data it calls succeeded is complete.                    *)
ManifestTruth ==
    /\ \A o \in Objects :
          /\ stored.obj[o] = "succeeded" => IF o[1] = "table" THEN tab[o[2]].there ELSE o \in objs
          /\ stored.obj[o] \in {"pending", "blocked"} => o \notin touched
    /\ \A t \in Tables : stored.data[t] = "succeeded" => Whole(t)

(* protectRetainedMigrationTables: a foreign key on the target disappears  *)
(* only while its child has not failed, so that a table left as it was     *)
(* keeps its references although other tables are dropped with CASCADE.    *)
RetainedKeysKept ==
    [][\A r \in Refs : <<"fk", r>> \in objs /\ <<"fk", r>> \notin objs' => run.fail[r[1]] = ""]_vars

(* No goroutine of a job writes to the target or to the job's log once the *)
(* lock of the target is released or the log channel closed: a statement,  *)
(* a table or a lane in work belongs to a registered job with the lock.    *)
QuietAfterRelease ==
    run.call # NoCall \/ InWork # {} => lock = Row /\ Row \in reg

(* A cancelled batch starts at most the one job that passed the check of   *)
(* the batch before the cancel was saved, and one for each later check     *)
(* that could not read the batch: such a row is migrated.                  *)
OneMoreJob == late <= 1 + unread

(* Every batch comes to its end: no failed or cancelled page keeps a slot  *)
(* that the dispatchers of tables and lanes wait for.                      *)
BatchEnds == loop.pc # "off" ~> loop.pc = "off"
=============================================================================
