-------------------------- MODULE MigrationRepair --------------------------
(***************************************************************************)
(* The repair ledger of a finished migration (store/migration_repair.go) and *)
(* what uses it: the repair and recovery handlers, the workers they start,   *)
(* the executor of DDL units (datamigrate/target/repair.go), the reload of a *)
(* table (datamigrate/repair_recovery.go), another migration on the same     *)
(* target, and a server that is killed and restarts.                         *)
(* The job has a table object, whose data can be loaded again, and an index  *)
(* object with DDL units; every unit that has not succeeded is selected.     *)
(***************************************************************************)
EXTENDS Integers, Sequences, FiniteSets, FiniteSetsExt

CONSTANTS
    Handlers,     \* HTTP requests in flight
    Requests,     \* request_id values the client uses
    NumUnits,     \* DDL units of the index object
    NumPages,     \* pages of the source table
    MaxSent,      \* bound: HTTP requests of a behaviour
    MaxFaults     \* bound: errors, panics and kills of a behaviour

ASSUME RepairAssumption ==
    NumUnits \in Nat \ {0} /\ NumPages \in Nat \ {0} /\ MaxSent \in Nat /\ MaxFaults \in Nat

Units == 1 .. NumUnits
Pages == 1 .. NumPages
Slots == 1 .. Cardinality(Requests)      \* attempts: each has a request_id of its own
NoOwner == 0          \* lock owners: none, an attempt (its index), or the other migration
MigrationJob == -1

VARIABLES
    objs,         \* MigrationRepairObject rows: version, status, data status, unit states
    binding,      \* MigrationRepairBinding.Version
    attempts,     \* MigrationRepairAttempt rows, in order of creation
    lock,         \* Owner in MigrationRepairLock of the one target scope
    preview,      \* the MigrationRecoveryPreview saved last
    migration,    \* another migration job on the target
    handlers,     \* what each request loaded
    workers,      \* the goroutine of each attempt
    applied,      \* target: how often each unit took effect
    rows,         \* target: how often each page is in the table
    unsaved,      \* history: the outcome of a related object was not stored
    tx,           \* the target executes units in one transaction
    sent, faults

stored == <<objs, binding, attempts, lock, preview>>
target == <<applied, rows>>
vars == <<stored, target, migration, handlers, workers, tx, unsaved, sent, faults>>

Idle == [op |-> "idle"]
Gone == [pc |-> "gone"]     \* no goroutine
Lost == [pc |-> "lost"]     \* the goroutine ended, its result could not be stored
NoPreview == [ver |-> 0]

Fault == faults < MaxFaults /\ faults' = faults + 1

Count(r) == MapThenSumSet(LAMBDA p : r[p], Pages)

Init ==
    /\ objs = [table |-> [ver |-> 1, status |-> "succeeded", data |-> "failed", units |-> <<>>],
               index |-> [ver |-> 1, status |-> "failed", data |-> "none",
                          units |-> [u \in Units |-> IF u = 1 THEN "failed" ELSE "pending"]]]
    /\ binding = 1 /\ attempts = <<>> /\ lock = NoOwner /\ preview = NoPreview
    /\ migration = "idle"
    /\ handlers = [h \in Handlers |-> Idle] /\ workers = <<>>
    /\ applied = [u \in Units |-> 0]
    /\ rows \in {[p \in Pages |-> IF p < n THEN 1 ELSE 0] : n \in 1 .. 2}
    /\ tx \in BOOLEAN /\ unsaved = FALSE
    /\ sent = 0 /\ faults = 0

(***************************************************************************)
(* Requests: each loads rows, then runs one transaction.                    *)
(***************************************************************************)
Running == {i \in DOMAIN attempts : attempts[i].status = "running"}

Receive(h, r) ==
    /\ handlers[h] = Idle /\ sent < MaxSent
    /\ sent' = sent + 1
    /\ handlers' = [handlers EXCEPT ![h] = r]

Answer(h) == handlers' = [handlers EXCEPT ![h] = Idle]

Uncertain(o) ==
    o.status = "unknown" \/ \E u \in DOMAIN o.units : o.units[u] \in {"unknown", "running"}

(* recoveryRelatedReady. *)
RelatedReady(o) == ~Uncertain(o) /\ o.status # "running"

(* SaveMigrationRepairDraft: results that are not known block editing. *)
LoadDraft(h) ==
    /\ ~Uncertain(objs.index)
    /\ Receive(h, [op |-> "draft", row |-> objs.index])
    /\ UNCHANGED <<stored, target, migration, workers, tx, unsaved, faults>>

Edited(row) ==
    [row EXCEPT !.ver = @ + 1, !.status = IF @ = "succeeded" THEN @ ELSE "draft"]

\* Variant: a draft is saved while an attempt is running.
SaveUnderAttempt(h) ==
    /\ handlers[h].op = "draft"
    /\ LET row == handlers[h].row IN
       objs' = IF objs.index.ver # row.ver THEN objs
               ELSE [objs EXCEPT !.index = Edited(row)]
    /\ Answer(h)
    /\ UNCHANGED <<binding, attempts, lock, preview, target, migration, workers, tx, unsaved, sent, faults>>

(* SaveMigrationRepairObject. *)
SaveDraft(h) ==
    /\ handlers[h].op = "draft"
    /\ LET row == handlers[h].row IN
       objs' = IF Running # {} \/ objs.index.ver # row.ver THEN objs
               ELSE [objs EXCEPT !.index = Edited(row)]
    /\ Answer(h)
    /\ UNCHANGED <<binding, attempts, lock, preview, target, migration, workers, tx, unsaved, sent, faults>>

(* UpdateMigrationRepairBinding. *)
LoadBinding(h) ==
    /\ Receive(h, [op |-> "bind", bind |-> binding])
    /\ UNCHANGED <<stored, target, migration, workers, tx, unsaved, faults>>

SaveBinding(h) ==
    /\ handlers[h].op = "bind"
    /\ binding' = IF Running # {} \/ binding # handlers[h].bind THEN binding ELSE binding + 1
    /\ Answer(h)
    /\ UNCHANGED <<objs, attempts, lock, preview, target, migration, workers, tx, unsaved, sent, faults>>

(* existingRepairRequest: an id that was used is answered from its attempt. *)
NewRequest(r) == \A i \in DOMAIN attempts : attempts[i].req # r

(* ExecuteMigrationRepair. *)
LoadExecute(h, r) ==
    /\ NewRequest(r) /\ ~Uncertain(objs.index)
    /\ Receive(h, [op |-> "execute", kind |-> "ddl", req |-> r, row |-> objs.index, bind |-> binding,
                   pre |-> NoPreview, truncate |-> FALSE])
    /\ UNCHANGED <<stored, target, migration, workers, tx, unsaved, faults>>

(* PreviewMigrationRecovery: rows are counted, objects of the table looked up;
   the client may leave the index out. *)
LoadPreview(h) ==
    /\ \E related \in {o \in BOOLEAN : o => objs.index.status # "succeeded" /\ RelatedReady(objs.index)} :
         /\ objs.table.data = "succeeded" => Count(rows) = NumPages
         /\ Receive(h, [op |-> "preview",
                        pre |-> [ver |-> objs.table.ver, bind |-> binding, related |-> related,
                                 index |-> objs.index, rows |-> Count(rows),
                                 required |-> objs.table.data # "succeeded"]])
    /\ UNCHANGED <<stored, target, migration, workers, tx, unsaved, faults>>

SavePreview(h) ==
    /\ handlers[h].op = "preview"
    /\ LET p == handlers[h].pre IN
       preview' = IF \/ Running # {}
                     \/ objs.table.ver # p.ver
                     \/ p.related /\ objs.index.ver # p.index.ver
                  THEN preview ELSE p
    /\ Answer(h)
    /\ UNCHANGED <<objs, binding, attempts, lock, target, migration, workers, tx, unsaved, sent, faults>>

(* ExecuteMigrationRecovery: rows in the target need the client's word that the
   table may be truncated. *)
LoadRecovery(h, r) ==
    /\ NewRequest(r)
    /\ preview # NoPreview /\ preview.ver = objs.table.ver /\ preview.bind = binding
    /\ preview.related => objs.index.ver = preview.index.ver
    /\ \E truncate \in BOOLEAN :
         /\ preview.required /\ preview.rows > 0 => truncate
         /\ Receive(h, [op |-> "execute", kind |-> "recovery", req |-> r, row |-> objs.table, bind |-> binding,
                        pre |-> preview, truncate |-> truncate])
    /\ UNCHANGED <<stored, target, migration, workers, tx, unsaved, faults>>

(* What ClaimRepairAttempt compares before it takes the lock. *)
Current(q) ==
    /\ q.row.ver = (IF q.kind = "ddl" THEN objs.index ELSE objs.table).ver
    /\ q.bind = binding
    /\ q.kind = "recovery" /\ q.pre.related => objs.index.ver = q.pre.index.ver

ClaimWhen(h, free) ==
    /\ handlers[h].op = "execute"
    /\ LET q == handlers[h] IN
       IF NewRequest(q.req) /\ Current(q) /\ Running = {} /\ free
       THEN /\ attempts' = Append(attempts, [req |-> q.req, kind |-> q.kind, status |-> "running",
                                            cancel |-> FALSE, result |-> "none", bind |-> q.bind])
            /\ workers' = Append(workers, Gone)
            /\ lock' = Len(attempts) + 1
            /\ handlers' = [handlers EXCEPT ![h] = [op |-> "start", at |-> Len(attempts) + 1, q |-> q]]
       ELSE Answer(h) /\ UNCHANGED <<attempts, workers, lock>>
    /\ UNCHANGED <<objs, binding, preview, target, migration, tx, unsaved, sent, faults>>

\* Variant: the lock row of the scope is overwritten.
ClaimOverwritesLock(h) == ClaimWhen(h, TRUE)

(* ClaimRepairAttempt: one transaction. *)
Claim(h) == ClaimWhen(h, lock = NoOwner)

(* startRepairWorker: the cancel function is registered, the goroutine started. *)
StartWorker(h) ==
    /\ handlers[h].op = "start"
    /\ LET q == handlers[h].q IN
       workers' = [workers EXCEPT ![handlers[h].at] =
           [pc |-> "check", ctx |-> "live", kind |-> q.kind, units |-> q.row.units, ver |-> q.row.ver,
            todo |-> {}, done |-> {}, cur |-> 0, pre |-> q.pre, truncate |-> q.truncate,
            data |-> q.row.data, res |-> "running", told |-> "none", page |-> 0, open |-> FALSE,
            why |-> "none"]]
    /\ Answer(h)
    /\ UNCHANGED <<stored, target, migration, tx, unsaved, sent, faults>>

(* CancelMigrationRepairAttempt: the row first, then the registered function. *)
CancelMark(h, i) ==
    /\ i \in Running
    /\ Receive(h, [op |-> "cancel", at |-> i])
    /\ attempts' = [attempts EXCEPT ![i].cancel = TRUE]
    /\ UNCHANGED <<objs, binding, lock, preview, target, migration, workers, tx, unsaved, faults>>

Active == {i \in DOMAIN workers : workers[i] \notin {Gone, Lost}}

CancelSignal(h) ==
    /\ handlers[h].op = "cancel"
    /\ workers' = IF handlers[h].at \in Active
                  THEN [workers EXCEPT ![handlers[h].at].ctx = "cancelled"] ELSE workers
    /\ Answer(h)
    /\ UNCHANGED <<stored, target, migration, tx, unsaved, sent, faults>>

(***************************************************************************)
(* A worker.                                                                *)
(***************************************************************************)
At(i, pc) == i \in Active /\ workers[i].pc = pc

Cancelled(i) == workers[i].ctx = "cancelled"

Become(i, w) == workers' = [workers EXCEPT ![i] = w]

Local == <<stored, target, migration, handlers, tx, unsaved, sent>>   \* unchanged by steps in memory

Ended(w, why) == [w EXCEPT !.pc = "finish", !.why = why]

\* Variant: the flag stored before the function was registered is not read.
CheckNothing(i) ==
    /\ At(i, "check")
    /\ Become(i, [workers[i] EXCEPT !.pc = "open"])
    /\ UNCHANGED <<Local, faults>>

(* The goroutine reads cancel_requested before it runs. *)
CheckCancel(i) ==
    /\ At(i, "check")
    /\ Become(i, [workers[i] EXCEPT !.pc = "open", !.ctx = IF attempts[i].cancel THEN "cancelled" ELSE @])
    /\ UNCHANGED <<Local, faults>>

\* Variant: units that succeeded are executed again.
SelectingAll(w, units) == [w EXCEPT !.pc = "next", !.units = units, !.todo = Units, !.done = {}]

(* ExecuteRepair up to its loop: units that succeeded are not selected. *)
Selecting(w, units) ==
    LET todo == {u \in Units : units[u] # "succeeded"} IN
    [w EXCEPT !.pc = IF todo # {} THEN "next" ELSE IF w.kind = "ddl" THEN "finish" ELSE "saverelated",
              !.why = IF todo # {} THEN @ ELSE "error",
              !.units = units, !.todo = todo, !.done = {}]

\* Variant: the worker returns without an end of the attempt.
OpenReturns(i) ==
    /\ At(i, "open")
    /\ LET w == workers[i] IN
       \/ /\ Become(i, IF w.kind = "ddl" THEN Selecting(w, w.units) ELSE [w EXCEPT !.pc = "recheck"])
          /\ UNCHANGED faults
       \/ Fault /\ Become(i, Gone)
    /\ UNCHANGED Local

(* The writer, and for a recovery the reader, is opened. *)
OpenTarget(i) ==
    /\ At(i, "open")
    /\ LET w == workers[i] IN
       \/ /\ Become(i, IF w.kind = "ddl" THEN Selecting(w, w.units) ELSE [w EXCEPT !.pc = "recheck"])
          /\ UNCHANGED faults
       \/ Fault /\ Become(i, Ended(w, "error"))
    /\ UNCHANGED Local

(***************************************************************************)
(* ExecuteRepair: DDL units one by one, each marked before and after.        *)
(***************************************************************************)
(* persistRepairProgress: without a change of the version. *)
Persist(units) == objs' = [objs EXCEPT !.index.units = units, !.index.status = "running"]

\* Variant: units are called rolled back without a transaction.
RolledBackAlways(w) == {[u \in Units |-> IF u \in w.done THEN "rolled_back" ELSE w.units[u]]}

(* rollback: it may fail. *)
RolledBack(w) ==
    IF tx THEN {[u \in Units |-> IF u \in w.done THEN s ELSE w.units[u]] : s \in {"rolled_back", "unknown"}}
    ELSE {w.units}

(* ExecuteRepair returns: an attempt on the object ends, a recovery stores it. *)
Returns(w, units, why) ==
    [w EXCEPT !.pc = IF w.kind = "ddl" THEN "finish" ELSE "saverelated", !.units = units, !.why = why,
              !.todo = {}, !.done = {}, !.cur = 0]

(* The next selected unit is stored as running before it runs. *)
NextUnit(i) ==
    /\ At(i, "next") /\ workers[i].todo # {} /\ ~Cancelled(i)
    /\ LET w == workers[i]
           u == Min(w.todo)
           marked == [w.units EXCEPT ![u] = "running"]
       IN \/ /\ Persist(marked)
             /\ Become(i, [w EXCEPT !.pc = "exec", !.cur = u, !.todo = @ \ {u}, !.units = marked])
             /\ UNCHANGED faults
          \/ /\ Fault
             /\ \E units \in RolledBack([w EXCEPT !.units[u] = "pending"]) : Become(i, Returns(w, units, "error"))
             /\ UNCHANGED objs
    /\ UNCHANGED <<binding, attempts, lock, preview, target, migration, handlers, tx, unsaved, sent>>

NextCancelled(i) ==
    /\ At(i, "next") /\ workers[i].todo # {} /\ Cancelled(i)
    /\ \E units \in RolledBack(workers[i]) :
         Become(i, [Returns(workers[i], units, "cancelled") EXCEPT !.pc = "report"])
    /\ UNCHANGED <<Local, faults>>

NextDone(i) ==
    /\ At(i, "next") /\ workers[i].todo = {}
    /\ Become(i, IF tx THEN [workers[i] EXCEPT !.pc = "commit"]
                 ELSE Returns(workers[i], workers[i].units, "none"))
    /\ UNCHANGED <<Local, faults>>

Took(u) == applied' = [applied EXCEPT ![u] = @ + 1]

(* exec: outside a transaction an error of the connection leaves it open whether
   the unit took effect. *)
Exec(i) ==
    /\ At(i, "exec") /\ ~Cancelled(i)
    /\ LET w == workers[i] IN
       /\ IF tx THEN UNCHANGED applied ELSE Took(w.cur)
       /\ Become(i, [w EXCEPT !.pc = "saved", !.done = @ \cup {w.cur},
                             !.units[w.cur] = IF tx THEN @ ELSE "succeeded"])
    /\ UNCHANGED <<stored, rows, migration, handlers, tx, unsaved, sent, faults>>

ExecFails(i) ==
    /\ At(i, "exec")
    /\ LET w == workers[i] IN
       \E s \in {"failed", "unknown"} :
         /\ \/ s = "unknown" /\ ~tx /\ Took(w.cur)
            \/ UNCHANGED applied
         /\ IF Cancelled(i) THEN s = "unknown" /\ UNCHANGED faults ELSE Fault
         /\ \E units \in RolledBack([w EXCEPT !.units[w.cur] = s]) :
              Become(i, [Returns(w, units, IF Cancelled(i) THEN "cancelled" ELSE "error") EXCEPT !.pc = "report"])
    /\ UNCHANGED <<stored, rows, migration, handlers, tx, unsaved, sent>>

(* persist after a unit. *)
Saved(i) ==
    /\ At(i, "saved")
    /\ LET w == workers[i] IN
       \/ Persist(w.units) /\ Become(i, [w EXCEPT !.pc = "next"]) /\ UNCHANGED faults
       \/ /\ Fault
          /\ \E units \in RolledBack([w EXCEPT !.units[w.cur] = "unknown"]) : Become(i, Returns(w, units, "error"))
          /\ UNCHANGED objs
    /\ UNCHANGED <<binding, attempts, lock, preview, target, migration, handlers, tx, unsaved, sent>>

Settled(w, s) == [u \in Units |-> IF u \in w.done THEN s ELSE w.units[u]]

(* tx.Commit: an error leaves it open whether the transaction was committed. *)
CommitUnits(i) ==
    /\ At(i, "commit")
    /\ LET w == workers[i]
           all == [u \in Units |-> applied[u] + IF u \in w.done THEN 1 ELSE 0]
       IN \/ /\ ~Cancelled(i) /\ applied' = all /\ UNCHANGED faults
             /\ Become(i, [w EXCEPT !.pc = "reportdone", !.units = Settled(w, "succeeded")])
          \/ /\ applied' \in {applied, all}
             /\ IF Cancelled(i) THEN UNCHANGED faults ELSE Fault
             /\ Become(i, [Returns(w, Settled(w, "unknown"), "error") EXCEPT !.pc = "report"])
    /\ UNCHANGED <<stored, rows, migration, handlers, tx, unsaved, sent>>

(* persist after a commit: when it fails the units are not known. *)
ReportDone(i) ==
    /\ At(i, "reportdone")
    /\ LET w == workers[i] IN
       \/ Persist(w.units) /\ Become(i, Returns(w, w.units, "none")) /\ UNCHANGED faults
       \/ Fault /\ Become(i, Returns(w, Settled(w, "unknown"), "error")) /\ UNCHANGED objs
    /\ UNCHANGED <<binding, attempts, lock, preview, target, migration, handlers, tx, unsaved, sent>>

(* persist on the way out: its own error is only added to the first. *)
Report(i) ==
    /\ At(i, "report")
    /\ \/ Persist(workers[i].units) /\ UNCHANGED faults
       \/ Fault /\ UNCHANGED objs
    /\ Become(i, Returns(workers[i], workers[i].units, workers[i].why))
    /\ UNCHANGED <<binding, attempts, lock, preview, target, migration, handlers, tx, unsaved, sent>>

(***************************************************************************)
(* RunRecovery: the table is counted again, truncated if the client said so, *)
(* loaded page by page and counted.                                          *)
(***************************************************************************)
(* The fields of a worker in RunRecovery: res is DataStatus, open that Status
   is "unknown", told the DataStatus in ResultJSON, page the committed pages. *)
Result(w, why) == [w EXCEPT !.pc = "result", !.why = why]

Same(w) == Count(rows) = w.pre.rows

Recheck(i) ==
    /\ At(i, "recheck")
    /\ LET w == workers[i] IN
       \/ /\ Become(i, IF Cancelled(i) THEN Ended(w, "cancelled")
                       ELSE IF Same(w) THEN [w EXCEPT !.pc = "run"] ELSE Ended(w, "error"))
          /\ UNCHANGED faults
       \/ Fault /\ Become(i, Ended(w, "error"))
    /\ UNCHANGED Local

RunRecovery(i) ==
    /\ At(i, "run")
    /\ LET w == workers[i] IN
       Become(i, IF Cancelled(i) THEN Result(w, "cancelled")
                 ELSE IF ~Same(w) \/ (w.pre.required /\ w.pre.rows > 0 /\ ~w.truncate) THEN Result(w, "error")
                 ELSE IF w.pre.required THEN [w EXCEPT !.pc = "progress"]
                 ELSE [Result(w, "none") EXCEPT !.res = "succeeded"])
    /\ UNCHANGED <<Local, faults>>

(* progress: ResultJSON of the attempt. *)
Progress(i, res) == attempts' = [attempts EXCEPT ![i].result = res]

(* The first progress is stored before anything is written, and one after each page. *)
StoreProgress(i) ==
    /\ At(i, "progress")
    /\ LET w == [workers[i] EXCEPT !.told = workers[i].res] IN
       \/ /\ Progress(i, w.res) /\ UNCHANGED faults
          /\ Become(i, [w EXCEPT !.pc = IF w.page = 0 /\ w.truncate THEN "truncate" ELSE "copy"])
       \/ Fault /\ Become(i, Result(w, "error")) /\ UNCHANGED attempts
    /\ UNCHANGED <<objs, binding, lock, preview, target, migration, handlers, tx, unsaved, sent>>

Truncate(i) ==
    /\ At(i, "truncate")
    /\ LET w == workers[i] IN
       \/ /\ ~Cancelled(i) /\ rows' = [p \in Pages |-> 0]
          /\ Become(i, [w EXCEPT !.pc = "copy"]) /\ UNCHANGED faults
       \/ /\ rows' \in {rows, [p \in Pages |-> 0]}
          /\ IF Cancelled(i) THEN UNCHANGED faults ELSE Fault
          /\ Become(i, Result(w, "error"))
    /\ UNCHANGED <<stored, applied, migration, handlers, tx, unsaved, sent>>

(* CopyData commits a page; after an error the page may be there. *)
CopyPage(i) ==
    /\ At(i, "copy") /\ workers[i].page < NumPages
    /\ LET w == workers[i]
           loaded == [rows EXCEPT ![w.page + 1] = @ + 1]
       IN \/ /\ ~Cancelled(i) /\ rows' = loaded
             /\ Become(i, [w EXCEPT !.pc = "progress", !.page = @ + 1]) /\ UNCHANGED faults
          \/ /\ rows' \in {rows, loaded}
             /\ IF Cancelled(i) THEN UNCHANGED faults ELSE Fault
             /\ Become(i, [Result(w, "error") EXCEPT !.open = TRUE])
    /\ UNCHANGED <<stored, applied, migration, handlers, tx, unsaved, sent>>

(* The row counts agree, then sequences are calibrated. *)
Verify(i) ==
    /\ At(i, "copy") /\ workers[i].page = NumPages
    /\ LET w == workers[i]
           complete == [w EXCEPT !.res = "succeeded"]
       IN \/ /\ UNCHANGED faults
             /\ Become(i, IF Cancelled(i) THEN Result(w, "cancelled")
                          ELSE IF Count(rows) = w.page THEN Result(complete, "none") ELSE Result(w, "error"))
          \/ /\ Fault /\ Count(rows) = w.page
             /\ Become(i, Result(complete, "error"))
    /\ UNCHANGED Local

(* What becomes of DataStatus of the table. *)
DataStatus(i, open) ==
    LET w == workers[i] IN
    IF w.res = "succeeded" THEN "succeeded"
    ELSE IF open \/ Cancelled(i) THEN "unknown"
    ELSE IF w.why # "none" THEN "failed" ELSE w.data

(* finish: the last progress, whose failure makes the result unknown. *)
StoreResult(i) ==
    /\ At(i, "result")
    /\ LET w == workers[i]
           why == IF w.why = "none" /\ Cancelled(i) THEN "cancelled" ELSE w.why
       IN \/ /\ Progress(i, w.res) /\ UNCHANGED faults
             /\ Become(i, [w EXCEPT !.pc = "publish", !.told = w.res, !.why = why, !.data = DataStatus(i, w.open)])
          \/ /\ Fault /\ UNCHANGED attempts
             /\ Become(i, [w EXCEPT !.pc = "publish", !.told = w.res, !.why = "error", !.data = DataStatus(i, TRUE)])
    /\ UNCHANGED <<objs, binding, lock, preview, target, migration, handlers, tx, unsaved, sent>>

(* persistRecoveryData. *)
Publish(i) ==
    /\ At(i, "publish")
    /\ LET w == workers[i] IN
       \/ /\ objs' = [objs EXCEPT !.table.data = w.data, !.table.ver = @ + 1] /\ UNCHANGED faults
          /\ Become(i, IF w.why = "none" THEN [w EXCEPT !.pc = "related"] ELSE Ended(w, w.why))
       \/ Fault /\ Become(i, Ended(w, "error")) /\ UNCHANGED objs
    /\ UNCHANGED <<binding, attempts, lock, preview, target, migration, handlers, tx, unsaved, sent>>

(* The selected object of the table: its units as they were previewed. *)
Related(i) ==
    /\ At(i, "related")
    /\ LET w == workers[i] IN
       Become(i, IF ~w.pre.related THEN Ended(w, "none")
                 ELSE IF Cancelled(i) THEN Ended(w, "cancelled")
                 ELSE Selecting(w, w.pre.index.units))
    /\ UNCHANGED <<Local, faults>>

(* finishRepair's status, and that of a related object. *)
FinalStatus(w) ==
    IF w.why = "none" THEN "succeeded"
    ELSE IF \E u \in DOMAIN w.units : w.units[u] \in {"running", "unknown"} THEN "unknown"
    ELSE IF w.kind = "ddl" /\ w.why = "cancelled" THEN "unknown"
    ELSE "failed"

SaveRelated(i) ==
    /\ At(i, "saverelated")
    /\ LET w == workers[i] IN
       \/ /\ objs' = [objs EXCEPT !.index.units = w.units, !.index.status = FinalStatus(w), !.index.ver = @ + 1]
          /\ Become(i, Ended(w, w.why)) /\ UNCHANGED <<faults, unsaved>>
       \/ Fault /\ Become(i, Ended(w, "error")) /\ unsaved' = TRUE /\ UNCHANGED objs
    /\ UNCHANGED <<binding, attempts, lock, preview, target, migration, handlers, tx, sent>>

(***************************************************************************)
(* The end of an attempt.                                                   *)
(***************************************************************************)
(* FinishRepairAttempt: attempt, object and lock in one transaction. *)
Store(i, object) ==
    /\ attempts' = [attempts EXCEPT ![i].status = "ended"]
    /\ objs' = object
    /\ lock' = IF lock = i THEN NoOwner ELSE lock
    /\ Become(i, Gone)

(* It failed: the error is logged, the attempt stays running. *)
Lose(i) == Become(i, Lost) /\ UNCHANGED <<attempts, objs, lock>>

(* finishRepair. *)
Finish(i) ==
    /\ At(i, "finish")
    /\ LET w == workers[i]
           object == IF w.kind = "ddl"
                     THEN [objs EXCEPT !.index.units = w.units, !.index.status = FinalStatus(w), !.index.ver = @ + 1]
                     ELSE [objs EXCEPT !.table.data = w.data, !.table.ver = @ + 1]
       IN \/ Store(i, object) /\ UNCHANGED faults
          \/ Fault /\ Lose(i)
    /\ UNCHANGED <<binding, preview, target, migration, handlers, tx, unsaved, sent>>

Doubtful(units) == [u \in DOMAIN units |-> IF units[u] = "running" THEN "unknown" ELSE units[u]]

(* The recover of startRepairWorker: the object is read again. *)
Panic(i) ==
    /\ i \in Active /\ Fault
    /\ LET object == IF workers[i].kind = "ddl"
                     THEN [objs EXCEPT !.index.status = "unknown", !.index.units = Doubtful(@), !.index.ver = @ + 1]
                     ELSE [objs EXCEPT !.table.data = IF workers[i].told = "succeeded" THEN @ ELSE "unknown",
                                       !.table.ver = @ + 1]
       IN Store(i, object) \/ Lose(i)
    /\ unsaved' = (unsaved \/ (workers[i].kind = "recovery" /\ objs.index.status = "running"))
    /\ UNCHANGED <<binding, preview, target, migration, handlers, tx, sent>>

(* The two hours of the worker's context. *)
Deadline(i) ==
    /\ i \in Active /\ ~Cancelled(i) /\ Fault
    /\ workers' = [workers EXCEPT ![i].ctx = "cancelled"]
    /\ UNCHANGED Local

(***************************************************************************)
(* Another migration on the target, and the server.                          *)
(***************************************************************************)
(* AcquireMigrationScope. *)
StartMigration ==
    /\ migration = "idle" /\ lock = NoOwner /\ sent < MaxSent
    /\ sent' = sent + 1
    /\ migration' = "running" /\ lock' = MigrationJob
    /\ UNCHANGED <<objs, binding, attempts, preview, target, handlers, workers, tx, unsaved, faults>>

(* ReleaseMigrationScope; an error leaves the lock row. *)
EndMigration ==
    /\ migration = "running" /\ migration' = "idle"
    /\ \/ lock' = NoOwner /\ UNCHANGED faults
       \/ Fault /\ UNCHANGED lock
    /\ UNCHANGED <<objs, binding, attempts, preview, target, handlers, workers, tx, unsaved, sent>>

(* MarkInterruptedRepairsUnknown, of the objects of one job. *)
Interrupted(kind) == \E i \in Running : attempts[i].kind = kind

\* Variant: a recovery that had stored any progress counts as loaded.
LoadedIfBegun ==
    LET loaded == \E i \in Running : attempts[i].kind = "recovery" /\ attempts[i].result # "none" IN
    [objs.table EXCEPT !.data = IF loaded THEN "succeeded" ELSE IF Interrupted("recovery") THEN "unknown" ELSE @,
                       !.ver = @ + 1]

MarkedTable ==
    LET loaded == \E i \in Running : attempts[i].kind = "recovery" /\ attempts[i].result = "succeeded" IN
    [objs.table EXCEPT !.data = IF loaded THEN "succeeded" ELSE IF Interrupted("recovery") THEN "unknown" ELSE @,
                       !.ver = @ + (IF Interrupted("recovery") THEN 1 ELSE 0) + (IF loaded THEN 1 ELSE 0)]

MarkedIndex ==
    LET o == [objs.index EXCEPT !.status = IF Interrupted("ddl") \/ @ = "running" THEN "unknown" ELSE @,
                                !.units = Doubtful(@)]
    IN [o EXCEPT !.ver = @ + (IF Interrupted("ddl") THEN 1 ELSE 0) + (IF o # objs.index THEN 1 ELSE 0)]

(* The server is killed; InitDB marks what was running. *)
Crash ==
    /\ Fault
    /\ objs' = [table |-> MarkedTable, index |-> MarkedIndex]
    /\ attempts' = [i \in DOMAIN attempts |-> [attempts[i] EXCEPT !.status = "ended"]]
    /\ lock' = NoOwner
    /\ migration' = "idle"
    /\ handlers' = [h \in Handlers |-> Idle]
    /\ workers' = [i \in DOMAIN workers |-> Gone]
    /\ UNCHANGED <<binding, preview, target, tx, unsaved, sent>>

(***************************************************************************)
(* The specification.                                                       *)
(***************************************************************************)
Request(h) ==
    \/ LoadDraft(h) \/ LoadBinding(h) \/ LoadPreview(h)
    \/ \E r \in Requests : LoadExecute(h, r) \/ LoadRecovery(h, r)
    \/ \E i \in Slots : CancelMark(h, i)

Handle(h) ==
    \/ SaveDraft(h) \/ SaveBinding(h) \/ SavePreview(h)
    \/ Claim(h) \/ StartWorker(h) \/ CancelSignal(h)

Work(i) ==
    \/ CheckCancel(i) \/ OpenTarget(i)
    \/ NextUnit(i) \/ NextCancelled(i) \/ NextDone(i) \/ Exec(i) \/ ExecFails(i) \/ Saved(i)
    \/ CommitUnits(i) \/ ReportDone(i) \/ Report(i)
    \/ Recheck(i) \/ RunRecovery(i) \/ StoreProgress(i) \/ Truncate(i) \/ CopyPage(i) \/ Verify(i)
    \/ StoreResult(i) \/ Publish(i) \/ Related(i) \/ SaveRelated(i)
    \/ Finish(i)

Next ==
    \/ \E h \in Handlers : Request(h) \/ Handle(h)
    \/ \E i \in Slots : Work(i) \/ Panic(i) \/ Deadline(i)
    \/ StartMigration \/ EndMigration \/ Crash

(* Every goroutine is scheduled; statements end, at the latest with the context. *)
Fairness ==
    /\ \A h \in Handlers : WF_vars(Handle(h))
    /\ \A i \in Slots : WF_vars(Work(i))

Spec == Init /\ [][Next]_vars

FairSpec == Spec /\ Fairness

(***************************************************************************)
(* Properties.                                                              *)
(***************************************************************************)
UnitStates == {"pending", "running", "succeeded", "failed", "unknown", "rolled_back"}

Statuses == {"draft", "running", "succeeded", "failed", "unknown"}

(* Types: an index in use is that of a stored attempt, every unit has one of the
   states of repair.Unit, and a worker's units are those of its object. *)
TypeOK ==
    /\ DOMAIN objs = {"table", "index"}
    /\ \A o \in DOMAIN objs : objs[o].ver \in Nat \ {0} /\ objs[o].status \in Statuses
    /\ objs.table.data \in {"succeeded", "failed", "unknown"}
    /\ objs.index.units \in [Units -> UnitStates]
    /\ binding \in Nat /\ DOMAIN workers = DOMAIN attempts
    /\ lock \in {MigrationJob, NoOwner} \cup DOMAIN attempts
    /\ migration \in {"idle", "running"}
    /\ \A i \in Active : workers[i].units \in [Units -> UnitStates] \cup {<<>>} /\ workers[i].page \in 0 .. NumPages
    /\ applied \in [Units -> Nat] /\ rows \in [Pages -> Nat] /\ tx \in BOOLEAN

(* The target has one writer at a time: the worker of one attempt or the other
   migration (the lock row of ClaimRepairAttempt and AcquireMigrationScope); and
   the lock of an attempt goes with it, however it ends. *)
OneWriter ==
    /\ Cardinality(Active) + (IF migration = "running" THEN 1 ELSE 0) <= 1
    /\ \A i \in DOMAIN attempts : i \in Running <=> lock = i

(* A unit takes effect at most once, whatever is retried, cancelled, lost or
   interrupted ("Never replay automatically", MarkInterruptedRepairsUnknown). Not so
   once the outcome of a related object was not stored: its row then keeps the
   version that a request loaded before, and that request may run it again. *)
AtMostOnce == ~unsaved => \A u \in Units : applied[u] <= 1

(* What the ledger says of a unit when nothing is running is so: a unit shown as
   succeeded took effect, one shown as pending, failed or rolled back did not. *)
LedgerTruth ==
    Running = {} /\ ~unsaved =>
      \A u \in Units :
        /\ objs.index.units[u] = "succeeded" => applied[u] = 1
        /\ objs.index.units[u] \in {"pending", "failed", "rolled_back"} => applied[u] = 0

(* A table shown with its data loaded has every page of the source exactly once:
   pages left by an earlier load are truncated or the counts disagree. *)
DataTruth == objs.table.data = "succeeded" => \A p \in Pages : rows[p] = 1

(* What runs is what the client saw: while a worker executes units, the object has
   the version and the job the binding that were confirmed (the versions of
   ClaimRepairAttempt, SaveMigrationRepairObject's test for running attempts). *)
Reviewed ==
    \A i \in Active :
      /\ binding = attempts[i].bind
      /\ workers[i].kind = "ddl" => objs.index.ver = workers[i].ver
      /\ workers[i].kind = "recovery" /\ workers[i].pre.related /\ workers[i].pc # "finish" =>
           objs.index.ver = workers[i].pre.index.ver

(* An answered cancel reaches the worker, also when it came between the claim and
   the registration of the cancel function. *)
CancelReaches ==
    \A i \in Active :
      /\ attempts[i].cancel /\ workers[i].pc # "check"
      /\ \A h \in Handlers : handlers[h] # [op |-> "cancel", at |-> i]
      => Cancelled(i)

(* A claimed attempt ends, unless the transaction that ends it failed. *)
AttemptEnds ==
    \A i \in Slots : i \in Running ~> (i \notin Running \/ workers[i] = Lost)
=============================================================================
