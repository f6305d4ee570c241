----------------------------- MODULE Bootstrap -----------------------------
(***************************************************************************)
(* The initial copy of an incremental job (start mode full_then_cdc) to a  *)
(* Dameng target, up to the first changes CDC applies: the runner goroutine*)
(* of api/handler/incremental.go, the copy itself (datamigrate/migrator.go),*)
(* the review of tables that failed (datamigrate/cdc/bootstrap.go), the    *)
(* bootstrap record kept on the target (datamigrate/cdc/dameng_checkpoint.go)*)
(* and the handlers that accept exclusions, resume and abort.              *)
(*                                                                         *)
(* Two databases hold the state of the job: its row in SQLite and its      *)
(* record on the target.  Each access to one of them is a step; a target   *)
(* operation may fail with or without effect, and the server may be killed *)
(* between any two steps.  DDL on Dameng is not transactional.             *)
(*                                                                         *)
(* Abstractions.  Tables are 1..NumTables, copied in this order; an object *)
(* id is a number no two objects of one name share, 0 stands for none.     *)
(* The manifest hash is the manifest itself (SHA-256 taken as injective).  *)
(* SQLite does not fail.  A cancelled context ends the job by an abort: a  *)
(* pause is refused until the copy is done.                                *)
(***************************************************************************)
EXTENDS Integers, Sequences, FiniteSets, SequencesExt

CONSTANTS
    NumTables,    \* tables of the job
    NumPages,     \* pages of each table
    Refs,         \* foreign keys: <<child, parent>>
    MaxRequests,  \* bound: requests of the operator
    MaxFaults,    \* bound: failures of target operations and kills
    MaxReplaced,  \* bound: tables the operator replaces during a review
    MaxPos        \* bound: changes CDC applies

Tables == 1 .. NumTables
Pages  == 1 .. NumPages

ASSUME BootstrapAssumption ==
    /\ NumTables \in Nat \ {0} /\ NumPages \in Nat \ {0}
    /\ Refs \subseteq {r \in Tables \X Tables : r[1] # r[2]}
    /\ {MaxRequests, MaxFaults, MaxReplaced, MaxPos} \subseteq Nat

VARIABLES
    policy,    \* bootstrap_policy of the job
    row,       \* SQLite: the job's row
    rec,       \* target: the bootstrap record, with checkpoint and cleanup plan
    tab,       \* target: object id, pages and applied changes of each table
    fks,       \* target: object id of each foreign key
    nextId,    \* target: the next object id
    reg,       \* registry entry of the job
    run,       \* the runner goroutine
    req,       \* the handler that holds incrementalStartMu
    fin,       \* a FinalizeBootstrap in progress: it holds damengBootstrapMu
    published, \* history: the manifests a reader of the record has seen
    acked,     \* history: the manifests the operator acknowledged
    made,      \* history: ids of the objects the copy created
    dropped,   \* history: ids of the objects FinalizeBootstrap dropped
    requests, faults, replaced   \* counters for the bounds

objects == <<tab, fks, nextId, made>>
bounds  == <<requests, faults, replaced>>
ghosts  == <<published, acked, dropped>>
vars == <<policy, row, rec, objects, reg, run, req, fin, ghosts, bounds>>

Stages == {"schema", "data", "row_count", "cdc_compatibility"}
Owned  == Stages \ {"schema"}           \* ownsBootstrapTable

\* BuildBootstrapReview and HashBootstrapManifest: `issues` gives the stage
\* at which a table failed, "" when it did not.
Manifest(issues) ==
    [effective |-> {t \in Tables : issues[t] = ""},
     excluded  |-> {<<t, issues[t]>> : t \in {u \in Tables : issues[u] # ""}}]
NoManifest == [effective |-> {}, excluded |-> {}]
Excluded(m) == {e[1] : e \in m.excluded}
OwnedTables(m) == {e[1] : e \in {x \in m.excluded : x[2] \in Owned}}

NoPlan == <<>>
Record(state, m, pos) == [state |-> state, m |-> m, pos |-> pos, planned |-> FALSE, plan |-> NoPlan]
NoRecord == Record("none", NoManifest, 0)

Gone  == [pc |-> "gone", t |-> 0, p |-> 0, issues |-> [t \in Tables |-> ""], objs |-> TRUE,
          done |-> FALSE, scope |-> {}, err |-> ""]
NewRow == [status |-> "initializing", state |-> "pending", done |-> FALSE, m |-> NoManifest]
Idle  == [pc |-> "idle", j |-> NewRow, m |-> NoManifest]
NoFin == [by |-> "none", pc |-> "item", m |-> NoManifest, i |-> 0]
NotRegistered == [live |-> FALSE, action |-> ""]
Registered    == [live |-> TRUE, action |-> ""]

NoTable == [id |-> 0, pages |-> {}, upto |-> 0]

\* The job has been created and launched; some tables are on the target already.
Init ==
    /\ policy \in {"fail_all", "review_and_exclude"}
    /\ row = NewRow
    /\ rec = NoRecord
    /\ \E old \in SUBSET Tables :
          tab = [t \in Tables |-> IF t \in old THEN [NoTable EXCEPT !.id = t] ELSE NoTable]
    /\ fks = [r \in Refs |-> 0]
    /\ nextId = NumTables + 1
    /\ reg = Registered
    /\ run = [Gone EXCEPT !.pc = "load"]
    /\ req = Idle /\ fin = NoFin
    /\ published = {} /\ acked = {} /\ made = {} /\ dropped = {}
    /\ requests = 0 /\ faults = 0 /\ replaced = 0
-----------------------------------------------------------------------------
(* How a target operation ends: done, failed without effect, or done with  *)
(* its answer lost.  Once the runner's context is cancelled its operations *)
(* fail; one that was on its way may still have had its effect.            *)
Cancelled == reg.action # ""
Ends(byRunner) ==
    IF byRunner /\ Cancelled THEN {"fail", "lost"}
    ELSE {"ok"} \cup IF faults < MaxFaults THEN {"fail", "lost"} ELSE {}
Charge(byRunner, end) ==
    faults' = IF end = "ok" \/ (byRunner /\ Cancelled) THEN faults ELSE faults + 1

Goto(pc) == run' = [run EXCEPT !.pc = pc]
\* runIncrementalBootstrap or runCDC returns: "" for nil.
Fails(err) == run' = [run EXCEPT !.pc = "returned", !.err = err]

SetRow(s, b) == row' = [row EXCEPT !.status = s, !.state = b]
SetStatus(s) == row' = [row EXCEPT !.status = s]

\* The review is published in the row: by the copy, and from the record
\* by applyReviewBootstrapRecord.
ReviewRow(m) ==
    row' = [row EXCEPT !.status = "paused_bootstrap_review", !.state = "review_pending", !.m = m]
-----------------------------------------------------------------------------
(* The record on the target.                                               *)

\* planBootstrapCleanup: first the foreign keys of the job's tables on
\* excluded ones, then the excluded tables the copy has created, each with
\* the id it has now; the order within the two kinds is of no consequence.
PlanCleanup(m) ==
    LET keys == SetToSeq({r \in Refs : /\ fks[r] # 0 /\ r[2] \in Excluded(m)
                                       /\ r[1] \in m.effective \cup OwnedTables(m)})
        own  == SetToSeq({t \in OwnedTables(m) : tab[t].id # 0})
    IN  [i \in DOMAIN keys |->
            [key |-> keys[i], table |-> keys[i][1], id |-> fks[keys[i]], done |-> FALSE]]
        \o [i \in DOMAIN own |->
            [key |-> <<>>, table |-> own[i], id |-> tab[own[i]].id, done |-> FALSE]]

\* SaveBootstrapRecord: what may be written over what, and the record then.
\* Identities are frozen when the review is published.
MaySave(state, m) ==
    CASE rec.state \in {"completed", "aborted"} -> state = rec.state /\ m = rec.m
      [] rec.state = "review_pending" -> state = "aborted" \/ (state = "review_pending" /\ m = rec.m)
      [] rec.state = "snapshot_in_progress" -> state # "completed"
      [] OTHER -> TRUE
Saved(state, m) ==
    IF rec.state \in {"completed", "aborted"} THEN rec
    ELSE LET r == [rec EXCEPT !.state = state, !.m = m, !.pos = 0]
         IN  IF state = "review_pending" /\ ~rec.planned
             THEN [r EXCEPT !.planned = TRUE, !.plan = PlanCleanup(m)] ELSE r

\* The runner saves a record under its context and goes on, or returns the error.
Save(state, m, next) ==
    /\ fin = NoFin
    /\ \E end \in Ends(TRUE) :
          LET works == end # "fail" /\ MaySave(state, m)
          IN  /\ rec' = IF works THEN Saved(state, m) ELSE rec
              /\ published' = IF works THEN published \cup {m} ELSE published
              /\ IF end = "ok" /\ works THEN Goto(next) ELSE Fails("error")
              /\ Charge(TRUE, end)
    /\ UNCHANGED <<acked, dropped>>

\* Variant: the update has no condition on the state.
AbortsAny == [rec EXCEPT !.state = IF @ = "none" THEN @ ELSE "aborted"]

\* MarkBootstrapAborted; its callers ignore an error.
MarkAborted == [rec EXCEPT !.state = IF @ \in {"none", "completed"} THEN @ ELSE "aborted"]

AbortTarget ==
    /\ fin = NoFin
    /\ \/ rec' = MarkAborted /\ UNCHANGED faults
       \/ rec' = rec /\ faults < MaxFaults /\ faults' = faults + 1
-----------------------------------------------------------------------------
(* FinalizeBootstrap, called by the runner ("run") when nothing failed and *)
(* by AcceptIncrementalBootstrapExclusions ("req").                        *)

\* The caller's next step; the deferred Unlock releases damengBootstrapMu.
FinReturn(by, ok) ==
    /\ fin' = NoFin
    /\ IF by = "run"
       THEN /\ IF ok THEN Goto("apply") ELSE Fails("error")
            /\ UNCHANGED req
       ELSE /\ req' = IF ok THEN [req EXCEPT !.pc = "apply"] ELSE Idle
            /\ UNCHANGED run

\* State and manifest are checked; a plan that is there is kept.
FinBegin(by, m) ==
    /\ fin = NoFin
    /\ \E end \in Ends(by = "run") :
          LET ok == /\ rec.state \in {"snapshot_in_progress", "review_pending", "completed"}
                    /\ rec.m = m
              plans == ok /\ rec.state # "completed" /\ ~rec.planned
          IN  /\ rec' = IF end # "fail" /\ plans
                        THEN [rec EXCEPT !.planned = TRUE, !.plan = PlanCleanup(m)] ELSE rec
              /\ IF end # "ok" \/ ~ok \/ rec.state = "completed"
                 THEN FinReturn(by, end = "ok" /\ ok)
                 ELSE fin' = [by |-> by, pc |-> "item", m |-> m, i |-> 1] /\ UNCHANGED <<run, req>>
              /\ Charge(by = "run", end)
    /\ UNCHANGED <<policy, row, objects, reg, ghosts, requests, replaced>>

Item == rec.plan[fin.i]
ItemId == IF Item.key # <<>> THEN fks[Item.key] ELSE tab[Item.table].id
FinAt(pc) == fin.by # "none" /\ fin.pc = pc
AtItem == FinAt("item") /\ fin.i <= Len(rec.plan)
FinFails == FinReturn(fin.by, FALSE)
FinGoto(pc, i) == fin' = [fin EXCEPT !.pc = pc, !.i = i] /\ UNCHANGED <<run, req>>

\* Dameng refuses to drop a table a foreign key refers to.
DropItem ==
    /\ tab' = IF Item.key # <<>> THEN tab ELSE [tab EXCEPT ![Item.table] = NoTable]
    /\ fks' = [r \in Refs |->
                 IF r = Item.key \/ (Item.key = <<>> /\ r[1] = Item.table) THEN 0 ELSE fks[r]]
    /\ dropped' = dropped \cup {ItemId}
Referenced == Item.key = <<>> /\ \E r \in Refs : r[2] = Item.table /\ fks[r] # 0

\* The item is finished already, or cleanupObjectID does not find it.
FinSkip ==
    /\ AtItem /\ (Item.done \/ ItemId = 0)
    /\ IF Item.done THEN FinGoto("item", fin.i + 1) ELSE FinGoto("save", fin.i)
    /\ UNCHANGED <<policy, row, rec, objects, reg, ghosts, bounds>>

\* Variant: the name decides, not the identity.
SameName(item, id) == id # 0

\* The object of the plan, or a replacement created since?
SameObject(item, id) == id = item.id

\* Variant: an error of the DROP is taken for "not there".
FinDropUnchecked ==
    /\ AtItem /\ ~Item.done /\ ItemId # 0
    /\ \E end \in Ends(fin.by = "run") :
          LET may == SameObject(Item, ItemId) /\ ~Referenced
          IN  /\ IF end # "fail" /\ may THEN DropItem ELSE UNCHANGED <<tab, fks, dropped>>
              /\ FinGoto("save", fin.i)
              /\ Charge(fin.by = "run", end)
    /\ UNCHANGED <<policy, row, rec, nextId, made, reg, published, acked, requests, replaced>>

\* A replaced or referenced object stays, and the cleanup fails.
FinDrop ==
    /\ AtItem /\ ~Item.done /\ ItemId # 0
    /\ \E end \in Ends(fin.by = "run") :
          LET may == SameObject(Item, ItemId) /\ ~Referenced
          IN  /\ IF end # "fail" /\ may THEN DropItem ELSE UNCHANGED <<tab, fks, dropped>>
              /\ IF end = "ok" /\ may THEN FinGoto("save", fin.i) ELSE FinFails
              /\ Charge(fin.by = "run", end)
    /\ UNCHANGED <<policy, row, rec, nextId, made, reg, published, acked, requests, replaced>>

\* saveCleanupPlan
FinSavePlan ==
    /\ FinAt("save")
    /\ \E end \in Ends(fin.by = "run") :
          /\ rec' = IF end = "fail" THEN rec ELSE [rec EXCEPT !.plan[fin.i].done = TRUE]
          /\ IF end = "ok" THEN FinGoto("item", fin.i + 1) ELSE FinFails
          /\ Charge(fin.by = "run", end)
    /\ UNCHANGED <<policy, row, objects, reg, ghosts, requests, replaced>>

\* The DDL is finished; only now is the manifest visible to CDC.
FinCommit ==
    /\ FinAt("item") /\ fin.i > Len(rec.plan)
    /\ \E end \in Ends(fin.by = "run") :
          /\ rec' = IF end = "fail" THEN rec ELSE [rec EXCEPT !.state = "completed"]
          /\ FinReturn(fin.by, end = "ok")
          /\ Charge(fin.by = "run", end)
    /\ UNCHANGED <<policy, row, objects, reg, ghosts, requests, replaced>>
-----------------------------------------------------------------------------
(* runIncrementalBootstrap.                                                *)

RunAt(pc) == run.pc = pc
RunKeeps == UNCHANGED <<policy, reg, req, fin, requests, replaced>>

\* launchIncremental: a job whose copy is not recorded as done asks the target.
RunLoad ==
    /\ RunAt("load")
    /\ \E end \in Ends(TRUE) \ {"lost"} :
          /\ CASE end = "fail" -> Fails("error") /\ UNCHANGED row
               [] end = "ok" /\ rec.state = "completed" -> Goto("apply") /\ UNCHANGED row
               [] end = "ok" /\ rec.state = "review_pending" ->
                     ReviewRow(rec.m) /\ Fails("review")
               [] end = "ok" /\ rec.state = "none" -> Goto("capture") /\ SetStatus("snapshot")
               [] OTHER -> Fails("error") /\ UNCHANGED row
          /\ Charge(TRUE, end)
    /\ RunKeeps /\ UNCHANGED <<rec, objects, ghosts>>

\* The snapshot position is captured and recorded on the target ...
RunCapture ==
    /\ RunAt("capture")
    /\ Save("snapshot_in_progress", NoManifest, "pending")
    /\ RunKeeps /\ UNCHANGED <<row, objects>>

\* ... and in the row, before the first table is touched.
RunPending ==
    /\ RunAt("pending")
    /\ row' = [row EXCEPT !.state = "snapshot_in_progress"]
    /\ run' = [run EXCEPT !.pc = "create", !.t = 1]
    /\ RunKeeps /\ UNCHANGED <<rec, objects, ghosts, faults>>

Copying == {"create", "copy", "post", "count"}

\* Migrator.run looks at the context between its steps.
RunStops ==
    /\ run.pc \in Copying /\ Cancelled
    /\ Fails("canceled")
    /\ RunKeeps /\ UNCHANGED <<row, rec, objects, ghosts, faults>>

Failed(t, stage) == [run.issues EXCEPT ![t] = stage]
NextTable(pc, issues) ==
    run' = [run EXCEPT !.issues = issues, !.p = 1,
                       !.t = IF @ = NumTables THEN 1 ELSE @ + 1,
                       !.pc = IF run.t = NumTables THEN pc ELSE @]
Create(t) ==
    /\ tab' = [tab EXCEPT ![t] = [NoTable EXCEPT !.id = nextId]]
    /\ made' = made \cup {nextId} /\ nextId' = nextId + 1

\* Phase 1: DROP, whose errors are ignored, and CREATE; either may fail.
RunCreate ==
    /\ RunAt("create") /\ ~Cancelled
    /\ \/ Create(run.t) /\ NextTable("copy", run.issues) /\ UNCHANGED faults
       \/ /\ faults < MaxFaults /\ faults' = faults + 1
          /\ \/ UNCHANGED <<tab, made, nextId>>
             \/ tab' = [tab EXCEPT ![run.t] = NoTable] /\ UNCHANGED <<made, nextId>>
             \/ Create(run.t)
          /\ NextTable("copy", Failed(run.t, "schema"))
    /\ RunKeeps /\ UNCHANGED <<row, rec, fks, ghosts>>

\* Phase 2: migrateTableDataSerial, a page at a time.
RunCopy ==
    /\ RunAt("copy") /\ ~Cancelled
    /\ IF run.issues[run.t] # ""
       THEN NextTable("post", run.issues) /\ UNCHANGED <<tab, faults>>
       ELSE \E end \in Ends(TRUE) :
              /\ tab' = IF end = "fail" THEN tab
                        ELSE [tab EXCEPT ![run.t].pages = @ \cup {run.p}]
              /\ IF end # "ok" THEN NextTable("post", Failed(run.t, "data"))
                 ELSE IF run.p = NumPages THEN NextTable("post", run.issues)
                 ELSE run' = [run EXCEPT !.p = @ + 1]
              /\ Charge(TRUE, end)
    /\ RunKeeps /\ UNCHANGED <<row, rec, fks, nextId, made, ghosts>>

\* Phase 3: createPostDDL.  A foreign key needs both of its tables; a failed
\* primary key makes a table unfit for CDC, other failures are warnings.
RunPost ==
    /\ RunAt("post") /\ ~Cancelled
    /\ LET due == {r \in Refs : run.issues[r[1]] = "" /\ run.issues[r[2]] = ""}
           New(keys) == /\ fks' = [r \in Refs |-> IF r \in keys THEN nextId ELSE fks[r]]
                        /\ nextId' = nextId + 1
                        /\ made' = made \cup {nextId}
       IN  \/ /\ New(due) /\ run' = [run EXCEPT !.pc = "count"] /\ UNCHANGED faults
           \/ /\ faults < MaxFaults /\ faults' = faults + 1
              /\ \/ New({}) /\ run' = [run EXCEPT !.pc = "count", !.objs = FALSE]
                 \/ \E t \in Tables :
                       /\ run.issues[t] = ""
                       /\ New(due)
                       /\ run' = [run EXCEPT !.pc = "count", !.objs = FALSE,
                                             !.issues = Failed(t, "cdc_compatibility")]
    /\ RunKeeps /\ UNCHANGED <<row, rec, tab, ghosts>>

\* The tables of bad get an issue, others may at the cost of a fault.
Judge(bad, stage, next) ==
    \E extra \in SUBSET Tables :
       /\ extra = {} \/ faults < MaxFaults
       /\ faults' = IF extra = {} THEN faults ELSE faults + 1
       /\ run' = [run EXCEPT !.pc = next,
                    !.issues = [t \in Tables |-> IF @[t] = "" /\ t \in bad \cup extra
                                                 THEN stage ELSE @[t]]]

\* Phase 4: the rows of source and target are counted; a count may fail.
RunCount ==
    /\ RunAt("count") /\ ~Cancelled
    /\ Judge({t \in Tables : tab[t].pages # Pages}, "row_count", "report")
    /\ RunKeeps /\ UNCHANGED <<row, rec, objects, ghosts>>

\* The preliminary review is recorded before the policy is applied.
RunReport ==
    /\ RunAt("report")
    /\ Save("snapshot_in_progress", Manifest(run.issues), "strict")
    /\ RunKeeps /\ UNCHANGED <<row, objects>>

\* strictBootstrapFailure
RunStrict ==
    /\ RunAt("strict")
    /\ LET flawed == ~run.objs \/ Manifest(run.issues).excluded # {}
       IN  Goto(IF policy = "fail_all" /\ flawed THEN "abort" ELSE "compat")
    /\ RunKeeps /\ UNCHANGED <<row, rec, objects, ghosts, faults>>

\* The copy is given up for good, on the target and in the row.
RunAbort ==
    /\ RunAt("abort")
    /\ AbortTarget
    /\ Goto("abort_row")
    /\ RunKeeps /\ UNCHANGED <<row, objects, ghosts>>

RunAbortRow ==
    /\ RunAt("abort_row")
    /\ row' = [row EXCEPT !.state = "aborted"]
    /\ Fails("error")
    /\ RunKeeps /\ UNCHANGED <<rec, objects, ghosts, faults>>

\* ValidateTargetTableCompatibility
RunCompat ==
    /\ RunAt("compat")
    /\ \/ ~Cancelled /\ Judge({}, "cdc_compatibility", "review")
       \/ \E end \in Ends(TRUE) \cap {"fail"} : Fails("error") /\ Charge(TRUE, end)
    /\ RunKeeps /\ UNCHANGED <<row, rec, objects, ghosts>>

\* The copy cannot go on: the policy forbids exclusions, or nothing is left.
Hopeless(m) == (policy = "fail_all" /\ m.excluded # {}) \/ m.effective = {}

RunHopeless ==
    /\ RunAt("review") /\ Hopeless(Manifest(run.issues))
    /\ fin = NoFin
    /\ \/ rec' = Saved("aborted", Manifest(run.issues)) /\ UNCHANGED faults
       \/ rec' = rec /\ faults < MaxFaults /\ faults' = faults + 1
    /\ Goto("abort")
    /\ RunKeeps /\ UNCHANGED <<row, objects, ghosts>>

\* Tables failed: the manifest is published for review.
RunReview ==
    /\ RunAt("review") /\ ~Hopeless(Manifest(run.issues))
    /\ Manifest(run.issues).excluded # {}
    /\ Save("review_pending", Manifest(run.issues), "review_row")
    /\ RunKeeps /\ UNCHANGED <<row, objects>>

RunReviewRow ==
    /\ RunAt("review_row")
    /\ ReviewRow(Manifest(run.issues))
    /\ Fails("review")
    /\ RunKeeps /\ UNCHANGED <<rec, objects, ghosts, faults>>

\* Nothing failed.
RunFinalize ==
    /\ RunAt("review") /\ Manifest(run.issues).excluded = {}
    /\ FinBegin("run", Manifest(run.issues))

\* applyCompletedBootstrapRecord; the record cannot have changed since it was read.
CompletedRow == row' = [row EXCEPT !.state = "completed", !.done = TRUE, !.m = rec.m]

RunApply ==
    /\ RunAt("apply")
    /\ CompletedRow
    /\ run' = [run EXCEPT !.pc = IF run.t = 0 THEN "cdc" ELSE "catching",
                          !.done = TRUE, !.scope = rec.m.effective]
    /\ RunKeeps /\ UNCHANGED <<rec, objects, ghosts, faults>>

RunCatching ==
    /\ RunAt("catching")
    /\ SetStatus("catching_up") /\ Goto("cdc")
    /\ RunKeeps /\ UNCHANGED <<rec, objects, ghosts, faults>>
-----------------------------------------------------------------------------
(* runCDC, as far as it concerns the copy, and the end of the goroutine.   *)

\* The runner reads the record and starts to stream.
RunCdc ==
    /\ RunAt("cdc")
    /\ \E end \in Ends(TRUE) \ {"lost"} :
          /\ IF end = "ok" THEN Goto("stream") /\ SetStatus("running")
             ELSE Fails("error") /\ UNCHANGED row
          /\ Charge(TRUE, end)
    /\ RunKeeps /\ UNCHANGED <<rec, objects, ghosts>>

\* saveCheckpointTx never advances a record that is not completed; the rows
\* and the checkpoint are one transaction.
RunChange ==
    /\ RunAt("stream") /\ rec.pos < MaxPos
    /\ \E end \in Ends(TRUE) :
          LET works == end # "fail" /\ rec.state = "completed"
          IN  /\ rec' = IF works THEN [rec EXCEPT !.pos = @ + 1] ELSE rec
              /\ tab' = IF works THEN [t \in Tables |-> IF t \in run.scope
                                         THEN [tab[t] EXCEPT !.upto = @ + 1] ELSE tab[t]]
                        ELSE tab
              /\ IF end = "ok" /\ works THEN UNCHANGED run ELSE Fails("error")
              /\ Charge(TRUE, end)
    /\ RunKeeps /\ UNCHANGED <<row, fks, nextId, made, ghosts>>

\* The stream breaks, or the context ends it.
RunStreamEnds ==
    /\ RunAt("stream")
    /\ \E end \in Ends(TRUE) \cap {"fail"} : Fails("error") /\ Charge(TRUE, end)
    /\ RunKeeps /\ UNCHANGED <<row, rec, objects, ghosts>>

\* Registry.Remove tells which action was asked for; a review comes first.
RunRemove ==
    /\ RunAt("returned")
    /\ reg' = NotRegistered
    /\ run' = IF run.err = "review" THEN Gone
              ELSE [run EXCEPT !.pc = IF reg.action = "" THEN "failed_row"
                                     ELSE IF run.done THEN "gone_row" ELSE "give_up"]
    /\ UNCHANGED <<policy, row, rec, objects, req, fin, ghosts, bounds>>

RunGivesUp ==
    /\ RunAt("give_up")
    /\ AbortTarget /\ Goto("gone_row")
    /\ RunKeeps /\ UNCHANGED <<row, objects, ghosts>>

RunEnds ==
    /\ run.pc \in {"gone_row", "failed_row"}
    /\ IF RunAt("gone_row") THEN SetRow("aborted", "aborted") ELSE SetStatus("failed")
    /\ run' = Gone
    /\ RunKeeps /\ UNCHANGED <<rec, objects, ghosts, faults>>
-----------------------------------------------------------------------------
(* The handlers.  Each holds incrementalStartMu from its first read to its *)
(* return, so there is one at a time; a refusal (409) leaves no trace.     *)

ReqAt(pc) == req.pc = pc
ReqGoto(pc) == req' = [req EXCEPT !.pc = pc]
ReqKeeps == UNCHANGED <<policy, fin, requests, replaced>>

Request(pc, m) ==
    /\ req = Idle /\ requests < MaxRequests
    /\ requests' = requests + 1
    /\ req' = [pc |-> pc, j |-> row, m |-> m]
    /\ UNCHANGED <<policy, row, rec, objects, reg, run, fin, ghosts, faults, replaced>>

\* launchIncremental, which does nothing for a job that is registered; the
\* handlers only launch a job whose copy is done.
Launch(m) ==
    /\ req' = Idle
    /\ IF reg.live THEN UNCHANGED <<reg, run>>
       ELSE /\ reg' = Registered
            /\ run' = [Gone EXCEPT !.pc = "cdc", !.done = TRUE, !.scope = m.effective]

\* AcceptIncrementalBootstrapExclusions, for a manifest the operator has read.
AcceptRequest ==
    /\ row.status = "paused_bootstrap_review" \/ row.state = "completed"
    /\ \E m \in published : Request("accept", m)

\* Variant: the request's manifest is not compared.
AnyManifest == TRUE

\* Manifest of the request, of the record and of the row must agree.
SameManifest == req.m = rec.m /\ req.m = req.j.m

\* The record decides; the source may have purged the snapshot position.
AcceptRecord ==
    /\ ReqAt("accept")
    /\ \E end \in Ends(FALSE) \ {"lost"} :
          LET ok == /\ end = "ok" /\ SameManifest
                    /\ \/ rec.state = "review_pending"
                       \/ /\ rec.state = "completed"
                          /\ ~req.j.done \/ req.j.status = "paused_bootstrap_review"
          IN  /\ acked' = IF ok THEN acked \cup {req.m} ELSE acked
              /\ IF ~ok THEN req' = Idle
                 ELSE ReqGoto(IF rec.state = "completed" THEN "apply" ELSE "finalize")
              /\ Charge(FALSE, end)
    /\ ReqKeeps /\ UNCHANGED <<row, rec, objects, reg, run, published, dropped>>

AcceptFinalize == ReqAt("finalize") /\ FinBegin("req", rec.m)

AcceptApply ==
    /\ ReqAt("apply")
    /\ CompletedRow /\ ReqGoto("catching")
    /\ ReqKeeps /\ UNCHANGED <<rec, objects, reg, run, ghosts, faults>>

AcceptStatus ==
    /\ ReqAt("catching")
    /\ SetStatus("catching_up")
    /\ req' = [req EXCEPT !.pc = "launch", !.j.m = rec.m]
    /\ ReqKeeps /\ UNCHANGED <<rec, objects, reg, run, ghosts, faults>>

ReqLaunch ==
    /\ ReqAt("launch")
    /\ Launch(req.j.m)
    /\ ReqKeeps /\ UNCHANGED <<row, rec, objects, ghosts, faults>>

\* ResumeIncremental
Resumable == {"paused_restart", "failed"}
ResumeRequest ==
    /\ ~reg.live /\ row.status \in Resumable
    /\ Request(IF row.done THEN "resume" ELSE "resume_record", NoManifest)

\* Variant: a job in review resumes like one whose copy is complete.
ResumeBypasses ==
    /\ ReqAt("resume_record")
    /\ \E end \in Ends(FALSE) \ {"lost"} :
          /\ IF end = "ok" /\ rec.state \in {"completed", "review_pending"}
             THEN /\ CompletedRow
                  /\ req' = [req EXCEPT !.pc = "resume", !.j.m = rec.m]
             ELSE req' = Idle /\ UNCHANGED row
          /\ Charge(FALSE, end)
    /\ ReqKeeps /\ UNCHANGED <<rec, objects, reg, run, ghosts>>

\* Only a complete copy may be resumed; a review is shown again.
ResumeRecord ==
    /\ ReqAt("resume_record")
    /\ \E end \in Ends(FALSE) \ {"lost"} :
          /\ IF end = "ok" /\ rec.state = "completed"
             THEN /\ CompletedRow
                  /\ req' = [req EXCEPT !.pc = "resume", !.j.m = rec.m]
             ELSE /\ req' = Idle
                  /\ IF end = "ok" /\ rec.state = "review_pending"
                     THEN ReviewRow(rec.m) ELSE UNCHANGED row
          /\ Charge(FALSE, end)
    /\ ReqKeeps /\ UNCHANGED <<rec, objects, reg, run, ghosts>>

\* UpdateIncrementalJobIfStatus
ResumeSwap ==
    /\ ReqAt("resume")
    /\ IF row.status \in Resumable THEN SetStatus("initializing") /\ ReqGoto("launch")
       ELSE UNCHANGED row /\ req' = Idle
    /\ ReqKeeps /\ UNCHANGED <<rec, objects, reg, run, ghosts, faults>>

\* AbortIncremental: a running job is cancelled, another one is ended here.
AbortRequest == row.status # "aborted" /\ Request("abort", NoManifest)

AbortActs ==
    /\ ReqAt("abort")
    /\ IF reg.live
       THEN /\ reg' = [reg EXCEPT !.action = "abort"]
            /\ req' = Idle
       ELSE /\ ReqGoto(IF req.j.done THEN "abort_swap" ELSE "abort_target")
            /\ UNCHANGED reg
    /\ ReqKeeps /\ UNCHANGED <<row, rec, objects, run, ghosts, faults>>

AbortRecord ==
    /\ ReqAt("abort_target")
    /\ AbortTarget /\ ReqGoto("abort_swap")
    /\ ReqKeeps /\ UNCHANGED <<row, objects, reg, run, ghosts>>

AbortSwap ==
    /\ ReqAt("abort_swap")
    /\ IF row.status = req.j.status THEN SetRow("aborted", "aborted") ELSE UNCHANGED row
    /\ req' = Idle
    /\ ReqKeeps /\ UNCHANGED <<rec, objects, reg, run, ghosts, faults>>
-----------------------------------------------------------------------------
(* The operator and the end of the server.                                 *)

\* During a review the operator drops an excluded table, or puts one of his
\* own in its place.
Replace ==
    /\ req = Idle /\ row.status = "paused_bootstrap_review" /\ replaced < MaxReplaced
    /\ \E t \in Excluded(row.m), new \in {0, nextId} :
          /\ tab' = [tab EXCEPT ![t] = [NoTable EXCEPT !.id = new]]
          /\ fks' = [r \in Refs |-> IF t \in {r[1], r[2]} THEN 0 ELSE fks[r]]
    /\ nextId' = nextId + 1 /\ replaced' = replaced + 1
    /\ UNCHANGED <<policy, row, rec, made, reg, run, req, fin, ghosts, requests, faults>>

Interrupted == {"initializing", "snapshot", "catching_up", "running"}

\* Variant: the sweep leaves a copy alone.
SweepRunning(s) == IF s \in Interrupted \ {"snapshot"} THEN "paused_restart" ELSE s

\* PauseInterruptedIncrementalJobs
Swept(s) == IF s \in Interrupted THEN "paused_restart" ELSE s

\* The server is killed and started again.
Crash ==
    /\ faults < MaxFaults /\ faults' = faults + 1
    /\ row' = [row EXCEPT !.status = Swept(@)]
    /\ reg' = NotRegistered /\ run' = Gone /\ req' = Idle /\ fin' = NoFin
    /\ UNCHANGED <<policy, rec, objects, ghosts, requests, replaced>>
-----------------------------------------------------------------------------
FinNext == FinSkip \/ FinDrop \/ FinSavePlan \/ FinCommit
RunNext ==
    \/ RunLoad \/ RunCapture \/ RunPending \/ RunStops \/ RunCreate \/ RunCopy \/ RunPost
    \/ RunCount \/ RunReport \/ RunStrict \/ RunAbort \/ RunAbortRow \/ RunCompat
    \/ RunHopeless \/ RunReview \/ RunReviewRow \/ RunFinalize \/ RunApply \/ RunCatching
    \/ RunCdc \/ RunChange \/ RunStreamEnds \/ RunRemove \/ RunGivesUp \/ RunEnds
ReqNext ==
    \/ AcceptRecord \/ AcceptFinalize \/ AcceptApply \/ AcceptStatus \/ ReqLaunch
    \/ ResumeRecord \/ ResumeSwap \/ AbortActs \/ AbortRecord \/ AbortSwap
Operator == AcceptRequest \/ ResumeRequest \/ AbortRequest \/ Replace

Next == FinNext \/ RunNext \/ ReqNext \/ Operator \/ Crash

Spec == Init /\ [][Next]_vars

\* Goroutines are scheduled and statements end; nothing else is promised.
Fairness == WF_vars(FinNext) /\ WF_vars(RunNext) /\ WF_vars(ReqNext)
FairSpec == Spec /\ Fairness
-----------------------------------------------------------------------------
Manifests == [effective : SUBSET Tables, excluded : SUBSET (Tables \X Stages)]
Ids == 0 .. nextId

(* Every variable holds a value of its kind; the steps of the three parts  *)
(* only stop at the points the code has.                                   *)
TypeOK ==
    /\ policy \in {"fail_all", "review_and_exclude"}
    /\ row.status \in Interrupted \cup Resumable \cup {"paused_bootstrap_review", "aborted"}
    /\ row.state \in {"pending", "snapshot_in_progress", "review_pending", "completed", "aborted"}
    /\ row.done \in BOOLEAN /\ row.m \in Manifests
    /\ rec.state \in {"none", "snapshot_in_progress", "review_pending", "completed", "aborted"}
    /\ rec.m \in Manifests /\ rec.pos \in 0 .. MaxPos
    /\ \A i \in 1 .. Len(rec.plan) : rec.plan[i].table \in Tables /\ rec.plan[i].id \in Ids \ {0}
    /\ tab \in [Tables -> [id : Ids, pages : SUBSET Pages, upto : 0 .. MaxPos]]
    /\ fks \in [Refs -> Ids]
    /\ reg \in [live : BOOLEAN, action : {"", "abort"}]
    /\ run.t \in 0 .. NumTables /\ run.p \in 0 .. NumPages
    /\ run.issues \in [Tables -> Stages \cup {""}]
    /\ fin.by \in {"none", "run", "req"}
    /\ fin.by = "req" => req.pc = "finalize"
    /\ fin.by = "run" => run.pc = "review"

(* Once the record says completed, every table CDC is to follow holds the  *)
(* whole snapshot and all changes up to the recorded position, nothing of  *)
(* an excluded table the copy had created is left, and no foreign key of a *)
(* followed table refers to such a table: however often the copy, the      *)
(* cleanup and their confirmations were cut short (FinalizeBootstrap).     *)
CompletedIsWhole ==
    rec.state = "completed" =>
       /\ \A t \in rec.m.effective :
             tab[t].id \in made /\ tab[t].pages = Pages /\ tab[t].upto = rec.pos
       /\ \A t \in OwnedTables(rec.m) : tab[t].id \notin made
       /\ \A r \in Refs : r[1] \in rec.m.effective /\ r[2] \in OwnedTables(rec.m) => fks[r] = 0

(* The cleanup drops objects the copy created and nothing else: not what   *)
(* was on the target before, not what the operator put in the place of a   *)
(* failed table during the review (the frozen plan of SaveBootstrapRecord).*)
OnlyOwnDropped == dropped \subseteq made

(* The row says that the copy is done only when the record on the target   *)
(* says so for the same tables: whichever of the two databases was written *)
(* last before a failure, CDC never runs on a scope the target does not    *)
(* confirm (ResumeIncremental, launchIncremental).                         *)
RowNeverAhead == row.done => rec.state = "completed" /\ row.m = rec.m

(* A copy with excluded tables completes only after the operator has       *)
(* acknowledged exactly this manifest; neither a restart, nor a resume,    *)
(* nor a stale page of the review gets round it.                           *)
OnlyAcknowledged ==
    rec.state = "completed" /\ rec.m.excluded # {} => rec.m \in acked

(* On the target a completed or aborted record stays so, the manifest in   *)
(* review is frozen, and the checkpoint never goes back, whatever late     *)
(* writes of a cancelled or failed copy arrive.                            *)
RecordOneWay ==
    [][/\ rec.state \in {"completed", "aborted"} => rec'.state = rec.state
       /\ rec.state \in {"completed", "review_pending"} => rec'.m = rec.m
       /\ rec'.pos >= rec.pos]_vars

(* A launched job does not stay in its copy for ever: it is followed by    *)
(* CDC, comes up for review, fails, is aborted or waits for a resume after *)
(* a restart.                                                              *)
CopyEnds == row.status \in {"initializing", "snapshot"} ~> row.status \notin {"initializing", "snapshot"}
=============================================================================
