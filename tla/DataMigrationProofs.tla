------------------------- MODULE DataMigrationProofs -------------------------
(* For every schema, every number of rows of the sheet, every page size and     *)
(* degree of parallelism, and every number of errors, cancels and crashes: a    *)
(* migration that is recorded as done is whole, the stored manifest is true, a   *)
(* released target is quiet, retained foreign keys are kept and a cancelled     *)
(* batch starts one more job at most beside those whose check could not read it. *)
EXTENDS DataMigration, FiniteSetTheorems, WellFoundedInduction, TLAPS

(* ---- the inductive invariant ------------------------------------------------ *)

Steps == {"none", "connect", "lock", "manifest", "plan", "create", "copy",
          "read_keys", "keys", "read_fks", "fks", "read_views", "views", "count",
          "finish", "status", "release", "close"}

(* The steps of a run that owns the target. *)
Owning == Steps \ {"none", "connect", "lock", "close"}

(* The steps between BeginRepair and FinishRepair: mem is the run's manifest. *)
Keeping == Owning \ {"manifest", "status", "release"}

Early == {"none", "connect", "lock", "manifest", "plan"}
Post  == {"read_keys", "keys", "read_fks", "fks", "read_views", "views", "count"}

Calls == {NoCall} \cup [obj : Objects, pc : {"exec", "record"}, res : {"", "ok", "error", "task"}]
Runs  == [pc : Steps, strategy : {"", "offset", "stream", "range"}, parallel : Nat \ {0},
          stop : BOOLEAN, sink : BOOLEAN, failed : BOOLEAN,
          fail : [Tables -> {"", "preflight", "dependency", "execute", "data"}],
          vfail : SUBSET Views, at : Nat \ {0}, todo : SUBSET Objects,
          counted : [Tables -> {"", "match", "differ"}], call : Calls]
LaneSet == [from : Nat \ {0}, to : Nat]
Works == [st : {"idle", "run", "ok", "err"}, todo : Seq(LaneSet), active : SUBSET LaneSet, bad : BOOLEAN]
Manifests ==
    [obj : [Objects -> {"pending", "running", "succeeded", "failed", "unknown", "blocked"}],
     data : [Tables -> {"pending", "succeeded", "failed", "blocked"}]]
Batches == {"none", "running", "done", "cancelled"}
LoopSteps == {"off", "check", "create", "run", "read", "keep", "done"}
JobStates == {"none", "running", "done", "failed", "cancelled"}

(* The types of all variables. *)
TypeInv ==
    /\ batch \in Batches
    /\ loop \in [pc : LoopSteps, row : 1 .. Rows + 1]
    /\ asked \in [pc : {"idle", "save", "list", "cancel"}, seen : SUBSET (1 .. Rows)]
    /\ jobs \in [1 .. Rows -> JobStates]
    /\ reg \in SUBSET (1 .. Rows) /\ ctxs \in SUBSET (1 .. Rows) /\ lock \in 0 .. Rows
    /\ run \in Runs
    /\ work \in [Tables -> Works]
    /\ mem \in Manifests /\ stored \in Manifests
    /\ DOMAIN tab = Tables
    /\ \A t \in Tables : tab[t] \in [there : BOOLEAN, copied : [1 .. Size[t] -> Nat]]
    /\ objs \in SUBSET Objects /\ touched \in SUBSET Objects
    /\ late \in Nat /\ unread \in Nat

(* After the batch was saved as cancelled it starts one more job at most beside *)
(* those whose check could not read it, for the saved status stays until the    *)
(* loop has ended.                                                              *)
LateInv ==
    late > unread => /\ late = unread + 1 /\ batch # "none"
                     /\ loop.pc \notin {"create", "done"}
                     /\ batch = "cancelled" \/ loop.pc = "off"

(* Who owns the target, and where statements and copies are in work. *)
OwnerInv ==
    /\ loop.pc \in {"create", "run"} => loop.row \in 1 .. Rows
    /\ run.pc = "none" <=> loop.pc # "run"
    /\ loop.pc = "run" => loop.row \in reg
    /\ run.pc \in Owning => lock = loop.row
    /\ run.call # NoCall => run.pc \in {"create", "keys", "fks", "views"}
    /\ \A t \in Tables : /\ work[t].st = "run" => run.pc = "copy"
                         /\ work[t].active # {} => work[t].st = "run"
                         /\ run.pc \in Early \cup {"create"} => work[t] = Idle

(* What is at work in each step. *)
StepInv ==
    /\ run.pc \in Early \cup {"close"} => run.call = NoCall
    /\ run.pc \in Early =>
          /\ run.at = 1 /\ ~run.failed /\ ~run.stop /\ ~run.sink
          /\ \A t \in Tables : run.fail[t] = ""
    /\ run.pc \in Early \cup Post \cup {"create", "copy"} => \A t \in Tables : run.counted[t] = ""
    /\ run.pc = "create" /\ run.call # NoCall =>
          run.at \in Tables /\ run.fail[run.at] = "" /\ run.call.obj = <<"table", run.at>>
    /\ \A p \in Phases : run.pc = p =>
          /\ run.todo \subseteq Category(p)
          /\ run.call # NoCall => run.call.obj \in Category(p)

(* What is on the target. *)
There(o) == IF o[1] = "table" THEN tab[o[2]].there ELSE o \in objs

(* The manifest in memory tells the truth while a run keeps it, the stored one  *)
(* always; the object of a statement in flight is running in both.              *)
RecordInv ==
    /\ run.pc \in Keeping => \A o \in Objects :
          /\ mem.obj[o] = "succeeded" => There(o)
          /\ mem.obj[o] \in {"pending", "blocked"} => o \notin touched
    /\ \A o \in Objects :
          /\ stored.obj[o] = "succeeded" => There(o)
          /\ stored.obj[o] \in {"pending", "blocked"} => o \notin touched
    /\ run.call # NoCall => /\ mem.obj[run.call.obj] = "running"
                            /\ stored.obj[run.call.obj] = "running"
    /\ run.call.pc = "record" /\ run.call.res = "ok" => There(run.call.obj)
    /\ run.pc \in {"plan", "create"} => \A o \in Objects :
          o[1] # "table" => mem.obj[o] = "pending" /\ stored.obj[o] = "pending"

(* The lanes that are still to be copied hold exactly the rows that are not on  *)
(* the target yet, each row in one lane.                                        *)
InOrder(l, m) == l.to < m.from
Open(i, todo, active) ==
    \/ \E k \in 1 .. Len(todo) : todo[k].from <= i /\ i <= todo[k].to
    \/ \E l \in active : l.from <= i /\ i <= l.to
Covers(todo, active, copied, n) ==
    /\ \A k \in 1 .. Len(todo) : todo[k].from <= todo[k].to + 1 /\ todo[k].to <= n
    /\ \A l \in active : l.from <= l.to + 1 /\ l.to <= n
    /\ \A j, k \in 1 .. Len(todo) : j < k => InOrder(todo[j], todo[k])
    /\ \A l \in active, k \in 1 .. Len(todo) : InOrder(l, todo[k])
    /\ \A l, m \in active : l # m => InOrder(l, m) \/ InOrder(m, l)
    /\ \A i \in 1 .. n : copied[i] = IF Open(i, todo, active) THEN 0 ELSE 1
Cover(t) == Covers(work[t].todo, work[t].active, tab[t].copied, Size[t])

Fresh(t) == tab[t].there /\ \A i \in 1 .. Size[t] : tab[t].copied[i] = 0

(* A table in work that has not failed. *)
Copied(t) ==
    /\ work[t].st = "err" => run.fail[t] # ""
    /\ run.fail[t] = "" =>
          /\ tab[t].there
          /\ work[t].st = "idle" => Fresh(t)
          /\ work[t].st = "run" /\ ~work[t].bad /\ ~(Scan /\ Stopped) => Cover(t)
          /\ work[t].st = "ok" => Whole(t)

(* A table that has not failed is created empty, then copied, then whole; data   *)
(* is recorded as succeeded only of a whole table.                              *)
CopyInv ==
    /\ run.pc = "create" =>
          /\ \A t \in Tables : t < run.at /\ run.fail[t] = "" => Fresh(t)
          /\ run.call.pc = "record" /\ run.call.res = "ok" => Fresh(run.at)
    /\ run.pc = "copy" => \A t \in Tables : Copied(t)
    /\ run.pc \in Post => \A t \in Tables : run.fail[t] = "" => Whole(t)
    /\ run.pc = "finish" => \A t \in Tables : run.fail[t] = "" /\ run.counted[t] = "match" => Whole(t)
    /\ run.pc \in {"plan", "create", "copy"} => \A t \in Tables : stored.data[t] # "succeeded"
    /\ \A t \in Tables : stored.data[t] = "succeeded" => Whole(t)

Complete == /\ \A t \in Tables : Whole(t)
            /\ Keys \cup Fks \cup ViewObs \subseteq objs

(* As long as nothing has failed, everything up to the current step is there.   *)
Added(p) == \A o \in Category(p) : o \in run.todo \/ o \in objs
                                   \/ (run.call # NoCall /\ o = run.call.obj)
CompleteInv ==
    /\ run.pc \in Keeping /\ ~run.failed => \A t \in Tables : run.fail[t] = ""
    /\ run.sink => run.stop \/ run.failed
    /\ run.pc \in Post /\ ~run.failed =>
          /\ \A p \in Phases : run.pc = p => Added(p)
          /\ run.pc \notin {"read_keys", "keys"} => Keys \subseteq objs
          /\ run.pc \in {"read_views", "views", "count"} => Fks \subseteq objs
          /\ run.pc = "count" => ViewObs \subseteq objs
    /\ run.pc = "finish" /\ ~run.failed /\ ~Stopped => Complete
    /\ run.pc = "status" /\ ~run.failed => Complete

(* While tables are rebuilt, the parent of a failed table that still has its    *)
(* foreign key has failed as well or was rebuilt before.                        *)
RetainInv ==
    run.pc = "create" => \A r \in Refs :
        <<"fk", r>> \in objs /\ run.fail[r[1]] # "" => run.fail[r[2]] # "" \/ r[2] < run.at

Inv == TypeInv /\ LateInv /\ OwnerInv /\ StepInv /\ RecordInv /\ CopyInv /\ CompleteInv /\ RetainInv

(* ---- objects, phases and lanes ----------------------------------------------- *)

(* Each object is of one of four kinds. *)
LEMMA ObjectKinds ==
    ASSUME NEW o \in Objects
    PROVE  \/ o[1] = "table" /\ o[2] \in Tables /\ o = <<"table", o[2]>>
           \/ o[1] = "key" /\ o[2] \in Tables /\ o \in Keys
           \/ o[1] = "fk" /\ o[2] \in Refs /\ o \in Fks
           \/ o[1] = "view" /\ o[2] \in Views /\ o \in ViewObs
  BY DEF Objects, Keys, Fks, ViewObs

(* The objects of the phases after the copy are no tables. *)
LEMMA CategoryObjects ==
    ASSUME NEW p \in Phases, NEW o \in Category(p)
    PROVE  o \in Objects /\ o[1] # "table"
  BY DEF Phases, Category, Objects, Keys, Fks, ViewObs

(* Kind by kind. *)
LEMMA KindFacts == /\ \A t \in Tables : <<"table", t>> \in Objects /\ <<"key", t>> \in Keys
                   /\ \A r \in Refs : <<"fk", r>> \in Fks
                   /\ \A o \in Keys : o \in Objects /\ o[1] = "key"
                   /\ \A o \in Fks : o \in Objects /\ o[1] = "fk"
                   /\ \A o \in ViewObs : o \in Objects /\ o[1] = "view"
  BY DEF Objects, Keys, Fks, ViewObs

(* The constants. *)
LEMMA Constants == /\ Rows \in Nat /\ Rows >= 1
                   /\ \A t \in Tables : t \in Nat /\ t >= 1
                   /\ \A t \in Tables, k \in Nat : 1 <= k /\ k < t => k \in Tables
                   /\ \A t \in Tables : Size[t] \in Nat
                   /\ \A r \in Refs : r[1] \in Tables /\ r[2] \in Tables
                   /\ PageSize \in Nat /\ PageSize > 0
<1>1. PICK n \in Nat : Tables = 1 .. n
  BY MigrationAssumption, FS_CardinalityType
<1> QED BY <1>1, MigrationAssumption

(* No call, no run and no copy have their types. *)
LEMMA IdleTypes == NoCall \in Calls /\ NoRun \in Runs /\ Idle \in Works /\ Inventory \in Manifests
<1>1. NoCall \in Calls /\ Idle \in Works /\ Inventory \in Manifests
  BY DEF Calls, Idle, Works, Inventory, Manifests
<1>2. NoRun \in Runs
  BY <1>1 DEF NoRun, Runs, Steps
<1> QED BY <1>1, <1>2

(* A run that has not begun. *)
LEMMA IdleValues == /\ NoRun.pc = "none" /\ NoRun.call = NoCall /\ NoRun.at = 1
                    /\ NoRun.failed = FALSE /\ NoRun.stop = FALSE /\ NoRun.sink = FALSE
                    /\ \A t \in Tables : NoRun.fail[t] = "" /\ NoRun.counted[t] = ""
                    /\ NoCall.pc = "none" /\ Idle.st = "idle" /\ Idle.active = {}
  BY DEF NoRun, NoCall, Idle

(* The invariant holds at the start. *)
LEMMA InitInv == Init => Inv
<1> SUFFICES ASSUME Init PROVE Inv
  OBVIOUS
<1>0. run = NoRun /\ work = [t \in Tables |-> Idle] /\ mem = Inventory /\ stored = Inventory
      /\ batch = "none" /\ loop = [pc |-> "off", row |-> 1] /\ asked = [pc |-> "idle", seen |-> {}]
      /\ reg = {} /\ ctxs = {} /\ lock = 0 /\ touched = {} /\ late = 0 /\ unread = 0
  BY DEF Init
<1> USE <1>0, Constants
<1>1. TypeInv
  <2>1. /\ DOMAIN tab = Tables /\ objs \in SUBSET Objects
        /\ \A t \in Tables : tab[t] \in [there : BOOLEAN, copied : [1 .. Size[t] -> Nat]]
    BY DEF Objects, Init
  <2>2. batch \in Batches /\ loop \in [pc : LoopSteps, row : 1 .. Rows + 1]
    <3>1. 1 \in 1 .. Rows + 1
      OBVIOUS
    <3> QED BY <3>1 DEF Batches, LoopSteps
  <2>3. jobs \in [1 .. Rows -> JobStates]
    BY DEF JobStates, Init
  <2> QED BY <2>1, <2>2, <2>3, IdleTypes DEF TypeInv
<1>2. LateInv /\ OwnerInv /\ StepInv /\ RetainInv
  <2>1. LateInv
    <3>1. ~(0 > 0)
      OBVIOUS
    <3> QED BY <3>1 DEF LateInv
  <2> QED BY <2>1, IdleValues DEF OwnerInv, StepInv, RetainInv, Owning, Early, Post, Phases
<1>3. RecordInv
  BY IdleValues DEF RecordInv, Keeping, Owning, Inventory
<1>4. CopyInv /\ CompleteInv
  BY IdleValues DEF CopyInv, CompleteInv, Keeping, Owning, Post, Inventory
<1> QED BY <1>1, <1>2, <1>3, <1>4 DEF Inv

(* ---- steps beside the run ---------------------------------------------------- *)

(* What the run and the target are is not disturbed by a step that leaves them   *)
(* alone; a cancelled context stays cancelled.                                  *)
LEMMA RunUntouched ==
    ASSUME Inv, UNCHANGED <<run, work, mem, stored, tab, objs, touched>>,
           run.pc # "none" /\ Stopped => Stopped'
    PROVE  StepInv' /\ RecordInv' /\ CopyInv' /\ CompleteInv' /\ RetainInv'
<1> USE DEF Inv
<1>1. StepInv' /\ RetainInv'
  BY DEF StepInv, RetainInv
<1>2. RecordInv'
  BY DEF RecordInv, There
<1>3. CopyInv'
  BY DEF CopyInv, Copied, Fresh, Cover, Whole, Scan
<1>4. CompleteInv'
  BY DEF CompleteInv, Complete, Whole, Added
<1> QED BY <1>1, <1>2, <1>3, <1>4

(* Handlers and loop between two jobs. *)
LEMMA StartBatchInv == ASSUME Inv, StartBatch PROVE Inv'
<1> USE Constants DEF Inv, StartBatch, Unused
<1>1. loop.pc # "run" /\ run.pc = "none" /\ ~run.stop /\ ~(late > unread)
  BY DEF LateInv, OwnerInv, StepInv, Early
<1>2. TypeInv'
  BY DEF TypeInv, Batches, LoopSteps, manifest, target
<1>3. LateInv' /\ OwnerInv'
  BY <1>1 DEF LateInv, OwnerInv, Owning, Steps
<1>4. UNCHANGED <<run, work, mem, stored, tab, objs, touched>>
  BY DEF manifest, target
<1> QED BY <1>1, <1>2, <1>3, <1>4, RunUntouched

(* The batch is read before a row. *)
LEMMA CheckCancelledInv == ASSUME Inv, CheckCancelled PROVE Inv'
<1> USE Constants DEF Inv, CheckCancelled
<1>1. TypeInv'
  BY DEF TypeInv, manifest, target, LoopSteps, Row
<1>2. LateInv' /\ OwnerInv'
  BY DEF TypeInv, LateInv, OwnerInv, Row
<1>3. UNCHANGED <<run, work, mem, stored, tab, objs, touched>> /\ (run.pc # "none" /\ Stopped => Stopped')
  BY DEF OwnerInv, Stopped, Row, manifest, target
<1> QED BY <1>1, <1>2, <1>3, RunUntouched

(* The batch is read at its end. *)
LEMMA ReadBatchInv == ASSUME Inv, ReadBatch PROVE Inv'
<1> USE Constants DEF Inv, ReadBatch
<1>1. TypeInv'
  BY DEF TypeInv, manifest, target, LoopSteps
<1>2. LateInv' /\ OwnerInv'
  BY DEF TypeInv, LateInv, OwnerInv
<1>3. UNCHANGED <<run, work, mem, stored, tab, objs, touched>> /\ (run.pc # "none" /\ Stopped => Stopped')
  BY DEF OwnerInv, Stopped, Row, manifest, target
<1> QED BY <1>1, <1>2, <1>3, RunUntouched

(* Nobody creates a job after the loop has ended. *)
LEMMA FinishBatchInv == ASSUME Inv, FinishBatch PROVE Inv'
<1> USE Constants DEF Inv, FinishBatch
<1>1. TypeInv'
  BY DEF TypeInv, manifest, target, LoopSteps, Batches
<1>2. LateInv' /\ OwnerInv'
  BY DEF TypeInv, LateInv, OwnerInv
<1>3. UNCHANGED <<run, work, mem, stored, tab, objs, touched>> /\ (run.pc # "none" /\ Stopped => Stopped')
  BY DEF OwnerInv, Stopped, Row, manifest, target
<1> QED BY <1>1, <1>2, <1>3, RunUntouched

(* The handler reads. *)
LEMMA CancelReadInv == ASSUME Inv, CancelRead PROVE Inv'
<1> USE Constants DEF Inv, CancelRead
<1>1. TypeInv'
  BY DEF TypeInv, manifest, target
<1>2. LateInv' /\ OwnerInv'
  BY DEF TypeInv, LateInv, OwnerInv
<1>3. UNCHANGED <<run, work, mem, stored, tab, objs, touched>> /\ (run.pc # "none" /\ Stopped => Stopped')
  BY DEF OwnerInv, Stopped, Row, manifest, target
<1> QED BY <1>1, <1>2, <1>3, RunUntouched

(* The handler saves. *)
LEMMA CancelSaveInv == ASSUME Inv, CancelSave PROVE Inv'
<1> USE Constants DEF Inv, CancelSave
<1>1. TypeInv'
  BY DEF TypeInv, manifest, target, Batches
<1>2. LateInv' /\ OwnerInv'
  BY DEF TypeInv, LateInv, OwnerInv
<1>3. UNCHANGED <<run, work, mem, stored, tab, objs, touched>> /\ (run.pc # "none" /\ Stopped => Stopped')
  BY DEF OwnerInv, Stopped, Row, manifest, target
<1> QED BY <1>1, <1>2, <1>3, RunUntouched

(* The handler lists. *)
LEMMA CancelListInv == ASSUME Inv, CancelList PROVE Inv'
<1> USE Constants DEF Inv, CancelList
<1>1. TypeInv'
  BY DEF TypeInv, manifest, target
<1>2. LateInv' /\ OwnerInv'
  BY DEF TypeInv, LateInv, OwnerInv
<1>3. UNCHANGED <<run, work, mem, stored, tab, objs, touched>> /\ (run.pc # "none" /\ Stopped => Stopped')
  BY DEF OwnerInv, Stopped, Row, manifest, target
<1> QED BY <1>1, <1>2, <1>3, RunUntouched

(* The handler cancels. *)
LEMMA CancelJobsInv == ASSUME Inv, CancelJobs PROVE Inv'
<1> USE Constants DEF Inv, CancelJobs
<1>1. TypeInv'
  BY DEF TypeInv, manifest, target
<1>2. LateInv' /\ OwnerInv'
  BY DEF TypeInv, LateInv, OwnerInv
<1>3. UNCHANGED <<run, work, mem, stored, tab, objs, touched>> /\ (run.pc # "none" /\ Stopped => Stopped')
  BY DEF OwnerInv, Stopped, Row, manifest, target
<1> QED BY <1>1, <1>2, <1>3, RunUntouched

(* One job is cancelled. *)
LEMMA CancelDataMigrationInv == ASSUME Inv, NEW j \in 1 .. Rows, CancelDataMigration(j) PROVE Inv'
<1> USE Constants DEF Inv, CancelDataMigration
<1>1. TypeInv'
  BY DEF TypeInv, manifest, target
<1>2. LateInv' /\ OwnerInv'
  BY DEF TypeInv, LateInv, OwnerInv
<1>3. UNCHANGED <<run, work, mem, stored, tab, objs, touched>> /\ (run.pc # "none" /\ Stopped => Stopped')
  BY DEF OwnerInv, Stopped, Row, manifest, target
<1> QED BY <1>1, <1>2, <1>3, RunUntouched

(* A new run. *)
LEMMA NewRunFacts ==
    ASSUME NEW s \in {"", "offset", "stream", "range"}, NEW n \in Nat \ {0}
    PROVE  /\ NewRun(s, n) \in Runs
           /\ NewRun(s, n).pc = "connect" /\ NewRun(s, n).call = NoCall /\ NewRun(s, n).at = 1
           /\ NewRun(s, n).failed = FALSE /\ NewRun(s, n).stop = FALSE /\ NewRun(s, n).sink = FALSE
           /\ \A t \in Tables : NewRun(s, n).fail[t] = "" /\ NewRun(s, n).counted[t] = ""
<1>1. NoRun \in Runs
  BY IdleTypes
<1>2. /\ NoRun.call = NoCall /\ NoRun.at = 1
      /\ NoRun.failed = FALSE /\ NoRun.stop = FALSE /\ NoRun.sink = FALSE
      /\ \A t \in Tables : NoRun.fail[t] = "" /\ NoRun.counted[t] = ""
  BY IdleValues
<1> QED BY <1>1, <1>2 DEF NewRun, Runs, Steps

(* What a run that is about to connect, or none, has to be. *)
LEMMA FreshRun ==
    ASSUME Inv, run' \in Runs, run'.pc \in {"none", "connect"}, run'.call = NoCall, run'.at = 1,
           run'.failed = FALSE, run'.stop = FALSE, run'.sink = FALSE,
           \A t \in Tables : run'.fail[t] = "" /\ run'.counted[t] = "",
           UNCHANGED <<stored, tab, objs, touched>>
    PROVE  StepInv' /\ RecordInv' /\ CopyInv' /\ CompleteInv' /\ RetainInv'
<1> USE DEF Inv
<1>1. StepInv' /\ RetainInv'
  BY DEF StepInv, RetainInv, Early, Post, Phases
<1>2. RecordInv'
  BY IdleValues DEF RecordInv, There, Keeping, Owning
<1>3. CopyInv'
  BY DEF CopyInv, Whole, Post
<1>4. CompleteInv'
  BY DEF CompleteInv, Keeping, Owning, Post
<1> QED BY <1>1, <1>2, <1>3, <1>4

(* A single job. *)
LEMMA StartDataMigrationInv == ASSUME Inv, StartDataMigration PROVE Inv'
<1> USE Constants DEF Inv, StartDataMigration, Unused
<1>1. loop.pc # "run" /\ run.pc = "none" /\ ~(late > unread)
  BY DEF LateInv, OwnerInv
<1>2. CASE UNCHANGED <<jobs, loop, run>>
  <2>1. TypeInv'
    BY <1>2 DEF TypeInv, manifest, target
  <2>2. LateInv' /\ OwnerInv'
    BY <1>1, <1>2 DEF LateInv, OwnerInv
  <2>3. UNCHANGED <<run, work, mem, stored, tab, objs, touched>>
    BY <1>2 DEF manifest, target
  <2> QED BY <1>1, <2>1, <2>2, <2>3, RunUntouched
<1>3. CASE \E s \in Strategies, n \in Parallels : run' = NewRun(s, n)
  <2>1. PICK s \in Strategies, n \in Parallels : run' = NewRun(s, n)
    BY <1>3
  <2>2. s \in {"", "offset", "stream", "range"} /\ n \in Nat \ {0}
    BY MigrationAssumption
  <2>3. CASE loop' = [pc |-> "run", row |-> 1] /\ jobs' = [jobs EXCEPT ![1] = "running"]
    <3>1. TypeInv'
      <4>1. run' \in Runs
        BY <2>1, <2>2, NewRunFacts
      <4>2. loop' \in [pc : LoopSteps, row : 1 .. Rows + 1] /\ reg' \in SUBSET (1 .. Rows)
        BY <2>3 DEF LoopSteps
      <4>3. jobs' \in [1 .. Rows -> JobStates]
        BY <2>3 DEF TypeInv, JobStates
      <4> QED BY <4>1, <4>2, <4>3 DEF TypeInv, manifest, target
    <3>2. run'.pc = "connect" /\ run'.call = NoCall
      BY <2>1, <2>2, NewRunFacts
    <3>3. LateInv' /\ OwnerInv'
      BY <1>1, <2>3, <3>2 DEF LateInv, OwnerInv, Owning, Early
    <3>4. UNCHANGED <<stored, tab, objs, touched>>
      BY DEF manifest, target
    <3>5. StepInv' /\ RecordInv' /\ CopyInv' /\ CompleteInv' /\ RetainInv'
      <4>1. /\ run' \in Runs /\ run'.pc = "connect" /\ run'.call = NoCall /\ run'.at = 1
            /\ run'.failed = FALSE /\ run'.stop = FALSE /\ run'.sink = FALSE
            /\ \A t \in Tables : run'.fail[t] = "" /\ run'.counted[t] = ""
        BY ONLY ZenonT(60), <2>1, <2>2, NewRunFacts
      <4> QED BY <3>4, <4>1, FreshRun
    <3> QED BY <3>1, <3>3, <3>5
  <2>4. CASE UNCHANGED <<jobs, loop, run>>
    BY <1>2, <2>4
  <2> QED BY <2>3, <2>4
<1> QED BY <1>2, <1>3

(* A job of the batch; it may be the one more. *)
LEMMA CreateJobInv == ASSUME Inv, CreateJob PROVE Inv'
<1> USE Constants DEF Inv, CreateJob
<1>1. run.pc = "none" /\ ~(late > unread) /\ Row \in 1 .. Rows
  BY DEF LateInv, OwnerInv, TypeInv, Row
<1>2. CASE loop' = [pc |-> "check", row |-> Row + 1] /\ UNCHANGED <<jobs, reg, run, late>>
  <2>1. TypeInv'
    <3>1. loop' \in [pc : LoopSteps, row : 1 .. Rows + 1]
      BY <1>1, <1>2 DEF LoopSteps
    <3> QED BY <1>2, <3>1 DEF TypeInv, manifest, target
  <2>2. LateInv' /\ OwnerInv'
    BY <1>1, <1>2 DEF LateInv, OwnerInv, Owning
  <2>3. UNCHANGED <<run, work, mem, stored, tab, objs, touched>>
    BY <1>2 DEF manifest, target
  <2> QED BY <1>1, <2>1, <2>2, <2>3, RunUntouched
<1>3. CASE /\ jobs' = [jobs EXCEPT ![Row] = "running"]
           /\ reg' = reg \cup {Row}
           /\ loop' = [loop EXCEPT !.pc = "run"]
           /\ \E n \in Parallels : run' = NewRun("offset", n)
           /\ late' = IF batch = "cancelled" THEN late + 1 ELSE late
  <2>1. PICK n \in Parallels : run' = NewRun("offset", n)
    BY <1>3
  <2>2. n \in Nat \ {0} /\ "offset" \in {"", "offset", "stream", "range"}
    BY MigrationAssumption
  <2>3. TypeInv'
    <3>1. run' \in Runs
      BY <2>1, <2>2, NewRunFacts
    <3>2. loop' \in [pc : LoopSteps, row : 1 .. Rows + 1] /\ reg' \in SUBSET (1 .. Rows)
      BY <1>1, <1>3 DEF TypeInv, LoopSteps
    <3>3. jobs' \in [1 .. Rows -> JobStates] /\ late' \in Nat
      BY <1>1, <1>3 DEF TypeInv, JobStates
    <3> QED BY <3>1, <3>2, <3>3 DEF TypeInv, manifest, target
  <2>4. run'.pc = "connect" /\ run'.call = NoCall
    BY <2>1, <2>2, NewRunFacts
  <2>5. LateInv' /\ OwnerInv'
    BY <1>1, <1>3, <2>4 DEF TypeInv, LateInv, OwnerInv, Owning, Early, Row
  <2>6. UNCHANGED <<stored, tab, objs, touched>>
    BY DEF manifest, target
  <2>7. StepInv' /\ RecordInv' /\ CopyInv' /\ CompleteInv' /\ RetainInv'
    BY <2>1, <2>2, <2>6, NewRunFacts, FreshRun
  <2> QED BY <2>3, <2>5, <2>7
<1> QED BY <1>2, <1>3

(* The end of a job: nothing is at work any more. *)
LEMMA CloseJobInv == ASSUME Inv, CloseJob PROVE Inv'
<1> USE Constants DEF Inv, CloseJob
<1>1. loop.pc = "run" /\ Row \in 1 .. Rows /\ \A t \in Tables : work[t].active = {}
  BY DEF OwnerInv, Row
<1>2. TypeInv'
  <2>1. loop \in [pc : LoopSteps, row : 1 .. Rows + 1] /\ Row + 1 \in 1 .. Rows + 1
    BY <1>1 DEF TypeInv
  <2>2. loop' \in [pc : LoopSteps, row : 1 .. Rows + 1]
    BY <2>1 DEF LoopSteps
  <2> QED BY <1>1, <2>2, IdleTypes DEF TypeInv, manifest, target
<1>3. \A t \in Tables : work'[t] = Idle
  BY <1>1
<1>4. LateInv'
  BY <1>1 DEF LateInv
<1>5. OwnerInv'
  <2>1. loop'.pc \in {"off", "check"}
    BY DEF TypeInv
  <2> QED BY <1>1, <1>3, <2>1, IdleValues DEF OwnerInv, Owning
<1> QED BY <1>2, <1>4, <1>5, IdleTypes, IdleValues, FreshRun DEF manifest, target

(* After a crash no run and no copy is left, and what was running is unknown. *)
LEMMA CrashInv == ASSUME Inv, Crash PROVE Inv'
<1> USE Constants DEF Inv, Crash
<1>1. TypeInv'
  <2>1. stored' \in Manifests
    BY DEF TypeInv, Manifests
  <2>2. jobs' \in [1 .. Rows -> JobStates]
    BY DEF TypeInv, JobStates
  <2>3. loop' \in [pc : LoopSteps, row : 1 .. Rows + 1] /\ lock' \in 0 .. Rows
    <3>1. loop \in [pc : LoopSteps, row : 1 .. Rows + 1] /\ loop' = [loop EXCEPT !.pc = "off"] /\ lock' = 0
      BY DEF TypeInv
    <3>2. "off" \in LoopSteps /\ 0 \in 0 .. Rows
      BY DEF LoopSteps
    <3> QED BY <3>1, <3>2
  <2>4. work' \in [Tables -> Works] /\ run' \in Runs /\ mem' \in Manifests
    BY IdleTypes
  <2> QED BY <2>1, <2>2, <2>3, <2>4 DEF TypeInv, target
<1>2. LateInv'
  BY DEF LateInv
<1>3. OwnerInv'
  BY IdleValues DEF OwnerInv, TypeInv, Owning
<1>4. StepInv' /\ RetainInv'
  BY IdleValues DEF StepInv, RetainInv, Early, Post, Phases
<1>5. RecordInv'
  BY ZenonT(60), IdleValues DEF RecordInv, There, Keeping, Owning, TypeInv, Manifests, target
<1>6. CopyInv'
  <2>1. stored'.data = stored.data
    BY DEF TypeInv, Manifests
  <2> QED BY <2>1, IdleValues DEF CopyInv, Whole, Post, target
<1>7. CompleteInv'
  BY IdleValues DEF CompleteInv, Keeping, Owning, Post
<1> QED BY <1>1, <1>2, <1>3, <1>4, <1>5, <1>6, <1>7

(* ---- the run, up to its first statement -------------------------------------- *)

(* A step to another place of the run changes nothing else of it. *)
LEMMA GotoFacts ==
    ASSUME run \in Runs, NEW p \in Steps, Goto(p)
    PROVE  /\ run' \in Runs /\ run'.pc = p
           /\ run'.strategy = run.strategy /\ run'.parallel = run.parallel
           /\ run'.stop = run.stop /\ run'.sink = run.sink /\ run'.failed = run.failed
           /\ run'.fail = run.fail /\ run'.vfail = run.vfail /\ run'.at = run.at
           /\ run'.todo = run.todo /\ run'.counted = run.counted /\ run'.call = run.call
  BY DEF Goto, Runs

(* The status of a job. *)
LEMMA StatusType ==
    ASSUME TypeInv, NEW s \in JobStates, Row \in 1 .. Rows, Status(s)
    PROVE  jobs' \in [1 .. Rows -> JobStates]
  BY DEF TypeInv, Status

(* The job of the run. *)
LEMMA RunningRow ==
    ASSUME Inv, loop.pc = "run"
    PROVE  /\ Row \in 1 .. Rows /\ Row \in reg /\ run.pc # "none"
           /\ run.pc \in Owning => lock = Row
  BY DEF Inv, OwnerInv, Row

(* The steps of the run are not those of the batch. *)
LEMMA BatchUntouched ==
    ASSUME Inv, JobKeeps, loop.pc = "run", run' \in Runs, run'.pc # "none",
           jobs' \in [1 .. Rows -> JobStates], lock' \in 0 .. Rows, run'.pc \in Owning => lock' = Row,
           run'.call # NoCall => run'.pc \in {"create", "keys", "fks", "views"},
           \A t \in Tables : /\ work'[t].st = "run" => run'.pc = "copy"
                             /\ work'[t].active # {} => work'[t].st = "run"
                             /\ run'.pc \in Early \cup {"create"} => work'[t] = Idle
    PROVE  LateInv' /\ OwnerInv'
  BY DEF Inv, JobKeeps, LateInv, OwnerInv, Row

(* A run that is over makes no claim on the target. *)
LEMMA RunOver ==
    ASSUME Inv, run' \in Runs, run'.pc \in {"release", "close"}, run'.call = NoCall,
           run'.sink => run'.stop \/ run'.failed,
           UNCHANGED <<stored, tab, objs, touched>>
    PROVE  StepInv' /\ RecordInv' /\ CopyInv' /\ CompleteInv' /\ RetainInv'
<1> USE DEF Inv
<1>1. StepInv' /\ RetainInv'
  BY DEF StepInv, RetainInv, Early, Post, Phases
<1>2. RecordInv'
  BY IdleValues DEF RecordInv, There, Keeping, Owning
<1>3. CopyInv'
  BY DEF CopyInv, Whole, Post
<1>4. CompleteInv'
  BY DEF CompleteInv, Keeping, Owning, Post
<1> QED BY <1>1, <1>2, <1>3, <1>4

(* Nor does one that has not saved its manifest. *)
LEMMA RunWaits ==
    ASSUME Inv, run' \in Runs, run'.pc \in {"lock", "manifest"}, run.pc \in {"connect", "lock"},
           run'.call = NoCall, run'.at = run.at, run'.failed = run.failed, run'.stop = run.stop,
           run'.sink = run.sink, run'.fail = run.fail, run'.counted = run.counted,
           UNCHANGED <<stored, tab, objs, touched>>
    PROVE  StepInv' /\ RecordInv' /\ CopyInv' /\ CompleteInv' /\ RetainInv'
<1> USE DEF Inv
<1>1. StepInv' /\ RetainInv'
  BY DEF StepInv, RetainInv, Early, Post, Phases
<1>2. RecordInv'
  BY IdleValues DEF RecordInv, There, Keeping, Owning
<1>3. CopyInv'
  BY DEF CopyInv, Whole, Post
<1>4. CompleteInv'
  BY DEF CompleteInv, Keeping, Owning, Post
<1> QED BY <1>1, <1>2, <1>3, <1>4

(* A run that cannot connect ends; otherwise it asks for the lock. *)
LEMMA ConnectInv == ASSUME Inv, Connect PROVE Inv'
<1> USE DEF Inv, Connect, At
<1>0. Row \in 1 .. Rows /\ run \in Runs /\ loop.pc = "run"
  BY RunningRow DEF TypeInv
<1>1. /\ jobs' \in [1 .. Rows -> JobStates]
      /\ run' \in Runs /\ run'.pc \in {"lock", "close"} /\ run'.call = NoCall
      /\ run'.stop = run.stop /\ run'.sink = run.sink /\ run'.failed = run.failed
      /\ run'.fail = run.fail /\ run'.at = run.at /\ run'.counted = run.counted
  <2>1. jobs' \in [1 .. Rows -> JobStates]
    BY <1>0, StatusType DEF JobStates, TypeInv
  <2>2. CASE Goto("lock")
    BY <1>0, <2>1, <2>2, GotoFacts DEF Steps
  <2>3. CASE Goto("close")
    BY <1>0, <2>1, <2>3, GotoFacts DEF Steps
  <2> QED BY <2>2, <2>3
<1>2. UNCHANGED <<stored, tab, objs, touched, mem, work, lock>>
  BY DEF manifest, target
<1>3. TypeInv'
  BY <1>1, <1>2 DEF TypeInv, JobKeeps
<1>4. LateInv' /\ OwnerInv'
  <2>1. \A t \in Tables : work'[t] = Idle
    BY <1>2 DEF OwnerInv, Early
  <2> QED BY <1>0, <1>1, <1>2, <2>1, IdleValues, BatchUntouched DEF Owning, TypeInv
<1>5. ~run.sink
  BY DEF StepInv, Early
<1> QED BY <1>1, <1>2, <1>3, <1>4, <1>5, RunOver, RunWaits

(* The lock of the target is taken or the run ends. *)
LEMMA AcquireScopeInv == ASSUME Inv, AcquireScope PROVE Inv'
<1> USE DEF Inv, AcquireScope, At
<1>0. Row \in 1 .. Rows /\ run \in Runs /\ loop.pc = "run"
  BY RunningRow DEF TypeInv
<1>1. /\ jobs' \in [1 .. Rows -> JobStates]
      /\ run' \in Runs /\ run'.pc \in {"manifest", "close"} /\ run'.call = NoCall
      /\ run'.stop = run.stop /\ run'.sink = run.sink /\ run'.failed = run.failed
      /\ run'.fail = run.fail /\ run'.at = run.at /\ run'.counted = run.counted
      /\ lock' \in 0 .. Rows /\ (run'.pc = "manifest" => lock' = Row)
  <2>1. CASE lock = 0 /\ lock' = Row /\ Goto("manifest") /\ UNCHANGED <<jobs, faults>>
    BY <1>0, <2>1, GotoFacts, Constants DEF Steps, TypeInv
  <2>2. CASE lock # 0 /\ Status(IF Stopped THEN "cancelled" ELSE "failed") /\ Goto("close") /\ UNCHANGED lock
    <3>1. jobs' \in [1 .. Rows -> JobStates]
      BY <1>0, <2>2, StatusType DEF JobStates
    <3> QED BY <1>0, <2>2, <3>1, GotoFacts DEF Steps, TypeInv
  <2> QED BY <2>1, <2>2
<1>2. UNCHANGED <<stored, tab, objs, touched, mem, work>>
  BY DEF manifest, target
<1>3. TypeInv'
  BY <1>1, <1>2 DEF TypeInv, JobKeeps
<1>4. LateInv' /\ OwnerInv'
  <2>1. \A t \in Tables : work'[t] = Idle
    BY <1>2 DEF OwnerInv, Early
  <2> QED BY <1>0, <1>1, <1>2, <2>1, IdleValues, BatchUntouched DEF Owning
<1>5. ~run.sink
  BY DEF StepInv, Early
<1> QED BY <1>1, <1>2, <1>3, <1>4, <1>5, RunOver, RunWaits

(* A run that is stopped before its rows are counted ends without a claim to     *)
(* be complete.                                                                 *)
LEMMA RunStopped ==
    ASSUME Inv, run' \in Runs, run'.pc = "finish", run'.call = NoCall,
           run.pc \in Post \cup {"plan", "create", "copy"},
           run'.fail = run.fail, run'.failed = run.failed, run'.counted = run.counted,
           Stopped', run'.sink => run'.stop \/ run'.failed,
           stored'.data = stored.data, UNCHANGED tab
    PROVE  StepInv' /\ CopyInv' /\ CompleteInv' /\ RetainInv'
<1> USE DEF Inv
<1>1. \A t \in Tables : run'.counted[t] = ""
  BY DEF StepInv, Early
<1>2. StepInv' /\ RetainInv'
  BY DEF StepInv, RetainInv, Early, Post, Phases
<1>3. CopyInv'
  BY <1>1 DEF CopyInv, Whole, Post
<1>4. CompleteInv'
  BY DEF CompleteInv, Keeping, Owning, Post, Steps
<1> QED BY <1>2, <1>3, <1>4

(* The same if nothing but the run changes. *)
LEMMA RunStoppedAlone ==
    ASSUME Inv, run' \in Runs, run'.pc = "finish", run'.call = NoCall,
           run.pc \in Post \cup {"plan", "create", "copy"},
           run'.fail = run.fail, run'.failed = run.failed, run'.counted = run.counted,
           Stopped', run'.sink => run'.stop \/ run'.failed,
           UNCHANGED <<mem, stored, tab, objs, touched>>
    PROVE  StepInv' /\ RecordInv' /\ CopyInv' /\ CompleteInv' /\ RetainInv'
<1>1. RecordInv'
  BY IdleValues DEF Inv, RecordInv, There, Keeping, Owning, Post, Steps
<1> QED BY <1>1, RunStopped

(* A fresh manifest is saved before the first statement. *)
LEMMA BeginRepairInv == ASSUME Inv, BeginRepair PROVE Inv'
<1> USE DEF Inv, BeginRepair, At
<1>0. Row \in 1 .. Rows /\ run \in Runs /\ loop.pc = "run" /\ lock = Row
  BY RunningRow DEF TypeInv, Owning, Steps
<1>a. /\ run.at = 1 /\ ~run.failed /\ ~run.stop /\ ~run.sink
      /\ \A t \in Tables : run.fail[t] = "" /\ run.counted[t] = "" /\ work[t] = Idle
  BY DEF StepInv, Early, OwnerInv
<1>1. CASE Stopped /\ Status("cancelled") /\ Goto("release") /\ UNCHANGED <<manifest, touched, faults>>
  <2>1. /\ run' \in Runs /\ run'.pc = "release" /\ run'.call = NoCall /\ run'.sink = run.sink
    BY <1>0, <1>1, GotoFacts DEF Steps
  <2>2. jobs' \in [1 .. Rows -> JobStates]
    BY <1>0, <1>1, StatusType DEF JobStates
  <2>3. UNCHANGED <<stored, tab, objs, touched, mem, work, lock>>
    BY <1>1 DEF manifest
  <2>4. TypeInv'
    BY <2>1, <2>2, <2>3 DEF TypeInv, JobKeeps
  <2>5. LateInv' /\ OwnerInv'
    <3>1. \A t \in Tables : work'[t] = Idle /\ work'[t].st = "idle" /\ work'[t].active = {}
      BY ZenonT(60), <1>a, <2>3, IdleValues
    <3>2. lock' = Row /\ lock' \in 0 .. Rows /\ JobKeeps
      BY <1>0, <2>3
    <3> QED BY <1>0, <2>1, <2>2, <3>1, <3>2, BatchUntouched
  <2> QED BY <1>a, <2>1, <2>3, <2>4, <2>5, RunOver
<1>2. CASE /\ mem' = Inventory /\ touched' = {} /\ stored' = Inventory /\ Goto("plan") /\ UNCHANGED jobs
  <2>1. /\ run' \in Runs /\ run'.pc = "plan" /\ run'.call = NoCall /\ run'.sink = run.sink
        /\ run'.stop = run.stop /\ run'.failed = run.failed /\ run'.fail = run.fail
        /\ run'.at = run.at /\ run'.counted = run.counted
    BY <1>0, <1>2, GotoFacts DEF Steps
  <2>2. TypeInv'
    BY <1>2, <2>1, IdleTypes DEF TypeInv, JobKeeps
  <2>3. LateInv' /\ OwnerInv'
    BY <1>0, <1>a, <1>2, <2>1, IdleValues, BatchUntouched DEF TypeInv
  <2>4. StepInv' /\ RetainInv'
    BY <1>a, <2>1 DEF StepInv, RetainInv, Early, Post, Phases
  <2>5. RecordInv'
    BY <1>2, <2>1, IdleValues DEF RecordInv, Inventory
  <2>6. CopyInv'
    BY <1>2, <2>1 DEF CopyInv, Inventory, Post
  <2>7. CompleteInv'
    BY <1>a, <2>1 DEF CompleteInv, Post
  <2> QED BY <2>2, <2>3, <2>4, <2>5, <2>6, <2>7
<1>3. CASE /\ mem' = Inventory /\ touched' = {} /\ UNCHANGED <<stored, jobs>>
           /\ run' = [run EXCEPT !.pc = "finish", !.sink = TRUE, !.failed = TRUE]
  <2>1. /\ run' \in Runs /\ run'.pc = "finish" /\ run'.call = NoCall /\ run'.failed = TRUE
        /\ run'.fail = run.fail /\ run'.counted = run.counted
    BY <1>0, <1>3 DEF Runs, Steps
  <2>2. TypeInv'
    BY <1>3, <2>1, IdleTypes DEF TypeInv, JobKeeps
  <2>3. LateInv' /\ OwnerInv'
    BY <1>0, <1>a, <1>3, <2>1, IdleValues, BatchUntouched DEF TypeInv
  <2>4. StepInv' /\ RetainInv'
    BY <2>1 DEF StepInv, RetainInv, Early, Post, Phases
  <2>5. RecordInv'
    BY <1>3, <2>1, IdleValues DEF RecordInv, Inventory, There
  <2>6. CopyInv'
    BY <1>a, <1>3, <2>1 DEF CopyInv, Whole, Post
  <2>7. CompleteInv'
    BY <1>a, <2>1 DEF CompleteInv, Post
  <2> QED BY <2>2, <2>3, <2>4, <2>5, <2>6, <2>7
<1> QED BY <1>1, <1>2, <1>3

(* protectRetainedMigrationTables: with a failed table its parents have failed   *)
(* or are rebuilt already, or the run is stopped.                               *)
LEMMA ProtectFacts ==
    ASSUME NEW r \in Runs, NEW done \in SUBSET Tables, NEW end, Protect(r, done, end)
    PROVE  \/ /\ run' \in Runs /\ run'.pc = r.pc
              /\ run'.strategy = r.strategy /\ run'.parallel = r.parallel
              /\ run'.stop = r.stop /\ run'.sink = r.sink /\ run'.failed = r.failed
              /\ run'.vfail = r.vfail /\ run'.at = r.at
              /\ run'.todo = r.todo /\ run'.counted = r.counted /\ run'.call = r.call
              /\ \A t \in Tables : /\ r.fail[t] # "" => run'.fail[t] = r.fail[t]
                                   /\ run'.fail[t] # "" => Failed(r) # {}
              /\ \A q \in Refs : <<"fk", q>> \in objs /\ run'.fail[q[1]] # ""
                                    => run'.fail[q[2]] # "" \/ q[2] \in done
           \/ run' = [r EXCEPT !.pc = "finish", !.stop = TRUE]
<1> USE DEF Protect
<1>1. CASE ~AsksCatalog(r, done)
  <2>1. run' = r
    BY <1>1
  <2>2. Failed(r) = {} \/ Tables \ (Failed(r) \cup done) = {}
    BY <1>1 DEF AsksCatalog
  <2>3. \A t \in Tables : r.fail[t] # "" <=> t \in Failed(r)
    BY DEF Failed
  <2>4. \A q \in Refs : q[1] \in Failed(r) => q[2] \in Failed(r) \/ q[2] \in done
    BY <2>2, Constants
  <2> QED BY <2>1, <2>3, <2>4, Constants
<1>2. CASE AsksCatalog(r, done) /\ end # "ok"
  BY <1>2
<1>3. CASE AsksCatalog(r, done) /\ end = "ok"
  <2> DEFINE P == Protected(Failed(r), done)
  <2>1. /\ P \subseteq Tables /\ Failed(r) \subseteq P
        /\ \A q \in Refs : <<"fk", q>> \in objs /\ q[1] \in P => q[2] \in P \cup done
    <3>1. Failed(r) \subseteq Tables /\ P \subseteq Tables
      BY DEF Failed, Protected
    <3>2. Failed(r) \subseteq P
      BY <3>1 DEF Protected
    <3>3. ASSUME NEW q \in Refs, <<"fk", q>> \in objs, q[1] \in P, q[2] \notin done
          PROVE  q[2] \in P
      BY <3>3, Constants DEF Protected
    <3> QED BY <3>1, <3>2, <3>3
  <2>2. run' = [r EXCEPT !.fail = [t \in Tables |-> IF r.fail[t] = "" /\ t \in P
                                                    THEN "dependency" ELSE r.fail[t]]]
    BY <1>3
  <2> HIDE DEF P
  <2>3. /\ run' \in Runs /\ run'.pc = r.pc
        /\ run'.strategy = r.strategy /\ run'.parallel = r.parallel
        /\ run'.stop = r.stop /\ run'.sink = r.sink /\ run'.failed = r.failed
        /\ run'.vfail = r.vfail /\ run'.at = r.at
        /\ run'.todo = r.todo /\ run'.counted = r.counted /\ run'.call = r.call
    BY <2>2 DEF Runs
  <2>4. \A t \in Tables : run'.fail[t] = IF r.fail[t] = "" /\ t \in P THEN "dependency" ELSE r.fail[t]
    BY <2>2 DEF Runs
  <2>5. \A t \in Tables : run'.fail[t] # "" <=> t \in P
    BY <2>1, <2>4 DEF Failed
  <2>6. \A t \in Tables : r.fail[t] # "" => run'.fail[t] = r.fail[t]
    BY <2>4
  <2>7. Failed(r) # {}
    BY <1>3 DEF AsksCatalog
  <2>8. \A q \in Refs : <<"fk", q>> \in objs /\ run'.fail[q[1]] # "" => run'.fail[q[2]] # "" \/ q[2] \in done
    BY <2>1, <2>5, Constants
  <2> QED BY <2>3, <2>6, <2>7, <2>8
<1> QED BY <1>1, <1>2, <1>3

(* A step of a run that owns its target, beside the copy. *)
LEMMA OwnerStep ==
    ASSUME Inv, JobKeeps, loop.pc = "run", UNCHANGED <<work, lock>>,
           jobs' \in [1 .. Rows -> JobStates],
           run' \in Runs, run.pc \in Owning, run'.pc \in Owning,
           run'.call # NoCall => run'.pc \in {"create", "keys", "fks", "views"},
           run.pc = "copy" => InWork = {},
           run'.pc \in Early \cup {"create"} => run.pc \in Early \cup {"create"}
    PROVE  LateInv' /\ OwnerInv'
<1>1. lock = Row /\ lock \in 0 .. Rows
  BY RunningRow DEF Inv, TypeInv
<1>2. \A t \in Tables : /\ work'[t].st = "run" => run'.pc = "copy"
                        /\ work'[t].active # {} => work'[t].st = "run"
                        /\ run'.pc \in Early \cup {"create"} => work'[t] = Idle
  BY DEF Inv, OwnerInv, InWork
<1>3. run'.pc # "none"
  BY DEF Owning
<1> QED BY <1>1, <1>2, <1>3, BatchUntouched

(* The types of all but the run and what a step says of the others. *)
LEMMA OwnerTypes ==
    ASSUME TypeInv, JobKeeps, UNCHANGED <<jobs, lock, work>>, run' \in Runs,
           mem' \in Manifests, stored' \in Manifests, UNCHANGED <<tab, objs, touched>>
    PROVE  TypeInv'
  BY DEF TypeInv, JobKeeps

(* The plans are made and the retained tables protected. *)
LEMMA PlanInv == ASSUME Inv, Plan PROVE Inv'
<1> USE DEF Inv, Plan, At
<1>0. /\ run \in Runs /\ loop.pc = "run" /\ JobKeeps /\ run.pc = "plan" /\ run.call = NoCall
      /\ UNCHANGED <<jobs, lock, work, mem, stored, tab, objs, touched>>
      /\ jobs' \in [1 .. Rows -> JobStates] /\ mem' \in Manifests /\ stored' \in Manifests
  BY DEF TypeInv, manifest, target
<1>a. /\ run.at = 1 /\ ~run.failed /\ ~run.stop /\ ~run.sink
      /\ \A t \in Tables : run.fail[t] = "" /\ run.counted[t] = "" /\ work[t] = Idle
  BY DEF StepInv, Early, OwnerInv
<1>1. CASE Stopped /\ Goto("finish")
  <2>1. /\ run' \in Runs /\ run'.pc = "finish" /\ run'.call = NoCall /\ run'.sink = run.sink
        /\ run'.stop = run.stop /\ run'.failed = run.failed /\ run'.fail = run.fail
        /\ run'.counted = run.counted
    BY <1>0, <1>1, GotoFacts DEF Steps
  <2>2. Stopped'
    BY <1>0, <1>1, <2>1 DEF Stopped, Row, JobKeeps
  <2>3. TypeInv' /\ LateInv' /\ OwnerInv'
    BY <1>0, <2>1, OwnerTypes, OwnerStep DEF Owning, Steps, Early
  <2> QED BY <1>0, <1>a, <2>1, <2>2, <2>3, RunStoppedAlone
<1>2. CASE run' = [run EXCEPT !.pc = "finish", !.stop = TRUE]
  <2>1. /\ run' \in Runs /\ run'.pc = "finish" /\ run'.call = NoCall /\ run'.sink = run.sink
        /\ run'.stop = TRUE /\ run'.failed = run.failed /\ run'.fail = run.fail
        /\ run'.counted = run.counted
    BY <1>0, <1>2 DEF Runs, Steps
  <2>2. Stopped'
    BY <2>1 DEF Stopped
  <2>3. TypeInv' /\ LateInv' /\ OwnerInv'
    BY <1>0, <2>1, OwnerTypes, OwnerStep DEF Owning, Steps, Early
  <2> QED BY <1>0, <1>a, <2>1, <2>2, <2>3, RunStoppedAlone
<1>3. ASSUME NEW bad \in SUBSET Tables, NEW end \in {"ok", "task"},
             Protect([run EXCEPT !.pc = "create", !.failed = bad # {},
                             !.fail = [t \in Tables |-> IF t \in bad THEN "preflight" ELSE ""]], {}, end)
      PROVE  Inv'
  <2> DEFINE r == [run EXCEPT !.pc = "create", !.failed = bad # {},
                             !.fail = [t \in Tables |-> IF t \in bad THEN "preflight" ELSE ""]]
  <2>1. /\ r \in Runs /\ r.pc = "create" /\ r.at = 1 /\ r.call = NoCall /\ r.sink = FALSE
        /\ r.counted = run.counted /\ (r.failed <=> bad # {})
        /\ \A t \in Tables : r.fail[t] = IF t \in bad THEN "preflight" ELSE ""
    BY <1>0, <1>a DEF Runs, Steps
  <2>2. Failed(r) # {} => r.failed
    BY <2>1 DEF Failed
  <2>3. Protect(r, {}, end)
    BY <1>3
  <2> HIDE DEF r
  <2>4. CASE run' = [r EXCEPT !.pc = "finish", !.stop = TRUE]
    <3>1. /\ run' \in Runs /\ run'.pc = "finish" /\ run'.call = NoCall /\ run'.sink = FALSE
          /\ run'.stop = TRUE /\ run'.failed = r.failed /\ run'.fail = r.fail
          /\ run'.counted = run.counted
      BY <2>1, <2>4 DEF Runs, Steps
    <3>2. TypeInv' /\ LateInv' /\ OwnerInv'
      BY <1>0, <3>1, OwnerTypes, OwnerStep DEF Owning, Steps, Early
    <3>3. StepInv' /\ RetainInv'
      BY <3>1 DEF StepInv, RetainInv, Early, Post, Phases
    <3>4. RecordInv'
      BY <1>0, <3>1, IdleValues DEF RecordInv, There, Keeping, Owning, Steps
    <3>5. CopyInv'
      BY <1>0, <1>a, <3>1 DEF CopyInv, Whole, Post
    <3>6. CompleteInv'
      <4>1. Stopped'
        BY <3>1 DEF Stopped
      <4>2. ~run'.failed => \A t \in Tables : run'.fail[t] = ""
        BY <2>1, <3>1
      <4> QED BY <3>1, <4>1, <4>2 DEF CompleteInv, Post
    <3> QED BY <3>2, <3>3, <3>4, <3>5, <3>6
  <2>5. CASE /\ run' \in Runs /\ run'.pc = r.pc
             /\ run'.sink = r.sink /\ run'.failed = r.failed /\ run'.at = r.at
             /\ run'.counted = r.counted /\ run'.call = r.call
             /\ \A t \in Tables : run'.fail[t] # "" => Failed(r) # {}
             /\ \A q \in Refs : <<"fk", q>> \in objs /\ run'.fail[q[1]] # ""
                                    => run'.fail[q[2]] # "" \/ q[2] \in {}
    <3>1. run'.pc = "create" /\ run'.call = NoCall /\ run'.sink = FALSE /\ run'.at = 1
      BY <2>1, <2>5
    <3>2. TypeInv' /\ LateInv' /\ OwnerInv'
      BY <1>0, <2>5, <3>1, OwnerTypes, OwnerStep DEF Owning, Steps, Early
    <3>3. StepInv'
      <4>0. run'.counted = run.counted
        BY <2>1, <2>5
      <4>1. \A t \in Tables : run'.counted[t] = ""
        BY <1>a, <4>0
      <4> QED BY <3>1, <4>1 DEF StepInv, Early, Post, Phases
    <3>4. RetainInv'
      BY <1>0, <2>5 DEF RetainInv
    <3>5. RecordInv'
      BY <1>0, <3>1, IdleValues DEF RecordInv, There, Keeping, Owning, Steps
    <3>6. CopyInv'
      <4>0. run'.call.pc # "record"
        BY <3>1, IdleValues
      <4>2. \A t \in Tables : t \in Nat /\ t >= 1
        BY Constants
      <4>1. run'.call.pc # "record" /\ \A t \in Tables : ~(t < run'.at)
        <5>1. run'.at = 1
          BY <3>1
        <5> QED BY ONLY <4>0, <4>2, <5>1
      <4> QED BY <1>0, <3>1, <4>1 DEF CopyInv, Whole, Post
    <3>7. CompleteInv'
      BY <2>1, <2>2, <2>5, <3>1 DEF CompleteInv, Post
    <3> QED BY <3>2, <3>3, <3>4, <3>5, <3>6, <3>7
  <2> QED BY <2>1, <2>3, <2>4, <2>5, ProtectFacts
<1> QED BY <1>1, <1>2, <1>3

(* ---- captureRepairCall --------------------------------------------------------- *)

(* A call that has begun, or could not be saved and ends the run. *)
CallBegun(o, r) ==
    /\ run' \in Runs /\ mem' \in Manifests /\ stored' \in Manifests
    /\ run'.fail = r.fail /\ run'.failed = r.failed /\ run'.counted = r.counted
    /\ run'.at = r.at /\ run'.todo = r.todo /\ run'.vfail = r.vfail
    /\ mem'.data = mem.data /\ stored'.data = stored.data
    /\ \A x \in Objects : x # o => mem'.obj[x] = mem.obj[x] /\ stored'.obj[x] = stored.obj[x]
    /\ \/ /\ mem'.obj[o] = "running" /\ stored'.obj[o] = "running"
          /\ run'.pc = r.pc /\ run'.stop = r.stop /\ run'.sink = r.sink
          /\ run'.call # NoCall /\ run'.call.obj = o
          /\ run'.call.pc = "exec" /\ run'.call.res = ""
       \/ /\ mem'.obj[o] = "failed" /\ stored'.obj[o] = stored.obj[o]
          /\ run'.pc = "finish" /\ run'.stop = TRUE /\ run'.sink = TRUE /\ run'.call = r.call

(* How a call begins. *)
LEMMA CallBeginFacts ==
    ASSUME mem \in Manifests, stored \in Manifests, NEW o \in Objects, NEW r \in Runs, CallBegin(o, r)
    PROVE  CallBegun(o, r)
<1>1. CASE /\ mem' = [mem EXCEPT !.obj[o] = "running"]
           /\ stored' = [stored EXCEPT !.obj[o] = "running"]
           /\ run' = [r EXCEPT !.call = [obj |-> o, pc |-> "exec", res |-> ""]]
  <2>1. [obj |-> o, pc |-> "exec", res |-> ""] \in Calls
    BY DEF Calls
  <2>2. /\ run' \in Runs
        /\ run'.fail = r.fail /\ run'.failed = r.failed /\ run'.counted = r.counted
        /\ run'.at = r.at /\ run'.todo = r.todo /\ run'.vfail = r.vfail
        /\ run'.pc = r.pc /\ run'.stop = r.stop /\ run'.sink = r.sink
        /\ run'.call = [obj |-> o, pc |-> "exec", res |-> ""]
    BY <1>1, <2>1 DEF Runs
  <2>3. run'.call # NoCall /\ run'.call.obj = o /\ run'.call.pc = "exec" /\ run'.call.res = ""
    <3> DEFINE c == run'.call
    <3>0. c = [obj |-> o, pc |-> "exec", res |-> ""]
      BY <2>2
    <3> HIDE DEF c
    <3>1. c.obj = o /\ c.pc = "exec" /\ c.res = ""
      BY <3>0
    <3>2. NoCall.pc = "none"
      BY DEF NoCall
    <3> QED BY <3>1, <3>2 DEF c
  <2>4. /\ mem' \in Manifests /\ mem'.obj[o] = "running" /\ mem'.data = mem.data
        /\ \A x \in Objects : x # o => mem'.obj[x] = mem.obj[x]
    BY <1>1 DEF Manifests
  <2>5. /\ stored' \in Manifests /\ stored'.obj[o] = "running" /\ stored'.data = stored.data
        /\ \A x \in Objects : x # o => stored'.obj[x] = stored.obj[x]
    BY <1>1 DEF Manifests
  <2> QED BY <2>2, <2>3, <2>4, <2>5 DEF CallBegun
<1>2. CASE /\ mem' = [mem EXCEPT !.obj[o] = "failed"]
           /\ run' = [r EXCEPT !.pc = "finish", !.stop = TRUE, !.sink = TRUE]
           /\ UNCHANGED stored
  <2>1. /\ run' \in Runs
        /\ run'.fail = r.fail /\ run'.failed = r.failed /\ run'.counted = r.counted
        /\ run'.at = r.at /\ run'.todo = r.todo /\ run'.vfail = r.vfail
        /\ run'.pc = "finish" /\ run'.stop = TRUE /\ run'.sink = TRUE /\ run'.call = r.call
    BY <1>2 DEF Runs, Steps
  <2>2. /\ mem' \in Manifests /\ mem'.obj[o] = "failed" /\ mem'.data = mem.data
        /\ \A x \in Objects : x # o => mem'.obj[x] = mem.obj[x]
    BY <1>2 DEF Manifests
  <2> QED BY <1>2, <2>1, <2>2 DEF CallBegun
<1> QED BY <1>1, <1>2 DEF CallBegin

(* The record of a call that begins: nothing is on the target yet, and it is     *)
(* saved as running or not sent at all.                                         *)
LEMMA CallBeginRecord ==
    ASSUME Inv, NEW o \in Objects, NEW r \in Runs, CallBegin(o, r), r.call = NoCall,
           r.pc = run.pc, run.pc \in Keeping \ {"plan"}, UNCHANGED <<tab, objs, touched>>,
           run.pc = "create" => o[1] = "table"
    PROVE  RecordInv'
<1>1. mem \in Manifests /\ stored \in Manifests
  BY DEF Inv, TypeInv
<1>a. CallBegun(o, r)
  BY <1>1, CallBeginFacts
<1>2. run'.pc \in Keeping
  BY ZenonT(60), <1>a DEF CallBegun, Keeping, Owning, Steps
<1>3. \A x \in Objects :
          /\ mem'.obj[x] = "succeeded" => There(x)'
          /\ mem'.obj[x] \in {"pending", "blocked"} => x \notin touched'
          /\ stored'.obj[x] = "succeeded" => There(x)'
          /\ stored'.obj[x] \in {"pending", "blocked"} => x \notin touched'
  <2>1. \A x \in Objects :
          /\ mem.obj[x] = "succeeded" => There(x)
          /\ mem.obj[x] \in {"pending", "blocked"} => x \notin touched
          /\ stored.obj[x] = "succeeded" => There(x)
          /\ stored.obj[x] \in {"pending", "blocked"} => x \notin touched
    BY DEF Inv, RecordInv
  <2>2. \A x \in Objects : There(x)' = There(x)
    BY DEF There
  <2>3. \A x \in Objects : x # o => mem'.obj[x] = mem.obj[x] /\ stored'.obj[x] = stored.obj[x]
    BY <1>a DEF CallBegun
  <2>4. mem'.obj[o] \in {"running", "failed"} /\ stored'.obj[o] \in {"running", stored.obj[o]}
    BY <1>a DEF CallBegun
  <2> QED BY <2>1, <2>2, <2>3, <2>4
<1>4. run'.call # NoCall => mem'.obj[run'.call.obj] = "running" /\ stored'.obj[run'.call.obj] = "running"
  BY <1>a DEF CallBegun
<1>5. run'.call.pc # "record"
  BY <1>a, IdleValues DEF CallBegun
<1>6. run'.pc \in {"plan", "create"} => \A x \in Objects :
          x[1] # "table" => mem'.obj[x] = "pending" /\ stored'.obj[x] = "pending"
  <2>1. run'.pc \in {"plan", "create"} => run'.pc = run.pc
    BY <1>a DEF CallBegun
  <2>2. run.pc = "plan" \/ run.pc = "create" => \A x \in Objects :
          x[1] # "table" => mem.obj[x] = "pending" /\ stored.obj[x] = "pending"
    BY DEF Inv, RecordInv
  <2>3. \A x \in Objects : x[1] # "table" /\ run.pc = "create" =>
          mem'.obj[x] = mem.obj[x] /\ stored'.obj[x] = stored.obj[x]
    BY <1>a DEF CallBegun
  <2>4. run'.pc # "plan"
    BY <1>a, <2>1 DEF CallBegun
  <2> QED BY <2>1, <2>2, <2>3, <2>4
<1> QED BY <1>2, <1>3, <1>4, <1>5, <1>6 DEF RecordInv

(* The tables in their order: each is passed over or its statement begins. *)
LEMMA CreateTableInv == ASSUME Inv, CreateTable PROVE Inv'
<1>0. /\ run \in Runs /\ loop.pc = "run" /\ JobKeeps /\ run.pc = "create" /\ run.call = NoCall
      /\ UNCHANGED <<jobs, lock, work, tab, objs, touched>>
      /\ jobs' \in [1 .. Rows -> JobStates] /\ mem \in Manifests /\ stored \in Manifests
  BY DEF Inv, TypeInv, CreateTable, At, manifest, target
<1>a. /\ \A t \in Tables : run.counted[t] = "" /\ work[t] = Idle
      /\ run.sink => run.stop \/ run.failed
      /\ ~run.failed => \A t \in Tables : run.fail[t] = ""
      /\ run.at \in Nat /\ run.at >= 1
  <2>1. \A t \in Tables : run.counted[t] = ""
    BY <1>0 DEF Inv, StepInv
  <2>2. \A t \in Tables : work[t] = Idle
    BY <1>0 DEF Inv, OwnerInv
  <2>3. /\ run.sink => run.stop \/ run.failed
        /\ ~run.failed => \A t \in Tables : run.fail[t] = ""
    BY <1>0 DEF Inv, CompleteInv, Keeping, Owning, Steps
  <2>4. run.at \in Nat /\ run.at >= 1
    <3>1. run.at \in Nat \ {0}
      BY <1>0 DEF Runs
    <3> QED BY ONLY <3>1
  <2> QED BY <2>1, <2>2, <2>3, <2>4
<1>b. \A t \in Tables : stored.data[t] # "succeeded"
  BY <1>0 DEF Inv, CopyInv
<1>c. \A t \in Tables : t < run.at /\ run.fail[t] = "" => Fresh(t)
  BY <1>0 DEF Inv, CopyInv
<1>d. \A t \in Tables : t \in Nat /\ t >= 1 /\ \A k \in Nat : 1 <= k /\ k < t => k \in Tables
  BY Constants
<1>1. CASE run.at \notin Tables /\ Goto("copy") /\ UNCHANGED manifest
  <2>1. /\ run' \in Runs /\ run'.pc = "copy" /\ run'.call = NoCall /\ run'.sink = run.sink
        /\ run'.stop = run.stop /\ run'.failed = run.failed /\ run'.fail = run.fail
        /\ run'.counted = run.counted
    BY <1>0, <1>1, GotoFacts DEF Steps
  <2>2. UNCHANGED <<mem, stored>>
    BY <1>1 DEF manifest
  <2>3. TypeInv' /\ LateInv' /\ OwnerInv'
    BY <1>0, <2>1, <2>2, OwnerTypes, OwnerStep DEF Owning, Steps, Early, Inv
  <2>4. StepInv' /\ RetainInv'
    BY <1>a, <2>1 DEF StepInv, RetainInv, Early, Phases
  <2>5. RecordInv'
    BY <1>0, <2>1, <2>2, IdleValues DEF Inv, RecordInv, There, Keeping, Owning, Steps
  <2>6. CopyInv'
    <3>1. \A t \in Tables : t < run.at
      <4>1. run.at \in Nat /\ run.at >= 1 /\ run.at \notin Tables
        BY <1>a, <1>1
      <4> QED BY ONLY <1>d, <4>1
    <3>2. \A t \in Tables : run'.fail[t] = "" => Fresh(t)'
      BY <1>0, <1>c, <2>1, <3>1 DEF Fresh
    <3>3. \A t \in Tables : work'[t].st = "idle"
      BY <1>0, <1>a, IdleValues
    <3> QED BY <1>b, <2>1, <2>2, <3>2, <3>3 DEF CopyInv, Copied, Post, Fresh
  <2>7. CompleteInv'
    BY <1>a, <2>1 DEF CompleteInv, Post
  <2> QED BY <2>3, <2>4, <2>5, <2>6, <2>7 DEF Inv
<1>2. CASE /\ run.at \in Tables /\ run.fail[run.at] # "" /\ run' = [run EXCEPT !.at = run.at + 1]
           /\ UNCHANGED manifest
  <2>1. /\ run' \in Runs /\ run'.pc = "create" /\ run'.call = NoCall /\ run'.sink = run.sink
        /\ run'.stop = run.stop /\ run'.failed = run.failed /\ run'.fail = run.fail
        /\ run'.counted = run.counted /\ run'.at = run.at + 1
    <3>0. run.at \in Nat
      BY <1>a
    <3>1. run.at + 1 \in Nat \ {0}
      BY ONLY <3>0
    <3> QED BY <1>0, <1>2, <3>1 DEF Runs
  <2>2. UNCHANGED <<mem, stored>>
    BY <1>2 DEF manifest
  <2>3. TypeInv' /\ LateInv' /\ OwnerInv'
    BY <1>0, <2>1, <2>2, OwnerTypes, OwnerStep DEF Owning, Steps, Early, Inv
  <2>4. StepInv'
    BY <1>a, <2>1 DEF StepInv, Early, Phases
  <2>5. RetainInv'
    <3>1. run.at \in Nat /\ run'.at = run.at + 1
      BY <1>a, <2>1
    <3>2. \A q \in Refs : q[2] \in Nat
      BY Constants
    <3>3. \A q \in Refs : q[2] < run.at => q[2] < run'.at
      BY ONLY <3>1, <3>2
    <3> QED BY <1>0, <2>1, <3>3 DEF RetainInv, Inv
  <2>6. RecordInv'
    BY <1>0, <2>1, <2>2, IdleValues DEF Inv, RecordInv, There, Keeping, Owning, Steps
  <2>7. CopyInv'
    <3>1. \A t \in Tables : t < run'.at /\ run'.fail[t] = "" => Fresh(t)'
      <4>1. run.at \in Nat /\ run'.at = run.at + 1 /\ \A t \in Tables : t \in Nat
        BY <1>a, <1>d, <2>1
      <4>2. \A t \in Tables : t < run'.at => t < run.at \/ t = run.at
        BY ONLY <4>1
      <4>3. run.fail[run.at] # ""
        BY <1>2
      <4> QED BY <1>0, <1>c, <2>1, <4>2, <4>3 DEF Fresh
    <3>2. run'.call.pc # "record"
      BY <2>1, IdleValues
    <3> QED BY <1>b, <2>1, <2>2, <3>1, <3>2 DEF CopyInv, Post
  <2>8. CompleteInv'
    BY <1>a, <2>1 DEF CompleteInv, Post
  <2> QED BY <2>3, <2>4, <2>5, <2>6, <2>7, <2>8 DEF Inv
<1>3. CASE Stopped /\ Goto("finish") /\ UNCHANGED manifest
  <2>1. /\ run' \in Runs /\ run'.pc = "finish" /\ run'.call = NoCall /\ run'.sink = run.sink
        /\ run'.stop = run.stop /\ run'.failed = run.failed /\ run'.fail = run.fail
        /\ run'.counted = run.counted
    BY <1>0, <1>3, GotoFacts DEF Steps
  <2>2. Stopped'
    BY <1>0, <1>3, <2>1 DEF Stopped, Row, JobKeeps
  <2>3. UNCHANGED <<mem, stored>>
    BY <1>3 DEF manifest
  <2>4. TypeInv' /\ LateInv' /\ OwnerInv'
    BY <1>0, <2>1, <2>3, OwnerTypes, OwnerStep DEF Owning, Steps, Early, Inv
  <2> QED BY <1>0, <1>a, <2>1, <2>2, <2>3, <2>4, RunStoppedAlone DEF Inv
<1>4. CASE run.at \in Tables /\ run.fail[run.at] = "" /\ CallBegin(<<"table", run.at>>, run)
  <2> DEFINE o == <<"table", run.at>>
  <2>1. o \in Objects /\ o[1] = "table"
    BY <1>4, KindFacts
  <2> HIDE DEF o
  <2>2. CallBegun(o, run)
    BY <1>0, <1>4, <2>1, CallBeginFacts DEF o
  <2>3. RecordInv'
    BY <1>0, <1>4, <2>1, CallBeginRecord DEF o, Keeping, Owning, Steps
  <2>4. CASE run'.pc = "create" /\ run'.call # NoCall
    <3>1. TypeInv' /\ LateInv' /\ OwnerInv'
      BY <1>0, <2>2, <2>4, OwnerTypes, OwnerStep DEF CallBegun, Owning, Steps, Early, Inv
    <3>2. StepInv'
      <4>1. run'.call.obj = o /\ run'.at = run.at /\ run'.fail = run.fail /\ run'.counted = run.counted
        BY <2>2, <2>4, <1>0 DEF CallBegun
      <4> QED BY <1>4, <1>a, <2>4, <4>1 DEF StepInv, Early, Phases, o
    <3>3. RetainInv'
      BY <1>0, <2>2 DEF RetainInv, Inv, CallBegun
    <3>4. CopyInv'
      <4>1. \A t \in Tables : t < run'.at /\ run'.fail[t] = "" => Fresh(t)'
        BY <1>0, <1>c, <2>2 DEF Fresh, CallBegun
      <4>2. run'.call.pc # "record"
        BY <2>2, <2>4 DEF CallBegun
      <4>3. stored'.data = stored.data
        BY <2>2 DEF CallBegun
      <4> QED BY <1>b, <2>4, <4>1, <4>2, <4>3 DEF CopyInv, Post
    <3>5. CompleteInv'
      <4>1. run'.sink = run.sink /\ run'.stop = run.stop /\ run'.failed = run.failed /\ run'.fail = run.fail
        BY <2>2, <2>4 DEF CallBegun
      <4> QED BY <1>a, <2>4, <4>1 DEF CompleteInv, Post
    <3> QED BY <2>3, <3>1, <3>2, <3>3, <3>4, <3>5 DEF Inv
  <2>5. CASE run'.pc = "finish" /\ run'.stop = TRUE /\ run'.call = NoCall
    <3>1. TypeInv' /\ LateInv' /\ OwnerInv'
      BY <1>0, <2>2, <2>5, OwnerTypes, OwnerStep DEF CallBegun, Owning, Steps, Early, Inv
    <3>2. Stopped'
      BY <2>5 DEF Stopped
    <3> QED BY <1>0, <2>2, <2>3, <2>5, <3>1, <3>2, RunStopped DEF Inv, CallBegun
  <2> QED BY <1>0, <2>2, <2>4, <2>5 DEF CallBegun
<1> QED BY <1>0, <1>1, <1>2, <1>3, <1>4 DEF CreateTable

(* A call in flight. *)
LEMMA CallInFlight ==
    ASSUME Inv, run.call.pc \in {"exec", "record"}
    PROVE  /\ run.call # NoCall /\ run.call.obj \in Objects
           /\ run.call \in [obj : Objects, pc : {"exec", "record"}, res : {"", "ok", "error", "task"}]
           /\ run.pc \in {"create", "keys", "fks", "views"}
           /\ run.pc = "create" => /\ run.at \in Tables /\ run.fail[run.at] = ""
                                   /\ run.call.obj = <<"table", run.at>>
           /\ \A p \in Phases : run.pc = p => run.call.obj \in Category(p)
           /\ run.pc # "create" => run.call.obj[1] # "table"
<1>1. run.call # NoCall
  <2>1. NoCall.pc = "none"
    BY DEF NoCall
  <2> QED BY <2>1
<1>2. run.call \in Calls
  BY DEF Inv, TypeInv, Runs
<1>3. run.call \in [obj : Objects, pc : {"exec", "record"}, res : {"", "ok", "error", "task"}]
  BY <1>1, <1>2 DEF Calls
<1>4. run.pc \in {"create", "keys", "fks", "views"}
  BY <1>1 DEF Inv, OwnerInv
<1>5. \A p \in Phases : run.pc = p => run.call.obj \in Category(p)
  BY <1>1 DEF Inv, StepInv
<1>6. run.pc = "create" => /\ run.at \in Tables /\ run.fail[run.at] = ""
                           /\ run.call.obj = <<"table", run.at>>
  BY <1>1 DEF Inv, StepInv
<1>7. run.pc # "create" => run.call.obj[1] # "table"
  BY <1>4, <1>5, CategoryObjects DEF Phases
<1> QED BY <1>1, <1>3, <1>4, <1>5, <1>6, <1>7

(* The statement: it rebuilds the table whose turn it is, or adds an object. *)
LEMMA ApplyFacts ==
    ASSUME Inv, NEW o \in Objects, NEW effect \in {"none", "half", "full"}, Apply(o, effect)
    PROVE  /\ DOMAIN tab' = Tables
           /\ \A t \in Tables : tab'[t] \in [there : BOOLEAN, copied : [1 .. Size[t] -> Nat]]
           /\ \A t \in Tables : o # <<"table", t>> => tab'[t] = tab[t]
           /\ objs' \in SUBSET Objects
           /\ o[1] = "table" => objs' \subseteq objs
           /\ o[1] # "table" => tab' = tab /\ objs \subseteq objs'
           /\ effect = "full" => There(o)'
           /\ \A t \in Tables : effect = "full" /\ o = <<"table", t>> => Fresh(t)'
<1>0. /\ DOMAIN tab = Tables /\ objs \in SUBSET Objects
      /\ \A t \in Tables : tab[t] \in [there : BOOLEAN, copied : [1 .. Size[t] -> Nat]]
  BY DEF Inv, TypeInv
<1>1. CASE effect = "none"
  BY <1>0, <1>1 DEF Apply
<1>2. CASE effect # "none" /\ o[1] = "table"
  <2>1. o[2] \in Tables /\ o = <<"table", o[2]>>
    BY <1>2, ObjectKinds
  <2> DEFINE t == o[2]
             v == [there |-> effect = "full", copied |-> [i \in 1 .. Size[t] |-> 0]]
  <2>2. v \in [there : BOOLEAN, copied : [1 .. Size[t] -> Nat]]
    OBVIOUS
  <2>3. v.there = (effect = "full") /\ \A i \in 1 .. Size[t] : v.copied[i] = 0
    OBVIOUS
  <2>4. tab' = [tab EXCEPT ![t] = v] /\ objs' = objs \ CutBy(t)
    BY <1>2 DEF Apply
  <2> HIDE DEF v
  <2>5. DOMAIN tab' = Tables /\ tab'[t] = v /\ \A u \in Tables : u # t => tab'[u] = tab[u]
    BY <1>0, <2>1, <2>4
  <2>6. \A u \in Tables : tab'[u] \in [there : BOOLEAN, copied : [1 .. Size[u] -> Nat]]
    BY <1>0, <2>2, <2>5
  <2>7. \A u \in Tables : o # <<"table", u>> => tab'[u] = tab[u]
    BY <2>1, <2>5
  <2>8. effect = "full" => tab'[t].there /\ \A i \in 1 .. Size[t] : tab'[t].copied[i] = 0
    BY <2>3, <2>5
  <2>9. objs' \in SUBSET Objects /\ objs' \subseteq objs
    BY <1>0, <2>4
  <2>10. effect = "full" => There(o)'
    BY <1>2, <2>8 DEF There
  <2>11. \A u \in Tables : effect = "full" /\ o = <<"table", u>> => Fresh(u)'
    BY <2>1, <2>8 DEF Fresh
  <2> QED BY <1>2, <2>5, <2>6, <2>7, <2>9, <2>10, <2>11
<1>3. CASE effect # "none" /\ o[1] # "table"
  <2>1. tab' = tab /\ objs' = objs \cup {o}
    BY <1>3 DEF Apply
  <2> QED BY <1>0, <1>3, <2>1 DEF There
<1> QED BY <1>1, <1>2, <1>3

(* The object of a statement was saved as running before it is touched. *)
LEMMA CallExecInv == ASSUME Inv, CallExec PROVE Inv'
<1>o. PICK o : o = run.call.obj
  OBVIOUS
<1>p. PICK at : at = run.at
  OBVIOUS
<1>0. /\ run \in Runs /\ loop.pc = "run" /\ JobKeeps /\ run.call.pc = "exec"
      /\ UNCHANGED <<jobs, lock, work, mem, stored>> /\ touched' = touched \cup {o}
  BY <1>o DEF Inv, TypeInv, CallExec, manifest
<1>1. PICK end \in {"ok", "error", "task"}, effect \in {"none", "half", "full"} :
         /\ end = "ok" => effect = "full"
         /\ Apply(o, effect)
         /\ run' = [run EXCEPT !.call.pc = "record", !.call.res = end]
  BY <1>o DEF CallExec, EndsUnder, Ends
<1>2. /\ run.call # NoCall /\ o \in Objects
      /\ run.call \in [obj : Objects, pc : {"exec", "record"}, res : {"", "ok", "error", "task"}]
      /\ run.pc \in {"create", "keys", "fks", "views"}
      /\ run.pc = "create" => at \in Tables /\ run.fail[at] = "" /\ o = <<"table", at>>
      /\ \A p \in Phases : run.pc = p => o \in Category(p)
      /\ run.pc # "create" => o[1] # "table"
  BY <1>o, <1>p, <1>0, CallInFlight
<1>3. /\ run' \in Runs /\ run'.pc = run.pc /\ run'.strategy = run.strategy
      /\ run'.stop = run.stop /\ run'.sink = run.sink /\ run'.failed = run.failed
      /\ run'.fail = run.fail /\ run'.at = at /\ run'.todo = run.todo
      /\ run'.counted = run.counted
      /\ run'.call.obj = o /\ run'.call.pc = "record" /\ run'.call.res = end /\ run'.call # NoCall
  <2>1. [run.call EXCEPT !.pc = "record", !.res = end] \in Calls
    BY <1>2 DEF Calls
  <2>2. run' = [run EXCEPT !.call = [run.call EXCEPT !.pc = "record", !.res = end]]
    BY <1>0, <1>1, <1>2 DEF Runs
  <2> DEFINE c == [run.call EXCEPT !.pc = "record", !.res = end]
  <2>3. c.obj = o /\ c.pc = "record" /\ c.res = end
    BY <1>o, <1>2
  <2>4. c # NoCall
    BY <2>3 DEF NoCall
  <2> HIDE DEF c
  <2>5. run' = [run EXCEPT !.call = c] /\ c \in Calls
    BY <2>1, <2>2 DEF c
  <2>6. /\ run' \in Runs /\ run'.pc = run.pc /\ run'.strategy = run.strategy
        /\ run'.stop = run.stop /\ run'.sink = run.sink /\ run'.failed = run.failed
        /\ run'.fail = run.fail /\ run'.at = at /\ run'.todo = run.todo
        /\ run'.counted = run.counted /\ run'.call = c
    BY <1>p, <1>0, <2>5 DEF Runs
  <2> QED BY <2>3, <2>4, <2>6
<1>4. /\ DOMAIN tab' = Tables
      /\ \A t \in Tables : tab'[t] \in [there : BOOLEAN, copied : [1 .. Size[t] -> Nat]]
      /\ \A t \in Tables : o # <<"table", t>> => tab'[t] = tab[t]
      /\ objs' \in SUBSET Objects
      /\ o[1] = "table" => objs' \subseteq objs
      /\ o[1] # "table" => tab' = tab /\ objs \subseteq objs'
      /\ end = "ok" => There(o)'
      /\ \A t \in Tables : end = "ok" /\ o = <<"table", t>> => Fresh(t)'
  BY <1>1, <1>2, ApplyFacts
<1>5. TypeInv'
  BY <1>0, <1>2, <1>3, <1>4 DEF Inv, TypeInv, JobKeeps
<1>6. LateInv' /\ OwnerInv'
  <2>1. jobs' \in [1 .. Rows -> JobStates]
    BY <1>0 DEF Inv, TypeInv
  <2> QED BY <1>0, <1>2, <1>3, <2>1, OwnerStep DEF Owning, Steps
<1>7. StepInv'
  <2>1. \A t \in Tables : run'.counted[t] = ""
    <3>1. run.pc \in Early \cup Post \cup {"create", "copy"}
      BY <1>2 DEF Post
    <3>2. \A t \in Tables : run.counted[t] = ""
      BY <3>1 DEF Inv, StepInv
    <3> QED BY <1>3, <3>2
  <2>2. \A p \in Phases : run'.pc = p => run'.todo \subseteq Category(p) /\ run'.call.obj \in Category(p)
    BY <1>2, <1>3 DEF Inv, StepInv
  <2>3. run'.pc \notin Early \cup {"close"}
    BY <1>2, <1>3 DEF Early
  <2>4. run'.pc = "create" => run'.at \in Tables /\ run'.fail[run'.at] = "" /\ run'.call.obj = <<"table", run'.at>>
    BY <1>2, <1>3
  <2> QED BY <2>1, <2>2, <2>3, <2>4 DEF StepInv
<1>8. RetainInv'
  <2>0. ASSUME run.pc = "create" PROVE o[1] = "table"
    <3>1. o = <<"table", at>>
      BY <1>2, <2>0
    <3> QED BY ONLY <3>1
  <2>1. run.pc = "create" => objs' \subseteq objs
    BY <1>4, <2>0
  <2> QED BY <1>p, <1>3, <2>1 DEF Inv, RetainInv
<1>9. RecordInv'
  <2>1. mem.obj[o] = "running" /\ stored.obj[o] = "running"
    BY <1>o, <1>2 DEF Inv, RecordInv
  <2>2. run.pc \in Keeping
    BY <1>2 DEF Keeping, Owning, Steps
  <2>3. run.pc = "create" => \A x \in Objects : x[1] # "table" =>
           mem.obj[x] = "pending" /\ stored.obj[x] = "pending"
    BY DEF Inv, RecordInv
  <2>4. ASSUME NEW x \in Objects, x # o, There(x), run.pc = "create" => x[1] = "table"
        PROVE  There(x)'
    <3>1. CASE x[1] = "table"
      <4>1. x[2] \in Tables /\ x = <<"table", x[2]>>
        BY <3>1, ObjectKinds
      <4>2. tab'[x[2]] = tab[x[2]]
        BY <1>4, <2>4, <4>1
      <4> QED BY <2>4, <3>1, <4>2 DEF There
    <3>2. CASE x[1] # "table"
      <4>1. objs \subseteq objs'
        BY <1>2, <1>4, <2>4, <3>2
      <4> QED BY <2>4, <3>2, <4>1 DEF There
    <3> QED BY <3>1, <3>2
  <2>5. \A x \in Objects :
          /\ mem.obj[x] = "succeeded" => There(x)'
          /\ mem.obj[x] \in {"pending", "blocked"} => x \notin touched'
          /\ stored.obj[x] = "succeeded" => There(x)'
          /\ stored.obj[x] \in {"pending", "blocked"} => x \notin touched'
    BY <1>0, <2>1, <2>2, <2>3, <2>4 DEF Inv, RecordInv
  <2>6. run'.call.res = "ok" => There(o)'
    BY <1>3, <1>4
  <2>7. mem' = mem /\ stored' = stored
    BY <1>0
  <2> QED BY <1>2, <1>3, <2>1, <2>3, <2>5, <2>6, <2>7 DEF RecordInv
<1>10. CopyInv'
  <2>1. CASE run.pc = "create"
    <3>1. \A t \in Tables : t # at => tab'[t] = tab[t]
      <4>1. o = <<"table", at>>
        BY <1>2, <2>1
      <4>2. \A t \in Tables : t # at => o # <<"table", t>>
        BY ONLY <4>1
      <4> QED BY <1>4, <4>2
    <3>2. \A t \in Tables : t < at => t # at
      <4>1. at \in Nat
        BY <1>2, <2>1, Constants
      <4> QED BY ONLY <4>1
    <3>3. \A t \in Tables : t < at /\ run.fail[t] = "" => Fresh(t)'
      BY <1>p, <2>1, <3>1, <3>2 DEF Inv, CopyInv, Fresh
    <3>4. end = "ok" => Fresh(at)'
      BY <1>2, <1>4, <2>1
    <3>5. \A t \in Tables : stored.data[t] # "succeeded"
      BY <2>1 DEF Inv, CopyInv
    <3> QED BY <1>0, <1>3, <2>1, <3>3, <3>4, <3>5 DEF CopyInv, Post
  <2>2. CASE run.pc # "create"
    <3>1. tab' = tab /\ run.pc \in Post
      BY <1>2, <1>4, <2>2 DEF Post
    <3> QED BY ZenonT(60), <1>0, <1>2, <1>3, <2>2, <3>1 DEF Inv, CopyInv, Whole
  <2> QED BY <2>1, <2>2
<1>11. CompleteInv'
  <2>1. run.pc \in Post => objs \subseteq objs' /\ tab' = tab
    BY <1>2, <1>4 DEF Post
  <2>2. \A p \in Phases : run.pc = p /\ Added(p) => Added(p)'
    <3>1. ASSUME NEW p \in Phases, run.pc = p, Added(p) PROVE Added(p)'
      <4>1. run.pc \in Post
        BY <3>1 DEF Phases, Post
      <4>2. Category(p)' = Category(p)
        BY DEF Category, Keys, Fks, ViewObs
      <4> QED BY <1>o, <1>2, <1>3, <2>1, <3>1, <4>1, <4>2 DEF Added
    <3> QED BY <3>1
  <2>3. run'.pc \notin {"finish", "status"} /\ run'.pc = run.pc
    BY <1>2, <1>3
  <2>4. run.pc \in Keeping /\ ~run.failed => \A t \in Tables : run.fail[t] = ""
    BY DEF Inv, CompleteInv
  <2>5. run.sink => run.stop \/ run.failed
    BY DEF Inv, CompleteInv
  <2>6. run.pc \in Post /\ ~run.failed =>
          /\ \A p \in Phases : run.pc = p => Added(p)
          /\ run.pc \notin {"read_keys", "keys"} => Keys \subseteq objs
          /\ run.pc \in {"read_views", "views", "count"} => Fks \subseteq objs
          /\ run.pc = "count" => ViewObs \subseteq objs
    BY DEF Inv, CompleteInv
  <2>7. run'.failed = run.failed /\ run'.fail = run.fail /\ run'.sink = run.sink /\ run'.stop = run.stop
    BY <1>3
  <2> QED BY <2>1, <2>2, <2>3, <2>4, <2>5, <2>6, <2>7 DEF CompleteInv
<1> QED BY <1>5, <1>6, <1>7, <1>8, <1>9, <1>10, <1>11 DEF Inv

(* The run after a table's statement, and after that of another object. *)
LEMMA AfterTable ==
    ASSUME run \in Runs, NEW t \in Tables, NEW res, NEW r, r = After(<<"table", t>>, res)
    PROVE  /\ r \in Runs /\ r.pc = run.pc /\ r.strategy = run.strategy
           /\ r.stop = run.stop /\ r.sink = run.sink
           /\ r.todo = run.todo /\ r.counted = run.counted /\ r.call = NoCall /\ r.at = run.at + 1
           /\ r.failed = (run.failed \/ res # "ok")
           /\ \A u \in Tables : r.fail[u] = IF u = t /\ res # "ok" THEN "execute" ELSE run.fail[u]
<1> DEFINE o == <<"table", t>>
           q == [run EXCEPT !.call = NoCall, !.failed = @ \/ res # "ok"]
<1>1. o[1] = "table" /\ o[2] = t
  OBVIOUS
<1>2. r = [q EXCEPT !.at = @ + 1, !.fail[t] = IF res = "ok" THEN @ ELSE "execute"]
  <2> HIDE DEF o
  <2>1. r = After(o, res)
    BY DEF o
  <2> QED BY <1>1, <2>1 DEF After
<1>3. /\ q \in Runs /\ q.pc = run.pc /\ q.strategy = run.strategy /\ q.at = run.at
      /\ q.stop = run.stop /\ q.sink = run.sink /\ q.fail = run.fail
      /\ q.todo = run.todo /\ q.counted = run.counted /\ q.call = NoCall
      /\ q.failed = (run.failed \/ res # "ok")
  BY IdleTypes DEF Runs
<1> HIDE DEF q
<1>4. q.at + 1 \in Nat \ {0}
  <2>1. q.at \in Nat \ {0}
    BY <1>3 DEF Runs
  <2> QED BY ONLY <2>1
<1> DEFINE f == [q.fail EXCEPT ![t] = IF res = "ok" THEN q.fail[t] ELSE "execute"]
<1>5. /\ f \in [Tables -> {"", "preflight", "dependency", "execute", "data"}]
      /\ \A u \in Tables : f[u] = IF u = t /\ res # "ok" THEN "execute" ELSE q.fail[u]
  <2>1. q.fail \in [Tables -> {"", "preflight", "dependency", "execute", "data"}]
    BY <1>3 DEF Runs
  <2> QED BY <2>1
<1>6. r = [q EXCEPT !.at = q.at + 1, !.fail = f]
  BY <1>2, <1>3 DEF Runs
<1> HIDE DEF f
<1>7. /\ r \in Runs /\ r.pc = q.pc /\ r.strategy = q.strategy
      /\ r.stop = q.stop /\ r.sink = q.sink /\ r.failed = q.failed
      /\ r.todo = q.todo /\ r.counted = q.counted /\ r.call = q.call /\ r.at = q.at + 1
      /\ r.fail = f
  <2>1. q \in Runs /\ f \in [Tables -> {"", "preflight", "dependency", "execute", "data"}]
    BY <1>3, <1>5
  <2> DEFINE n == q.at + 1
  <2>2. n \in Nat \ {0} /\ r = [q EXCEPT !.at = n, !.fail = f]
    BY <1>4, <1>6
  <2> HIDE DEF n
  <2>3. /\ r \in Runs /\ r.pc = q.pc /\ r.strategy = q.strategy
        /\ r.stop = q.stop /\ r.sink = q.sink /\ r.failed = q.failed
        /\ r.todo = q.todo /\ r.counted = q.counted /\ r.call = q.call /\ r.at = n
        /\ r.fail = f
    BY ONLY <2>1, <2>2 DEF Runs
  <2> QED BY <2>3 DEF n
<1> QED BY <1>3, <1>5, <1>7

(* The run after the statement of a key, a foreign key or a view. *)
LEMMA AfterOther ==
    ASSUME run \in Runs, NEW o \in Objects, o[1] # "table", NEW res, NEW r, r = After(o, res)
    PROVE  /\ r \in Runs /\ r.pc = run.pc /\ r.strategy = run.strategy
           /\ r.stop = run.stop /\ r.sink = run.sink /\ r.at = run.at /\ r.fail = run.fail
           /\ r.todo = run.todo /\ r.counted = run.counted /\ r.call = NoCall
           /\ r.failed = (run.failed \/ res # "ok")
<1> DEFINE q == [run EXCEPT !.call = NoCall, !.failed = @ \/ res # "ok"]
<1>1. /\ q \in Runs /\ q.pc = run.pc /\ q.strategy = run.strategy /\ q.at = run.at
      /\ q.stop = run.stop /\ q.sink = run.sink /\ q.fail = run.fail /\ q.vfail \in SUBSET Views
      /\ q.todo = run.todo /\ q.counted = run.counted /\ q.call = NoCall
      /\ q.failed = (run.failed \/ res # "ok")
  BY IdleTypes DEF Runs
<1>2. o[1] = "view" => o[2] \in Views
  BY ObjectKinds
<1>3. r = q \/ (o[1] = "view" /\ r = [q EXCEPT !.vfail = IF res = "ok" THEN @ ELSE @ \cup {o[2]}])
  BY DEF After
<1> HIDE DEF q
<1>4. ASSUME o[1] = "view", r = [q EXCEPT !.vfail = IF res = "ok" THEN @ ELSE @ \cup {o[2]}]
      PROVE  /\ r \in Runs /\ r.pc = q.pc /\ r.strategy = q.strategy /\ r.at = q.at
             /\ r.stop = q.stop /\ r.sink = q.sink /\ r.fail = q.fail
             /\ r.todo = q.todo /\ r.counted = q.counted /\ r.call = q.call
             /\ r.failed = q.failed
  <2> DEFINE f == IF res = "ok" THEN q.vfail ELSE q.vfail \cup {o[2]}
  <2>1. f \in SUBSET Views /\ r = [q EXCEPT !.vfail = f]
    BY <1>1, <1>2, <1>4
  <2> HIDE DEF f
  <2> QED BY ZenonT(60), <1>1, <2>1 DEF Runs
<1> QED BY <1>1, <1>3, <1>4

(* A run that ends with a failure claims nothing either. *)
LEMMA RunFailed ==
    ASSUME Inv, run' \in Runs, run'.pc = "finish", run'.call = NoCall, run'.failed = TRUE,
           \A t \in Tables : run'.counted[t] = "",
           stored'.data = stored.data, UNCHANGED tab
    PROVE  StepInv' /\ CopyInv' /\ CompleteInv' /\ RetainInv'
<1> USE DEF Inv
<1>1. StepInv' /\ RetainInv'
  BY DEF StepInv, RetainInv, Early, Post, Phases
<1>2. CopyInv'
  BY DEF CopyInv, Whole, Post
<1>3. CompleteInv'
  BY DEF CompleteInv, Post
<1> QED BY <1>1, <1>2, <1>3

(* The result of a statement is recorded: succeeded only if it is on the target. *)
LEMMA CallRecordRecord ==
    ASSUME Inv, CallRecord, run'.call = NoCall, run'.pc \in {run.pc, "finish"}
    PROVE  /\ mem' \in Manifests /\ stored' \in Manifests
           /\ mem'.data = mem.data /\ stored'.data = stored.data
           /\ RecordInv'
<1>o. PICK o : o = run.call.obj
  OBVIOUS
<1>s. PICK state : state = CASE run.call.res = "ok" -> "succeeded" [] run.call.res = "error" -> "failed"
                             [] OTHER -> "unknown"
  OBVIOUS
<1>1. /\ state \in {"succeeded", "failed", "unknown"}
      /\ state = "succeeded" => run.call.res = "ok"
  BY <1>s
<1>2. /\ mem' = [mem EXCEPT !.obj[o] = state]
      /\ stored' = [stored EXCEPT !.obj[o] = state] \/ stored' = stored
  BY <1>o, <1>s DEF CallRecord
<1>3. /\ run.call # NoCall /\ o \in Objects /\ run.pc \in {"create", "keys", "fks", "views"}
      /\ run.pc = "create" => o[1] = "table"
  <2>1. run.call.pc = "record"
    BY DEF CallRecord
  <2>2. /\ run.call # NoCall /\ o \in Objects /\ run.pc \in {"create", "keys", "fks", "views"}
        /\ run.pc = "create" => o = <<"table", run.at>>
    BY <1>o, <2>1, CallInFlight
  <2>3. ASSUME run.pc = "create" PROVE o[1] = "table"
    <3>1. PICK at : o = <<"table", at>>
      BY <2>2, <2>3
    <3> QED BY ONLY <3>1
  <2> QED BY <2>2, <2>3
<1>4. mem \in Manifests /\ stored \in Manifests
  BY DEF Inv, TypeInv
<1>5. /\ mem' \in Manifests /\ mem'.obj[o] = state /\ mem'.data = mem.data
      /\ \A x \in Objects : x # o => mem'.obj[x] = mem.obj[x]
  BY <1>1, <1>2, <1>3, <1>4 DEF Manifests
<1>6. /\ stored' \in Manifests /\ stored'.obj[o] \in {state, stored.obj[o]} /\ stored'.data = stored.data
      /\ \A x \in Objects : x # o => stored'.obj[x] = stored.obj[x]
  <2>1. CASE stored' = [stored EXCEPT !.obj[o] = state]
    BY <1>1, <1>3, <1>4, <2>1 DEF Manifests
  <2>2. CASE stored' = stored
    BY <1>4, <2>2
  <2> QED BY <1>2, <2>1, <2>2
<1>7. UNCHANGED <<tab, objs, touched>>
  BY DEF CallRecord, target
<1>8. run.pc \in Keeping /\ run'.pc \in Keeping
  BY <1>3 DEF Keeping, Owning, Steps
<1>9. state = "succeeded" => There(o)
  BY <1>o, <1>1 DEF Inv, RecordInv, CallRecord
<1>10. \A x \in Objects :
          /\ mem'.obj[x] = "succeeded" => There(x)'
          /\ mem'.obj[x] \in {"pending", "blocked"} => x \notin touched'
          /\ stored'.obj[x] = "succeeded" => There(x)'
          /\ stored'.obj[x] \in {"pending", "blocked"} => x \notin touched'
  <2>1. \A x \in Objects :
          /\ mem.obj[x] = "succeeded" => There(x)
          /\ mem.obj[x] \in {"pending", "blocked"} => x \notin touched
          /\ stored.obj[x] = "succeeded" => There(x)
          /\ stored.obj[x] \in {"pending", "blocked"} => x \notin touched
    BY <1>8 DEF Inv, RecordInv
  <2>2. \A x \in Objects : There(x)' = There(x)
    BY <1>7 DEF There
  <2>3. stored.obj[o] = "running"
    BY <1>o, <1>3 DEF Inv, RecordInv
  <2> QED BY <1>1, <1>3, <1>5, <1>6, <1>7, <1>9, <2>1, <2>2, <2>3
<1>11. run'.pc \in {"plan", "create"} => \A x \in Objects :
          x[1] # "table" => mem'.obj[x] = "pending" /\ stored'.obj[x] = "pending"
  <2>1. run'.pc \in {"plan", "create"} => run.pc = "create"
    BY <1>3
  <2>2. run.pc = "create" => \A x \in Objects :
          x[1] # "table" => mem.obj[x] = "pending" /\ stored.obj[x] = "pending"
    BY DEF Inv, RecordInv
  <2> QED BY <1>3, <1>5, <1>6, <2>1, <2>2
<1>12. run'.call.pc # "record"
  BY IdleValues
<1>13. RecordInv'
  BY <1>8, <1>10, <1>11, <1>12 DEF RecordInv
<1> QED BY <1>5, <1>6, <1>13

(* The outcome of a statement is recorded, or the run is stopped. *)
LEMMA CallRecordInv == ASSUME Inv, CallRecord PROVE Inv'
<1>o. PICK o : o = run.call.obj
  OBVIOUS
<1>p. PICK at : at = run.at
  OBVIOUS
<1>e. PICK res : res = run.call.res
  OBVIOUS
<1>0. /\ run \in Runs /\ loop.pc = "run" /\ JobKeeps /\ run.call.pc = "record"
      /\ UNCHANGED <<jobs, lock, work, tab, objs, touched>>
      /\ jobs' \in [1 .. Rows -> JobStates]
  BY DEF Inv, TypeInv, CallRecord, target
<1>1. /\ run.call # NoCall /\ o \in Objects
      /\ run.pc \in {"create", "keys", "fks", "views"}
      /\ run.pc = "create" => at \in Tables /\ run.fail[at] = "" /\ o = <<"table", at>>
      /\ run.pc # "create" => o[1] # "table"
  BY <1>o, <1>p, <1>0, CallInFlight
<1>2. \/ run' = [run EXCEPT !.pc = "finish", !.call = NoCall, !.stop = TRUE, !.sink = @]
      \/ run' = [run EXCEPT !.pc = "finish", !.call = NoCall, !.stop = TRUE, !.sink = TRUE]
      \/ res = "ok" /\ run' = After(o, res)
      \/ res = "error" /\ o[1] # "table" /\ run' = After(o, res)
      \/ res = "error" /\ o[1] = "table" /\ \E end \in {"ok", "task"} : Protect(After(o, res), Completed, end)
  <2>1. \/ res = "task" /\ run' = [run EXCEPT !.pc = "finish", !.call = NoCall, !.stop = TRUE,
                                              !.sink = @ \/ FALSE]
        \/ run' = [run EXCEPT !.pc = "finish", !.call = NoCall, !.stop = TRUE, !.sink = @ \/ TRUE]
        \/ res = "ok" /\ run' = After(o, res)
        \/ res = "error" /\ o[1] # "table" /\ run' = After(o, res)
        \/ res = "error" /\ o[1] = "table" /\ \E end \in {"ok", "task"} : Protect(After(o, res), Completed, end)
    BY <1>o, <1>e DEF CallRecord
  <2>2. run.sink \in BOOLEAN
    BY <1>0 DEF Runs
  <2> QED BY <2>1, <2>2
<1>3. /\ \A t \in Tables : run.counted[t] = ""
      /\ run.pc = "create" => \A t \in Tables : work[t] = Idle
      /\ run.sink => run.stop \/ run.failed
      /\ ~run.failed => \A t \in Tables : run.fail[t] = ""
      /\ at \in Nat
  <2>1. run.pc \in Post \cup {"create"} /\ run.pc \in Keeping
    BY <1>1 DEF Post, Keeping, Owning, Steps
  <2>2. \A t \in Tables : run.counted[t] = ""
    BY <2>1 DEF Inv, StepInv
  <2>3. run.pc = "create" => \A t \in Tables : work[t] = Idle
    BY DEF Inv, OwnerInv
  <2>4. (run.sink => run.stop \/ run.failed) /\ (~run.failed => \A t \in Tables : run.fail[t] = "")
    BY <2>1 DEF Inv, CompleteInv
  <2>5. at \in Nat \ {0}
    BY <1>0, <1>p DEF Runs
  <2> QED BY <2>2, <2>3, <2>4, <2>5
<1>4. ASSUME run' \in Runs, run'.call = NoCall, run'.pc \in {run.pc, "finish"},
             StepInv' /\ CopyInv' /\ CompleteInv' /\ RetainInv'
      PROVE  Inv'
  <2>1. mem' \in Manifests /\ stored' \in Manifests /\ RecordInv'
    BY <1>4, CallRecordRecord
  <2>2. TypeInv'
    BY <1>0, <1>4, <2>1, OwnerTypes DEF Inv
  <2>3. LateInv' /\ OwnerInv'
    BY <1>0, <1>1, <1>4, OwnerStep DEF Owning, Steps, Early
  <2> QED BY <1>4, <2>1, <2>2, <2>3 DEF Inv
<1>5. ASSUME NEW sink \in BOOLEAN,
             run' = [run EXCEPT !.pc = "finish", !.call = NoCall, !.stop = TRUE, !.sink = sink]
      PROVE  Inv'
  <2>1. /\ run' \in Runs /\ run'.pc = "finish" /\ run'.call = NoCall /\ run'.stop = TRUE
        /\ run'.fail = run.fail /\ run'.failed = run.failed /\ run'.counted = run.counted
    BY <1>0, <1>5, IdleTypes DEF Runs, Steps
  <2>2. Stopped'
    BY <2>1 DEF Stopped
  <2>3. stored'.data = stored.data
    BY <2>1, CallRecordRecord
  <2>4. run.pc \in Post \cup {"plan", "create", "copy"}
    BY <1>1 DEF Post
  <2>5. StepInv' /\ CopyInv' /\ CompleteInv' /\ RetainInv'
    BY <1>0, <2>1, <2>2, <2>3, <2>4, RunStopped
  <2> QED BY <1>4, <2>1, <2>5
<1>6. ASSUME o[1] # "table", run' = After(o, res) PROVE Inv'
  <2>1. /\ run' \in Runs /\ run'.pc = run.pc
        /\ run'.stop = run.stop /\ run'.sink = run.sink /\ run'.at = run.at /\ run'.fail = run.fail
        /\ run'.todo = run.todo /\ run'.counted = run.counted /\ run'.call = NoCall
        /\ run'.failed = (run.failed \/ res # "ok")
    <3>1. PICK r : r = After(o, res)
      OBVIOUS
    <3>2. /\ r \in Runs /\ r.pc = run.pc
          /\ r.stop = run.stop /\ r.sink = run.sink /\ r.at = run.at /\ r.fail = run.fail
          /\ r.todo = run.todo /\ r.counted = run.counted /\ r.call = NoCall
          /\ r.failed = (run.failed \/ res # "ok")
      <4>1. run \in Runs /\ o \in Objects /\ o[1] # "table"
        BY <1>0, <1>1, <1>6
      <4> QED BY ONLY <3>1, <4>1, AfterOther
    <3>3. run' = r
      BY <1>6, <3>1
    <3> QED BY <3>2, <3>3
  <2>2. run.pc \in {"keys", "fks", "views"}
    <3>1. ASSUME run.pc = "create" PROVE FALSE
      <4>1. o = <<"table", at>>
        BY <1>1, <3>1
      <4>2. o[1] = "table"
        BY ONLY <4>1
      <4> QED BY <1>6, <4>2
    <3> QED BY <1>1, <3>1
  <2>3. stored'.data = stored.data
    BY <2>1, CallRecordRecord
  <2>4. StepInv'
    BY <1>3, <2>1, <2>2 DEF Inv, StepInv, Early
  <2>5. CopyInv'
    <3>1. \A t \in Tables : run.fail[t] = "" => Whole(t)
      BY <2>2 DEF Inv, CopyInv, Post
    <3>2. \A t \in Tables : stored.data[t] = "succeeded" => Whole(t)
      BY DEF Inv, CopyInv
    <3>3. \A t \in Tables : Whole(t)' <=> Whole(t)
      BY <1>0 DEF Whole
    <3> QED BY <2>1, <2>2, <2>3, <3>1, <3>2, <3>3 DEF CopyInv
  <2>6. CompleteInv'
    <3>1. ~run'.failed => ~run.failed /\ o \in objs
      <4>1. res = "ok" => There(o)
        BY <1>o, <1>e, <1>0 DEF Inv, RecordInv
      <4> QED BY <1>6, <2>1, <4>1 DEF There
    <3>2. run.pc \in Post /\ run'.pc \notin {"finish", "status"}
      BY <2>1, <2>2 DEF Post
    <3>3. ~run.failed => \A p \in Phases : run.pc = p => Added(p)
      BY <3>2 DEF Inv, CompleteInv
    <3>4. ~run.failed =>
            /\ run.pc \notin {"read_keys", "keys"} => Keys \subseteq objs
            /\ run.pc \in {"read_views", "views", "count"} => Fks \subseteq objs
            /\ run.pc = "count" => ViewObs \subseteq objs
      BY <3>2 DEF Inv, CompleteInv
    <3>5. ASSUME NEW p \in Phases, ~run'.failed, run.pc = p PROVE Added(p)'
      <4>1. Added(p) /\ o \in objs
        BY <3>1, <3>3, <3>5
      <4>2. Category(p)' = Category(p)
        BY DEF Category, Keys, Fks, ViewObs
      <4> QED BY <1>o, <1>0, <2>1, <4>1, <4>2 DEF Added
    <3>6. run'.sink => run'.stop \/ run'.failed
      BY <1>3, <2>1
    <3>7. ~run'.failed => \A t \in Tables : run'.fail[t] = ""
      BY <1>3, <2>1
    <3> QED BY <1>0, <2>1, <3>1, <3>2, <3>4, <3>5, <3>6, <3>7 DEF CompleteInv
  <2>7. RetainInv'
    BY <2>1, <2>2 DEF RetainInv
  <2> QED BY <1>4, <2>1, <2>4, <2>5, <2>6, <2>7
<1>7. ASSUME o[1] = "table", res = "ok", run' = After(o, res) PROVE Inv'
  <2>0. run.pc = "create" /\ at \in Tables /\ o = <<"table", at>>
    BY <1>1, <1>7
  <2>1. /\ run' \in Runs /\ run'.pc = run.pc
        /\ run'.stop = run.stop /\ run'.sink = run.sink
        /\ run'.counted = run.counted /\ run'.call = NoCall /\ run'.at = run.at + 1
        /\ run'.failed = (run.failed \/ res # "ok")
        /\ \A u \in Tables : run'.fail[u] = IF u = at /\ res # "ok" THEN "execute" ELSE run.fail[u]
    BY <1>0, <1>7, <2>0, AfterTable
  <2>2. /\ run'.at = at + 1 /\ (run'.failed <=> run.failed) /\ run'.pc = "create"
        /\ \A u \in Tables : run'.fail[u] = run.fail[u]
    BY <1>p, <1>7, <2>0, <2>1
  <2>3. stored'.data = stored.data
    BY <2>1, CallRecordRecord
  <2>4. StepInv'
    BY <1>3, <2>1, <2>2 DEF StepInv, Early, Phases
  <2>5. CopyInv'
    <3>1. \A t \in Tables : t < at /\ run.fail[t] = "" => Fresh(t)
      BY <1>p, <2>0 DEF Inv, CopyInv
    <3>2. Fresh(at)
      BY <1>p, <1>e, <1>0, <1>7, <2>0 DEF Inv, CopyInv
    <3>3. \A t \in Tables : t < at + 1 => t < at \/ t = at
      <4>1. at \in Nat /\ \A t \in Tables : t \in Nat
        BY <1>3, Constants
      <4> QED BY ONLY <4>1
    <3>4. \A t \in Tables : t < run'.at /\ run'.fail[t] = "" => Fresh(t)'
      BY <1>0, <2>2, <3>1, <3>2, <3>3 DEF Fresh
    <3>5. \A t \in Tables : stored.data[t] # "succeeded"
      BY <2>0 DEF Inv, CopyInv
    <3>6. run'.call.pc # "record"
      BY <2>1, IdleValues
    <3> QED BY <2>2, <2>3, <3>4, <3>5, <3>6 DEF CopyInv, Post
  <2>6. CompleteInv'
    BY <1>3, <2>1, <2>2 DEF CompleteInv, Post
  <2>7. RetainInv'
    <3>1. at \in Nat /\ \A q \in Refs : q[2] \in Nat
      BY <1>3, Constants
    <3>2. \A q \in Refs : q[2] < at => q[2] < at + 1
      BY ONLY <3>1
    <3> QED BY <1>p, <1>0, <2>0, <2>2, <3>2, Constants DEF Inv, RetainInv
  <2> QED BY <1>4, <2>1, <2>4, <2>5, <2>6, <2>7
<1>8. ASSUME o[1] = "table", res = "error", NEW end, Protect(After(o, res), Completed, end) PROVE Inv'
  <2>0. run.pc = "create" /\ at \in Tables /\ o = <<"table", at>>
    BY <1>1, <1>8
  <2>r. PICK r : r = After(o, res)
    OBVIOUS
  <2>1. /\ r \in Runs /\ r.pc = "create" /\ r.sink = run.sink
        /\ r.counted = run.counted /\ r.call = NoCall /\ r.at = at + 1
        /\ r.failed = TRUE
        /\ \A u \in Tables : r.fail[u] = IF u = at THEN "execute" ELSE run.fail[u]
    <3>1. /\ r \in Runs /\ r.pc = run.pc /\ r.sink = run.sink
          /\ r.counted = run.counted /\ r.call = NoCall /\ r.at = run.at + 1
          /\ r.failed = (run.failed \/ res # "ok")
          /\ \A u \in Tables : r.fail[u] = IF u = at /\ res # "ok" THEN "execute" ELSE run.fail[u]
      BY <1>0, <2>0, <2>r, AfterTable
    <3> QED BY <1>p, <1>8, <2>0, <3>1
  <2>d. PICK done : done = Completed
    OBVIOUS
  <2>2. /\ done \in SUBSET Tables /\ \A t \in done : t < at
        /\ Protect(r, done, end)
    BY <1>p, <1>8, <2>r, <2>d DEF Completed
  <2>3. CASE run' = [r EXCEPT !.pc = "finish", !.stop = TRUE]
    <3>1. /\ run' \in Runs /\ run'.pc = "finish" /\ run'.call = NoCall /\ run'.failed = TRUE
          /\ run'.counted = run.counted
      BY <2>1, <2>3 DEF Runs, Steps
    <3>2. stored'.data = stored.data
      BY <3>1, CallRecordRecord
    <3>3. StepInv' /\ CopyInv' /\ CompleteInv' /\ RetainInv'
      BY <1>0, <1>3, <3>1, <3>2, RunFailed
    <3> QED BY <1>4, <3>1, <3>3
  <2>4. CASE /\ run' \in Runs /\ run'.pc = r.pc /\ run'.sink = r.sink /\ run'.failed = r.failed
             /\ run'.at = r.at /\ run'.counted = r.counted /\ run'.call = r.call
             /\ \A t \in Tables : r.fail[t] # "" => run'.fail[t] = r.fail[t]
             /\ \A q \in Refs : <<"fk", q>> \in objs /\ run'.fail[q[1]] # ""
                                    => run'.fail[q[2]] # "" \/ q[2] \in done
    <3>1. /\ run' \in Runs /\ run'.pc = "create" /\ run'.failed = TRUE /\ run'.at = at + 1
          /\ run'.counted = run.counted /\ run'.call = NoCall
      BY <2>1, <2>4
    <3>2. stored'.data = stored.data
      BY <2>0, <3>1, CallRecordRecord
    <3>3. StepInv'
      BY <1>3, <3>1 DEF StepInv, Early, Phases
    <3>4. CopyInv'
      <4>1. \A t \in Tables : t < at /\ run.fail[t] = "" => Fresh(t)
        BY <1>p, <2>0 DEF Inv, CopyInv
      <4>2. \A t \in Tables : run'.fail[t] = "" => t # at /\ run.fail[t] = ""
        BY <2>1, <2>4
      <4>3. \A t \in Tables : t < at + 1 => t < at \/ t = at
        <5>1. at \in Nat /\ \A t \in Tables : t \in Nat
          BY <1>3, Constants
        <5> QED BY ONLY <5>1
      <4>4. \A t \in Tables : t < run'.at /\ run'.fail[t] = "" => Fresh(t)'
        BY <1>0, <3>1, <4>1, <4>2, <4>3 DEF Fresh
      <4>5. \A t \in Tables : stored.data[t] # "succeeded"
        BY <2>0 DEF Inv, CopyInv
      <4>6. run'.call.pc # "record"
        BY <3>1, IdleValues
      <4> QED BY <3>1, <3>2, <4>4, <4>5, <4>6 DEF CopyInv, Post
    <3>5. CompleteInv'
      BY <3>1 DEF CompleteInv, Post
    <3>6. RetainInv'
      <4>1. at \in Nat /\ \A q \in Refs : q[2] \in Nat
        BY <1>3, Constants
      <4>2. \A q \in Refs : q[2] < at => q[2] < at + 1
        BY ONLY <4>1
      <4> QED BY <1>0, <2>2, <2>4, <3>1, <4>2 DEF RetainInv
    <3> QED BY <1>4, <2>0, <3>1, <3>3, <3>4, <3>5, <3>6
  <2> QED BY <2>1, <2>2, <2>3, <2>4, ProtectFacts
<1> QED BY <1>0, <1>2, <1>5, <1>6, <1>7, <1>8 DEF Runs

(* ---- the copy of the rows ------------------------------------------------------ *)

(* Lanes that hold each of the rows 1 .. n once. *)
Partition(s, n) ==
    /\ s \in Seq(LaneSet)
    /\ \A k \in 1 .. Len(s) : s[k].from <= s[k].to + 1 /\ s[k].to <= n
    /\ \A j, k \in 1 .. Len(s) : j < k => InOrder(s[j], s[k])
    /\ \A i \in 1 .. n : \E k \in 1 .. Len(s) : s[k].from <= i /\ i <= s[k].to

(* What integer division gives. *)
LEMMA DivFacts ==
    ASSUME NEW a \in Nat, NEW b \in Nat, b > 0
    PROVE  a \div b \in Nat /\ (a \div b) * b <= a /\ a < (a \div b) * b + b
  OBVIOUS

(* Consecutive lanes of a positive width are a partition. *)
LEMMA SplitPartition ==
    ASSUME NEW n \in Nat, NEW w \in Nat, w > 0
    PROVE  Partition(Split(n, w), n)
<1> DEFINE K == (n + w - 1) \div w
           s == [k \in 1 .. K |-> [from |-> (k - 1) * w + 1, to |-> Least(k * w, n)]]
<1>1. K \in Nat /\ K * w <= n + w - 1 /\ n + w - 1 < K * w + w
  <2>1. n + w - 1 \in Nat
    OBVIOUS
  <2> QED BY <2>1, DivFacts
<1>2. Split(n, w) = s
  BY DEF Split, CeilDiv
<1> HIDE DEF K
<1>3. \A k \in 1 .. K : /\ (k - 1) * w \in Nat /\ k * w \in Nat /\ k * w = (k - 1) * w + w
                        /\ (k - 1) * w < n
  <2>1. ASSUME NEW k \in 1 .. K
        PROVE  /\ (k - 1) * w \in Nat /\ k * w \in Nat /\ k * w = (k - 1) * w + w
               /\ (k - 1) * w < n
    <3>1. k \in Nat /\ k - 1 \in Nat /\ k <= K
      BY <1>1
    <3>2. k * w <= K * w
      BY ONLY <3>1, <1>1, k \in Nat, w \in Nat
    <3>3. k * w = (k - 1) * w + w
      BY ONLY <3>1, w \in Nat
    <3>4. (k - 1) * w \in Nat /\ k * w \in Nat
      BY ONLY <3>1, w \in Nat
    <3> QED BY <1>1, <3>2, <3>3, <3>4
  <2> QED BY <2>1
<1>4. \A k \in 1 .. K : /\ Least(k * w, n) \in Nat /\ Least(k * w, n) <= n /\ Least(k * w, n) <= k * w
                        /\ \A i \in Nat : i <= n /\ i <= k * w => i <= Least(k * w, n)
                        /\ (k - 1) * w + 1 <= Least(k * w, n)
  BY <1>3 DEF Least
<1>5. /\ Len(s) = K /\ s \in Seq(LaneSet)
      /\ \A k \in 1 .. K : s[k].from = (k - 1) * w + 1 /\ s[k].to = Least(k * w, n)
  <2>1. \A k \in 1 .. K : [from |-> (k - 1) * w + 1, to |-> Least(k * w, n)] \in LaneSet
    BY <1>3, <1>4 DEF LaneSet
  <2>2. s \in [1 .. K -> LaneSet]
    BY <2>1
  <2> QED BY <1>1, <2>2
<1> HIDE DEF s
<1>6. \A k \in 1 .. K : s[k].from <= s[k].to + 1 /\ s[k].to <= n
  BY <1>3, <1>4, <1>5
<1>7. \A j, k \in 1 .. K : j < k => InOrder(s[j], s[k])
  <2>1. ASSUME NEW j \in 1 .. K, NEW k \in 1 .. K, j < k PROVE s[j].to < s[k].from
    <3>1. j * w <= (k - 1) * w
      <4>1. j \in Nat /\ k - 1 \in Nat /\ j <= k - 1
        BY <1>1, <2>1
      <4> QED BY ONLY <4>1, w \in Nat
    <3>2. s[j].to <= j * w /\ s[k].from = (k - 1) * w + 1 /\ s[j].to \in Nat /\ j * w \in Nat /\ (k - 1) * w \in Nat
      BY <1>3, <1>4, <1>5
    <3> QED BY ONLY <3>1, <3>2
  <2> QED BY <2>1 DEF InOrder
<1>8. \A i \in 1 .. n : \E k \in 1 .. K : s[k].from <= i /\ i <= s[k].to
  <2>1. ASSUME NEW i \in 1 .. n PROVE \E k \in 1 .. K : s[k].from <= i /\ i <= s[k].to
    <3> DEFINE q == (i - 1) \div w
    <3>1. q \in Nat /\ q * w <= i - 1 /\ i - 1 < q * w + w
      <4>1. i - 1 \in Nat
        OBVIOUS
      <4> QED BY <4>1, DivFacts
    <3> HIDE DEF q
    <3>2. q < K
      <4>1. q * w < K * w
        BY <1>1, <3>1
      <4> QED BY ONLY <4>1, <3>1, <1>1, w \in Nat, w > 0
    <3>3. q + 1 \in 1 .. K /\ (q + 1) - 1 = q /\ (q + 1) * w = q * w + w
      BY ONLY <3>1, <3>2, <1>1, w \in Nat
    <3> DEFINE k == q + 1
    <3>4. k \in 1 .. K /\ s[k].from = q * w + 1 /\ s[k].to = Least(k * w, n) /\ k * w = q * w + w
      BY <1>5, <3>3
    <3> HIDE DEF k
    <3>5. i <= s[k].to
      BY <1>4, <3>1, <3>4
    <3> QED BY <3>1, <3>4, <3>5
  <2> QED BY <2>1
<1> QED BY <1>2, <1>5, <1>6, <1>7, <1>8 DEF Partition

(* The lanes of a table hold each of its rows once. *)
LEMMA LanesPartition ==
    ASSUME run \in Runs, NEW t \in Tables
    PROVE  Partition(Lanes(t), Size[t])
<1>1. Size[t] \in Nat /\ PageSize \in Nat /\ PageSize > 0
  BY Constants
<1>2. CASE Serial
  <2> DEFINE l == [from |-> 1, to |-> Size[t]]
  <2>1. l \in LaneSet /\ l.from = 1 /\ l.to = Size[t]
    BY <1>1 DEF LaneSet
  <2>2. Lanes(t) = <<l>>
    BY <1>2 DEF Lanes, Serial
  <2> HIDE DEF l
  <2>3. Len(<<l>>) = 1 /\ <<l>> \in Seq(LaneSet) /\ <<l>>[1] = l
    BY <2>1
  <2> QED BY <1>1, <2>1, <2>2, <2>3 DEF Partition, InOrder
<1>3. CASE ~Serial /\ run.strategy = "range" /\ run.parallel > 1 /\ Size[t] > 0
  <2> DEFINE w == CeilDiv(Size[t], run.parallel)
  <2>0. run.parallel \in Nat \ {0}
    BY DEF Runs
  <2>1. w \in Nat /\ w > 0
    <3>1. Size[t] + run.parallel - 1 \in Nat /\ run.parallel \in Nat /\ run.parallel > 0
      BY <1>1, <1>3, <2>0
    <3>2. w \in Nat /\ Size[t] + run.parallel - 1 < w * run.parallel + run.parallel
      BY <3>1, DivFacts DEF CeilDiv
    <3> HIDE DEF w
    <3> QED BY ONLY <1>1, <1>3, <3>1, <3>2
  <2>2. Lanes(t) = Split(Size[t], w)
    BY <1>3 DEF Lanes
  <2> HIDE DEF w
  <2> QED BY <1>1, <2>1, <2>2, SplitPartition
<1>4. CASE ~Serial /\ ~(run.strategy = "range" /\ run.parallel > 1 /\ Size[t] > 0)
  <2>1. Lanes(t) = Split(Size[t], PageSize)
    BY <1>4 DEF Lanes
  <2> QED BY <1>1, <2>1, SplitPartition
<1> QED BY <1>2, <1>3, <1>4

(* A step of the copy disturbs nothing but the table it works on. *)
LEMMA CopyStep ==
    ASSUME Inv, CopyKeeps, run.pc = "copy", run' \in Runs, run'.pc = "copy", run'.call = run.call,
           run'.counted = run.counted, run'.sink = run.sink, run.stop => run'.stop,
           run.failed => run'.failed, ~run'.failed => \A t \in Tables : run'.fail[t] = "",
           work' \in [Tables -> Works], DOMAIN tab' = Tables,
           \A t \in Tables : /\ tab'[t] \in [there : BOOLEAN, copied : [1 .. Size[t] -> Nat]]
                             /\ tab'[t].there = tab[t].there
                             /\ work'[t].active # {} => work'[t].st = "run"
                             /\ Copied(t)'
    PROVE  Inv'
<1>0. /\ JobKeeps /\ UNCHANGED <<jobs, lock, mem, stored, objs, touched>>
      /\ loop.pc = "run" /\ run.call = NoCall /\ lock = Row
  <2>1. loop.pc = "run" /\ run.call = NoCall
    BY DEF Inv, OwnerInv
  <2> QED BY <2>1, RunningRow DEF CopyKeeps, Inv, OwnerInv, manifest, Owning, Steps
<1>1. TypeInv'
  BY <1>0 DEF Inv, TypeInv, JobKeeps
<1>2. LateInv' /\ OwnerInv'
  <2>1. lock' = Row /\ lock' \in 0 .. Rows /\ jobs' \in [1 .. Rows -> JobStates]
    BY <1>0 DEF Inv, TypeInv
  <2>2. run'.pc \notin Early \cup {"create"}
    BY DEF Early
  <2> QED BY <1>0, <2>1, <2>2, BatchUntouched
<1>3. StepInv' /\ RetainInv'
  BY ZenonT(60), <1>0 DEF Inv, StepInv, RetainInv, Early, Phases
<1>4. RecordInv'
  <2>1. \A o \in Objects : There(o)' <=> There(o)
    <3>1. ASSUME NEW o \in Objects PROVE There(o)' <=> There(o)
      BY <1>0, <3>1, ObjectKinds DEF There
    <3> QED BY <3>1
  <2>2. run'.call.pc # "record"
    BY <1>0, IdleValues
  <2> QED BY <1>0, <2>1, <2>2 DEF Inv, RecordInv, Keeping, Owning, Steps
<1>5. CopyInv'
  BY <1>0 DEF Inv, CopyInv, Post
<1>6. CompleteInv'
  BY DEF Inv, CompleteInv, Post
<1> QED BY <1>1, <1>2, <1>3, <1>4, <1>5, <1>6 DEF Inv

(* A table that is not touched stays as it was. *)
LEMMA CopiedUntouched ==
    ASSUME Inv, NEW u \in Tables, Copied(u), run'.fail[u] = run.fail[u],
           work'[u] = work[u], tab'[u] = tab[u], run'.strategy = run.strategy, Stopped => Stopped'
    PROVE  Copied(u)'
<1>1. Scan' <=> Scan
  BY DEF Scan
<1>2. Cover(u)' <=> Cover(u)
  BY DEF Cover
<1>3. (Fresh(u)' <=> Fresh(u)) /\ (Whole(u)' <=> Whole(u))
  BY DEF Fresh, Whole
<1>4. (work'[u].st = "err" => run'.fail[u] # "") /\ (run'.fail[u] = "" => tab'[u].there)
  <2>1. (work[u].st = "err" => run.fail[u] # "") /\ (run.fail[u] = "" => tab[u].there)
    BY Zenon DEF Copied
  <2>2. work'[u].st = "err" => run'.fail[u] # ""
    BY <2>1
  <2>3. tab[u].there = tab'[u].there
    OBVIOUS
  <2> QED BY <2>1, <2>2, <2>3
<1>5. run'.fail[u] = "" /\ work'[u].st = "idle" => Fresh(u)'
  BY <1>3 DEF Copied
<1>6. run'.fail[u] = "" /\ work'[u].st = "run" /\ ~work'[u].bad /\ ~(Scan' /\ Stopped') => Cover(u)'
  BY <1>1, <1>2 DEF Copied
<1>7. run'.fail[u] = "" /\ work'[u].st = "ok" => Whole(u)'
  BY <1>3 DEF Copied
<1> QED BY <1>4, <1>5, <1>6, <1>7 DEF Copied

(* The fields of the run that a copy changes. *)
LEMMA StopFacts ==
    ASSUME run \in Runs, NEW b \in BOOLEAN, run' = [run EXCEPT !.stop = @ \/ b]
    PROVE  /\ run' \in Runs /\ run'.pc = run.pc /\ run'.strategy = run.strategy
           /\ run'.parallel = run.parallel /\ run'.stop = (run.stop \/ b)
           /\ run'.sink = run.sink /\ run'.failed = run.failed /\ run'.fail = run.fail
           /\ run'.counted = run.counted /\ run'.call = run.call
<1> DEFINE c == run.stop \/ b
<1>1. c \in BOOLEAN /\ run' = [run EXCEPT !.stop = c]
  OBVIOUS
<1> HIDE DEF c
<1>2. /\ run' \in Runs /\ run'.pc = run.pc /\ run'.strategy = run.strategy
      /\ run'.parallel = run.parallel /\ run'.stop = c
      /\ run'.sink = run.sink /\ run'.failed = run.failed /\ run'.fail = run.fail
      /\ run'.counted = run.counted /\ run'.call = run.call
  BY <1>1 DEF Runs
<1> QED BY <1>2 DEF c

(* A step of the copy of one table. *)
LEMMA CopyOne ==
    ASSUME Inv, CopyKeeps, run.pc = "copy", NEW t \in Tables, NEW w \in Works,
           work' = [work EXCEPT ![t] = w], w.active # {} => w.st = "run",
           run' \in Runs, run'.pc = "copy", run'.call = run.call, run'.strategy = run.strategy,
           run'.counted = run.counted, run'.sink = run.sink, run.stop => run'.stop,
           run.failed => run'.failed, ~run'.failed => run'.fail = run.fail,
           \A u \in Tables \ {t} : run'.fail[u] = run.fail[u] /\ tab'[u] = tab[u],
           DOMAIN tab' = Tables, tab'[t] \in [there : BOOLEAN, copied : [1 .. Size[t] -> Nat]],
           tab'[t].there = tab[t].there, Copied(t)'
    PROVE  Inv'
<1>1. work \in [Tables -> Works] /\ work' \in [Tables -> Works] /\ work'[t] = w
  BY DEF Inv, TypeInv
<1>2. \A u \in Tables \ {t} : work'[u] = work[u]
  BY <1>1
<1>3. Stopped => Stopped'
  BY DEF Stopped, Row, CopyKeeps, JobKeeps
<1>4. ASSUME NEW u \in Tables
      PROVE  /\ tab'[u] \in [there : BOOLEAN, copied : [1 .. Size[u] -> Nat]]
             /\ tab'[u].there = tab[u].there
             /\ work'[u].active # {} => work'[u].st = "run"
             /\ Copied(u)'
  <2>1. CASE u = t
    BY <1>1, <2>1
  <2>2. CASE u # t
    <3>1. tab'[u] = tab[u] /\ work'[u] = work[u] /\ run'.fail[u] = run.fail[u]
      BY <1>2, <2>2
    <3>2. Copied(u)
      BY DEF Inv, CopyInv
    <3>3. Copied(u)'
      BY <1>3, <3>1, <3>2, CopiedUntouched
    <3>4. tab[u] \in [there : BOOLEAN, copied : [1 .. Size[u] -> Nat]]
      BY DEF Inv, TypeInv
    <3>5. work[u].active # {} => work[u].st = "run"
      BY DEF Inv, OwnerInv
    <3> QED BY <3>1, <3>3, <3>4, <3>5
  <2> QED BY <2>1, <2>2
<1>5. ~run'.failed => \A u \in Tables : run'.fail[u] = ""
  <2>1. ~run.failed => \A u \in Tables : run.fail[u] = ""
    BY DEF Inv, CompleteInv, Keeping, Owning, Steps
  <2> QED BY ZenonT(60), <2>1
<1> QED BY <1>1, <1>4, <1>5, CopyStep

(* The dispatcher starts a table that waits. *)
LEMMA LeastWaiting ==
    ASSUME Waiting # {}
    PROVE  (CHOOSE u \in Waiting : \A w \in Waiting : u <= w) \in Waiting
<1>1. Waiting \subseteq Nat
  BY Constants DEF Waiting
<1> DEFINE R == {ss \in Nat \X Nat : ss[1] < ss[2]}
<1>2. IsWellFoundedOn(R, Nat)
  <2>1. R = OpToRel(<, Nat)
    BY Zenon DEF OpToRel
  <2> QED BY <2>1, NatLessThanWellFounded
<1>3. PICK x \in Waiting : \A y \in Waiting : x <= y
  <2>1. PICK x \in Waiting : \A y \in Waiting : ~ (<<y, x>> \in R)
    BY <1>1, <1>2, WFMin
  <2>2. \A a, c \in Nat : <<a, c>> \in Nat \X Nat /\ <<a, c>>[1] = a /\ <<a, c>>[2] = c
    OBVIOUS
  <2>3. \A y \in Waiting : ~(y < x)
    BY Zenon, <1>1, <2>1, <2>2
  <2> QED BY <1>1, <2>3
<1> QED BY <1>3

(* At the start of its copy every row of a table is in one lane. *)
LEMMA CopyTableInv == ASSUME Inv, CopyTable PROVE Inv'
<1> DEFINE T == CHOOSE u \in Waiting : \A w \in Waiting : u <= w
<1>0. /\ At("copy") /\ ~Stopped /\ Waiting # {} /\ CopyKeeps /\ UNCHANGED tab
      /\ \E end \in Ends :
            /\ work' = [work EXCEPT ![T] = [st |-> "run", active |-> {}, bad |-> end # "ok",
                                            todo |-> IF end = "ok" THEN Lanes(T) ELSE <<>>]]
            /\ run' = [run EXCEPT !.stop = @ \/ end = "task"]
  BY DEF CopyTable
<1>1. T \in Waiting
  BY <1>0, LeastWaiting
<1> HIDE DEF T
<1>2. PICK t \in Tables : t = T /\ run.fail[t] = "" /\ work[t].st = "idle"
  BY <1>1 DEF Waiting
<1>3. PICK end \in Ends :
            /\ work' = [work EXCEPT ![t] = [st |-> "run", active |-> {}, bad |-> end # "ok",
                                            todo |-> IF end = "ok" THEN Lanes(t) ELSE <<>>]]
            /\ run' = [run EXCEPT !.stop = @ \/ end = "task"]
  BY <1>0, <1>2
<1>4. /\ run \in Runs /\ run.pc = "copy" /\ run.call = NoCall
      /\ tab[t] \in [there : BOOLEAN, copied : [1 .. Size[t] -> Nat]] /\ DOMAIN tab = Tables
      /\ Fresh(t)
  BY <1>0, <1>2 DEF Inv, TypeInv, At, CopyInv, Copied
<1> DEFINE b == end = "task"
<1>5. b \in BOOLEAN /\ run' = [run EXCEPT !.stop = @ \/ b]
  BY <1>3
<1> HIDE DEF b
<1>6. /\ run' \in Runs /\ run'.pc = run.pc /\ run'.strategy = run.strategy
      /\ run'.stop = (run.stop \/ b)
      /\ run'.sink = run.sink /\ run'.failed = run.failed /\ run'.fail = run.fail
      /\ run'.counted = run.counted /\ run'.call = run.call
  BY <1>4, <1>5, StopFacts
<1>7. Partition(Lanes(t), Size[t])
  BY <1>4, LanesPartition
<1>8. PICK s \in Seq(LaneSet) : s = IF end = "ok" THEN Lanes(t) ELSE <<>>
  <2>1. Lanes(t) \in Seq(LaneSet) /\ <<>> \in Seq(LaneSet)
    BY <1>7 DEF Partition
  <2> QED BY Zenon, <2>1
<1>9. PICK bad \in BOOLEAN : bad = (end # "ok")
  OBVIOUS
<1> DEFINE w == [st |-> "run", active |-> {}, bad |-> bad, todo |-> s]
<1>10. w \in Works /\ w.st = "run" /\ w.active = {} /\ w.bad = bad /\ w.todo = s
  BY DEF Works
<1>11. work' = [work EXCEPT ![t] = w]
  BY <1>3, <1>8, <1>9
<1> HIDE DEF w
<1>12. work'[t] = w
  BY <1>11 DEF Inv, TypeInv
<1>13. ~bad => Cover(t)'
  <2> SUFFICES ASSUME ~bad PROVE Cover(t)'
    OBVIOUS
  <2>1. Partition(s, Size[t])
    BY <1>7, <1>8, <1>9
  <2>2. work'[t].todo = s /\ work'[t].active = {} /\ tab' = tab
    BY <1>0, <1>10, <1>12
  <2>3. \A i \in 1 .. Size[t] : tab[t].copied[i] = 0
    BY <1>4 DEF Fresh
  <2>4. \A i \in 1 .. Size[t] : \E k \in 1 .. Len(s) : s[k].from <= i /\ i <= s[k].to
    BY <2>1 DEF Partition
  <2>5. \A k \in 1 .. Len(s) : s[k].from <= s[k].to + 1 /\ s[k].to <= Size[t]
    BY <2>1 DEF Partition
  <2>6. \A j, k \in 1 .. Len(s) : j < k => InOrder(s[j], s[k])
    BY <2>1 DEF Partition
  <2> QED BY <2>2, <2>3, <2>4, <2>5, <2>6 DEF Cover, Covers, Open
<1>14. Copied(t)'
  <2>1. tab'[t].there
    BY <1>0, <1>4 DEF Fresh
  <2>2. work'[t].st = "run" /\ work'[t].bad = bad
    BY <1>10, <1>12
  <2> QED BY <2>1, <2>2, <1>13 DEF Copied
<1>15. \A u \in Tables \ {t} : run'.fail[u] = run.fail[u] /\ tab'[u] = tab[u]
  BY <1>0, <1>6
<1>16. DOMAIN tab' = Tables /\ tab'[t] \in [there : BOOLEAN, copied : [1 .. Size[t] -> Nat]]
       /\ tab'[t].there = tab[t].there
  BY <1>0, <1>4
<1> QED BY <1>0, <1>4, <1>6, <1>10, <1>11, <1>14, <1>15, <1>16, CopyOne

(* A lane that is started is taken from the lanes that wait. *)
LEMMA CoverTail ==
    ASSUME NEW s \in Seq(LaneSet), s # <<>>, NEW A \in SUBSET LaneSet, NEW c, NEW n, Covers(s, A, c, n)
    PROVE  Covers(Tail(s), A \cup {Head(s)}, c, n)
<1>1. /\ Len(s) \in Nat /\ Len(s) >= 1 /\ Tail(s) \in Seq(LaneSet) /\ Len(Tail(s)) = Len(s) - 1
      /\ Head(s) = s[1] /\ \A k \in 1 .. Len(s) - 1 : Tail(s)[k] = s[k + 1]
  OBVIOUS
<1> DEFINE r == Tail(s)
           h == Head(s)
<1> HIDE DEF r, h
<1>2. /\ Len(r) = Len(s) - 1 /\ h = s[1]
      /\ \A k \in 1 .. Len(r) : r[k] = s[k + 1] /\ k + 1 \in 1 .. Len(s) /\ 1 < k + 1
      /\ \A k \in 1 .. Len(s) : k = 1 \/ (k - 1 \in 1 .. Len(r) /\ r[k - 1] = s[k])
      /\ 1 \in 1 .. Len(s)
  BY <1>1 DEF r, h
<1>3. \A i \in 1 .. n : Open(i, s, A) <=> Open(i, r, A \cup {h})
  BY <1>2 DEF Open
<1>4. \A k \in 1 .. Len(r) : r[k].from <= r[k].to + 1 /\ r[k].to <= n
  BY <1>2 DEF Covers
<1>5. \A l \in A \cup {h} : l.from <= l.to + 1 /\ l.to <= n
  BY <1>2 DEF Covers
<1>6. \A j, k \in 1 .. Len(r) : j < k => InOrder(r[j], r[k])
  <2>1. ASSUME NEW j \in 1 .. Len(r), NEW k \in 1 .. Len(r), j < k PROVE InOrder(r[j], r[k])
    <3>1. j + 1 \in 1 .. Len(s) /\ k + 1 \in 1 .. Len(s) /\ j + 1 < k + 1
      BY <1>1, <1>2, <2>1
    <3>2. InOrder(s[j + 1], s[k + 1])
      BY <3>1 DEF Covers
    <3> QED BY <3>2, <1>2
  <2> QED BY <2>1
<1>7. \A l \in A \cup {h}, k \in 1 .. Len(r) : InOrder(l, r[k])
  <2>1. ASSUME NEW l \in A \cup {h}, NEW k \in 1 .. Len(r) PROVE InOrder(l, r[k])
    <3>1. k + 1 \in 1 .. Len(s) /\ 1 \in 1 .. Len(s) /\ 1 < k + 1 /\ r[k] = s[k + 1] /\ h = s[1]
      BY <1>2
    <3>2. InOrder(s[1], s[k + 1]) /\ (l \in A => InOrder(l, s[k + 1]))
      BY <3>1 DEF Covers
    <3> QED BY <3>1, <3>2
  <2> QED BY <2>1
<1>8. \A l, m \in A \cup {h} : l # m => InOrder(l, m) \/ InOrder(m, l)
  <2>1. \A l \in A : InOrder(l, h)
    BY <1>2 DEF Covers
  <2>2. \A l, m \in A : l # m => InOrder(l, m) \/ InOrder(m, l)
    BY DEF Covers
  <2> QED BY <2>1, <2>2
<1>9. \A i \in 1 .. n : c[i] = IF Open(i, r, A \cup {h}) THEN 0 ELSE 1
  BY <1>3 DEF Covers
<1> QED BY <1>4, <1>5, <1>6, <1>7, <1>8, <1>9 DEF Covers, r, h

(* A lane begins. *)
LEMMA StartLaneInv == ASSUME Inv, NEW t \in Tables, StartLane(t) PROVE Inv'
<1>0. /\ work[t].st = "run" /\ work[t].todo # <<>>
      /\ work' = [work EXCEPT ![t].todo = Tail(@), ![t].active = @ \cup {Head(work[t].todo)}]
      /\ CopyKeeps /\ run' = run /\ tab' = tab
  BY DEF StartLane
<1>1. /\ work \in [Tables -> Works] /\ run \in Runs /\ run.pc = "copy"
      /\ tab[t] \in [there : BOOLEAN, copied : [1 .. Size[t] -> Nat]] /\ DOMAIN tab = Tables
      /\ Copied(t)
  BY <1>0 DEF Inv, TypeInv, OwnerInv, CopyInv
<1> DEFINE s == Tail(work[t].todo)
           A == work[t].active \cup {Head(work[t].todo)}
           w == [work[t] EXCEPT !.todo = s, !.active = A]
<1>2. s \in Seq(LaneSet) /\ A \in SUBSET LaneSet
  BY <1>0, <1>1 DEF Works
<1>3. work' = [work EXCEPT ![t] = w]
  BY <1>0, <1>1
<1>4. Cover(t) => Covers(s, A, tab[t].copied, Size[t])
  BY <1>0, <1>1, CoverTail DEF Cover, Works
<1> HIDE DEF s, A
<1>5. w \in Works /\ w.st = "run" /\ w.todo = s /\ w.active = A /\ w.bad = work[t].bad
  BY <1>0, <1>1, <1>2 DEF Works
<1> HIDE DEF w
<1>6. work'[t] = w
  BY <1>1, <1>3
<1>7. Cover(t) => Cover(t)'
  BY <1>0, <1>4, <1>5, <1>6 DEF Cover
<1>8. (Scan' <=> Scan) /\ (Stopped' <=> Stopped)
  BY <1>0 DEF Scan, Stopped, Row, CopyKeeps, JobKeeps
<1>9. Copied(t)'
  <2>1. work'[t].st = "run" /\ work'[t].bad = work[t].bad
    BY <1>5, <1>6
  <2>2. run'.fail[t] = "" => tab'[t].there
    BY <1>0, <1>1 DEF Copied
  <2>3. run'.fail[t] = "" /\ ~work'[t].bad /\ ~(Scan' /\ Stopped') => Cover(t)'
    BY <1>0, <1>1, <1>7, <1>8, <2>1 DEF Copied
  <2> QED BY <2>1, <2>2, <2>3 DEF Copied
<1> QED BY <1>0, <1>1, <1>3, <1>5, <1>9, CopyOne

(* A page takes its rows from its lane and puts each of them on the target once. *)
LEMMA CoverPage ==
    ASSUME NEW n \in Nat, NEW s \in Seq(LaneSet), NEW A \in SUBSET LaneSet, NEW l \in A,
           NEW c \in [1 .. n -> Nat], Covers(s, A, c, n),
           NEW m \in Nat, l.from + m <= l.to + 1,
           NEW R, \/ R = {} /\ l.from + m > l.to
                  \/ R = {[l EXCEPT !.from = @ + m]},
           NEW d, \A i \in 1 .. n : d[i] = IF i \in l.from .. (l.from + m - 1) THEN c[i] + 1 ELSE c[i]
    PROVE  Covers(s, (A \ {l}) \cup R, d, n)
<1>1. l.from \in Nat /\ l.to \in Nat /\ l.from >= 1
  BY DEF LaneSet
<1>2. \A r \in R : r.from = l.from + m /\ r.to = l.to
  BY <1>1 DEF LaneSet
<1>3. \A x \in A \ {l} : x.to < l.from \/ l.to < x.from
  BY DEF Covers, InOrder
<1>4. \A k \in 1 .. Len(s) : l.to < s[k].from
  BY DEF Covers, InOrder
<1>5. /\ \A x \in A : x \in LaneSet /\ x.from \in Nat /\ x.to \in Nat
      /\ \A k \in 1 .. Len(s) : s[k].from \in Nat /\ s[k].to \in Nat
      /\ l.to <= n
  <2>1. \A x \in LaneSet : x.from \in Nat /\ x.to \in Nat
    BY DEF LaneSet
  <2>2. \A k \in 1 .. Len(s) : s[k] \in LaneSet
    OBVIOUS
  <2>3. l.to <= n
    BY DEF Covers
  <2> QED BY <2>1, <2>2, <2>3
<1> DEFINE B == (A \ {l}) \cup R
<1>6. \A x \in B : x.from <= x.to + 1 /\ x.to <= n
  BY <1>1, <1>2, <1>5 DEF Covers
<1>7. \A x \in B, k \in 1 .. Len(s) : InOrder(x, s[k])
  <2>1. \A x \in A, k \in 1 .. Len(s) : InOrder(x, s[k])
    BY DEF Covers
  <2>2. \A x \in R, k \in 1 .. Len(s) : InOrder(x, s[k])
    BY <1>2, <1>4 DEF InOrder
  <2> QED BY <2>1, <2>2
<1>8. \A x, y \in B : x # y => InOrder(x, y) \/ InOrder(y, x)
  <2>1. \A x, y \in A : x # y => InOrder(x, y) \/ InOrder(y, x)
    BY DEF Covers
  <2>2. \A x \in R, y \in A \ {l} : InOrder(x, y) \/ InOrder(y, x)
    BY <1>1, <1>2, <1>3, <1>5 DEF InOrder
  <2>3. \A x, y \in R : x = y
    OBVIOUS
  <2> QED BY <2>1, <2>2, <2>3
<1>9. ASSUME NEW i \in 1 .. n PROVE d[i] = IF Open(i, s, B) THEN 0 ELSE 1
  <2>0. c[i] = IF Open(i, s, A) THEN 0 ELSE 1
    BY DEF Covers
  <2>i. i \in Nat
    OBVIOUS
  <2>1. CASE i \in l.from .. (l.from + m - 1)
    <3>1. l.from <= i /\ i <= l.to /\ i < l.from + m
      BY <1>1, <2>1
    <3>2. Open(i, s, A)
      BY <3>1 DEF Open
    <3>3. ~Open(i, s, B)
      <4>1. \A x \in B : ~(x.from <= i /\ i <= x.to)
        BY SMTT(60), <2>i, <3>1, <1>1, <1>2, <1>3, <1>5
      <4>2. \A k \in 1 .. Len(s) : ~(s[k].from <= i /\ i <= s[k].to)
        BY <2>i, <3>1, <1>1, <1>4, <1>5
      <4> QED BY <4>1, <4>2 DEF Open
    <3> QED BY <2>0, <2>1, <3>2, <3>3
  <2>2. CASE i \notin l.from .. (l.from + m - 1)
    <3>0. i < l.from \/ l.from + m <= i
      BY <2>i, <1>1, <2>2
    <3>1. ASSUME Open(i, s, A) PROVE Open(i, s, B)
      <4>1. CASE \E k \in 1 .. Len(s) : s[k].from <= i /\ i <= s[k].to
        BY <4>1 DEF Open
      <4>2. ASSUME NEW x \in A, x.from <= i /\ i <= x.to PROVE Open(i, s, B)
        <5>1. CASE x # l
          BY <4>2, <5>1 DEF Open
        <5>2. CASE x = l
          <6>1. l.from + m <= i /\ i <= l.to
            BY <2>i, <3>0, <4>2, <5>2, <1>1
          <6>2. R # {}
            <7>1. ~(l.from + m > l.to)
              BY <2>i, <6>1, <1>1
            <7>2. [l EXCEPT !.from = @ + m] \in R
              BY <7>1
            <7> QED BY <7>2
          <6>3. PICK r \in R : TRUE
            BY <6>2
          <6> QED BY <6>1, <6>3, <1>2 DEF Open
        <5> QED BY <5>1, <5>2
      <4> QED BY <3>1, <4>1, <4>2 DEF Open
    <3>2. ASSUME Open(i, s, B) PROVE Open(i, s, A)
      <4>1. CASE \E k \in 1 .. Len(s) : s[k].from <= i /\ i <= s[k].to
        BY <4>1 DEF Open
      <4>2. ASSUME NEW x \in B, x.from <= i /\ i <= x.to PROVE Open(i, s, A)
        <5>1. CASE x \in A
          BY <4>2, <5>1 DEF Open
        <5>2. CASE x \in R
          <6>1. l.from <= i /\ i <= l.to
            BY <2>i, <4>2, <5>2, <1>1, <1>2
          <6> QED BY <6>1 DEF Open
        <5> QED BY <5>1, <5>2
      <4> QED BY <3>2, <4>1, <4>2 DEF Open
    <3>3. d[i] = c[i]
      BY <2>2
    <3> QED BY <2>0, <3>1, <3>2, <3>3
  <2> QED BY <2>1, <2>2
<1> HIDE DEF B
<1>10. Covers(s, B, d, n)
  BY <1>6, <1>7, <1>8, <1>9 DEF Covers
<1> QED BY <1>10 DEF B

(* The rows of a page that is written. *)
LEMMA WriteFacts ==
    ASSUME TypeInv, NEW t \in Tables, NEW page, NEW by \in 0 .. 1,
           tab' = [tab EXCEPT ![t].copied = [i \in DOMAIN @ |-> IF i \in page THEN @[i] + by ELSE @[i]]]
    PROVE  /\ DOMAIN tab' = Tables
           /\ tab'[t] \in [there : BOOLEAN, copied : [1 .. Size[t] -> Nat]]
           /\ tab'[t].there = tab[t].there
           /\ tab'[t].copied = [i \in 1 .. Size[t] |-> IF i \in page THEN tab[t].copied[i] + by
                                                                     ELSE tab[t].copied[i]]
           /\ \A u \in Tables \ {t} : tab'[u] = tab[u]
<1>1. DOMAIN tab = Tables /\ tab[t] \in [there : BOOLEAN, copied : [1 .. Size[t] -> Nat]]
  BY DEF TypeInv
<1> DEFINE d == [i \in 1 .. Size[t] |-> IF i \in page THEN tab[t].copied[i] + by ELSE tab[t].copied[i]]
<1>2. d \in [1 .. Size[t] -> Nat]
  <2>1. \A i \in 1 .. Size[t] : tab[t].copied[i] \in Nat
    BY <1>1
  <2>2. \A i \in 1 .. Size[t] : tab[t].copied[i] + by \in Nat
    BY <2>1
  <2> QED BY <2>1, <2>2
<1>3. DOMAIN tab[t].copied = 1 .. Size[t]
  BY <1>1
<1>4. tab' = [tab EXCEPT ![t].copied = d]
  BY <1>3
<1> HIDE DEF d
<1>5. /\ DOMAIN tab' = Tables
      /\ tab'[t] = [tab[t] EXCEPT !.copied = d]
      /\ \A u \in Tables \ {t} : tab'[u] = tab[u]
  BY <1>1, <1>4
<1>6. /\ tab'[t] \in [there : BOOLEAN, copied : [1 .. Size[t] -> Nat]]
      /\ tab'[t].there = tab[t].there /\ tab'[t].copied = d
  BY <1>1, <1>2, <1>5
<1> QED BY <1>5, <1>6 DEF d

(* A page is copied, or fails with its table. *)
LEMMA CopyPageInv == ASSUME Inv, NEW t \in Tables, NEW l \in work[t].active, CopyPage(t, l) PROVE Inv'
<1> DEFINE n == Least(PageSize, l.to - l.from + 1)
           page == l.from .. (l.from + n - 1)
           Write(by) == tab' = [tab EXCEPT ![t].copied =
                                   [i \in DOMAIN @ |-> IF i \in page THEN @[i] + by ELSE @[i]]]
           quiet == Scan /\ TableStopped(t)
<1>0. /\ CopyKeeps
      /\ \/ /\ Write(1)
            /\ work' = [work EXCEPT ![t].active = (@ \ {l}) \cup (IF quiet THEN {} ELSE Rest(l, n))]
            /\ UNCHANGED run
         \/ /\ quiet
            /\ work' = [work EXCEPT ![t].active = @ \ {l}, ![t].bad = TRUE]
            /\ UNCHANGED <<run, tab>>
         \/ \E end \in EndsUnder \ {"ok"}, by \in 0 .. 1 :
                  /\ Write(by)
                  /\ run' = [run EXCEPT !.stop = @ \/ end = "task"]
                  /\ work' = [work EXCEPT ![t].active = @ \ {l}, ![t].bad = TRUE]
  BY DEF CopyPage
<1>1. /\ work \in [Tables -> Works] /\ run \in Runs /\ TypeInv
      /\ tab[t] \in [there : BOOLEAN, copied : [1 .. Size[t] -> Nat]] /\ DOMAIN tab = Tables
  BY DEF Inv, TypeInv
<1>2. work[t].st = "run" /\ run.pc = "copy"
  BY DEF Inv, OwnerInv
<1>3. Copied(t) /\ work[t].active \in SUBSET LaneSet /\ work[t].todo \in Seq(LaneSet)
  BY <1>1, <1>2 DEF Inv, CopyInv, Works
<1>4. ASSUME NEW A \in SUBSET LaneSet, NEW bad \in BOOLEAN,
             work' = [work EXCEPT ![t].active = A, ![t].bad = bad],
             run' \in Runs, run'.pc = run.pc, run'.strategy = run.strategy, run.stop => run'.stop,
             run'.sink = run.sink, run'.failed = run.failed, run'.fail = run.fail,
             run'.counted = run.counted, run'.call = run.call,
             DOMAIN tab' = Tables, tab'[t] \in [there : BOOLEAN, copied : [1 .. Size[t] -> Nat]],
             tab'[t].there = tab[t].there, \A u \in Tables \ {t} : tab'[u] = tab[u],
             run.fail[t] = "" /\ ~bad /\ ~(Scan' /\ Stopped') => Covers(work[t].todo, A, tab'[t].copied, Size[t])
      PROVE  Inv'
  <2> DEFINE w == [work[t] EXCEPT !.active = A, !.bad = bad]
  <2>1. work' = [work EXCEPT ![t] = w]
    BY <1>1, <1>4
  <2>2. w \in Works /\ w.st = "run" /\ w.todo = work[t].todo /\ w.active = A /\ w.bad = bad
    BY <1>1, <1>2 DEF Works
  <2> HIDE DEF w
  <2>3. work'[t] = w
    BY <1>1, <2>1
  <2>4. Copied(t)'
    <3>1. work'[t].st = "run" /\ work'[t].bad = bad
      BY <2>2, <2>3
    <3>2. run'.fail[t] = "" => tab'[t].there
      <4>1. run'.fail[t] = run.fail[t] /\ tab'[t].there = tab[t].there
        BY <1>4
      <4> QED BY <1>3, <4>1 DEF Copied
    <3>3. run'.fail[t] = "" /\ ~work'[t].bad /\ ~(Scan' /\ Stopped') => Cover(t)'
      BY <1>4, <2>2, <2>3, <3>1 DEF Cover
    <3> QED BY <3>1, <3>2, <3>3 DEF Copied
  <2>5. /\ \A u \in Tables \ {t} : run'.fail[u] = run.fail[u] /\ tab'[u] = tab[u]
        /\ run'.pc = "copy" /\ (w.active # {} => w.st = "run")
        /\ (run.failed => run'.failed) /\ (~run'.failed => run'.fail = run.fail)
    BY <1>2, <1>4, <2>2
  <2> QED BY <1>0, <1>2, <1>4, <2>1, <2>2, <2>4, <2>5, CopyOne
<1>5. CASE /\ Write(1)
           /\ work' = [work EXCEPT ![t].active = (@ \ {l}) \cup (IF quiet THEN {} ELSE Rest(l, n))]
           /\ UNCHANGED run
  <2>1. l \in LaneSet /\ l.from \in Nat /\ l.to \in Nat /\ l.from >= 1
    BY <1>3 DEF LaneSet
  <2>2. Cover(t) => l.from <= l.to + 1
    BY DEF Cover, Covers
  <2>3. /\ DOMAIN tab' = Tables
        /\ tab'[t] \in [there : BOOLEAN, copied : [1 .. Size[t] -> Nat]]
        /\ tab'[t].there = tab[t].there
        /\ tab'[t].copied = [i \in 1 .. Size[t] |-> IF i \in page THEN tab[t].copied[i] + 1
                                                                  ELSE tab[t].copied[i]]
        /\ \A u \in Tables \ {t} : tab'[u] = tab[u]
    <3>1. PICK by \in 0 .. 1 : by = 1
      OBVIOUS
    <3>2. tab' = [tab EXCEPT ![t].copied = [i \in DOMAIN @ |-> IF i \in page THEN @[i] + by ELSE @[i]]]
      BY Zenon, <1>5, <3>1
    <3> HIDE DEF page, Write
    <3>3. /\ DOMAIN tab' = Tables
          /\ tab'[t] \in [there : BOOLEAN, copied : [1 .. Size[t] -> Nat]]
          /\ tab'[t].there = tab[t].there
          /\ tab'[t].copied = [i \in 1 .. Size[t] |-> IF i \in page THEN tab[t].copied[i] + by
                                                                    ELSE tab[t].copied[i]]
          /\ \A u \in Tables \ {t} : tab'[u] = tab[u]
      BY <1>1, <3>2, WriteFacts
    <3> QED BY Zenon, <3>1, <3>3
  <2>4. Cover(t) => /\ n \in Nat /\ l.from + n <= l.to + 1
                    /\ \/ Rest(l, n) = {} /\ l.from + n > l.to
                       \/ Rest(l, n) = {[l EXCEPT !.from = @ + n]}
    <3> SUFFICES ASSUME Cover(t)
                 PROVE  /\ n \in Nat /\ l.from + n <= l.to + 1
                        /\ \/ Rest(l, n) = {} /\ l.from + n > l.to
                           \/ Rest(l, n) = {[l EXCEPT !.from = @ + n]}
      OBVIOUS
    <3>1. /\ n \in Nat /\ l.from + n <= l.to + 1 /\ (n < PageSize => l.from + n > l.to)
      BY <2>1, <2>2, Constants DEF Least
    <3> HIDE DEF n
    <3> QED BY <3>1 DEF Rest
  <2>5. Cover(t) => Covers(work[t].todo, (work[t].active \ {l}) \cup Rest(l, n), tab'[t].copied, Size[t])
    <3> SUFFICES ASSUME Cover(t)
                 PROVE  Covers(work[t].todo, (work[t].active \ {l}) \cup Rest(l, n), tab'[t].copied, Size[t])
      OBVIOUS
    <3>1. PICK R : R = Rest(l, n)
      OBVIOUS
    <3>2. Covers(work[t].todo, work[t].active, tab[t].copied, Size[t]) /\ Size[t] \in Nat
          /\ tab[t].copied \in [1 .. Size[t] -> Nat]
      BY <1>1, Constants DEF Cover
    <3>3. n \in Nat /\ l.from + n <= l.to + 1
          /\ \/ R = {} /\ l.from + n > l.to
             \/ R = {[l EXCEPT !.from = @ + n]}
      BY <2>4, <3>1
    <3> HIDE DEF n
    <3>4. \A i \in 1 .. Size[t] : tab'[t].copied[i] = IF i \in l.from .. (l.from + n - 1)
                                                      THEN tab[t].copied[i] + 1 ELSE tab[t].copied[i]
      BY <2>3
    <3>5. PICK s, A, c, d : s = work[t].todo /\ A = work[t].active /\ c = tab[t].copied /\ d = tab'[t].copied
      OBVIOUS
    <3>6. s \in Seq(LaneSet) /\ A \in SUBSET LaneSet /\ l \in A /\ Covers(s, A, c, Size[t])
          /\ c \in [1 .. Size[t] -> Nat] /\ Size[t] \in Nat
          /\ \A i \in 1 .. Size[t] : d[i] = IF i \in l.from .. (l.from + n - 1) THEN c[i] + 1 ELSE c[i]
      BY <1>3, <3>2, <3>4, <3>5
    <3>7. Covers(s, (A \ {l}) \cup R, d, Size[t])
      BY ONLY <3>3, <3>6, CoverPage
    <3> QED BY <3>1, <3>5, <3>7
  <2> DEFINE A == (work[t].active \ {l}) \cup (IF quiet THEN {} ELSE Rest(l, n))
  <2>6. A \in SUBSET LaneSet
    <3>1. Rest(l, n) \subseteq LaneSet
      <4>1. n \in Nat \/ Rest(l, n) = {}
        <5>1. PageSize \in Nat
          BY Constants
        <5> QED BY <2>1, <5>1 DEF Least, Rest
      <4>2. n \in Nat => [l EXCEPT !.from = @ + n] \in LaneSet
        <5> HIDE DEF n
        <5> QED BY <2>1 DEF LaneSet
      <4> QED BY <4>1, <4>2 DEF Rest
    <3> QED BY <1>3, <3>1
  <2>7. work' = [work EXCEPT ![t].active = A, ![t].bad = work[t].bad]
    <3>1. work' = [work EXCEPT ![t].active = A]
      BY <1>5
    <3> HIDE DEF A
    <3>2. [work[t] EXCEPT !.active = A] = [work[t] EXCEPT !.active = A, !.bad = work[t].bad]
      BY <1>1 DEF Works
    <3> QED BY <1>1, <3>1, <3>2
  <2>8. run.fail[t] = "" /\ ~work[t].bad /\ ~(Scan' /\ Stopped') => Covers(work[t].todo, A, tab'[t].copied, Size[t])
    <3> SUFFICES ASSUME run.fail[t] = "", ~work[t].bad, ~(Scan' /\ Stopped')
                 PROVE  Covers(work[t].todo, A, tab'[t].copied, Size[t])
      OBVIOUS
    <3>1. ~(Scan /\ Stopped)
      BY <1>0, <1>5 DEF Scan, Stopped, Row, CopyKeeps, JobKeeps
    <3>2. ~quiet
      BY <3>1 DEF TableStopped
    <3>3. Cover(t)
      BY <1>2, <1>3, <3>1 DEF Copied
    <3>4. A = (work[t].active \ {l}) \cup Rest(l, n)
      BY <3>2
    <3> QED BY <2>5, <3>3, <3>4
  <2> HIDE DEF A, page, n, Write
  <2>9. work[t].bad \in BOOLEAN
    BY <1>1 DEF Works
  <2>10. run' = run
    BY <1>5
  <2> QED BY <1>1, <1>4, <2>3, <2>6, <2>7, <2>8, <2>9, <2>10
<1>6. CASE /\ work' = [work EXCEPT ![t].active = @ \ {l}, ![t].bad = TRUE]
           /\ UNCHANGED <<run, tab>>
  <2> DEFINE A == work[t].active \ {l}
  <2>1. A \in SUBSET LaneSet /\ work' = [work EXCEPT ![t].active = A, ![t].bad = TRUE]
    BY <1>1, <1>3, <1>6
  <2> HIDE DEF A
  <2> QED BY <1>1, <1>4, <1>6, <2>1
<1>7. ASSUME NEW end, NEW by \in 0 .. 1, Write(by),
             run' = [run EXCEPT !.stop = @ \/ end = "task"],
             work' = [work EXCEPT ![t].active = @ \ {l}, ![t].bad = TRUE]
      PROVE  Inv'
  <2> DEFINE A == work[t].active \ {l}
             b == end = "task"
  <2>1. A \in SUBSET LaneSet /\ work' = [work EXCEPT ![t].active = A, ![t].bad = TRUE]
    BY <1>1, <1>3, <1>7
  <2>2. b \in BOOLEAN /\ run' = [run EXCEPT !.stop = @ \/ b]
    BY <1>7
  <2>3. /\ DOMAIN tab' = Tables
        /\ tab'[t] \in [there : BOOLEAN, copied : [1 .. Size[t] -> Nat]]
        /\ tab'[t].there = tab[t].there
        /\ \A u \in Tables \ {t} : tab'[u] = tab[u]
    <3> HIDE DEF page
    <3> QED BY <1>1, <1>7, WriteFacts
  <2> HIDE DEF A, b
  <2>4. /\ run' \in Runs /\ run'.pc = run.pc /\ run'.strategy = run.strategy
        /\ run'.stop = (run.stop \/ b)
        /\ run'.sink = run.sink /\ run'.failed = run.failed /\ run'.fail = run.fail
        /\ run'.counted = run.counted /\ run'.call = run.call
    BY <1>1, <2>2, StopFacts
  <2> QED BY <1>4, <2>1, <2>3, <2>4
<1> HIDE DEF Write, n, page, quiet
<1> QED BY <1>0, <1>5, <1>6, <1>7

(* A table whose copy ends well has no row left in a lane: it is whole. *)
LEMMA CopyTableEndInv == ASSUME Inv, NEW t \in Tables, CopyTableEnd(t) PROVE Inv'
<1> DEFINE ok == /\ ~work[t].bad /\ work[t].todo = <<>>
                 /\ ~Stopped \/ Serial \/ (~Scan /\ Size[t] = 0)
           w == [Idle EXCEPT !.st = IF ok THEN "ok" ELSE "err"]
<1>0. /\ work[t].st = "run" /\ work[t].active = {} /\ CopyKeeps /\ tab' = tab
      /\ work' = [work EXCEPT ![t] = w]
      /\ run' = IF ok THEN run ELSE [run EXCEPT !.fail[t] = "data", !.failed = TRUE]
  BY DEF CopyTableEnd
<1>1. /\ work \in [Tables -> Works] /\ run \in Runs /\ run.pc = "copy"
      /\ tab[t] \in [there : BOOLEAN, copied : [1 .. Size[t] -> Nat]] /\ DOMAIN tab = Tables
      /\ Copied(t)
  BY <1>0 DEF Inv, TypeInv, OwnerInv, CopyInv
<1>2. w \in Works /\ w.st = (IF ok THEN "ok" ELSE "err") /\ w.active = {}
  <2>1. PICK x \in {"ok", "err"} : x = IF ok THEN "ok" ELSE "err"
    OBVIOUS
  <2>2. w = [Idle EXCEPT !.st = x]
    BY Zenon, <2>1
  <2> HIDE DEF ok, w
  <2>3. w \in Works /\ w.st = x /\ w.active = {}
    BY <2>2, IdleTypes, IdleValues DEF Works
  <2> QED BY <2>1, <2>3
<1>3. ok /\ run.fail[t] = "" => Whole(t)
  <2> SUFFICES ASSUME ok, run.fail[t] = "" PROVE Whole(t)
    OBVIOUS
  <2>1. ~(Scan /\ Stopped)
    BY DEF Scan, Serial
  <2>2. Cover(t) /\ tab[t].there
    BY <1>0, <1>1, <2>1 DEF Copied
  <2>3. \A i \in 1 .. Size[t] : ~Open(i, work[t].todo, work[t].active)
    <3>0. work[t].todo = <<>>
      OBVIOUS
    <3>1. Len(work[t].todo) = 0
      BY ONLY <3>0
    <3>2. \A k \in 1 .. Len(work[t].todo) : FALSE
      BY ONLY <3>1
    <3> QED BY <1>0, <3>2 DEF Open
  <2>4. \A i \in 1 .. Size[t] : tab[t].copied[i] = 1
    BY <1>0, <2>2, <2>3 DEF Cover, Covers
  <2> QED BY <2>2, <2>4 DEF Whole
<1> HIDE DEF w
<1>4. work'[t] = w
  BY <1>0, <1>1
<1>5. CASE ok
  <2>1. run' = run /\ w.st = "ok"
    BY <1>0, <1>2, <1>5
  <2>2. Copied(t)'
    <3>1. work'[t].st = "ok" /\ run'.fail[t] = run.fail[t] /\ tab' = tab
      BY <1>0, <1>4, <2>1
    <3>2. run'.fail[t] = "" => Whole(t)'
      BY <1>3, <1>5, <3>1 DEF Whole
    <3>3. run'.fail[t] = "" => tab'[t].there
      BY <3>2 DEF Whole
    <3> QED BY <3>1, <3>2, <3>3 DEF Copied
  <2> HIDE DEF ok
  <2> QED BY <1>0, <1>1, <1>2, <2>1, <2>2, CopyOne
<1>6. CASE ~ok
  <2>1. w.st = "err" /\ run' = [run EXCEPT !.fail[t] = "data", !.failed = TRUE]
    BY <1>0, <1>2, <1>6
  <2>2. /\ run' \in Runs /\ run'.pc = run.pc /\ run'.strategy = run.strategy /\ run'.stop = run.stop
        /\ run'.sink = run.sink /\ run'.failed = TRUE /\ run'.fail[t] = "data"
        /\ run'.counted = run.counted /\ run'.call = run.call
        /\ \A u \in Tables \ {t} : run'.fail[u] = run.fail[u]
    <3> DEFINE f == [run.fail EXCEPT ![t] = "data"]
    <3>1. f \in [Tables -> {"", "preflight", "dependency", "execute", "data"}]
          /\ f[t] = "data" /\ \A u \in Tables \ {t} : f[u] = run.fail[u]
      BY <1>1 DEF Runs
    <3>2. run' = [run EXCEPT !.fail = f, !.failed = TRUE]
      BY <2>1
    <3> HIDE DEF f
    <3> QED BY <1>1, <3>1, <3>2 DEF Runs
  <2>3. Copied(t)'
    BY <1>4, <2>1, <2>2 DEF Copied
  <2> HIDE DEF ok
  <2> QED BY <1>0, <1>1, <1>2, <2>2, <2>3, CopyOne
<1> QED BY <1>5, <1>6

(* The copy ends with every table that has not failed whole, or the run is      *)
(* stopped.                                                                     *)
LEMMA CopyEndInv == ASSUME Inv, CopyEnd PROVE Inv'
<1>0. /\ loop.pc = "run" /\ run.pc = "copy" /\ run.call = NoCall
      /\ InWork = {} /\ (Stopped \/ Waiting = {})
      /\ CopyKeeps /\ UNCHANGED <<work, tab>>
      /\ Goto(IF Stopped THEN "finish" ELSE "read_keys")
  BY DEF CopyEnd, At
<1>1. run \in Runs
  BY DEF Inv, TypeInv
<1>2. PICK p \in {"finish", "read_keys"} : p = IF Stopped THEN "finish" ELSE "read_keys"
  OBVIOUS
<1>3. p \in Steps /\ Goto(p)
  BY <1>0, <1>2 DEF Steps
<1>4. /\ run' \in Runs /\ run'.pc = p
      /\ run'.strategy = run.strategy /\ run'.parallel = run.parallel
      /\ run'.stop = run.stop /\ run'.sink = run.sink /\ run'.failed = run.failed
      /\ run'.fail = run.fail /\ run'.vfail = run.vfail /\ run'.at = run.at
      /\ run'.todo = run.todo /\ run'.counted = run.counted /\ run'.call = run.call
  BY <1>1, <1>3, GotoFacts
<1>5. /\ JobKeeps /\ UNCHANGED <<jobs, lock, mem, stored, objs, touched>>
  BY <1>0 DEF CopyKeeps, manifest
<1>6. TypeInv'
  BY <1>0, <1>4, <1>5 DEF Inv, TypeInv, JobKeeps
<1>7. LateInv' /\ OwnerInv'
  <2>1. \A t \in Tables : work'[t].st # "run" /\ work'[t].active = {}
    <3>1. \A t \in Tables : work[t].st # "run"
      BY <1>0 DEF InWork
    <3> QED BY <1>0, <3>1 DEF Inv, OwnerInv
  <2>2. lock = Row /\ lock' = lock /\ lock' \in 0 .. Rows /\ jobs' \in [1 .. Rows -> JobStates]
    BY <1>0, <1>5, RunningRow DEF Inv, TypeInv, Owning, Steps
  <2>3. p \notin Early \cup {"create"} /\ p # "none"
    BY DEF Early
  <2> QED BY <1>0, <1>4, <1>5, <2>1, <2>2, <2>3, BatchUntouched
<1>8. CASE Stopped
  <2>1. Stopped' /\ p = "finish"
    BY <1>2, <1>4, <1>5, <1>8 DEF Stopped, JobKeeps, Row
  <2>2. run'.sink => run'.stop \/ run'.failed
    BY <1>4 DEF Inv, CompleteInv
  <2> QED BY <1>0, <1>4, <1>5, <1>6, <1>7, <2>1, <2>2, RunStoppedAlone DEF Inv
<1>9. CASE ~Stopped
  <2>0. p = "read_keys" /\ Waiting = {}
    BY <1>0, <1>2, <1>9
  <2>1. \A t \in Tables : run.fail[t] = "" => Whole(t)
    <3>1. ASSUME NEW t \in Tables, run.fail[t] = "" PROVE Whole(t)
      <4>1. Copied(t) /\ work[t] \in Works
        BY <1>0 DEF Inv, CopyInv, TypeInv
      <4>2. work[t].st # "run" /\ work[t].st # "idle"
        BY <1>0, <2>0, <3>1 DEF InWork, Waiting
      <4>3. work[t].st \in {"idle", "run", "ok", "err"}
        BY <4>1 DEF Works
      <4> QED BY <3>1, <4>1, <4>2, <4>3 DEF Copied
    <3> QED BY <3>1
  <2>2. StepInv' /\ RetainInv'
    BY <1>0, <1>4, <2>0 DEF Inv, StepInv, RetainInv, Early, Post, Phases
  <2>3. RecordInv'
    BY <1>0, <1>4, <1>5, <2>0, IdleValues DEF Inv, RecordInv, There, Keeping, Owning, Steps
  <2>4. CopyInv'
    BY <1>0, <1>4, <1>5, <2>0, <2>1 DEF Inv, CopyInv, Whole
  <2>5. CompleteInv'
    BY ZenonT(60), <1>0, <1>4, <1>5, <2>0 DEF Inv, CompleteInv, Keeping, Owning, Post, Steps, Phases
  <2> QED BY <1>6, <1>7, <2>2, <2>3, <2>4, <2>5 DEF Inv
<1> QED BY <1>8, <1>9

(* ---- keys, foreign keys, views and counts ------------------------------------ *)

(* The phases in their order. *)
LEMMA PhaseValues ==
    /\ Category("keys") = Keys /\ Category("fks") = Fks /\ Category("views") = ViewObs
    /\ Reads("keys") = "read_keys" /\ Reads("fks") = "read_fks" /\ Reads("views") = "read_views"
    /\ Next3("keys") = "read_fks" /\ Next3("fks") = "read_views" /\ Next3("views") = "count"
  BY Zenon DEF Category, Reads, Next3

(* A phase is one of the three. *)
LEMMA PhaseSteps ==
    ASSUME NEW p \in Phases
    PROVE  /\ p \in Post \cap Steps /\ Reads(p) \in (Post \cap Steps) \ Phases
           /\ Next3(p) \in (Post \cap Steps) \ Phases
           /\ Category(p) \subseteq Objects /\ p \in {"create", "keys", "fks", "views"}
<1>1. CASE p = "keys"
  BY <1>1, PhaseValues, KindFacts DEF Post, Steps, Phases
<1>2. CASE p = "fks"
  BY <1>2, PhaseValues, KindFacts DEF Post, Steps, Phases
<1>3. CASE p = "views"
  BY <1>3, PhaseValues, KindFacts DEF Post, Steps, Phases
<1> QED BY <1>1, <1>2, <1>3 DEF Phases

(* Everything up to a step of the last phases. *)
Reached(r) ==
    /\ \A p \in Phases : r.pc = p => \A o \in Category(p) :
          o \in r.todo \/ o \in objs \/ (r.call # NoCall /\ o = r.call.obj)
    /\ r.pc \notin {"read_keys", "keys"} => Keys \subseteq objs
    /\ r.pc \in {"read_views", "views", "count"} => Fks \subseteq objs
    /\ r.pc = "count" => ViewObs \subseteq objs

(* What the invariant says in the last phases. *)
LEMMA PostFacts ==
    ASSUME Inv, run.pc \in Post
    PROVE  /\ run \in Runs /\ mem \in Manifests /\ stored \in Manifests
           /\ jobs \in [1 .. Rows -> JobStates]
           /\ \A t \in Tables : run.counted[t] = "" /\ (run.fail[t] = "" => Whole(t))
           /\ run.sink => run.stop \/ run.failed
           /\ ~run.failed => (\A t \in Tables : run.fail[t] = "") /\ Reached(run)
           /\ run.pc \in Owning /\ run.pc \in Keeping /\ run.pc \notin Early
           /\ run.pc \notin {"plan", "create", "copy"}
           /\ \A p \in Phases : run.pc = p => run.todo \subseteq Category(p)
<1>1. run \in Runs /\ mem \in Manifests /\ stored \in Manifests /\ jobs \in [1 .. Rows -> JobStates]
  BY DEF Inv, TypeInv
<1>2. /\ run.pc \in Owning /\ run.pc \in Keeping /\ run.pc \notin Early
      /\ run.pc \notin {"plan", "create", "copy"}
  BY DEF Post, Keeping, Owning, Early, Steps
<1>3. \A t \in Tables : run.counted[t] = "" /\ (run.fail[t] = "" => Whole(t))
  BY DEF Inv, StepInv, CopyInv
<1>4. /\ run.sink => run.stop \/ run.failed
      /\ ~run.failed => (\A t \in Tables : run.fail[t] = "") /\ Reached(run)
  BY <1>2 DEF Inv, CompleteInv, Added, Reached
<1>5. \A p \in Phases : run.pc = p => run.todo \subseteq Category(p)
  BY DEF Inv, StepInv
<1> QED BY <1>1, <1>2, <1>3, <1>4, <1>5

(* A step from one of the last phases to another that leaves the manifest and    *)
(* the target alone.                                                            *)
LEMMA PostStep ==
    ASSUME Inv, JobKeeps, loop.pc = "run", run.pc \in Post, run.call = NoCall,
           UNCHANGED <<jobs, lock, work, mem, stored, tab, objs, touched>>,
           run' \in Runs, run'.pc \in Post, run'.call = NoCall, run'.fail = run.fail,
           run'.counted = run.counted, run'.sink = run.sink, run'.stop = run.stop,
           run.failed => run'.failed,
           \A p \in Phases : run'.pc = p => run'.todo \subseteq Category(p),
           ~run'.failed => Reached(run')
    PROVE  Inv'
<1>0. /\ run'.pc \in Owning /\ run'.pc \in Keeping /\ run'.pc \notin Early
      /\ run'.pc \notin {"plan", "create", "copy"} /\ run'.pc \notin {"finish", "status", "close"}
  BY DEF Post, Keeping, Owning, Early, Steps
<1>1. TypeInv' /\ LateInv' /\ OwnerInv'
  BY <1>0, PostFacts, OwnerTypes, OwnerStep DEF Inv
<1>2. StepInv' /\ RetainInv'
  BY <1>0, PostFacts DEF StepInv, RetainInv
<1>3. RecordInv'
  BY <1>0, PostFacts, IdleValues DEF Inv, RecordInv, There
<1>4. CopyInv'
  <2>1. \A t \in Tables : Whole(t)' <=> Whole(t)
    BY DEF Whole
  <2>2. \A t \in Tables : run'.fail[t] = "" => Whole(t)'
    BY <2>1, PostFacts
  <2>3. \A t \in Tables : stored'.data[t] = "succeeded" => Whole(t)'
    BY <2>1 DEF Inv, CopyInv
  <2> QED BY <1>0, <2>2, <2>3 DEF CopyInv
<1>5. CompleteInv'
  <2>1. /\ ~run'.failed => \A t \in Tables : run'.fail[t] = ""
        /\ run'.sink => run'.stop \/ run'.failed
    BY PostFacts
  <2>2. ~run'.failed =>
          /\ \A p \in Phases : run'.pc = p => Added(p)'
          /\ run'.pc \notin {"read_keys", "keys"} => Keys \subseteq objs'
          /\ run'.pc \in {"read_views", "views", "count"} => Fks \subseteq objs'
          /\ run'.pc = "count" => ViewObs \subseteq objs'
    BY DEF Reached, Added
  <2> QED BY <1>0, <2>1, <2>2 DEF CompleteInv
<1> QED BY <1>1, <1>2, <1>3, <1>4, <1>5 DEF Inv

(* A step from one of the last phases that stops the run. *)
LEMMA PostStop ==
    ASSUME Inv, JobKeeps, loop.pc = "run", run.pc \in Post, run.call = NoCall,
           UNCHANGED <<jobs, lock, work, mem, stored, tab, objs, touched>>,
           run' \in Runs, run'.pc = "finish", run'.call = NoCall, run'.fail = run.fail,
           run'.counted = run.counted, run'.sink = run.sink, run.stop => run'.stop,
           run'.failed = run.failed, Stopped'
    PROVE  Inv'
<1>1. TypeInv' /\ LateInv' /\ OwnerInv'
  BY PostFacts, OwnerTypes, OwnerStep DEF Inv, Owning, Steps, Early
<1>2. run'.sink => run'.stop \/ run'.failed
  BY PostFacts
<1> QED BY <1>1, <1>2, RunStoppedAlone DEF Inv

(* Nothing of a category is left once its objects are on the target. *)
LEMMA ReachedNext ==
    ASSUME NEW p \in Phases, NEW r, NEW q, r.pc = p, r.call = NoCall, Reached(r), r.todo = {},
           q.pc = Next3(p)
    PROVE  Reached(q)
<1>1. \A o \in Category(p) : o \in objs
  BY DEF Reached
<1>2. CASE p = "keys"
  BY <1>1, <1>2, PhaseValues DEF Reached, Phases
<1>3. CASE p = "fks"
  BY <1>1, <1>3, PhaseValues DEF Reached, Phases
<1>4. CASE p = "views"
  BY <1>1, <1>4, PhaseValues DEF Reached, Phases
<1> QED BY <1>2, <1>3, <1>4 DEF Phases

(* A category that has been read is to be created. *)
LEMMA ReachedRead ==
    ASSUME NEW p \in Phases, NEW r, NEW q, r.pc = Reads(p), Reached(r),
           q.pc = p, q.todo = Category(p)
    PROVE  Reached(q)
<1>2. CASE p = "keys"
  BY <1>2, PhaseValues DEF Reached, Phases
<1>3. CASE p = "fks"
  BY <1>3, PhaseValues DEF Reached, Phases
<1>4. CASE p = "views"
  BY <1>4, PhaseValues DEF Reached, Phases
<1> QED BY <1>2, <1>3, <1>4 DEF Phases

(* A category is read, passed over or the end of the run. *)
LEMMA ReadObjectsInv == ASSUME Inv, NEW p \in Phases, ReadObjects(p) PROVE Inv'
<1>0. /\ loop.pc = "run" /\ run.pc = Reads(p) /\ run.call = NoCall /\ JobKeeps
      /\ UNCHANGED <<jobs, lock, work, mem, stored, tab, objs, touched>>
  BY DEF ReadObjects, At, manifest, target
<1>1. /\ run' = [run EXCEPT !.pc = p, !.todo = Category(p)]
         \/ run' = [run EXCEPT !.pc = Next3(p), !.failed = TRUE]
         \/ run' = [run EXCEPT !.pc = "finish", !.stop = TRUE]
  BY DEF ReadObjects
<1>2. run.pc \in Post /\ run \in Runs
  BY <1>0, PhaseSteps DEF Inv, TypeInv
<1>3. CASE run' = [run EXCEPT !.pc = p, !.todo = Category(p)]
  <2>1. PICK c : c = Category(p)
    OBVIOUS
  <2>2. c \in SUBSET Objects /\ p \in Steps
    BY <2>1, PhaseSteps
  <2>3. /\ run' \in Runs /\ run'.pc = p /\ run'.todo = c /\ run'.call = NoCall
        /\ run'.fail = run.fail /\ run'.counted = run.counted /\ run'.sink = run.sink
        /\ run'.stop = run.stop /\ run'.failed = run.failed
    BY <1>0, <1>2, <1>3, <2>1, <2>2 DEF Runs
  <2>4. run'.pc \in Post
    BY <2>3, PhaseSteps
  <2>5. ~run'.failed => Reached(run')
    BY <1>0, <1>2, <2>1, <2>3, PostFacts, ReachedRead
  <2>6. \A q \in Phases : run'.pc = q => run'.todo \subseteq Category(q)
    BY <2>1, <2>3
  <2> QED BY <1>0, <1>2, <2>3, <2>4, <2>5, <2>6, PostStep
<1>4. CASE run' = [run EXCEPT !.pc = Next3(p), !.failed = TRUE]
  <2>1. PICK q \in (Post \cap Steps) \ Phases : q = Next3(p)
    BY PhaseSteps
  <2>2. /\ run' \in Runs /\ run'.pc = q /\ run'.call = NoCall
        /\ run'.fail = run.fail /\ run'.counted = run.counted /\ run'.sink = run.sink
        /\ run'.stop = run.stop /\ run'.failed = TRUE
    BY <1>0, <1>2, <1>4, <2>1 DEF Runs
  <2>3. \A x \in Phases : run'.pc # x
    BY <2>1, <2>2
  <2>4. run'.pc \in Post
    BY <2>1, <2>2
  <2> QED BY <1>0, <1>2, <2>2, <2>3, <2>4, PostStep
<1>5. CASE run' = [run EXCEPT !.pc = "finish", !.stop = TRUE]
  <2>1. /\ run' \in Runs /\ run'.pc = "finish" /\ run'.call = NoCall
        /\ run'.fail = run.fail /\ run'.counted = run.counted /\ run'.sink = run.sink
        /\ run'.stop = TRUE /\ run'.failed = run.failed
    BY <1>0, <1>2, <1>5 DEF Runs, Steps
  <2> QED BY <1>0, <1>2, <2>1, PostStop DEF Stopped
<1> QED BY <1>1, <1>3, <1>4, <1>5

(* The category is done. *)
LEMMA CategoryEndInv == ASSUME Inv, NEW p \in Phases, CategoryEnd(p) PROVE Inv'
<1>0. /\ loop.pc = "run" /\ run.pc = p /\ run.call = NoCall /\ run.todo = {} /\ JobKeeps
      /\ UNCHANGED <<jobs, lock, work, mem, stored, tab, objs, touched>>
      /\ Goto(IF p = "views" /\ Stopped THEN "finish" ELSE Next3(p))
  BY DEF CategoryEnd, At, manifest, target
<1>1. run.pc \in Post /\ run \in Runs
  BY <1>0, PhaseSteps DEF Inv, TypeInv
<1>2. CASE p = "views" /\ Stopped
  <2>1. Goto("finish")
    BY <1>0, <1>2
  <2>2. /\ run' \in Runs /\ run'.pc = "finish" /\ run'.call = NoCall
        /\ run'.fail = run.fail /\ run'.counted = run.counted /\ run'.sink = run.sink
        /\ run'.stop = run.stop /\ run'.failed = run.failed
    BY <1>0, <1>1, <2>1, GotoFacts DEF Steps
  <2>3. Stopped'
    BY <1>0, <1>2, <2>2 DEF Stopped, Row, JobKeeps
  <2> QED BY <1>0, <1>1, <2>2, <2>3, PostStop
<1>3. CASE ~(p = "views" /\ Stopped)
  <2>1. PICK q \in (Post \cap Steps) \ Phases : q = Next3(p)
    BY PhaseSteps
  <2>2. Goto(q) /\ q \in Steps
    BY <1>0, <1>3, <2>1
  <2>3. /\ run' \in Runs /\ run'.pc = q /\ run'.call = NoCall
        /\ run'.fail = run.fail /\ run'.counted = run.counted /\ run'.sink = run.sink
        /\ run'.stop = run.stop /\ run'.failed = run.failed
    BY <1>0, <1>1, <2>2, GotoFacts
  <2>4. \A x \in Phases : run'.pc # x
    BY <2>1, <2>3
  <2>5. run'.pc \in Post
    BY <2>1, <2>3
  <2>6. ~run'.failed => Reached(run')
    BY <1>0, <1>1, <2>1, <2>3, PostFacts, ReachedNext
  <2> QED BY <1>0, <1>1, <2>3, <2>4, <2>5, <2>6, PostStep
<1> QED BY <1>2, <1>3

(* An object is passed over or its statement begins. *)
LEMMA CreateObjectInv == ASSUME Inv, NEW p \in Phases, NEW o \in run.todo, CreateObject(p, o) PROVE Inv'
<1>0. /\ loop.pc = "run" /\ run.pc = p /\ run.call = NoCall /\ JobKeeps
      /\ UNCHANGED <<jobs, lock, work, tab, objs, touched>>
  BY DEF CreateObject, At, target
<1>1. run.pc \in Post /\ run \in Runs /\ mem \in Manifests /\ stored \in Manifests
  BY <1>0, PhaseSteps DEF Inv, TypeInv
<1>2. o \in Category(p) /\ o \in Objects /\ run.todo \in SUBSET Objects
  BY <1>0, <1>1, PostFacts, PhaseSteps
<1>3. CASE Stopped /\ Goto("finish") /\ UNCHANGED manifest
  <2>1. /\ run' \in Runs /\ run'.pc = "finish" /\ run'.call = NoCall
        /\ run'.fail = run.fail /\ run'.counted = run.counted /\ run'.sink = run.sink
        /\ run'.stop = run.stop /\ run'.failed = run.failed
    BY <1>0, <1>1, <1>3, GotoFacts DEF Steps
  <2>2. Stopped' /\ UNCHANGED <<mem, stored>>
    BY <1>0, <1>3, <2>1 DEF Stopped, Row, JobKeeps, manifest
  <2> QED BY <1>0, <1>1, <2>1, <2>2, PostStop
<1>4. CASE /\ run' = [run EXCEPT !.todo = @ \ {o}, !.failed = TRUE,
                                 !.vfail = IF p = "views" THEN @ \cup {o[2]} ELSE @]
           /\ UNCHANGED manifest
  <2>1. PICK v \in SUBSET Views : v = IF p = "views" THEN run.vfail \cup {o[2]} ELSE run.vfail
    <3>1. run.vfail \in SUBSET Views
      BY <1>1 DEF Runs
    <3>2. p = "views" => o[2] \in Views
      BY <1>2, PhaseValues DEF ViewObs
    <3> QED BY <3>1, <3>2
  <2>2. PICK c \in SUBSET Objects : c = run.todo \ {o}
    BY <1>2
  <2>3. run' = [run EXCEPT !.todo = c, !.failed = TRUE, !.vfail = v]
    BY <1>4, <2>1, <2>2
  <2>4. /\ run' \in Runs /\ run'.pc = p /\ run'.call = NoCall /\ run'.todo = c
        /\ run'.fail = run.fail /\ run'.counted = run.counted /\ run'.sink = run.sink
        /\ run'.stop = run.stop /\ run'.failed = TRUE
    BY <1>0, <1>1, <2>3 DEF Runs
  <2>5. UNCHANGED <<mem, stored>>
    BY <1>4 DEF manifest
  <2>6. \A q \in Phases : run'.pc = q => run'.todo \subseteq Category(q)
    BY <1>0, <1>1, <2>2, <2>4, PostFacts
  <2> QED BY <1>0, <1>1, <2>4, <2>5, <2>6, PostStep
<1>5. CASE CallBegin(o, [run EXCEPT !.todo = @ \ {o}])
  <2>1. PICK r : r = [run EXCEPT !.todo = @ \ {o}]
    OBVIOUS
  <2>2. /\ r \in Runs /\ r.pc = p /\ r.todo = run.todo \ {o} /\ r.call = NoCall
        /\ r.fail = run.fail /\ r.counted = run.counted /\ r.sink = run.sink
        /\ r.stop = run.stop /\ r.failed = run.failed
    <3>1. PICK c \in SUBSET Objects : c = run.todo \ {o}
      BY <1>2
    <3>2. r = [run EXCEPT !.todo = c]
      BY <2>1, <3>1
    <3>3. /\ r \in Runs /\ r.pc = p /\ r.todo = c /\ r.call = NoCall
          /\ r.fail = run.fail /\ r.counted = run.counted /\ r.sink = run.sink
          /\ r.stop = run.stop /\ r.failed = run.failed
      BY ONLY <1>0, <1>1, <3>2, c \in SUBSET Objects DEF Runs
    <3> QED BY <3>1, <3>3
  <2>3. CallBegin(o, r)
    BY <1>5, <2>1
  <2>4. CallBegun(o, r)
    BY <1>1, <1>2, <2>2, <2>3, CallBeginFacts
  <2>5. RecordInv'
    <3>1. run.pc \in Keeping \ {"plan"} /\ run.pc # "create"
      BY <1>1, PostFacts
    <3> QED BY <1>0, <1>2, <2>2, <2>3, <3>1, CallBeginRecord
  <2>6. stored'.data = stored.data /\ run'.fail = run.fail /\ run'.counted = run.counted
        /\ run'.failed = run.failed /\ run'.todo = r.todo
        /\ run' \in Runs /\ mem' \in Manifests /\ stored' \in Manifests
    BY <2>2, <2>4 DEF CallBegun
  <2>7. CASE run'.pc = p /\ run'.stop = r.stop /\ run'.sink = r.sink /\ run'.call # NoCall /\ run'.call.obj = o
    <3>0. /\ p \in Post /\ p \in Owning /\ p \notin Early /\ p \notin {"plan", "create", "copy", "finish", "status", "close"}
          /\ p \in {"create", "keys", "fks", "views"}
      BY <1>0, <1>1, PhaseSteps DEF Post, Owning, Early, Steps, Phases
    <3>1. TypeInv' /\ LateInv' /\ OwnerInv'
      BY <1>0, <2>6, <2>7, <3>0, OwnerTypes, OwnerStep, PostFacts DEF Inv
    <3>2. \A q \in Phases : run'.pc = q => run'.todo \subseteq Category(q) /\ run'.call.obj \in Category(q)
      BY <1>0, <1>1, <1>2, <2>2, <2>6, <2>7, PostFacts
    <3>3. StepInv' /\ RetainInv'
      BY <1>1, <2>6, <2>7, <3>0, <3>2, PostFacts DEF StepInv, RetainInv
    <3>4. \A t \in Tables : Whole(t)' <=> Whole(t)
      BY <1>0 DEF Whole
    <3>5. \A t \in Tables : run'.fail[t] = "" => Whole(t)'
      BY <1>1, <2>6, <3>4, PostFacts
    <3>6. \A t \in Tables : stored'.data[t] = "succeeded" => Whole(t)'
      BY <2>6, <3>4 DEF Inv, CopyInv
    <3>7. CopyInv'
      BY <2>7, <3>0, <3>5, <3>6 DEF CopyInv
    <3>8. /\ ~run'.failed => \A t \in Tables : run'.fail[t] = ""
          /\ run'.sink => run'.stop \/ run'.failed
      BY <1>1, <2>2, <2>6, <2>7, PostFacts
    <3>9. ~run'.failed =>
            /\ \A q \in Phases : run'.pc = q => Added(q)'
            /\ run'.pc \notin {"read_keys", "keys"} => Keys \subseteq objs'
            /\ run'.pc \in {"read_views", "views", "count"} => Fks \subseteq objs'
            /\ run'.pc = "count" => ViewObs \subseteq objs'
      <4> SUFFICES ASSUME ~run'.failed
                   PROVE  /\ \A q \in Phases : run'.pc = q => Added(q)'
                          /\ run'.pc \notin {"read_keys", "keys"} => Keys \subseteq objs'
                          /\ run'.pc \in {"read_views", "views", "count"} => Fks \subseteq objs'
                          /\ run'.pc = "count" => ViewObs \subseteq objs'
        OBVIOUS
      <4>1. Reached(run)
        BY <1>1, <2>6, PostFacts
      <4>2. \A x \in Category(p) : x \in run.todo \/ x \in objs
        BY <1>0, <4>1 DEF Reached
      <4>3. \A x \in Category(p) : x \in run'.todo \/ x \in objs' \/ x = run'.call.obj
        BY <1>0, <2>2, <2>6, <2>7, <4>2
      <4>4. \A q \in Phases : run'.pc = q => Added(q)'
        BY <2>7, <4>3 DEF Added
      <4>5. run'.pc = run.pc /\ objs' = objs
        BY <1>0, <2>7
      <4> QED BY <4>1, <4>4, <4>5 DEF Reached
    <3>10. CompleteInv'
      BY <2>7, <3>0, <3>8, <3>9 DEF CompleteInv
    <3> QED BY <2>5, <3>1, <3>3, <3>7, <3>10 DEF Inv
  <2>8. CASE run'.pc = "finish" /\ run'.stop = TRUE /\ run'.call = NoCall
    <3>1. TypeInv' /\ LateInv' /\ OwnerInv'
      BY <1>0, <1>1, <2>6, <2>8, OwnerTypes, OwnerStep, PostFacts DEF Owning, Steps, Early, Inv
    <3>2. Stopped'
      BY <2>8 DEF Stopped
    <3> QED BY <1>0, <1>1, <2>5, <2>6, <2>8, <3>1, <3>2, RunStopped DEF Inv
  <2> QED BY <2>2, <2>4, <2>7, <2>8 DEF CallBegun
<1> QED BY <1>3, <1>4, <1>5 DEF CreateObject

(* The rows are counted: a table that has not failed is whole anyway. *)
LEMMA CountRowsInv == ASSUME Inv, CountRows PROVE Inv'
<1>0. /\ loop.pc = "run" /\ run.pc = "count" /\ run.call = NoCall /\ JobKeeps
      /\ UNCHANGED <<jobs, lock, work, mem, stored, tab, objs, touched>>
  BY Zenon DEF CountRows, At, manifest, target
<1> DEFINE left == {t \in Tables : run.fail[t] = ""}
           Same(end, bad) == {t \in left : FoldFunction(LAMBDA a, b : a + b, 0, tab[t].copied) = Size[t]}
                                \ (IF end = "error" THEN {bad} ELSE {})
           Run(same) == [run EXCEPT !.pc = "finish", !.failed = @ \/ same # left,
                            !.counted = [t \in Tables |-> IF t \in same THEN "match"
                                                          ELSE IF t \in left THEN "differ" ELSE ""]]
<1>1. \E end, bad : \/ run' = [run EXCEPT !.pc = "finish", !.stop = TRUE]
                    \/ run' = Run(Same(end, bad))
  BY Zenon DEF CountRows
<1>2. run.pc \in Post /\ run \in Runs
  BY <1>0 DEF Inv, TypeInv, Post
<1>3. CASE run' = [run EXCEPT !.pc = "finish", !.stop = TRUE]
  <2>1. /\ run' \in Runs /\ run'.pc = "finish" /\ run'.call = NoCall
        /\ run'.fail = run.fail /\ run'.counted = run.counted /\ run'.sink = run.sink
        /\ run'.stop = TRUE /\ run'.failed = run.failed
    BY <1>0, <1>2, <1>3 DEF Runs, Steps
  <2> QED BY <1>0, <1>2, <2>1, PostStop DEF Stopped
<1>4. ASSUME NEW same, run' = Run(same) PROVE Inv'
  <2>1. PICK f : f = (same # left) /\ f \in BOOLEAN
    OBVIOUS
  <2>2. PICK c : /\ c = [t \in Tables |-> IF t \in same THEN "match" ELSE IF t \in left THEN "differ" ELSE ""]
                 /\ c \in [Tables -> {"", "match", "differ"}]
    <3>1. \A t \in Tables : (IF t \in same THEN "match" ELSE IF t \in left THEN "differ" ELSE "")
                             \in {"", "match", "differ"}
      OBVIOUS
    <3> DEFINE d == [t \in Tables |-> IF t \in same THEN "match" ELSE IF t \in left THEN "differ" ELSE ""]
    <3>2. d \in [Tables -> {"", "match", "differ"}]
      <4> HIDE DEF left
      <4> QED BY <3>1
    <3> HIDE DEF d
    <3>3. \E c \in [Tables -> {"", "match", "differ"}] : c = d
      BY <3>2
    <3> QED BY Zenon, <3>3 DEF d
  <2>3. run' = [run EXCEPT !.pc = "finish", !.failed = run.failed \/ f, !.counted = c]
    BY <1>4, <2>1, <2>2
  <2>4. PICK g \in BOOLEAN : g = (run.failed \/ f)
    OBVIOUS
  <2>5. /\ run' \in Runs /\ run'.pc = "finish" /\ run'.call = NoCall
        /\ run'.fail = run.fail /\ run'.counted = c /\ run'.sink = run.sink
        /\ run'.stop = run.stop /\ run'.failed = g
    <3>1. run' = [run EXCEPT !.pc = "finish", !.failed = g, !.counted = c]
      BY <2>3, <2>4
    <3> QED BY ONLY <1>0, <1>2, <2>2, <3>1, g \in BOOLEAN DEF Runs, Steps
  <2>6. TypeInv' /\ LateInv' /\ OwnerInv'
    BY <1>0, <1>2, <2>5, PostFacts, OwnerTypes, OwnerStep DEF Inv, Owning, Steps, Early
  <2>7. StepInv' /\ RetainInv'
    BY <2>5 DEF StepInv, RetainInv, Early, Post, Phases
  <2>8. RecordInv'
    BY <1>0, <2>5, IdleValues DEF Inv, RecordInv, There, Keeping, Owning, Steps
  <2>9. \A t \in Tables : (run.fail[t] = "" => Whole(t)) /\ (Whole(t)' <=> Whole(t))
    BY <1>0, <1>2, PostFacts DEF Whole
  <2>10. CopyInv'
    <3>1. \A t \in Tables : stored'.data[t] = "succeeded" => Whole(t)'
      BY <1>0, <2>9 DEF Inv, CopyInv
    <3> QED BY <2>5, <2>9, <3>1 DEF CopyInv, Post
  <2>11. CompleteInv'
    <3>1. ~run'.failed => ~run.failed
      BY <2>4, <2>5
    <3>2. ~run.failed => (\A t \in Tables : run.fail[t] = "") /\ Reached(run)
      BY <1>2, PostFacts
    <3>3. Reached(run) => Keys \cup Fks \cup ViewObs \subseteq objs
      BY <1>0 DEF Reached
    <3>4. ~run'.failed => Complete'
      BY <1>0, <2>9, <3>1, <3>2, <3>3 DEF Complete
    <3>5. run'.sink => run'.stop \/ run'.failed
      BY <1>2, <2>4, <2>5, PostFacts
    <3> QED BY <2>5, <3>1, <3>2, <3>4, <3>5 DEF CompleteInv, Post
  <2> QED BY <2>6, <2>7, <2>8, <2>10, <2>11 DEF Inv
<1> HIDE DEF Run, Same, left
<1> QED BY <1>1, <1>3, <1>4

(* The manifest at the end of a run. *)
LEMMA FinalFacts ==
    ASSUME Inv, run.pc = "finish"
    PROVE  /\ Final \in Manifests
           /\ \A o \in Objects : /\ Final.obj[o] = "succeeded" => There(o)
                                 /\ Final.obj[o] \in {"pending", "blocked"} => o \notin touched
           /\ \A t \in Tables : Final.data[t] = "succeeded" => Whole(t)
<1>1. mem \in Manifests /\ run \in Runs
  BY DEF Inv, TypeInv
<1>2. \A o \in Objects : /\ mem.obj[o] = "succeeded" => There(o)
                         /\ mem.obj[o] \in {"pending", "blocked"} => o \notin touched
  BY DEF Inv, RecordInv, Keeping, Owning, Steps
<1>3. \A o \in Objects : \/ FinalObject(o) = mem.obj[o]
                         \/ mem.obj[o] = "pending" /\ FinalObject(o) \in {"pending", "blocked", "failed"}
  BY DEF FinalObject
<1>4. \A o \in Objects : mem.obj[o] \in {"pending", "running", "succeeded", "failed", "unknown", "blocked"}
  BY <1>1 DEF Manifests
<1>5. \A t \in Tables : FinalData(t) \in {"pending", "succeeded", "failed", "blocked"}
  BY DEF FinalData
<1>6. \A t \in Tables : FinalData(t) = "succeeded" => run.fail[t] = "" /\ run.counted[t] = "match"
  BY DEF FinalData
<1>7. \A t \in Tables : run.fail[t] = "" /\ run.counted[t] = "match" => Whole(t)
  BY DEF Inv, CopyInv
<1>8. /\ \A o \in Objects : Final.obj[o] = FinalObject(o)
      /\ \A t \in Tables : Final.data[t] = FinalData(t)
  BY DEF Final
<1>9. Final \in Manifests
  <2>1. \A o \in Objects : FinalObject(o) \in {"pending", "running", "succeeded", "failed", "unknown", "blocked"}
    BY <1>3, <1>4
  <2> QED BY <1>5, <2>1 DEF Final, Manifests
<1> QED BY <1>2, <1>3, <1>6, <1>7, <1>8, <1>9

(* The manifest is reconciled and saved. *)
LEMMA FinishRepairInv == ASSUME Inv, FinishRepair PROVE Inv'
<1>0. /\ loop.pc = "run" /\ run.pc = "finish" /\ run.call = NoCall /\ JobKeeps
      /\ UNCHANGED <<jobs, lock, work, tab, objs, touched>> /\ mem' = Final
      /\ \/ stored' = Final /\ run' = [run EXCEPT !.pc = "status", !.failed = @ \/ Stopped \/ run.sink]
         \/ stored' = stored /\ run' = [run EXCEPT !.pc = "status", !.failed = TRUE]
  BY DEF FinishRepair, At, target
<1>1. run \in Runs /\ mem \in Manifests /\ stored \in Manifests /\ jobs \in [1 .. Rows -> JobStates]
  BY DEF Inv, TypeInv
<1>2. /\ Final \in Manifests
      /\ \A o \in Objects : /\ Final.obj[o] = "succeeded" => There(o)
                            /\ Final.obj[o] \in {"pending", "blocked"} => o \notin touched
      /\ \A t \in Tables : Final.data[t] = "succeeded" => Whole(t)
  BY <1>0, FinalFacts
<1>3. PICK g \in BOOLEAN : /\ run' = [run EXCEPT !.pc = "status", !.failed = g]
                           /\ ~g => ~run.failed /\ ~Stopped
                           /\ run.failed => g
  <2>1. CASE run' = [run EXCEPT !.pc = "status", !.failed = @ \/ Stopped \/ run.sink]
    BY <2>1
  <2>2. CASE run' = [run EXCEPT !.pc = "status", !.failed = TRUE]
    BY <2>2
  <2> QED BY <1>0, <2>1, <2>2
<1>4. /\ run' \in Runs /\ run'.pc = "status" /\ run'.call = NoCall
      /\ run'.fail = run.fail /\ run'.counted = run.counted /\ run'.sink = run.sink
      /\ run'.stop = run.stop /\ run'.failed = g
  BY ONLY <1>0, <1>1, <1>3, g \in BOOLEAN DEF Runs, Steps
<1>5. stored' \in Manifests /\ mem' \in Manifests
  BY <1>0, <1>1, <1>2
<1>6. TypeInv' /\ LateInv' /\ OwnerInv'
  BY <1>0, <1>1, <1>4, <1>5, OwnerTypes, OwnerStep DEF Inv, Owning, Steps, Early
<1>7. StepInv' /\ RetainInv'
  BY <1>4 DEF StepInv, RetainInv, Early, Post, Phases
<1>8. RecordInv'
  <2>1. \A o \in Objects : There(o)' <=> There(o)
    BY <1>0 DEF There
  <2>2. \A o \in Objects :
          /\ stored'.obj[o] = "succeeded" => There(o)'
          /\ stored'.obj[o] \in {"pending", "blocked"} => o \notin touched'
    BY <1>0, <1>2, <2>1 DEF Inv, RecordInv
  <2>3. run'.call.pc # "record" /\ run'.pc \notin Keeping
    BY <1>4, IdleValues DEF Keeping
  <2> QED BY <1>4, <2>2, <2>3 DEF RecordInv
<1>9. \A t \in Tables : Whole(t)' <=> Whole(t)
  BY <1>0 DEF Whole
<1>10. CopyInv'
  <2>1. \A t \in Tables : stored'.data[t] = "succeeded" => Whole(t)'
    BY <1>0, <1>2, <1>9 DEF Inv, CopyInv
  <2> QED BY <1>4, <2>1 DEF CopyInv, Post
<1>11. CompleteInv'
  <2>1. ~run'.failed => Complete'
    <3>1. ~run'.failed => Complete
      BY <1>0, <1>3, <1>4 DEF Inv, CompleteInv
    <3> QED BY <1>0, <1>9, <3>1 DEF Complete
  <2>2. run'.sink => run'.stop \/ run'.failed
    BY <1>3, <1>4 DEF Inv, CompleteInv
  <2> QED BY <1>4, <2>1, <2>2 DEF CompleteInv, Post, Keeping
<1> QED BY <1>6, <1>7, <1>8, <1>10, <1>11 DEF Inv

(* The status is written and the lock given back. *)
LEMMA FinishJobInv == ASSUME Inv, FinishJob PROVE Inv'
<1>0. /\ loop.pc = "run" /\ run.pc = "status" /\ run.call = NoCall /\ JobKeeps /\ Goto("release")
      /\ UNCHANGED <<lock, work, mem, stored, tab, objs, touched>>
      /\ \/ \E s \in JobStates : Status(s)
         \/ jobs' = jobs
  BY DEF FinishJob, At, target, manifest, JobStates
<1>1. run \in Runs /\ TypeInv /\ jobs \in [1 .. Rows -> JobStates] /\ Row \in 1 .. Rows
  BY <1>0, RunningRow DEF Inv, TypeInv
<1>2. jobs' \in [1 .. Rows -> JobStates]
  BY <1>0, <1>1, StatusType
<1>3. /\ run' \in Runs /\ run'.pc = "release" /\ run'.call = NoCall
      /\ run'.sink = run.sink /\ run'.stop = run.stop /\ run'.failed = run.failed
  BY <1>0, <1>1, GotoFacts DEF Steps
<1>4. TypeInv'
  BY <1>0, <1>2, <1>3 DEF Inv, TypeInv, JobKeeps
<1>5. LateInv' /\ OwnerInv'
  BY <1>0, <1>2, <1>3, OwnerStep DEF Owning, Steps, Early
<1>6. run'.sink => run'.stop \/ run'.failed
  BY <1>3 DEF Inv, CompleteInv
<1> QED BY <1>0, <1>3, <1>4, <1>5, <1>6, RunOver DEF Inv

(* The lock is given back, or stays until a restart. *)
LEMMA ReleaseScopeInv == ASSUME Inv, ReleaseScope PROVE Inv'
<1>0. /\ loop.pc = "run" /\ run.pc = "release" /\ run.call = NoCall /\ JobKeeps /\ Goto("close")
      /\ UNCHANGED <<jobs, work, mem, stored, tab, objs, touched>> /\ lock' \in {0, lock}
  BY DEF ReleaseScope, At, target, manifest
<1>1. run \in Runs /\ TypeInv /\ jobs' \in [1 .. Rows -> JobStates] /\ Row \in 1 .. Rows
  BY <1>0, RunningRow DEF Inv, TypeInv
<1>2. lock' \in 0 .. Rows
  BY <1>0, <1>1, Constants DEF TypeInv
<1>3. /\ run' \in Runs /\ run'.pc = "close" /\ run'.call = NoCall
      /\ run'.sink = run.sink /\ run'.stop = run.stop /\ run'.failed = run.failed
  BY <1>0, <1>1, GotoFacts DEF Steps
<1>4. TypeInv'
  BY <1>0, <1>2, <1>3 DEF Inv, TypeInv, JobKeeps
<1>5. LateInv' /\ OwnerInv'
  <2>1. \A t \in Tables : work'[t].st # "run" /\ work'[t].active = {}
    BY <1>0 DEF Inv, OwnerInv
  <2>2. run'.pc \notin Owning /\ run'.pc \notin Early \cup {"create"}
    BY <1>3 DEF Owning, Early
  <2> QED BY <1>0, <1>1, <1>2, <1>3, <2>1, <2>2, BatchUntouched
<1>6. run'.sink => run'.stop \/ run'.failed
  BY <1>3 DEF Inv, CompleteInv
<1> QED BY <1>0, <1>3, <1>4, <1>5, <1>6, RunOver DEF Inv

(* ---- the theorems ------------------------------------------------------------ *)

(* Nothing changes in a step that is not one of the system. *)
LEMMA StutterInv == ASSUME Inv, UNCHANGED vars PROVE Inv'
<1>0. UNCHANGED <<batch, loop, asked, jobs, reg, ctxs, late, unread, lock, run, work, mem, stored, tab, objs, touched>>
  BY DEF vars, batchVars, manifest, target
<1>1. TypeInv'
  BY <1>0 DEF Inv, TypeInv
<1>2. LateInv' /\ OwnerInv'
  BY <1>0 DEF Inv, LateInv, OwnerInv
<1>3. Stopped => Stopped'
  BY <1>0 DEF Stopped, Row
<1> QED BY <1>0, <1>1, <1>2, <1>3, RunUntouched DEF Inv

(* Every step of the system keeps the invariant. *)
LEMMA NextInv == ASSUME Inv, [Next]_vars PROVE Inv'
<1>1. CASE StartDataMigration
  BY <1>1, StartDataMigrationInv
<1>2. CASE StartBatch
  BY <1>2, StartBatchInv
<1>3. CASE CancelRead
  BY <1>3, CancelReadInv
<1>4. CASE Crash
  BY <1>4, CrashInv
<1>5. CASE \E j \in 1 .. Rows : CancelDataMigration(j)
  BY <1>5, CancelDataMigrationInv
<1>6. CASE BatchNext
  BY <1>6, CheckCancelledInv, CreateJobInv, CloseJobInv, ReadBatchInv, FinishBatchInv DEF BatchNext
<1>7. CASE CancelNext
  BY <1>7, CancelSaveInv, CancelListInv, CancelJobsInv DEF CancelNext
<1>8. CASE RunNext
  <2>1. CASE Connect \/ AcquireScope \/ BeginRepair \/ Plan \/ CreateTable
    BY <2>1, ConnectInv, AcquireScopeInv, BeginRepairInv, PlanInv, CreateTableInv
  <2>2. CASE CallNext
    BY <2>2, CallExecInv, CallRecordInv DEF CallNext
  <2>3. CASE CopyTable \/ CopyEnd
    BY <2>3, CopyTableInv, CopyEndInv
  <2>4. CASE PostNext
    BY <2>4, ReadObjectsInv, CategoryEndInv, CreateObjectInv DEF PostNext
  <2>5. CASE CountRows \/ FinishRepair \/ FinishJob \/ ReleaseScope
    BY <2>5, CountRowsInv, FinishRepairInv, FinishJobInv, ReleaseScopeInv
  <2> QED BY <1>8, <2>1, <2>2, <2>3, <2>4, <2>5 DEF RunNext
<1>9. CASE \E t \in Tables : TableNext(t)
  BY <1>9, StartLaneInv, CopyTableEndInv, CopyPageInv DEF TableNext
<1>10. CASE UNCHANGED vars
  BY <1>10, StutterInv
<1> QED BY <1>1, <1>2, <1>3, <1>4, <1>5, <1>6, <1>7, <1>8, <1>9, <1>10 DEF Next

(* The invariant holds in every state that the batch, its jobs, the cancel      *)
(* handlers and a restart can reach.                                            *)
THEOREM InvariantHolds == Spec => []Inv
<1>1. Init => Inv
  BY InitInv
<1>2. Inv /\ [Next]_vars => Inv'
  BY NextInv
<1> QED BY <1>1, <1>2, PTL DEF Spec

(* All rows, registries, manifests and target objects keep their types.         *)
THEOREM TypeCorrect == Spec => []TypeOK
<1>1. Inv => TypeOK
  <2> SUFFICES ASSUME Inv PROVE TypeOK
    OBVIOUS
  <2>0. TypeInv
    BY DEF Inv
  <2>1. run.fail \in [Tables -> {"", "preflight", "dependency", "execute", "data"}]
    BY <2>0 DEF TypeInv, Runs
  <2>2. \A t \in Tables : work[t].st \in {"idle", "run", "ok", "err"}
    BY <2>0 DEF TypeInv, Works
  <2>3. \A m \in {mem, stored} :
          /\ m.obj \in [Objects -> {"pending", "running", "succeeded", "failed", "unknown", "blocked"}]
          /\ m.data \in [Tables -> {"pending", "succeeded", "failed", "blocked"}]
    BY <2>0 DEF TypeInv, Manifests
  <2>4. loop.pc \in {"off", "check", "create", "run", "read", "keep", "done"}
    BY <2>0 DEF TypeInv, LoopSteps
  <2> QED BY <2>0, <2>1, <2>2, <2>3, <2>4 DEF TypeInv, TypeOK, Batches, JobStates
<1> QED BY <1>1, InvariantHolds, PTL

(* The stored manifest, from which a repair starts, is true in every state:     *)
(* between a statement and its record, after a lost write and after a crash.    *)
THEOREM ManifestIsTrue == Spec => []ManifestTruth
<1>1. Inv => ManifestTruth
  BY DEF Inv, RecordInv, CopyInv, There, ManifestTruth
<1> QED BY <1>1, InvariantHolds, PTL

(* Statements and copies are at work only for a registered job that owns the    *)
(* target.                                                                      *)
THEOREM ReleasedIsQuiet == Spec => []QuietAfterRelease
<1>1. Inv => QuietAfterRelease
  <2> SUFFICES ASSUME Inv, run.call # NoCall \/ InWork # {} PROVE lock = Row /\ Row \in reg
    BY DEF QuietAfterRelease
  <2>1. run.pc \in {"create", "keys", "fks", "views", "copy"}
    BY DEF Inv, OwnerInv, InWork
  <2>2. run.pc \in Owning /\ loop.pc = "run"
    BY <2>1 DEF Inv, OwnerInv, Owning, Steps
  <2> QED BY <2>2, RunningRow
<1> QED BY <1>1, InvariantHolds, PTL

(* A cancelled batch starts one more job at most, but for the rows before which *)
(* the batch could not be read.                                                 *)
THEOREM AtMostOneMore == Spec => []OneMoreJob
<1>1. Inv => OneMoreJob
  BY DEF Inv, LateInv, TypeInv, OneMoreJob
<1> QED BY <1>1, InvariantHolds, PTL

(* The rows of the jobs: only the end of a run that has seen no failure and no   *)
(* cancel writes done.                                                          *)
LEMMA DoneWritten ==
    ASSUME Inv, Next, NEW j \in 1 .. Rows, jobs'[j] = "done", jobs[j] # "done"
    PROVE  run.pc = "status" /\ ~run.failed
<1>0. jobs \in [1 .. Rows -> JobStates]
  BY DEF Inv, TypeInv
<1>s. ASSUME NEW s, Status(s), s # "done" PROVE FALSE
  BY <1>0, <1>s DEF Status
<1>k. jobs' # jobs
  OBVIOUS
<1>1. CASE StartDataMigration
  <2>1. jobs' = [jobs EXCEPT ![1] = "running"] \/ jobs' = jobs
    BY <1>1 DEF StartDataMigration
  <2> QED BY <1>0, <2>1
<1>2. CASE StartBatch \/ CancelRead \/ \E i \in 1 .. Rows : CancelDataMigration(i)
  BY <1>2, <1>k DEF StartBatch, CancelRead, CancelDataMigration
<1>3. CASE Crash
  BY <1>0, <1>3 DEF Crash
<1>4. CASE BatchNext
  <2>1. CASE CreateJob
    <3>1. jobs' = [jobs EXCEPT ![Row] = "running"] \/ jobs' = jobs
      BY <2>1 DEF CreateJob
    <3> QED BY <1>0, <3>1
  <2>2. CASE CheckCancelled \/ CloseJob \/ ReadBatch \/ FinishBatch
    BY <2>2, <1>k DEF CheckCancelled, CloseJob, ReadBatch, FinishBatch
  <2> QED BY <1>4, <2>1, <2>2 DEF BatchNext
<1>5. CASE CancelNext
  BY <1>5, <1>k DEF CancelNext, CancelSave, CancelList, CancelJobs
<1>6. CASE RunNext
  <2>1. CASE Connect
    BY <2>1, <1>k, <1>s DEF Connect
  <2>2. CASE AcquireScope
    BY <2>2, <1>k, <1>s DEF AcquireScope
  <2>3. CASE BeginRepair
    BY <2>3, <1>k, <1>s DEF BeginRepair
  <2>4. CASE Plan \/ CreateTable \/ CallNext
    BY <2>4, <1>k DEF Plan, CreateTable, CallNext, CallExec, CallRecord
  <2>5. CASE CopyTable \/ CopyEnd
    BY <2>5, <1>k DEF CopyTable, CopyEnd, CopyKeeps
  <2>6. CASE PostNext
    BY <2>6, <1>k DEF PostNext, ReadObjects, CategoryEnd, CreateObject
  <2>7. CASE CountRows \/ FinishRepair \/ ReleaseScope
    BY Zenon, <2>7, <1>k DEF CountRows, FinishRepair, ReleaseScope
  <2>8. CASE FinishJob
    <3>1. /\ run.pc = "status"
          /\ \/ Status(CASE Row \in ctxs -> "cancelled" [] Row \notin ctxs /\ run.failed -> "failed"
                          [] OTHER -> "done")
             \/ Status("failed")
             \/ jobs' = jobs
      BY <2>8 DEF FinishJob, At
    <3>2. Row \notin ctxs /\ ~run.failed
      BY <1>k, <1>s, <3>1
    <3> QED BY <3>1, <3>2
  <2> QED BY <1>6, <2>1, <2>2, <2>3, <2>4, <2>5, <2>6, <2>7, <2>8 DEF RunNext
<1>7. CASE \E t \in Tables : TableNext(t)
  BY <1>7, <1>k DEF TableNext, StartLane, CopyTableEnd, CopyPage, CopyKeeps
<1> QED BY <1>1, <1>2, <1>3, <1>4, <1>5, <1>6, <1>7 DEF Next

(* The status done is written only when every table is on the target with each  *)
(* row exactly once and every key, foreign key and view exists.                 *)
THEOREM DoneMeansWhole == Spec => DoneIsWhole
<1> DEFINE D == \A j \in 1 .. Rows : jobs'[j] = "done" /\ jobs[j] # "done"
                   => /\ \A t \in Tables : Whole(t)
                      /\ Keys \cup Fks \cup ViewObs \subseteq objs
<1>1. Inv /\ [Next]_vars => [D]_vars
  <2> SUFFICES ASSUME Inv, Next, NEW j \in 1 .. Rows, jobs'[j] = "done", jobs[j] # "done"
               PROVE  /\ \A t \in Tables : Whole(t)
                      /\ Keys \cup Fks \cup ViewObs \subseteq objs
    OBVIOUS
  <2>1. run.pc = "status" /\ ~run.failed
    BY DoneWritten
  <2> QED BY <2>1 DEF Inv, CompleteInv, Complete
<1> QED BY <1>1, InvariantHolds, PTL DEF Spec, DoneIsWhole

(* Which step may cut a foreign key: the statement that rebuilds a table whose   *)
(* turn it is, and neither of the two tables is a failed child.                 *)
LEMMA KeyCut ==
    ASSUME Inv, Next, NEW r \in Refs, <<"fk", r>> \in objs, <<"fk", r>> \notin objs'
    PROVE  run.fail[r[1]] = ""
<1>k. objs' # objs
  OBVIOUS
<1>1. CASE CallExec
  <2>o. PICK o : o = run.call.obj
    OBVIOUS
  <2>1. run.call.pc = "exec" /\ \E effect \in {"none", "half", "full"} : Apply(o, effect)
    BY <1>1, <2>o DEF CallExec
  <2>2. PICK effect \in {"none", "half", "full"} : Apply(o, effect)
    BY <2>1
  <2>3. run.call # NoCall /\ o \in Objects
    BY <2>1, <2>o, CallInFlight
  <2>4. effect # "none" /\ o[1] = "table" /\ <<"fk", r>> \in CutBy(o[2])
    BY <1>k, <2>2 DEF Apply
  <2>5. r[1] = o[2] \/ r[2] = o[2]
    BY <2>4 DEF CutBy
  <2>6. run.pc = "create"
    <3>1. run.pc \in {"create", "keys", "fks", "views"}
      BY <2>3 DEF Inv, OwnerInv
    <3>2. \A p \in Phases : run.pc = p => o \in Category(p)
      BY <2>3, <2>o DEF Inv, StepInv
    <3>3. \A p \in Phases : run.pc # p
      BY <2>4, <3>2, CategoryObjects
    <3> QED BY <3>1, <3>3 DEF Phases
  <2>7. run.at \in Tables /\ run.fail[run.at] = "" /\ o = <<"table", run.at>>
    BY <2>3, <2>6, <2>o DEF Inv, StepInv
  <2>8. o[2] = run.at
    BY <2>7
  <2>9. run.fail[r[1]] # "" => run.fail[r[2]] # "" \/ r[2] < run.at
    BY <2>6 DEF Inv, RetainInv
  <2>10. ~(run.at < run.at)
    <3>1. run.at \in Nat
      BY <2>7, Constants
    <3> QED BY <3>1
  <2> QED BY <2>5, <2>7, <2>8, <2>9, <2>10
<1>2. CASE StartDataMigration \/ StartBatch \/ CancelRead \/ Crash \/ \E j \in 1 .. Rows : CancelDataMigration(j)
  BY <1>2, <1>k DEF StartDataMigration, StartBatch, CancelRead, Crash, CancelDataMigration, target
<1>3. CASE BatchNext \/ CancelNext
  BY <1>3, <1>k DEF BatchNext, CheckCancelled, CreateJob, CloseJob, ReadBatch, FinishBatch,
                    CancelNext, CancelSave, CancelList, CancelJobs, target
<1>4. CASE Connect \/ AcquireScope \/ BeginRepair \/ Plan \/ CreateTable \/ CallRecord
  BY <1>4, <1>k DEF Connect, AcquireScope, BeginRepair, Plan, CreateTable, CallRecord, target
<1>5. CASE CopyTable \/ CopyEnd \/ \E t \in Tables : TableNext(t)
  BY <1>5, <1>k DEF CopyTable, CopyEnd, CopyKeeps, TableNext, StartLane, CopyTableEnd, CopyPage
<1>6. CASE PostNext
  BY <1>6, <1>k DEF PostNext, ReadObjects, CategoryEnd, CreateObject, target
<1>7. CASE CountRows \/ FinishRepair \/ FinishJob \/ ReleaseScope
  <2>1. UNCHANGED target
    BY Zenon, <1>7 DEF CountRows, FinishRepair, FinishJob, ReleaseScope
  <2> QED BY <1>k, <2>1 DEF target
<1> QED BY <1>1, <1>2, <1>3, <1>4, <1>5, <1>6, <1>7 DEF Next, RunNext, CallNext

(* A table that failed and is left as it was keeps its foreign keys, whatever   *)
(* other tables the run drops with CASCADE.                                     *)
THEOREM RetainedKeysStay == Spec => RetainedKeysKept
<1> DEFINE K == \A r \in Refs : <<"fk", r>> \in objs /\ <<"fk", r>> \notin objs' => run.fail[r[1]] = ""
<1>1. Inv /\ [Next]_vars => [K]_vars
  BY KeyCut
<1> QED BY <1>1, InvariantHolds, PTL DEF Spec, RetainedKeysKept
=============================================================================
