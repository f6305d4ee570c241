-------------------------- MODULE BootstrapProofs --------------------------
(***************************************************************************)
(* Proofs about Bootstrap: the record on the target only moves forward,    *)
(* the row never runs ahead of it, a copy with exclusions completes only   *)
(* when they were acknowledged, the cleanup drops what the copy created    *)
(* and nothing else, and a completed copy is whole.                        *)
(***************************************************************************)
EXTENDS Bootstrap, FiniteSetTheorems, TLAPS

RunPcs == {"load", "capture", "pending", "create", "copy", "post", "count", "report", "strict",
           "abort", "abort_row", "compat", "review", "review_row", "apply", "catching", "cdc",
           "stream", "returned", "give_up", "gone_row", "failed_row", "gone"}
ReqPcs == {"idle", "accept", "finalize", "apply", "catching", "launch", "resume_record", "resume",
           "abort", "abort_target", "abort_swap"}
RowStatuses == {"initializing", "snapshot", "catching_up", "running", "paused_restart", "failed",
                "paused_bootstrap_review", "aborted"}
RowStates == {"pending", "snapshot_in_progress", "review_pending", "completed", "aborted"}
RecStates == {"none", "snapshot_in_progress", "review_pending", "completed", "aborted"}
Rows  == [status : RowStatuses, state : RowStates, done : BOOLEAN, m : Manifests]
Keys  == Refs \cup {<<>>}
Items == [key : Keys, table : Tables, id : Nat, done : BOOLEAN]
Recs  == [state : RecStates, m : Manifests, pos : 0 .. MaxPos, planned : BOOLEAN, plan : Seq(Items)]
Runs  == [pc : RunPcs, t : 0 .. NumTables, p : 0 .. NumPages, issues : [Tables -> Stages \cup {""}],
          objs : BOOLEAN, done : BOOLEAN, scope : SUBSET Tables, err : {"", "error", "review", "canceled"}]
Reqs  == [pc : ReqPcs, j : Rows, m : Manifests]
Fins  == [by : {"none", "run", "req"}, pc : {"item", "save"}, m : Manifests, i : Nat]
Regs  == [live : BOOLEAN, action : {"", "abort"}]
TabRecs == [id : Nat, pages : SUBSET Pages, upto : Nat]

(* Every variable has its type, with ids and counts as numbers.            *)
Typed ==
    /\ policy \in {"fail_all", "review_and_exclude"}
    /\ row \in Rows /\ rec \in Recs /\ tab \in [Tables -> TabRecs] /\ fks \in [Refs -> Nat]
    /\ nextId \in Nat /\ reg \in Regs /\ run \in Runs /\ req \in Reqs /\ fin \in Fins
    /\ published \subseteq Manifests

(* Ids are given out once: what the copy has made is above the tables that *)
(* were there, and nothing has an id that is still to come.                *)
IdInv ==
    /\ \A x \in made : x \in Nat /\ x > 0 /\ x < nextId
    /\ \A t \in Tables : tab[t].id < nextId
    /\ \A r \in Refs : fks[r] # 0 => fks[r] \in made

Quiet == {"gone", "give_up", "gone_row", "failed_row"}      \* the goroutine has left the registry
Early == {"load", "capture", "pending", "create", "copy", "post", "count", "report", "strict",
          "abort", "abort_row", "compat", "review", "review_row"}
Away  == run.pc = "gone" \/ (run.pc = "returned" /\ run.err = "review")

(* The registry entry is that of the runner goroutine.                     *)
LiveInv ==
    /\ reg.live <=> run.pc \notin Quiet
    /\ reg.action # "" => reg.live

(* While the copy is made nobody but an abort can act on the job, and the  *)
(* record is not yet one anybody could accept.                             *)
EarlyInv ==
    run.pc \in Early =>
       /\ ~row.done /\ row.status \in {"initializing", "snapshot"}
       /\ row.state \in {"pending", "snapshot_in_progress", "aborted"}
       /\ req.pc \in {"idle", "abort"} /\ ~req.j.done
       /\ run.pc \in {"load", "capture"} => rec.state = "none"
       /\ run.pc \notin {"review_row", "abort", "abort_row"} =>
             rec.state \in {"none", "snapshot_in_progress"} /\ (rec.planned => fin.by = "run")
       /\ run.pc \in {"abort", "abort_row"} =>
             rec.state \in {"none", "snapshot_in_progress", "aborted"} /\ ~rec.planned
       /\ run.pc = "review_row" => rec.state = "review_pending" /\ rec.m = Manifest(run.issues)

(* What the row may say.                                                   *)
RowInv ==
    /\ RowNeverAhead
    /\ row.state = "completed" => row.done
    /\ row.status = "paused_bootstrap_review" =>
          rec.state \in {"review_pending", "completed", "aborted"} /\ row.m = rec.m /\ Away
    /\ row.status \in Resumable => run.pc = "gone"
    /\ run.pc \in {"catching", "cdc", "stream"} \/ run.done =>
          row.done /\ run.scope = rec.m.effective
    /\ run.pc = "apply" => rec.state = "completed" /\ ~row.done /\ req.pc \in {"idle", "abort"}

(* What the handler in work knows.                                         *)
ReqInv ==
    /\ req.j.done => row.done /\ req.j.m = rec.m
    /\ req.pc \in {"resume_record", "resume", "abort_target", "abort_swap"} => ~reg.live
    /\ req.pc \in {"resume_record", "resume"} => run.pc = "gone"
    /\ req.pc = "accept" => req.j.status = "paused_bootstrap_review" \/ req.j.done
    /\ req.pc = "accept" /\ req.j.status = "paused_bootstrap_review" =>
          row.status = "paused_bootstrap_review"
    /\ req.pc \in {"finalize", "apply", "catching"} => row.status = "paused_bootstrap_review"
    /\ req.pc = "finalize" => rec.state = "review_pending" /\ rec.m \in acked
    /\ req.pc = "apply" => rec.state = "completed"
    /\ req.pc \in {"catching", "resume", "launch"} => row.done
    /\ req.pc \in {"resume", "launch"} => req.j.m = rec.m
    /\ req.pc = "launch" => Away /\ row.status \in {"catching_up", "initializing"}

(* What the copy has made so far.                                          *)
CopyInv ==
    /\ run.pc \in {"load", "capture", "pending"} => \A t \in Tables : run.issues[t] = ""
    /\ run.pc = "create" =>
          /\ run.t \in Tables
          /\ \A t \in Tables : IF t < run.t THEN run.issues[t] # "schema" => tab[t].id \in made
                                            ELSE run.issues[t] = ""
    /\ run.pc \in {"copy", "post", "count", "report", "strict", "compat", "review", "review_row"} =>
          \A t \in Tables : run.issues[t] # "schema" => tab[t].id \in made
    /\ run.pc = "copy" => run.t \in Tables /\ run.p \in Pages
    /\ run.pc \in {"report", "strict", "compat", "review", "review_row"} =>
          \A t \in Tables : run.issues[t] = "" => tab[t].pages = Pages
    /\ rec.state # "completed" => rec.pos = 0 /\ \A t \in Tables : tab[t].upto = 0

(* An object of the cleanup plan is gone.                                  *)
ObjectGone(item) ==
    IF item.key # <<>> THEN fks[item.key] = 0 ELSE tab[item.table].id \notin made

(* The plan names objects the copy made, and all that must go.             *)
PlanInv ==
    rec.planned =>
       /\ \A i \in DOMAIN rec.plan :
             /\ rec.plan[i].id \in made
             /\ rec.plan[i].key = <<>> => rec.plan[i].table \in OwnedTables(rec.m)
             /\ rec.plan[i].done => ObjectGone(rec.plan[i])
       /\ \A t \in OwnedTables(rec.m) : tab[t].id \in made =>
             \E i \in DOMAIN rec.plan : rec.plan[i].key = <<>> /\ rec.plan[i].table = t
       /\ \A r \in Refs : r[1] \in rec.m.effective /\ r[2] \in OwnedTables(rec.m) /\ fks[r] # 0 =>
             \E i \in DOMAIN rec.plan : rec.plan[i].key = r

(* FinalizeBootstrap works off the plan.                                   *)
FinInv ==
    /\ fin.by = "none" => fin = NoFin
    /\ fin.by # "none" =>
          /\ rec.planned
          /\ fin.i \in 1 .. Len(rec.plan) + 1
          /\ \A k \in DOMAIN rec.plan : k < fin.i => rec.plan[k].done
          /\ fin.pc = "save" => fin.i <= Len(rec.plan) /\ ObjectGone(rec.plan[fin.i])
    /\ fin.by = "run" => /\ run.pc = "review" /\ rec.m = Manifest(run.issues) /\ rec.m.excluded = {}
                         /\ rec.state = "snapshot_in_progress"
    /\ fin.by = "req" => req.pc = "finalize"

(* A record that is in review or completed: the followed tables are whole. *)
WholeInv ==
    /\ rec.state = "review_pending" => rec.planned
    /\ rec.state \in {"review_pending", "completed"} =>
          \A t \in rec.m.effective : tab[t].id \in made /\ tab[t].pages = Pages /\ tab[t].upto = rec.pos
    /\ \A t \in Tables : t \notin rec.m.effective => tab[t].upto = 0
    /\ rec.state = "completed" => rec.planned /\ \A i \in DOMAIN rec.plan : rec.plan[i].done
    /\ \A t \in rec.m.effective : t \notin Excluded(rec.m)

Inv ==
    /\ Typed /\ IdInv /\ LiveInv /\ EarlyInv /\ RowInv /\ ReqInv /\ CopyInv /\ PlanInv /\ FinInv /\ WholeInv
    /\ OnlyAcknowledged /\ OnlyOwnDropped

-----------------------------------------------------------------------------
(* What the helpers of the actions do, field by field.                     *)

(* The runner goes to pc and keeps everything else.                        *)
RunTo(pc) ==
    /\ run' \in Runs /\ run'.pc = pc
    /\ run'.t = run.t /\ run'.p = run.p /\ run'.issues = run.issues /\ run'.objs = run.objs
    /\ run'.done = run.done /\ run'.scope = run.scope /\ run'.err = run.err

(* The runner's function has returned an error.                            *)
RunFailed(err) ==
    /\ run' \in Runs /\ run'.pc = "returned" /\ run'.err = err
    /\ run'.issues = run.issues /\ run'.done = run.done /\ run'.scope = run.scope

(* Goto changes the place of the runner only.                              *)
LEMMA GotoEffect ==
    ASSUME run \in Runs, NEW pc \in RunPcs, Goto(pc)
    PROVE  RunTo(pc)
  BY DEF Goto, RunTo, Runs

(* Fails leads to the end of the goroutine.                                *)
LEMMA FailsEffect ==
    ASSUME run \in Runs, NEW err \in {"", "error", "review", "canceled"}, Fails(err)
    PROVE  RunFailed(err)
  <1>1. "returned" \in RunPcs
    BY DEF RunPcs
  <1> QED BY <1>1 DEF Fails, RunFailed, Runs

(* The literals of the actions belong to their sets.                       *)
LEMMA Literals ==
    /\ {"load", "capture", "pending", "create", "copy", "post", "count", "report", "strict",
        "abort", "abort_row", "compat", "review", "review_row", "apply", "catching", "cdc",
        "stream", "returned", "give_up", "gone_row", "failed_row", "gone"} \subseteq RunPcs
    /\ {"idle", "accept", "finalize", "apply", "catching", "launch", "resume_record", "resume",
        "abort", "abort_target", "abort_swap"} \subseteq ReqPcs
    /\ {"initializing", "snapshot", "catching_up", "running", "paused_restart", "failed",
        "paused_bootstrap_review", "aborted"} \subseteq RowStatuses
    /\ {"pending", "snapshot_in_progress", "review_pending", "completed", "aborted"} \subseteq RowStates
    /\ {"none", "snapshot_in_progress", "review_pending", "completed", "aborted"} \subseteq RecStates
  BY DEF RunPcs, ReqPcs, RowStatuses, RowStates, RecStates

(* The row keeps its manifest and whether the copy is done.                *)
RowTo(s, b) ==
    row' \in Rows /\ row'.status = s /\ row'.state = b /\ row'.done = row.done /\ row'.m = row.m

(* SetStatus and SetRow.                                                   *)
LEMMA SetRowEffect ==
    ASSUME row \in Rows
    PROVE  /\ \A s \in RowStatuses : SetStatus(s) => RowTo(s, row.state)
           /\ \A s \in RowStatuses, b \in RowStates : SetRow(s, b) => RowTo(s, b)
           /\ \A b \in RowStates : row' = [row EXCEPT !.state = b] => RowTo(row.status, b)
  BY DEF SetStatus, SetRow, RowTo, Rows

(* ReviewRow and CompletedRow.                                             *)
LEMMA RecordRowEffect ==
    ASSUME row \in Rows, rec \in Recs
    PROVE  /\ \A m \in Manifests : ReviewRow(m) =>
                 /\ row' \in Rows /\ row'.status = "paused_bootstrap_review" /\ row'.state = "review_pending"
                 /\ row'.done = row.done /\ row'.m = m
           /\ CompletedRow =>
                 /\ row' \in Rows /\ row'.status = row.status /\ row'.state = "completed"
                 /\ row'.done /\ row'.m = rec.m
  BY Literals DEF ReviewRow, CompletedRow, Rows, Recs

(* The handler goes on, or returns.                                        *)
LEMMA ReqEffect ==
    ASSUME req \in Reqs
    PROVE  /\ \A pc \in ReqPcs : ReqGoto(pc) => req' \in Reqs /\ req'.pc = pc /\ req'.j = req.j /\ req'.m = req.m
           /\ \A pc \in ReqPcs : \A m \in Manifests : req' = [req EXCEPT !.pc = pc, !.j.m = m] =>
                 /\ req' \in Reqs /\ req'.pc = pc /\ req'.m = req.m
                 /\ req'.j.m = m /\ req'.j.done = req.j.done /\ req'.j.status = req.j.status
  <1>1. \A pc \in ReqPcs : ReqGoto(pc) => req' \in Reqs /\ req'.pc = pc /\ req'.j = req.j /\ req'.m = req.m
    BY DEF ReqGoto, Reqs
  <1>2. ASSUME NEW pc \in ReqPcs, NEW m \in Manifests, req' = [req EXCEPT !.pc = pc, !.j.m = m]
        PROVE  /\ req' \in Reqs /\ req'.pc = pc /\ req'.m = req.m
               /\ req'.j.m = m /\ req'.j.done = req.j.done /\ req'.j.status = req.j.status
    <2> DEFINE j == [req.j EXCEPT !.m = m]
    <2>1. req.j \in Rows
      BY DEF Reqs
    <2>2. j \in Rows /\ j.m = m /\ j.done = req.j.done /\ j.status = req.j.status
      BY <2>1 DEF Rows
    <2>3. req' = [[req EXCEPT !.pc = pc] EXCEPT !.j = j]
      BY <1>2 DEF Reqs
    <2> HIDE DEF j
    <2> QED BY <2>2, <2>3 DEF Reqs
  <1> QED BY <1>1, <1>2

(* The constants of Init and of an ended request or runner are typed.      *)
LEMMA ConstantTypes ==
    /\ NoManifest \in Manifests
    /\ NewRow \in Rows /\ Idle \in Reqs /\ Idle.pc = "idle" /\ ~Idle.j.done
    /\ NoRecord \in Recs /\ NoFin \in Fins /\ NoFin.by = "none"
    /\ Gone \in Runs /\ Gone.pc = "gone" /\ ~Gone.done
    /\ NotRegistered \in Regs /\ Registered \in Regs /\ NoTable \in TabRecs
  <1>1. NoManifest \in Manifests
    BY DEF NoManifest, Manifests
  <1>2. NewRow \in Rows
    BY <1>1, Literals DEF NewRow, Rows
  <1>3. Idle \in Reqs /\ Idle.pc = "idle" /\ ~Idle.j.done
    BY <1>1, <1>2, Literals DEF Idle, Reqs, NewRow
  <1>4. NoRecord \in Recs
    BY <1>1, Literals, BootstrapAssumption DEF NoRecord, Record, Recs, NoPlan
  <1>5. NoFin \in Fins /\ NoFin.by = "none"
    BY <1>1 DEF NoFin, Fins
  <1>6. Gone \in Runs /\ Gone.pc = "gone" /\ ~Gone.done
    BY Literals, BootstrapAssumption DEF Gone, Runs
  <1>7. NotRegistered \in Regs /\ Registered \in Regs /\ NoTable \in TabRecs
    BY DEF NotRegistered, Registered, Regs, NoTable, TabRecs
  <1> QED BY <1>1, <1>2, <1>3, <1>4, <1>5, <1>6, <1>7

(* The manifest of a copy: the tables without an issue are followed, those *)
(* with one are excluded.                                                  *)
LEMMA ManifestFacts ==
    ASSUME NEW issues \in [Tables -> Stages \cup {""}]
    PROVE  /\ Manifest(issues) \in Manifests
           /\ \A t \in Tables : t \in Manifest(issues).effective <=> issues[t] = ""
           /\ \A t \in Tables : t \in Excluded(Manifest(issues)) <=> issues[t] # ""
           /\ \A t \in Tables : t \in OwnedTables(Manifest(issues)) <=> issues[t] \in Owned
           /\ Manifest(issues).effective \subseteq Tables
           /\ OwnedTables(Manifest(issues)) \subseteq Excluded(Manifest(issues))
  <1> DEFINE m == Manifest(issues)
  <1>1. m.effective = {t \in Tables : issues[t] = ""}
    BY DEF Manifest
  <1>2. m.excluded = {<<t, issues[t]>> : t \in {u \in Tables : issues[u] # ""}}
    BY DEF Manifest
  <1> HIDE DEF m
  <1>a. \A e \in m.excluded : e[1] \in Tables /\ e[2] = issues[e[1]] /\ e[2] \in Stages
    <2> SUFFICES ASSUME NEW e \in m.excluded
                 PROVE  e[1] \in Tables /\ e[2] = issues[e[1]] /\ e[2] \in Stages
      OBVIOUS
    <2>1. PICK u \in {v \in Tables : issues[v] # ""} : e = <<u, issues[u]>>
      BY <1>2
    <2> QED BY <2>1
  <1>b. \A t \in Tables : issues[t] # "" => <<t, issues[t]>> \in m.excluded
    BY <1>2
  <1>3. m \in Manifests
    <2>1. ASSUME NEW e \in m.excluded PROVE e \in Tables \X Stages
      <3>1. PICK u \in {v \in Tables : issues[v] # ""} : e = <<u, issues[u]>>
        BY <1>2
      <3>2. issues[u] \in Stages
        OBVIOUS
      <3> QED BY <3>1, <3>2
    <2>2. m = [effective |-> m.effective, excluded |-> m.excluded]
      BY DEF m, Manifest
    <2> QED BY <2>1, <2>2, <1>1 DEF Manifests
  <1>4. \A t \in Tables : t \in Excluded(m) <=> issues[t] # ""
    <2> SUFFICES ASSUME NEW t \in Tables PROVE t \in Excluded(m) <=> issues[t] # ""
      OBVIOUS
    <2>1. ASSUME t \in Excluded(m) PROVE issues[t] # ""
      <3>1. PICK e \in m.excluded : t = e[1]
        BY <2>1 DEF Excluded
      <3> QED BY <3>1, <1>a DEF Stages
    <2>2. ASSUME issues[t] # "" PROVE t \in Excluded(m)
      <3>1. PICK e \in m.excluded : e = <<t, issues[t]>>
        BY <2>2, <1>b
      <3>2. e[1] = t
        BY <3>1
      <3> QED BY <3>2 DEF Excluded
    <2> QED BY <2>1, <2>2
  <1>5. \A t \in Tables : t \in OwnedTables(m) <=> issues[t] \in Owned
    <2> SUFFICES ASSUME NEW t \in Tables PROVE t \in OwnedTables(m) <=> issues[t] \in Owned
      OBVIOUS
    <2>1. ASSUME t \in OwnedTables(m) PROVE issues[t] \in Owned
      <3>1. PICK e \in m.excluded : t = e[1] /\ e[2] \in Owned
        BY <2>1 DEF OwnedTables
      <3> QED BY <3>1, <1>a
    <2>2. ASSUME issues[t] \in Owned PROVE t \in OwnedTables(m)
      <3>1. PICK e \in m.excluded : e = <<t, issues[t]>>
        BY <2>2, <1>b DEF Owned, Stages
      <3>2. e[1] = t /\ e[2] \in Owned
        BY <3>1, <2>2
      <3> QED BY <3>2 DEF OwnedTables
    <2> QED BY <2>1, <2>2
  <1>6. OwnedTables(m) \subseteq Excluded(m)
    BY DEF OwnedTables, Excluded
  <1> QED BY <1>1, <1>3, <1>4, <1>5, <1>6 DEF m

-----------------------------------------------------------------------------
(* The cleanup plan.                                                       *)

(* SetToSeq lists every element of a finite set.                           *)
LEMMA SetToSeqFacts ==
    ASSUME NEW S, IsFiniteSet(S)
    PROVE  /\ Cardinality(S) \in Nat
           /\ SetToSeq(S) \in [1 .. Cardinality(S) -> S]
           /\ \A x \in S : \E i \in 1 .. Cardinality(S) : SetToSeq(S)[i] = x
  <1> DEFINE n == Cardinality(S)
             f == SetToSeq(S)
  <1>1. n \in Nat /\ ExistsBijection(1 .. n, S)
    BY FS_CardinalityType
  <1>2. \E g \in [1 .. n -> S] : IsInjective(g)
    BY <1>1 DEF ExistsBijection, Bijection, Injection
  <1>3. f \in [1 .. n -> S] /\ IsInjective(f)
    BY <1>2 DEF SetToSeq
  <1>4. IsFiniteSet(1 .. n) /\ Cardinality(1 .. n) = n
    BY <1>1, FS_Interval
  <1>5. f \in Injection(1 .. n, S)
    BY <1>3 DEF Injection
  <1>6. f \in Surjection(1 .. n, S)
    BY <1>4, <1>5, FS_Injection
  <1> QED BY <1>1, <1>3, <1>6 DEF Surjection

(* The excluded and the owned tables of a manifest are tables.             *)
LEMMA ManifestTables ==
    ASSUME NEW m \in Manifests
    PROVE  /\ m.effective \subseteq Tables /\ Excluded(m) \subseteq Tables
           /\ OwnedTables(m) \subseteq Excluded(m)
  BY DEF Manifests, Excluded, OwnedTables

(* Tables and foreign keys are finitely many, and a key is no empty tuple. *)
LEMMA FiniteTables ==
    /\ IsFiniteSet(Tables) /\ IsFiniteSet(Refs) /\ <<>> \notin Refs
    /\ \A r \in Refs : r \in Tables \X Tables /\ r[1] \in Tables /\ r[2] \in Tables
  <1>1. IsFiniteSet(Tables)
    BY BootstrapAssumption, FS_Interval DEF Tables
  <1>2. IsFiniteSet(Tables \X Tables)
    BY <1>1, FS_Product
  <1>3. Refs \subseteq Tables \X Tables
    BY BootstrapAssumption
  <1>4. IsFiniteSet(Refs)
    BY <1>2, <1>3, FS_Subset
  <1>5. <<>> \notin Refs
    <2> SUFFICES ASSUME <<>> \in Refs PROVE FALSE
      OBVIOUS
    <2>1. PICK a \in Tables, b \in Tables : <<>> = <<a, b>>
      BY <1>3
    <2>2. Len(<<>>) = 0 /\ Len(<<a, b>>) = 2
      OBVIOUS
    <2> QED BY <2>1, <2>2
  <1> QED BY <1>1, <1>3, <1>4, <1>5

(* A plan for m names objects the copy made, all that must go, and none is *)
(* done.                                                                   *)
PlanFor(m, plan) ==
    /\ plan \in Seq(Items)
    /\ \A i \in DOMAIN plan :
          /\ plan[i].id \in made /\ ~plan[i].done
          /\ plan[i].key = <<>> => plan[i].table \in OwnedTables(m)
    /\ \A t \in OwnedTables(m) : tab[t].id \in made =>
          \E i \in DOMAIN plan : plan[i].key = <<>> /\ plan[i].table = t
    /\ \A r \in Refs : r[1] \in m.effective /\ r[2] \in OwnedTables(m) /\ fks[r] # 0 =>
          \E i \in DOMAIN plan : plan[i].key = r

(* The elements of a concatenation.                                        *)
LEMMA ConcatFacts ==
    ASSUME NEW S, NEW a \in Seq(S), NEW b \in Seq(S)
    PROVE  /\ a \o b \in Seq(S) /\ DOMAIN (a \o b) = 1 .. (Len(a) + Len(b))
           /\ \A i \in 1 .. Len(a) : (a \o b)[i] = a[i]
           /\ \A i \in 1 .. Len(b) : (a \o b)[Len(a) + i] = b[i]
           /\ \A i \in 1 .. (Len(a) + Len(b)) :
                 i \in 1 .. Len(a) \/ (i - Len(a) \in 1 .. Len(b) /\ (a \o b)[i] = b[i - Len(a)])
  <1>1. a \o b \in Seq(S) /\ Len(a \o b) = Len(a) + Len(b)
    OBVIOUS
  <1>2. \A i \in 1 .. (Len(a) + Len(b)) :
           (a \o b)[i] = IF i <= Len(a) THEN a[i] ELSE b[i - Len(a)]
    OBVIOUS
  <1>3. Len(a) \in Nat /\ Len(b) \in Nat
    OBVIOUS
  <1> QED BY <1>1, <1>2, <1>3

(* planBootstrapCleanup, when the owned tables are the copy's.             *)
LEMMA PlanFacts ==
    ASSUME tab \in [Tables -> TabRecs], fks \in [Refs -> Nat], IdInv, NEW m \in Manifests,
           \A t \in OwnedTables(m) : tab[t].id \in made
    PROVE  PlanFor(m, PlanCleanup(m))
  <1> DEFINE K == {r \in Refs : /\ fks[r] # 0 /\ r[2] \in Excluded(m)
                                /\ r[1] \in m.effective \cup OwnedTables(m)}
             O == {t \in OwnedTables(m) : tab[t].id # 0}
             keys == SetToSeq(K)
             own == SetToSeq(O)
             a == [i \in DOMAIN keys |->
                     [key |-> keys[i], table |-> keys[i][1], id |-> fks[keys[i]], done |-> FALSE]]
             b == [i \in DOMAIN own |->
                     [key |-> <<>>, table |-> own[i], id |-> tab[own[i]].id, done |-> FALSE]]
             k == Cardinality(K)
             n == Cardinality(O)
  <1>1. PlanCleanup(m) = a \o b
    BY DEF PlanCleanup
  <1>2. IsFiniteSet(K) /\ IsFiniteSet(O)
    <2>1. K \subseteq Refs /\ O \subseteq Tables
      BY ManifestTables
    <2> QED BY <2>1, FiniteTables, FS_Subset
  <1>3. /\ k \in Nat /\ keys \in [1 .. k -> K]
        /\ \A x \in K : \E i \in 1 .. k : keys[i] = x
    BY <1>2, SetToSeqFacts
  <1>4. /\ n \in Nat /\ own \in [1 .. n -> O]
        /\ \A x \in O : \E i \in 1 .. n : own[i] = x
    BY <1>2, SetToSeqFacts
  <1>5. \A r \in K : r \in Refs /\ r # <<>> /\ r[1] \in Tables /\ fks[r] \in Nat /\ fks[r] \in made
    BY FiniteTables DEF IdInv
  <1>6. \A t \in O : t \in Tables /\ t \in OwnedTables(m) /\ tab[t].id \in Nat /\ tab[t].id \in made
    BY ManifestTables DEF TabRecs
  <1>7. \A r \in Refs : r[1] \in m.effective /\ r[2] \in OwnedTables(m) /\ fks[r] # 0 => r \in K
    BY ManifestTables
  <1>8. \A t \in OwnedTables(m) : tab[t].id \in made => t \in O
    BY DEF IdInv
  <1> HIDE DEF K, O, keys, own, k, n
  <1>9. a \in Seq(Items) /\ Len(a) = k /\ DOMAIN a = 1 .. k
    <2>1. \A i \in 1 .. k : a[i] \in Items
      BY <1>3, <1>5 DEF Items, Keys
    <2>2. a = [i \in 1 .. k |-> a[i]]
      BY <1>3
    <2> HIDE DEF a
    <2> QED BY <2>1, <2>2, <1>3
  <1>10. b \in Seq(Items) /\ Len(b) = n /\ DOMAIN b = 1 .. n
    <2>1. \A i \in 1 .. n : b[i] \in Items
      BY <1>4, <1>6 DEF Items, Keys
    <2>2. b = [i \in 1 .. n |-> b[i]]
      BY <1>4
    <2> HIDE DEF b
    <2> QED BY <2>1, <2>2, <1>4
  <1>11. \A i \in 1 .. k : /\ a[i].key = keys[i] /\ a[i].id = fks[keys[i]] /\ ~a[i].done
                           /\ a[i].key # <<>> /\ a[i].id \in made
    BY <1>3, <1>5
  <1>12. \A i \in 1 .. n : /\ b[i].key = <<>> /\ b[i].table = own[i] /\ ~b[i].done
                           /\ b[i].table \in OwnedTables(m) /\ b[i].id \in made
    BY <1>4, <1>6
  <1> DEFINE p == a \o b
  <1> HIDE DEF a, b
  <1>13. /\ p \in Seq(Items) /\ DOMAIN p = 1 .. (k + n)
         /\ \A i \in 1 .. k : p[i] = a[i]
         /\ \A i \in 1 .. n : p[k + i] = b[i]
         /\ \A i \in 1 .. (k + n) : i \in 1 .. k \/ (i - k \in 1 .. n /\ p[i] = b[i - k])
    <2>1. /\ a \o b \in Seq(Items) /\ DOMAIN (a \o b) = 1 .. (Len(a) + Len(b))
          /\ \A i \in 1 .. Len(a) : (a \o b)[i] = a[i]
          /\ \A i \in 1 .. Len(b) : (a \o b)[Len(a) + i] = b[i]
          /\ \A i \in 1 .. (Len(a) + Len(b)) :
                i \in 1 .. Len(a) \/ (i - Len(a) \in 1 .. Len(b) /\ (a \o b)[i] = b[i - Len(a)])
      BY ZenonT(60), <1>9, <1>10, ConcatFacts
    <2>2. Len(a) = k /\ Len(b) = n
      BY <1>9, <1>10
    <2> HIDE DEF p
    <2>3. p = a \o b
      BY DEF p
    <2> QED BY ONLY <2>1, <2>2, <2>3
  <1> HIDE DEF p
  <1>14. \A i \in DOMAIN p :
          /\ p[i].id \in made /\ ~p[i].done
          /\ p[i].key = <<>> => p[i].table \in OwnedTables(m)
    <2> SUFFICES ASSUME NEW i \in DOMAIN p
                 PROVE  /\ p[i].id \in made /\ ~p[i].done
                        /\ p[i].key = <<>> => p[i].table \in OwnedTables(m)
      OBVIOUS
    <2>1. CASE i \in 1 .. k
      BY <2>1, <1>11, <1>13
    <2>2. CASE i \notin 1 .. k
      <3>1. i - k \in 1 .. n /\ p[i] = b[i - k]
        BY <2>2, <1>13
      <3> QED BY <3>1, <1>12
    <2> QED BY <2>1, <2>2
  <1>15. ASSUME NEW t \in OwnedTables(m), tab[t].id \in made
         PROVE  \E i \in DOMAIN p : p[i].key = <<>> /\ p[i].table = t
    <2>1. PICK i \in 1 .. n : own[i] = t
      BY <1>15, <1>8, <1>4
    <2>2. p[k + i].key = <<>> /\ p[k + i].table = t
      BY <2>1, <1>12, <1>13
    <2>3. k + i \in DOMAIN p
      BY <1>13, <1>3, <1>4
    <2> QED BY <2>2, <2>3
  <1>16. ASSUME NEW r \in Refs, r[1] \in m.effective, r[2] \in OwnedTables(m), fks[r] # 0
         PROVE  \E i \in DOMAIN p : p[i].key = r
    <2>1. PICK i \in 1 .. k : keys[i] = r
      BY <1>16, <1>7, <1>3
    <2>2. p[i].key = r
      BY <2>1, <1>11, <1>13
    <2>3. i \in DOMAIN p
      BY <1>13, <1>3, <1>4
    <2> QED BY <2>2, <2>3
  <1>17. PlanCleanup(m) = p
    BY <1>1 DEF p
  <1> QED BY <1>13, <1>14, <1>15, <1>16, <1>17 DEF PlanFor

-----------------------------------------------------------------------------
(* Parts of the invariant that an action does not touch.                   *)

(* Objects, plan and record are as they were.                              *)
LEMMA KeepData ==
    ASSUME IdInv, PlanInv, WholeInv, OnlyOwnDropped, rec' = rec, tab' = tab, fks' = fks,
           nextId' = nextId, made' = made, dropped' = dropped
    PROVE  IdInv' /\ PlanInv' /\ WholeInv' /\ OnlyOwnDropped'
  BY DEF IdInv, PlanInv, WholeInv, OnlyOwnDropped, ObjectGone

(* A FinalizeBootstrap in progress stays where it is.                      *)
LEMMA KeepFin ==
    ASSUME FinInv, fin' = fin, rec' = rec, tab' = tab, fks' = fks, made' = made,
           fin.by = "run" => run'.pc = run.pc /\ run'.issues = run.issues,
           fin.by = "req" => req'.pc = req.pc
    PROVE  FinInv'
  BY ZenonT(60) DEF FinInv, ObjectGone, Manifest, NoFin

(* Calls of the runner's target operations end in one of three ways.       *)
LEMMA EndsFacts == \A b \in BOOLEAN : Ends(b) \subseteq {"ok", "fail", "lost"}
  BY DEF Ends

(* Tables are numbered from 1.                                             *)
LEMMA TableNumbers ==
    /\ 1 \in 0 .. NumTables /\ 1 \in Tables /\ NumTables \in Tables
    /\ \A t \in Tables : t \in Nat /\ t >= 1 /\ ~(t < 1) /\ t <= NumTables
  BY BootstrapAssumption DEF Tables

(* The runner asks the target; there is no record yet. *)
LEMMA RunLoadStep ==
    ASSUME Inv, RunLoad
    PROVE  Inv'
  <1>0. /\ rec' = rec /\ tab' = tab /\ fks' = fks /\ nextId' = nextId /\ made' = made
        /\ dropped' = dropped /\ fin' = fin /\ acked' = acked /\ published' = published /\ policy' = policy
        /\ reg' = reg
        /\ req' = req
        /\ run.pc = "load"
        /\ \/ RunFailed("error") /\ row' = row
           \/ RunTo("capture") /\ RowTo("snapshot", row.state)
    BY GotoEffect, FailsEffect, SetRowEffect, Literals
    DEF Inv, Typed, EarlyInv, Early, RunLoad, RunKeeps, objects, ghosts, RunAt
  <1>1. Typed'
    BY <1>0 DEF Inv, Typed, RunTo, RunFailed, RowTo
  <1>2. LiveInv'
    BY <1>0 DEF Inv, Typed, RunTo, RunFailed, RowTo, LiveInv, Quiet
  <1>3. EarlyInv'
    BY <1>0
    DEF Inv, Typed, RunTo, RunFailed, RowTo, EarlyInv, RowInv, ReqInv, LiveInv, FinInv, Early, Quiet, Away,
        Resumable, RowNeverAhead
  <1>4. RowInv'
    BY <1>0
    DEF Inv, Typed, RunTo, RunFailed, RowTo, EarlyInv, RowInv, ReqInv, LiveInv, Early, Quiet, Away,
        Resumable, RowNeverAhead
  <1>5. ReqInv'
    BY <1>0
    DEF Inv, Typed, RunTo, RunFailed, RowTo, EarlyInv, RowInv, ReqInv, LiveInv, Early, Quiet, Away,
        Resumable, RowNeverAhead
  <1>6. CopyInv'
    BY <1>0 DEF Inv, Typed, RunTo, RunFailed, RowTo, CopyInv
  <1>7. FinInv'
    BY <1>0, KeepFin DEF Inv, FinInv, RunTo, RunFailed
  <1>8. IdInv' /\ PlanInv' /\ WholeInv' /\ OnlyOwnDropped'
    BY <1>0, KeepData DEF Inv
  <1>9. OnlyAcknowledged'
    BY <1>0 DEF Inv, OnlyAcknowledged
  <1> QED BY <1>1, <1>2, <1>3, <1>4, <1>5, <1>6, <1>7, <1>8, <1>9 DEF Inv

(* The copy begins with the first table. *)
LEMMA RunPendingStep ==
    ASSUME Inv, RunPending
    PROVE  Inv'
  <1>a. /\ run' \in Runs /\ run'.pc = "create" /\ run'.t = 1 /\ run'.issues = run.issues
        /\ run'.done = run.done /\ run'.scope = run.scope
    BY TableNumbers, Literals DEF Inv, Typed, RunPending, Runs
  <1>0. /\ rec' = rec /\ tab' = tab /\ fks' = fks /\ nextId' = nextId /\ made' = made
        /\ dropped' = dropped /\ fin' = fin /\ acked' = acked /\ published' = published /\ policy' = policy
        /\ reg' = reg
        /\ req' = req
        /\ run.pc = "pending"
        /\ RowTo(row.status, "snapshot_in_progress")
        /\ run' \in Runs /\ run'.pc = "create" /\ run'.t = 1 /\ run'.issues = run.issues
        /\ run'.done = run.done /\ run'.scope = run.scope
    BY <1>a, SetRowEffect, Literals
    DEF Inv, Typed, RunPending, RunKeeps, objects, ghosts, RunAt
  <1>1. Typed'
    BY <1>0 DEF Inv, Typed, RunTo, RunFailed, RowTo
  <1>2. LiveInv'
    BY <1>0 DEF Inv, Typed, RunTo, RunFailed, RowTo, LiveInv, Quiet
  <1>3. EarlyInv'
    BY <1>0
    DEF Inv, Typed, RunTo, RunFailed, RowTo, EarlyInv, RowInv, ReqInv, LiveInv, FinInv, Early, Quiet, Away,
        Resumable, RowNeverAhead
  <1>4. RowInv'
    BY <1>0
    DEF Inv, Typed, RunTo, RunFailed, RowTo, EarlyInv, RowInv, ReqInv, LiveInv, Early, Quiet, Away,
        Resumable, RowNeverAhead
  <1>5. ReqInv'
    BY <1>0
    DEF Inv, Typed, RunTo, RunFailed, RowTo, EarlyInv, RowInv, ReqInv, LiveInv, Early, Quiet, Away,
        Resumable, RowNeverAhead
  <1>6. CopyInv'
    BY <1>0, TableNumbers DEF Inv, Typed, RowTo, CopyInv
  <1>7. FinInv'
    BY <1>0, KeepFin DEF Inv, FinInv, RunTo, RunFailed
  <1>8. IdInv' /\ PlanInv' /\ WholeInv' /\ OnlyOwnDropped'
    BY <1>0, KeepData DEF Inv
  <1>9. OnlyAcknowledged'
    BY <1>0 DEF Inv, OnlyAcknowledged
  <1> QED BY <1>1, <1>2, <1>3, <1>4, <1>5, <1>6, <1>7, <1>8, <1>9 DEF Inv

(* The cancelled copy stops between two steps. *)
LEMMA RunStopsStep ==
    ASSUME Inv, RunStops
    PROVE  Inv'
  <1>0. /\ rec' = rec /\ tab' = tab /\ fks' = fks /\ nextId' = nextId /\ made' = made
        /\ dropped' = dropped /\ fin' = fin /\ acked' = acked /\ published' = published /\ policy' = policy
        /\ reg' = reg
        /\ req' = req
        /\ row' = row
        /\ run.pc \in {"create", "copy", "post", "count"}
        /\ RunFailed("canceled")
    BY FailsEffect
    DEF Inv, Typed, RunStops, RunKeeps, objects, ghosts, RunAt, Copying
  <1>1. Typed'
    BY <1>0 DEF Inv, Typed, RunTo, RunFailed, RowTo
  <1>2. LiveInv'
    BY <1>0 DEF Inv, Typed, RunTo, RunFailed, RowTo, LiveInv, Quiet
  <1>3. EarlyInv'
    BY <1>0
    DEF Inv, Typed, RunTo, RunFailed, RowTo, EarlyInv, RowInv, ReqInv, LiveInv, FinInv, Early, Quiet, Away,
        Resumable, RowNeverAhead
  <1>4. RowInv'
    BY <1>0
    DEF Inv, Typed, RunTo, RunFailed, RowTo, EarlyInv, RowInv, ReqInv, LiveInv, Early, Quiet, Away,
        Resumable, RowNeverAhead
  <1>5. ReqInv'
    BY <1>0
    DEF Inv, Typed, RunTo, RunFailed, RowTo, EarlyInv, RowInv, ReqInv, LiveInv, Early, Quiet, Away,
        Resumable, RowNeverAhead
  <1>6. CopyInv'
    BY <1>0 DEF Inv, Typed, RunTo, RunFailed, RowTo, CopyInv
  <1>7. FinInv'
    BY <1>0, KeepFin DEF Inv, FinInv, RunTo, RunFailed
  <1>8. IdInv' /\ PlanInv' /\ WholeInv' /\ OnlyOwnDropped'
    BY <1>0, KeepData DEF Inv
  <1>9. OnlyAcknowledged'
    BY <1>0 DEF Inv, OnlyAcknowledged
  <1> QED BY <1>1, <1>2, <1>3, <1>4, <1>5, <1>6, <1>7, <1>8, <1>9 DEF Inv

(* The policy is applied. *)
LEMMA RunStrictStep ==
    ASSUME Inv, RunStrict
    PROVE  Inv'
  <1>0. /\ rec' = rec /\ tab' = tab /\ fks' = fks /\ nextId' = nextId /\ made' = made
        /\ dropped' = dropped /\ fin' = fin /\ acked' = acked /\ published' = published /\ policy' = policy
        /\ reg' = reg
        /\ req' = req
        /\ row' = row
        /\ run.pc = "strict"
        /\ RunTo("abort") \/ RunTo("compat")
    BY GotoEffect, Literals
    DEF Inv, Typed, RunStrict, RunKeeps, objects, ghosts, RunAt
  <1>1. Typed'
    BY <1>0 DEF Inv, Typed, RunTo, RunFailed, RowTo
  <1>2. LiveInv'
    BY <1>0 DEF Inv, Typed, RunTo, RunFailed, RowTo, LiveInv, Quiet
  <1>3. EarlyInv'
    BY <1>0
    DEF Inv, Typed, RunTo, RunFailed, RowTo, EarlyInv, RowInv, ReqInv, LiveInv, FinInv, Early, Quiet, Away,
        Resumable, RowNeverAhead
  <1>4. RowInv'
    BY <1>0
    DEF Inv, Typed, RunTo, RunFailed, RowTo, EarlyInv, RowInv, ReqInv, LiveInv, Early, Quiet, Away,
        Resumable, RowNeverAhead
  <1>5. ReqInv'
    BY <1>0
    DEF Inv, Typed, RunTo, RunFailed, RowTo, EarlyInv, RowInv, ReqInv, LiveInv, Early, Quiet, Away,
        Resumable, RowNeverAhead
  <1>6. CopyInv'
    BY <1>0 DEF Inv, Typed, RunTo, RunFailed, RowTo, CopyInv
  <1>7. FinInv'
    BY <1>0, KeepFin DEF Inv, FinInv, RunTo, RunFailed
  <1>8. IdInv' /\ PlanInv' /\ WholeInv' /\ OnlyOwnDropped'
    BY <1>0, KeepData DEF Inv
  <1>9. OnlyAcknowledged'
    BY <1>0 DEF Inv, OnlyAcknowledged
  <1> QED BY <1>1, <1>2, <1>3, <1>4, <1>5, <1>6, <1>7, <1>8, <1>9 DEF Inv

(* The copy is given up in the row. *)
LEMMA RunAbortRowStep ==
    ASSUME Inv, RunAbortRow
    PROVE  Inv'
  <1>0. /\ rec' = rec /\ tab' = tab /\ fks' = fks /\ nextId' = nextId /\ made' = made
        /\ dropped' = dropped /\ fin' = fin /\ acked' = acked /\ published' = published /\ policy' = policy
        /\ reg' = reg
        /\ req' = req
        /\ run.pc = "abort_row"
        /\ RowTo(row.status, "aborted")
        /\ RunFailed("error")
    BY FailsEffect, SetRowEffect, Literals
    DEF Inv, Typed, RunAbortRow, RunKeeps, objects, ghosts, RunAt
  <1>1. Typed'
    BY <1>0 DEF Inv, Typed, RunTo, RunFailed, RowTo
  <1>2. LiveInv'
    BY <1>0 DEF Inv, Typed, RunTo, RunFailed, RowTo, LiveInv, Quiet
  <1>3. EarlyInv'
    BY <1>0
    DEF Inv, Typed, RunTo, RunFailed, RowTo, EarlyInv, RowInv, ReqInv, LiveInv, FinInv, Early, Quiet, Away,
        Resumable, RowNeverAhead
  <1>4. RowInv'
    BY <1>0
    DEF Inv, Typed, RunTo, RunFailed, RowTo, EarlyInv, RowInv, ReqInv, LiveInv, Early, Quiet, Away,
        Resumable, RowNeverAhead
  <1>5. ReqInv'
    BY <1>0
    DEF Inv, Typed, RunTo, RunFailed, RowTo, EarlyInv, RowInv, ReqInv, LiveInv, Early, Quiet, Away,
        Resumable, RowNeverAhead
  <1>6. CopyInv'
    BY <1>0 DEF Inv, Typed, RunTo, RunFailed, RowTo, CopyInv
  <1>7. FinInv'
    BY <1>0, KeepFin DEF Inv, FinInv, RunTo, RunFailed
  <1>8. IdInv' /\ PlanInv' /\ WholeInv' /\ OnlyOwnDropped'
    BY <1>0, KeepData DEF Inv
  <1>9. OnlyAcknowledged'
    BY <1>0 DEF Inv, OnlyAcknowledged
  <1> QED BY <1>1, <1>2, <1>3, <1>4, <1>5, <1>6, <1>7, <1>8, <1>9 DEF Inv

(* The review is published in the row. *)
LEMMA RunReviewRowStep ==
    ASSUME Inv, RunReviewRow
    PROVE  Inv'
  <1>0. /\ rec' = rec /\ tab' = tab /\ fks' = fks /\ nextId' = nextId /\ made' = made
        /\ dropped' = dropped /\ fin' = fin /\ acked' = acked /\ published' = published /\ policy' = policy
        /\ reg' = reg
        /\ req' = req
        /\ run.pc = "review_row"
        /\ RunFailed("review")
        /\ row' \in Rows /\ row'.status = "paused_bootstrap_review" /\ row'.state = "review_pending"
        /\ row'.done = row.done /\ row'.m = Manifest(run.issues)
    BY FailsEffect, RecordRowEffect, ManifestFacts
    DEF Inv, Typed, RunReviewRow, RunKeeps, objects, ghosts, RunAt, Runs
  <1>1. Typed'
    BY <1>0 DEF Inv, Typed, RunTo, RunFailed, RowTo
  <1>2. LiveInv'
    BY <1>0 DEF Inv, Typed, RunTo, RunFailed, RowTo, LiveInv, Quiet
  <1>3. EarlyInv'
    BY <1>0
    DEF Inv, Typed, RunTo, RunFailed, RowTo, EarlyInv, RowInv, ReqInv, LiveInv, FinInv, Early, Quiet, Away,
        Resumable, RowNeverAhead
  <1>4. RowInv'
    BY <1>0
    DEF Inv, Typed, RunTo, RunFailed, RowTo, EarlyInv, RowInv, ReqInv, LiveInv, Early, Quiet, Away,
        Resumable, RowNeverAhead
  <1>5. ReqInv'
    BY <1>0
    DEF Inv, Typed, RunTo, RunFailed, RowTo, EarlyInv, RowInv, ReqInv, LiveInv, Early, Quiet, Away,
        Resumable, RowNeverAhead
  <1>6. CopyInv'
    BY <1>0 DEF Inv, Typed, RunTo, RunFailed, RowTo, CopyInv
  <1>7. FinInv'
    BY <1>0, KeepFin DEF Inv, FinInv, RunTo, RunFailed
  <1>8. IdInv' /\ PlanInv' /\ WholeInv' /\ OnlyOwnDropped'
    BY <1>0, KeepData DEF Inv
  <1>9. OnlyAcknowledged'
    BY <1>0 DEF Inv, OnlyAcknowledged
  <1> QED BY <1>1, <1>2, <1>3, <1>4, <1>5, <1>6, <1>7, <1>8, <1>9 DEF Inv

(* The completed record is applied to the row. *)
LEMMA RunApplyStep ==
    ASSUME Inv, RunApply
    PROVE  Inv'
  <1>0. /\ rec' = rec /\ tab' = tab /\ fks' = fks /\ nextId' = nextId /\ made' = made
        /\ dropped' = dropped /\ fin' = fin /\ acked' = acked /\ published' = published /\ policy' = policy
        /\ reg' = reg
        /\ req' = req
        /\ run.pc = "apply"
        /\ row' \in Rows /\ row'.status = row.status /\ row'.state = "completed" /\ row'.done /\ row'.m = rec.m
        /\ run' \in Runs /\ run'.pc \in {"cdc", "catching"} /\ run'.done /\ run'.scope = rec.m.effective
    BY RecordRowEffect, Literals
    DEF Inv, Typed, RunApply, RunKeeps, objects, ghosts, RunAt, Runs, Recs, Manifests
  <1>1. Typed'
    BY <1>0 DEF Inv, Typed, RunTo, RunFailed, RowTo
  <1>2. LiveInv'
    BY <1>0 DEF Inv, Typed, RunTo, RunFailed, RowTo, LiveInv, Quiet
  <1>3. EarlyInv'
    BY <1>0
    DEF Inv, Typed, RunTo, RunFailed, RowTo, EarlyInv, RowInv, ReqInv, LiveInv, FinInv, Early, Quiet, Away,
        Resumable, RowNeverAhead
  <1>4. RowInv'
    BY <1>0
    DEF Inv, Typed, RunTo, RunFailed, RowTo, EarlyInv, RowInv, ReqInv, LiveInv, Early, Quiet, Away,
        Resumable, RowNeverAhead
  <1>5. ReqInv'
    BY <1>0
    DEF Inv, Typed, RunTo, RunFailed, RowTo, EarlyInv, RowInv, ReqInv, LiveInv, Early, Quiet, Away,
        Resumable, RowNeverAhead
  <1>6. CopyInv'
    BY <1>0 DEF Inv, Typed, RunTo, RunFailed, RowTo, CopyInv
  <1>7. FinInv'
    BY <1>0, KeepFin DEF Inv, FinInv, RunTo, RunFailed
  <1>8. IdInv' /\ PlanInv' /\ WholeInv' /\ OnlyOwnDropped'
    BY <1>0, KeepData DEF Inv
  <1>9. OnlyAcknowledged'
    BY <1>0 DEF Inv, OnlyAcknowledged
  <1> QED BY <1>1, <1>2, <1>3, <1>4, <1>5, <1>6, <1>7, <1>8, <1>9 DEF Inv

(* The job catches up. *)
LEMMA RunCatchingStep ==
    ASSUME Inv, RunCatching
    PROVE  Inv'
  <1>0. /\ rec' = rec /\ tab' = tab /\ fks' = fks /\ nextId' = nextId /\ made' = made
        /\ dropped' = dropped /\ fin' = fin /\ acked' = acked /\ published' = published /\ policy' = policy
        /\ reg' = reg
        /\ req' = req
        /\ run.pc = "catching"
        /\ RowTo("catching_up", row.state)
        /\ RunTo("cdc")
    BY GotoEffect, SetRowEffect, Literals
    DEF Inv, Typed, RunCatching, RunKeeps, objects, ghosts, RunAt
  <1>1. Typed'
    BY <1>0 DEF Inv, Typed, RunTo, RunFailed, RowTo
  <1>2. LiveInv'
    BY <1>0 DEF Inv, Typed, RunTo, RunFailed, RowTo, LiveInv, Quiet
  <1>3. EarlyInv'
    BY <1>0
    DEF Inv, Typed, RunTo, RunFailed, RowTo, EarlyInv, RowInv, ReqInv, LiveInv, FinInv, Early, Quiet, Away,
        Resumable, RowNeverAhead
  <1>4. RowInv'
    BY <1>0
    DEF Inv, Typed, RunTo, RunFailed, RowTo, EarlyInv, RowInv, ReqInv, LiveInv, Early, Quiet, Away,
        Resumable, RowNeverAhead
  <1>5. ReqInv'
    BY <1>0
    DEF Inv, Typed, RunTo, RunFailed, RowTo, EarlyInv, RowInv, ReqInv, LiveInv, Early, Quiet, Away,
        Resumable, RowNeverAhead
  <1>6. CopyInv'
    BY <1>0 DEF Inv, Typed, RunTo, RunFailed, RowTo, CopyInv
  <1>7. FinInv'
    BY <1>0, KeepFin DEF Inv, FinInv, RunTo, RunFailed
  <1>8. IdInv' /\ PlanInv' /\ WholeInv' /\ OnlyOwnDropped'
    BY <1>0, KeepData DEF Inv
  <1>9. OnlyAcknowledged'
    BY <1>0 DEF Inv, OnlyAcknowledged
  <1> QED BY <1>1, <1>2, <1>3, <1>4, <1>5, <1>6, <1>7, <1>8, <1>9 DEF Inv

(* The stream is opened. *)
LEMMA RunCdcStep ==
    ASSUME Inv, RunCdc
    PROVE  Inv'
  <1>0. /\ rec' = rec /\ tab' = tab /\ fks' = fks /\ nextId' = nextId /\ made' = made
        /\ dropped' = dropped /\ fin' = fin /\ acked' = acked /\ published' = published /\ policy' = policy
        /\ reg' = reg
        /\ req' = req
        /\ run.pc = "cdc"
        /\ \/ RunTo("stream") /\ RowTo("running", row.state)
           \/ RunFailed("error") /\ row' = row
    BY GotoEffect, FailsEffect, SetRowEffect, Literals
    DEF Inv, Typed, RunCdc, RunKeeps, objects, ghosts, RunAt
  <1>1. Typed'
    BY <1>0 DEF Inv, Typed, RunTo, RunFailed, RowTo
  <1>2. LiveInv'
    BY <1>0 DEF Inv, Typed, RunTo, RunFailed, RowTo, LiveInv, Quiet
  <1>3. EarlyInv'
    BY <1>0
    DEF Inv, Typed, RunTo, RunFailed, RowTo, EarlyInv, RowInv, ReqInv, LiveInv, FinInv, Early, Quiet, Away,
        Resumable, RowNeverAhead
  <1>4. RowInv'
    BY <1>0
    DEF Inv, Typed, RunTo, RunFailed, RowTo, EarlyInv, RowInv, ReqInv, LiveInv, Early, Quiet, Away,
        Resumable, RowNeverAhead
  <1>5. ReqInv'
    BY <1>0
    DEF Inv, Typed, RunTo, RunFailed, RowTo, EarlyInv, RowInv, ReqInv, LiveInv, Early, Quiet, Away,
        Resumable, RowNeverAhead
  <1>6. CopyInv'
    BY <1>0 DEF Inv, Typed, RunTo, RunFailed, RowTo, CopyInv
  <1>7. FinInv'
    BY <1>0, KeepFin DEF Inv, FinInv, RunTo, RunFailed
  <1>8. IdInv' /\ PlanInv' /\ WholeInv' /\ OnlyOwnDropped'
    BY <1>0, KeepData DEF Inv
  <1>9. OnlyAcknowledged'
    BY <1>0 DEF Inv, OnlyAcknowledged
  <1> QED BY <1>1, <1>2, <1>3, <1>4, <1>5, <1>6, <1>7, <1>8, <1>9 DEF Inv

(* The stream ends. *)
LEMMA RunStreamEndsStep ==
    ASSUME Inv, RunStreamEnds
    PROVE  Inv'
  <1>0. /\ rec' = rec /\ tab' = tab /\ fks' = fks /\ nextId' = nextId /\ made' = made
        /\ dropped' = dropped /\ fin' = fin /\ acked' = acked /\ published' = published /\ policy' = policy
        /\ reg' = reg
        /\ req' = req
        /\ row' = row
        /\ run.pc = "stream"
        /\ RunFailed("error")
    BY FailsEffect
    DEF Inv, Typed, RunStreamEnds, RunKeeps, objects, ghosts, RunAt
  <1>1. Typed'
    BY <1>0 DEF Inv, Typed, RunTo, RunFailed, RowTo
  <1>2. LiveInv'
    BY <1>0 DEF Inv, Typed, RunTo, RunFailed, RowTo, LiveInv, Quiet
  <1>3. EarlyInv'
    BY <1>0
    DEF Inv, Typed, RunTo, RunFailed, RowTo, EarlyInv, RowInv, ReqInv, LiveInv, FinInv, Early, Quiet, Away,
        Resumable, RowNeverAhead
  <1>4. RowInv'
    BY <1>0
    DEF Inv, Typed, RunTo, RunFailed, RowTo, EarlyInv, RowInv, ReqInv, LiveInv, Early, Quiet, Away,
        Resumable, RowNeverAhead
  <1>5. ReqInv'
    BY <1>0
    DEF Inv, Typed, RunTo, RunFailed, RowTo, EarlyInv, RowInv, ReqInv, LiveInv, Early, Quiet, Away,
        Resumable, RowNeverAhead
  <1>6. CopyInv'
    BY <1>0 DEF Inv, Typed, RunTo, RunFailed, RowTo, CopyInv
  <1>7. FinInv'
    BY <1>0, KeepFin DEF Inv, FinInv, RunTo, RunFailed
  <1>8. IdInv' /\ PlanInv' /\ WholeInv' /\ OnlyOwnDropped'
    BY <1>0, KeepData DEF Inv
  <1>9. OnlyAcknowledged'
    BY <1>0 DEF Inv, OnlyAcknowledged
  <1> QED BY <1>1, <1>2, <1>3, <1>4, <1>5, <1>6, <1>7, <1>8, <1>9 DEF Inv

(* The goroutine leaves the registry. *)
LEMMA RunRemoveStep ==
    ASSUME Inv, RunRemove
    PROVE  Inv'
  <1>0. /\ rec' = rec /\ tab' = tab /\ fks' = fks /\ nextId' = nextId /\ made' = made
        /\ dropped' = dropped /\ fin' = fin /\ acked' = acked /\ published' = published /\ policy' = policy
        /\ row' = row
        /\ req' = req
        /\ run.pc = "returned" /\ reg' \in Regs /\ ~reg'.live /\ reg'.action = ""
        /\ run' \in Runs
        /\ \/ run.err = "review" /\ run'.pc = "gone" /\ ~run'.done
           \/ /\ run.err # "review" /\ run'.pc \in {"failed_row", "gone_row", "give_up"}
              /\ run'.done = run.done /\ run'.scope = run.scope
    BY Literals, ConstantTypes
    DEF Inv, Typed, RunRemove, RunKeeps, objects, ghosts, RunAt, Runs, NotRegistered
  <1>1. Typed'
    BY <1>0 DEF Inv, Typed, RunTo, RunFailed, RowTo
  <1>2. LiveInv'
    BY <1>0 DEF Inv, Typed, RunTo, RunFailed, RowTo, LiveInv, Quiet
  <1>3. EarlyInv'
    BY <1>0
    DEF Inv, Typed, RunTo, RunFailed, RowTo, EarlyInv, RowInv, ReqInv, LiveInv, FinInv, Early, Quiet, Away,
        Resumable, RowNeverAhead
  <1>4. RowInv'
    BY <1>0
    DEF Inv, Typed, RunTo, RunFailed, RowTo, EarlyInv, RowInv, ReqInv, LiveInv, Early, Quiet, Away,
        Resumable, RowNeverAhead
  <1>5. ReqInv'
    BY <1>0
    DEF Inv, Typed, RunTo, RunFailed, RowTo, EarlyInv, RowInv, ReqInv, LiveInv, Early, Quiet, Away,
        Resumable, RowNeverAhead
  <1>6. CopyInv'
    BY <1>0 DEF Inv, Typed, RunTo, RunFailed, RowTo, CopyInv
  <1>7. FinInv'
    BY <1>0, KeepFin DEF Inv, FinInv, RunTo, RunFailed
  <1>8. IdInv' /\ PlanInv' /\ WholeInv' /\ OnlyOwnDropped'
    BY <1>0, KeepData DEF Inv
  <1>9. OnlyAcknowledged'
    BY <1>0 DEF Inv, OnlyAcknowledged
  <1> QED BY <1>1, <1>2, <1>3, <1>4, <1>5, <1>6, <1>7, <1>8, <1>9 DEF Inv

(* The last write of the goroutine. *)
LEMMA RunEndsStep ==
    ASSUME Inv, RunEnds
    PROVE  Inv'
  <1>0. /\ rec' = rec /\ tab' = tab /\ fks' = fks /\ nextId' = nextId /\ made' = made
        /\ dropped' = dropped /\ fin' = fin /\ acked' = acked /\ published' = published /\ policy' = policy
        /\ reg' = reg
        /\ req' = req
        /\ run.pc \in {"gone_row", "failed_row"}
        /\ RowTo("aborted", "aborted") \/ RowTo("failed", row.state)
        /\ run' \in Runs /\ run'.pc = "gone" /\ ~run'.done
    BY Literals, ConstantTypes, SetRowEffect
    DEF Inv, Typed, RunEnds, RunKeeps, objects, ghosts, RunAt
  <1>1. Typed'
    BY <1>0 DEF Inv, Typed, RunTo, RunFailed, RowTo
  <1>2. LiveInv'
    BY <1>0 DEF Inv, Typed, RunTo, RunFailed, RowTo, LiveInv, Quiet
  <1>3. EarlyInv'
    BY <1>0
    DEF Inv, Typed, RunTo, RunFailed, RowTo, EarlyInv, RowInv, ReqInv, LiveInv, FinInv, Early, Quiet, Away,
        Resumable, RowNeverAhead
  <1>4. RowInv'
    BY <1>0
    DEF Inv, Typed, RunTo, RunFailed, RowTo, EarlyInv, RowInv, ReqInv, LiveInv, Early, Quiet, Away,
        Resumable, RowNeverAhead
  <1>5. ReqInv'
    BY <1>0
    DEF Inv, Typed, RunTo, RunFailed, RowTo, EarlyInv, RowInv, ReqInv, LiveInv, Early, Quiet, Away,
        Resumable, RowNeverAhead
  <1>6. CopyInv'
    BY <1>0 DEF Inv, Typed, RunTo, RunFailed, RowTo, CopyInv
  <1>7. FinInv'
    BY <1>0, KeepFin DEF Inv, FinInv, RunTo, RunFailed
  <1>8. IdInv' /\ PlanInv' /\ WholeInv' /\ OnlyOwnDropped'
    BY <1>0, KeepData DEF Inv
  <1>9. OnlyAcknowledged'
    BY <1>0 DEF Inv, OnlyAcknowledged
  <1> QED BY <1>1, <1>2, <1>3, <1>4, <1>5, <1>6, <1>7, <1>8, <1>9 DEF Inv

(* What Judge does to the issues.                                          *)
LEMMA JudgeEffect ==
    ASSUME run \in Runs, NEW bad, NEW stage \in Stages, NEW next \in RunPcs, Judge(bad, stage, next)
    PROVE  /\ run' \in Runs /\ run'.pc = next /\ run'.done = run.done /\ run'.scope = run.scope
           /\ \A t \in Tables : \/ run'.issues[t] = run.issues[t] /\ (run.issues[t] = "" => t \notin bad)
                                \/ run.issues[t] = "" /\ run'.issues[t] = stage
  <1>1. PICK extra \in SUBSET Tables :
           run' = [run EXCEPT !.pc = next,
                     !.issues = [t \in Tables |-> IF @[t] = "" /\ t \in bad \cup extra
                                                  THEN stage ELSE @[t]]]
    BY DEF Judge
  <1> DEFINE is == [t \in Tables |-> IF run.issues[t] = "" /\ t \in bad \cup extra THEN stage ELSE run.issues[t]]
  <1>2. is \in [Tables -> Stages \cup {""}]
    BY DEF Runs
  <1>3. \A t \in Tables : \/ is[t] = run.issues[t] /\ (run.issues[t] = "" => t \notin bad)
                          \/ run.issues[t] = "" /\ is[t] = stage
    OBVIOUS
  <1>4. run' = [run EXCEPT !.pc = next, !.issues = is]
    BY <1>1
  <1> HIDE DEF is
  <1>5. run'.issues = is /\ run' \in Runs /\ run'.pc = next /\ run'.done = run.done /\ run'.scope = run.scope
    BY <1>2, <1>4 DEF Runs
  <1> QED BY <1>3, <1>5


(* The rows are counted. *)
LEMMA RunCountStep ==
    ASSUME Inv, RunCount
    PROVE  Inv'
  <1> DEFINE bad == {t \in Tables : tab[t].pages # Pages}
  <1>a. Judge(bad, "row_count", "report") /\ run \in Runs
    BY DEF RunCount, Inv, Typed
  <1> HIDE DEF bad
  <1>c. /\ run' \in Runs /\ run'.pc = "report" /\ run'.done = run.done /\ run'.scope = run.scope
        /\ \A t \in Tables : \/ run'.issues[t] = run.issues[t] /\ (run.issues[t] = "" => t \notin bad)
                             \/ run.issues[t] = "" /\ run'.issues[t] = "row_count"
    BY <1>a, JudgeEffect, Literals DEF Stages
  <1>b. /\ run' \in Runs /\ run'.pc = "report" /\ run'.done = run.done /\ run'.scope = run.scope
        /\ \A t \in Tables :
              \/ run'.issues[t] = run.issues[t] /\ (run.issues[t] = "" => tab[t].pages = Pages)
              \/ run.issues[t] = "" /\ run'.issues[t] = "row_count"
    BY <1>c DEF bad
  <1>0. /\ rec' = rec /\ tab' = tab /\ fks' = fks /\ nextId' = nextId /\ made' = made
        /\ dropped' = dropped /\ fin' = fin /\ acked' = acked /\ published' = published /\ policy' = policy
        /\ reg' = reg
        /\ req' = req
        /\ row' = row
        /\ run.pc = "count"
        /\ run' \in Runs /\ run'.pc = "report" /\ run'.done = run.done /\ run'.scope = run.scope
        /\ \A t \in Tables :
              \/ run'.issues[t] = run.issues[t] /\ (run.issues[t] = "" => tab[t].pages = Pages)
              \/ run.issues[t] = "" /\ run'.issues[t] = "row_count"
    BY <1>b
    DEF Inv, Typed, RunCount, RunKeeps, objects, ghosts, RunAt
  <1>1. Typed'
    BY <1>0 DEF Inv, Typed, RunTo, RunFailed, RowTo
  <1>2. LiveInv'
    BY <1>0 DEF Inv, Typed, RunTo, RunFailed, RowTo, LiveInv, Quiet
  <1>3. EarlyInv'
    BY <1>0
    DEF Inv, Typed, RunTo, RunFailed, RowTo, EarlyInv, RowInv, ReqInv, LiveInv, FinInv, Early, Quiet, Away,
        Resumable, RowNeverAhead
  <1>4. RowInv'
    BY <1>0
    DEF Inv, Typed, RunTo, RunFailed, RowTo, EarlyInv, RowInv, ReqInv, LiveInv, Early, Quiet, Away,
        Resumable, RowNeverAhead
  <1>5. ReqInv'
    BY <1>0
    DEF Inv, Typed, RunTo, RunFailed, RowTo, EarlyInv, RowInv, ReqInv, LiveInv, Early, Quiet, Away,
        Resumable, RowNeverAhead
  <1>6. CopyInv'
    BY <1>0 DEF Inv, Typed, RunTo, RunFailed, RowTo, CopyInv
  <1>7. FinInv'
    BY <1>0, KeepFin DEF Inv, FinInv, RunTo, RunFailed
  <1>8. IdInv' /\ PlanInv' /\ WholeInv' /\ OnlyOwnDropped'
    BY <1>0, KeepData DEF Inv
  <1>9. OnlyAcknowledged'
    BY <1>0 DEF Inv, OnlyAcknowledged
  <1> QED BY <1>1, <1>2, <1>3, <1>4, <1>5, <1>6, <1>7, <1>8, <1>9 DEF Inv

(* The tables are checked for CDC. *)
LEMMA RunCompatStep ==
    ASSUME Inv, RunCompat
    PROVE  Inv'
  <1>b. ASSUME Judge({}, "cdc_compatibility", "review")
        PROVE  /\ run' \in Runs /\ run'.pc = "review" /\ run'.done = run.done /\ run'.scope = run.scope
               /\ \A t \in Tables : \/ run'.issues[t] = run.issues[t]
                                    \/ run.issues[t] = "" /\ run'.issues[t] = "cdc_compatibility"
    BY <1>b, JudgeEffect, Literals DEF Stages, Inv, Typed
  <1>0. /\ rec' = rec /\ tab' = tab /\ fks' = fks /\ nextId' = nextId /\ made' = made
        /\ dropped' = dropped /\ fin' = fin /\ acked' = acked /\ published' = published /\ policy' = policy
        /\ reg' = reg
        /\ req' = req
        /\ row' = row
        /\ run.pc = "compat"
        /\ \/ RunFailed("error")
           \/ /\ run' \in Runs /\ run'.pc = "review" /\ run'.done = run.done /\ run'.scope = run.scope
              /\ \A t \in Tables : \/ run'.issues[t] = run.issues[t]
                                   \/ run.issues[t] = "" /\ run'.issues[t] = "cdc_compatibility"
    BY <1>b, FailsEffect
    DEF Inv, Typed, RunCompat, RunKeeps, objects, ghosts, RunAt
  <1>1. Typed'
    BY <1>0 DEF Inv, Typed, RunTo, RunFailed, RowTo
  <1>2. LiveInv'
    BY <1>0 DEF Inv, Typed, RunTo, RunFailed, RowTo, LiveInv, Quiet
  <1>3. EarlyInv'
    BY <1>0
    DEF Inv, Typed, RunTo, RunFailed, RowTo, EarlyInv, RowInv, ReqInv, LiveInv, FinInv, Early, Quiet, Away,
        Resumable, RowNeverAhead
  <1>4. RowInv'
    BY <1>0
    DEF Inv, Typed, RunTo, RunFailed, RowTo, EarlyInv, RowInv, ReqInv, LiveInv, Early, Quiet, Away,
        Resumable, RowNeverAhead
  <1>5. ReqInv'
    BY <1>0
    DEF Inv, Typed, RunTo, RunFailed, RowTo, EarlyInv, RowInv, ReqInv, LiveInv, Early, Quiet, Away,
        Resumable, RowNeverAhead
  <1>6. CopyInv'
    BY <1>0 DEF Inv, Typed, RunTo, RunFailed, RowTo, CopyInv
  <1>7. FinInv'
    BY <1>0, KeepFin DEF Inv, FinInv, RunTo, RunFailed
  <1>8. IdInv' /\ PlanInv' /\ WholeInv' /\ OnlyOwnDropped'
    BY <1>0, KeepData DEF Inv
  <1>9. OnlyAcknowledged'
    BY <1>0 DEF Inv, OnlyAcknowledged
  <1> QED BY <1>1, <1>2, <1>3, <1>4, <1>5, <1>6, <1>7, <1>8, <1>9 DEF Inv

-----------------------------------------------------------------------------
(* The handlers and the end of the server.                                 *)

(* A request to accept the exclusions arrives. *)
LEMMA AcceptRequestStep ==
    ASSUME Inv, AcceptRequest
    PROVE  Inv'
  <1>0. /\ rec' = rec /\ tab' = tab /\ fks' = fks /\ nextId' = nextId /\ made' = made
        /\ dropped' = dropped /\ fin' = fin /\ acked' = acked /\ published' = published /\ policy' = policy
        /\ row' = row
        /\ run' = run
        /\ reg' = reg
        /\ req.pc = "idle"
        /\ req' \in Reqs /\ req'.j = row
        /\ req'.pc \in {"accept"}
        /\ row.status = "paused_bootstrap_review" \/ row.state = "completed"
    BY Literals, ConstantTypes
    DEF Inv, Typed, AcceptRequest, Request, objects, ghosts, Reqs
  <1>1. Typed'
    BY <1>0 DEF Inv, Typed, RunTo, RunFailed, RowTo
  <1>2. LiveInv'
    BY <1>0 DEF Inv, Typed, RunTo, RunFailed, RowTo, LiveInv, Quiet
  <1>3. EarlyInv'
    BY <1>0
    DEF Inv, Typed, RunTo, RunFailed, RowTo, EarlyInv, RowInv, ReqInv, LiveInv, FinInv, Early, Quiet, Away,
        Resumable, RowNeverAhead
  <1>4. RowInv'
    BY <1>0
    DEF Inv, Typed, RunTo, RunFailed, RowTo, EarlyInv, RowInv, ReqInv, LiveInv, Early, Quiet, Away,
        Resumable, RowNeverAhead
  <1>5. ReqInv'
    BY <1>0
    DEF Inv, Typed, RunTo, RunFailed, RowTo, EarlyInv, RowInv, ReqInv, LiveInv, Early, Quiet, Away,
        Resumable, RowNeverAhead
  <1>6. CopyInv'
    BY <1>0 DEF Inv, Typed, RunTo, RunFailed, RowTo, CopyInv
  <1>7. FinInv'
    BY <1>0, KeepFin DEF Inv, FinInv, RunTo, RunFailed
  <1>8. IdInv' /\ PlanInv' /\ WholeInv' /\ OnlyOwnDropped'
    BY <1>0, KeepData DEF Inv
  <1>9. OnlyAcknowledged'
    BY <1>0 DEF Inv, OnlyAcknowledged
  <1> QED BY <1>1, <1>2, <1>3, <1>4, <1>5, <1>6, <1>7, <1>8, <1>9 DEF Inv

(* A request to resume arrives. *)
LEMMA ResumeRequestStep ==
    ASSUME Inv, ResumeRequest
    PROVE  Inv'
  <1>0. /\ rec' = rec /\ tab' = tab /\ fks' = fks /\ nextId' = nextId /\ made' = made
        /\ dropped' = dropped /\ fin' = fin /\ acked' = acked /\ published' = published /\ policy' = policy
        /\ row' = row
        /\ run' = run
        /\ reg' = reg
        /\ req.pc = "idle"
        /\ req' \in Reqs /\ req'.j = row
        /\ req'.pc \in {"resume", "resume_record"}
        /\ /\ ~reg.live /\ row.status \in Resumable
           /\ req'.pc = "resume" => row.done
    BY Literals, ConstantTypes
    DEF Inv, Typed, ResumeRequest, Request, objects, ghosts, Reqs
  <1>1. Typed'
    BY <1>0 DEF Inv, Typed, RunTo, RunFailed, RowTo
  <1>2. LiveInv'
    BY <1>0 DEF Inv, Typed, RunTo, RunFailed, RowTo, LiveInv, Quiet
  <1>3. EarlyInv'
    BY <1>0
    DEF Inv, Typed, RunTo, RunFailed, RowTo, EarlyInv, RowInv, ReqInv, LiveInv, FinInv, Early, Quiet, Away,
        Resumable, RowNeverAhead
  <1>4. RowInv'
    BY <1>0
    DEF Inv, Typed, RunTo, RunFailed, RowTo, EarlyInv, RowInv, ReqInv, LiveInv, Early, Quiet, Away,
        Resumable, RowNeverAhead
  <1>5. ReqInv'
    BY <1>0
    DEF Inv, Typed, RunTo, RunFailed, RowTo, EarlyInv, RowInv, ReqInv, LiveInv, Early, Quiet, Away,
        Resumable, RowNeverAhead
  <1>6. CopyInv'
    BY <1>0 DEF Inv, Typed, RunTo, RunFailed, RowTo, CopyInv
  <1>7. FinInv'
    BY <1>0, KeepFin DEF Inv, FinInv, RunTo, RunFailed
  <1>8. IdInv' /\ PlanInv' /\ WholeInv' /\ OnlyOwnDropped'
    BY <1>0, KeepData DEF Inv
  <1>9. OnlyAcknowledged'
    BY <1>0 DEF Inv, OnlyAcknowledged
  <1> QED BY <1>1, <1>2, <1>3, <1>4, <1>5, <1>6, <1>7, <1>8, <1>9 DEF Inv

(* A request to abort arrives. *)
LEMMA AbortRequestStep ==
    ASSUME Inv, AbortRequest
    PROVE  Inv'
  <1>0. /\ rec' = rec /\ tab' = tab /\ fks' = fks /\ nextId' = nextId /\ made' = made
        /\ dropped' = dropped /\ fin' = fin /\ acked' = acked /\ published' = published /\ policy' = policy
        /\ row' = row
        /\ run' = run
        /\ reg' = reg
        /\ req.pc = "idle"
        /\ req' \in Reqs /\ req'.j = row
        /\ req'.pc \in {"abort"}
        /\ row.status # "aborted"
    BY Literals, ConstantTypes
    DEF Inv, Typed, AbortRequest, Request, objects, ghosts, Reqs
  <1>1. Typed'
    BY <1>0 DEF Inv, Typed, RunTo, RunFailed, RowTo
  <1>2. LiveInv'
    BY <1>0 DEF Inv, Typed, RunTo, RunFailed, RowTo, LiveInv, Quiet
  <1>3. EarlyInv'
    BY <1>0
    DEF Inv, Typed, RunTo, RunFailed, RowTo, EarlyInv, RowInv, ReqInv, LiveInv, FinInv, Early, Quiet, Away,
        Resumable, RowNeverAhead
  <1>4. RowInv'
    BY <1>0
    DEF Inv, Typed, RunTo, RunFailed, RowTo, EarlyInv, RowInv, ReqInv, LiveInv, Early, Quiet, Away,
        Resumable, RowNeverAhead
  <1>5. ReqInv'
    BY <1>0
    DEF Inv, Typed, RunTo, RunFailed, RowTo, EarlyInv, RowInv, ReqInv, LiveInv, Early, Quiet, Away,
        Resumable, RowNeverAhead
  <1>6. CopyInv'
    BY <1>0 DEF Inv, Typed, RunTo, RunFailed, RowTo, CopyInv
  <1>7. FinInv'
    BY <1>0, KeepFin DEF Inv, FinInv, RunTo, RunFailed
  <1>8. IdInv' /\ PlanInv' /\ WholeInv' /\ OnlyOwnDropped'
    BY <1>0, KeepData DEF Inv
  <1>9. OnlyAcknowledged'
    BY <1>0 DEF Inv, OnlyAcknowledged
  <1> QED BY <1>1, <1>2, <1>3, <1>4, <1>5, <1>6, <1>7, <1>8, <1>9 DEF Inv

(* The record decides about the request. *)
LEMMA AcceptRecordStep ==
    ASSUME Inv, AcceptRecord
    PROVE  Inv'
  <1>0. /\ rec' = rec /\ tab' = tab /\ fks' = fks /\ nextId' = nextId /\ made' = made
        /\ dropped' = dropped /\ fin' = fin /\ published' = published /\ policy' = policy
        /\ row' = row
        /\ run' = run
        /\ reg' = reg
        /\ req.pc = "accept"
        /\ acked \subseteq acked'
        /\ req' \in Reqs
        /\ \/ req'.pc = "idle" /\ ~req'.j.done
           \/ /\ rec.state = "review_pending" /\ req'.pc = "finalize" /\ req'.j = req.j /\ rec.m \in acked'
           \/ /\ rec.state = "completed" /\ req'.pc = "apply" /\ req'.j = req.j
              /\ ~req.j.done \/ req.j.status = "paused_bootstrap_review"
    BY ReqEffect, Literals, ConstantTypes
    DEF Inv, Typed, AcceptRecord, ReqKeeps, objects, ghosts, ReqAt, SameManifest
  <1>1. Typed'
    BY <1>0 DEF Inv, Typed, RunTo, RunFailed, RowTo
  <1>2. LiveInv'
    BY <1>0 DEF Inv, Typed, RunTo, RunFailed, RowTo, LiveInv, Quiet
  <1>3. EarlyInv'
    BY <1>0
    DEF Inv, Typed, RunTo, RunFailed, RowTo, EarlyInv, RowInv, ReqInv, LiveInv, FinInv, Early, Quiet, Away,
        Resumable, RowNeverAhead
  <1>4. RowInv'
    BY <1>0
    DEF Inv, Typed, RunTo, RunFailed, RowTo, EarlyInv, RowInv, ReqInv, LiveInv, Early, Quiet, Away,
        Resumable, RowNeverAhead
  <1>5. ReqInv'
    BY <1>0
    DEF Inv, Typed, RunTo, RunFailed, RowTo, EarlyInv, RowInv, ReqInv, LiveInv, Early, Quiet, Away,
        Resumable, RowNeverAhead
  <1>6. CopyInv'
    BY <1>0 DEF Inv, Typed, RunTo, RunFailed, RowTo, CopyInv
  <1>7. FinInv'
    BY <1>0, KeepFin DEF Inv, FinInv, RunTo, RunFailed
  <1>8. IdInv' /\ PlanInv' /\ WholeInv' /\ OnlyOwnDropped'
    BY <1>0, KeepData DEF Inv
  <1>9. OnlyAcknowledged'
    BY <1>0 DEF Inv, OnlyAcknowledged
  <1> QED BY <1>1, <1>2, <1>3, <1>4, <1>5, <1>6, <1>7, <1>8, <1>9 DEF Inv

(* The accepted manifest is written to the row. *)
LEMMA AcceptApplyStep ==
    ASSUME Inv, AcceptApply
    PROVE  Inv'
  <1>0. /\ rec' = rec /\ tab' = tab /\ fks' = fks /\ nextId' = nextId /\ made' = made
        /\ dropped' = dropped /\ fin' = fin /\ acked' = acked /\ published' = published /\ policy' = policy
        /\ run' = run
        /\ reg' = reg
        /\ req.pc = "apply"
        /\ row' \in Rows /\ row'.status = row.status /\ row'.state = "completed" /\ row'.done /\ row'.m = rec.m
        /\ req' \in Reqs /\ req'.pc = "catching" /\ req'.j = req.j /\ req'.m = req.m
    BY ReqEffect, RecordRowEffect, Literals
    DEF Inv, Typed, AcceptApply, ReqKeeps, objects, ghosts, ReqAt
  <1>1. Typed'
    BY <1>0 DEF Inv, Typed, RunTo, RunFailed, RowTo
  <1>2. LiveInv'
    BY <1>0 DEF Inv, Typed, RunTo, RunFailed, RowTo, LiveInv, Quiet
  <1>3. EarlyInv'
    BY <1>0
    DEF Inv, Typed, RunTo, RunFailed, RowTo, EarlyInv, RowInv, ReqInv, LiveInv, FinInv, Early, Quiet, Away,
        Resumable, RowNeverAhead
  <1>4. RowInv'
    BY <1>0
    DEF Inv, Typed, RunTo, RunFailed, RowTo, EarlyInv, RowInv, ReqInv, LiveInv, Early, Quiet, Away,
        Resumable, RowNeverAhead
  <1>5. ReqInv'
    BY <1>0
    DEF Inv, Typed, RunTo, RunFailed, RowTo, EarlyInv, RowInv, ReqInv, LiveInv, Early, Quiet, Away,
        Resumable, RowNeverAhead
  <1>6. CopyInv'
    BY <1>0 DEF Inv, Typed, RunTo, RunFailed, RowTo, CopyInv
  <1>7. FinInv'
    BY <1>0, KeepFin DEF Inv, FinInv, RunTo, RunFailed
  <1>8. IdInv' /\ PlanInv' /\ WholeInv' /\ OnlyOwnDropped'
    BY <1>0, KeepData DEF Inv
  <1>9. OnlyAcknowledged'
    BY <1>0 DEF Inv, OnlyAcknowledged
  <1> QED BY <1>1, <1>2, <1>3, <1>4, <1>5, <1>6, <1>7, <1>8, <1>9 DEF Inv

(* The job is to catch up. *)
LEMMA AcceptStatusStep ==
    ASSUME Inv, AcceptStatus
    PROVE  Inv'
  <1>0. /\ rec' = rec /\ tab' = tab /\ fks' = fks /\ nextId' = nextId /\ made' = made
        /\ dropped' = dropped /\ fin' = fin /\ acked' = acked /\ published' = published /\ policy' = policy
        /\ run' = run
        /\ reg' = reg
        /\ req.pc = "catching"
        /\ RowTo("catching_up", row.state)
        /\ req' \in Reqs /\ req'.pc = "launch" /\ req'.j.m = rec.m /\ req'.j.done = req.j.done
    BY ReqEffect, SetRowEffect, Literals
    DEF Inv, Typed, AcceptStatus, ReqKeeps, objects, ghosts, ReqAt, Recs
  <1>1. Typed'
    BY <1>0 DEF Inv, Typed, RunTo, RunFailed, RowTo
  <1>2. LiveInv'
    BY <1>0 DEF Inv, Typed, RunTo, RunFailed, RowTo, LiveInv, Quiet
  <1>3. EarlyInv'
    BY <1>0
    DEF Inv, Typed, RunTo, RunFailed, RowTo, EarlyInv, RowInv, ReqInv, LiveInv, FinInv, Early, Quiet, Away,
        Resumable, RowNeverAhead
  <1>4. RowInv'
    BY <1>0
    DEF Inv, Typed, RunTo, RunFailed, RowTo, EarlyInv, RowInv, ReqInv, LiveInv, Early, Quiet, Away,
        Resumable, RowNeverAhead
  <1>5. ReqInv'
    BY <1>0
    DEF Inv, Typed, RunTo, RunFailed, RowTo, EarlyInv, RowInv, ReqInv, LiveInv, Early, Quiet, Away,
        Resumable, RowNeverAhead
  <1>6. CopyInv'
    BY <1>0 DEF Inv, Typed, RunTo, RunFailed, RowTo, CopyInv
  <1>7. FinInv'
    BY <1>0, KeepFin DEF Inv, FinInv, RunTo, RunFailed
  <1>8. IdInv' /\ PlanInv' /\ WholeInv' /\ OnlyOwnDropped'
    BY <1>0, KeepData DEF Inv
  <1>9. OnlyAcknowledged'
    BY <1>0 DEF Inv, OnlyAcknowledged
  <1> QED BY <1>1, <1>2, <1>3, <1>4, <1>5, <1>6, <1>7, <1>8, <1>9 DEF Inv

(* The handler launches the runner. *)
LEMMA ReqLaunchStep ==
    ASSUME Inv, ReqLaunch
    PROVE  Inv'
  <1>a. /\ Registered \in Regs /\ Registered.live
        /\ LET g == [Gone EXCEPT !.pc = "cdc", !.done = TRUE, !.scope = req.j.m.effective]
           IN  g \in Runs /\ g.pc = "cdc" /\ g.done /\ g.scope = req.j.m.effective
    BY ConstantTypes, Literals DEF Registered, Inv, Typed, Reqs, Rows, Manifests, Runs
  <1>0. /\ rec' = rec /\ tab' = tab /\ fks' = fks /\ nextId' = nextId /\ made' = made
        /\ dropped' = dropped /\ fin' = fin /\ acked' = acked /\ published' = published /\ policy' = policy
        /\ row' = row
        /\ req.pc = "launch"
        /\ req' \in Reqs /\ req'.pc = "idle" /\ ~req'.j.done
        /\ \/ run' = run /\ reg' = reg
           \/ /\ reg' \in Regs /\ reg'.live /\ ~reg.live /\ run' \in Runs /\ run'.pc = "cdc"
              /\ run'.done /\ run'.scope = req.j.m.effective
    BY <1>a, ConstantTypes, Literals
    DEF Inv, Typed, ReqLaunch, ReqKeeps, objects, ghosts, ReqAt, Launch
  <1>1. Typed'
    BY <1>0 DEF Inv, Typed, RunTo, RunFailed, RowTo
  <1>2. LiveInv'
    BY <1>0 DEF Inv, Typed, RunTo, RunFailed, RowTo, LiveInv, Quiet
  <1>3. EarlyInv'
    BY <1>0
    DEF Inv, Typed, RunTo, RunFailed, RowTo, EarlyInv, RowInv, ReqInv, LiveInv, FinInv, Early, Quiet, Away,
        Resumable, RowNeverAhead
  <1>4. RowInv'
    BY <1>0
    DEF Inv, Typed, RunTo, RunFailed, RowTo, EarlyInv, RowInv, ReqInv, LiveInv, Early, Quiet, Away,
        Resumable, RowNeverAhead
  <1>5. ReqInv'
    BY <1>0
    DEF Inv, Typed, RunTo, RunFailed, RowTo, EarlyInv, RowInv, ReqInv, LiveInv, Early, Quiet, Away,
        Resumable, RowNeverAhead
  <1>6. CopyInv'
    BY <1>0 DEF Inv, Typed, RunTo, RunFailed, RowTo, CopyInv
  <1>7. FinInv'
    BY <1>0, KeepFin DEF Inv, FinInv, LiveInv, Quiet
  <1>8. IdInv' /\ PlanInv' /\ WholeInv' /\ OnlyOwnDropped'
    BY <1>0, KeepData DEF Inv
  <1>9. OnlyAcknowledged'
    BY <1>0 DEF Inv, OnlyAcknowledged
  <1> QED BY <1>1, <1>2, <1>3, <1>4, <1>5, <1>6, <1>7, <1>8, <1>9 DEF Inv

(* A resume asks the target. *)
LEMMA ResumeRecordStep ==
    ASSUME Inv, ResumeRecord
    PROVE  Inv'
  <1>a. ASSUME req' = [req EXCEPT !.pc = "resume", !.j.m = rec.m], CompletedRow
        PROVE  /\ req' \in Reqs /\ row' \in Rows /\ row'.status = row.status /\ row'.state = "completed" /\ row'.done
               /\ row'.m = rec.m /\ req'.pc = "resume" /\ req'.j.m = rec.m /\ req'.j.done = req.j.done
    BY <1>a, ReqEffect, RecordRowEffect, Literals DEF Inv, Typed, Recs
  <1>b. ASSUME req' = Idle PROVE req' \in Reqs /\ req'.pc = "idle" /\ ~req'.j.done
    BY <1>b, ConstantTypes
  <1>c. ASSUME ReviewRow(rec.m)
        PROVE  /\ row' \in Rows /\ row'.status = "paused_bootstrap_review"
               /\ row'.state = "review_pending" /\ row'.done = row.done /\ row'.m = rec.m
    BY <1>c, RecordRowEffect DEF Inv, Typed, Recs
  <1>0. /\ rec' = rec /\ tab' = tab /\ fks' = fks /\ nextId' = nextId /\ made' = made
        /\ dropped' = dropped /\ fin' = fin /\ acked' = acked /\ published' = published /\ policy' = policy
        /\ run' = run
        /\ reg' = reg
        /\ req.pc = "resume_record"
        /\ req' \in Reqs /\ row' \in Rows
        /\ \/ /\ rec.state = "completed" /\ row'.status = row.status /\ row'.state = "completed" /\ row'.done
              /\ row'.m = rec.m /\ req'.pc = "resume" /\ req'.j.m = rec.m /\ req'.j.done = req.j.done
           \/ /\ rec.state = "review_pending" /\ row'.status = "paused_bootstrap_review"
              /\ row'.state = "review_pending" /\ row'.done = row.done /\ row'.m = rec.m
              /\ req'.pc = "idle" /\ ~req'.j.done
           \/ row' = row /\ req'.pc = "idle" /\ ~req'.j.done
    BY <1>a, <1>b, <1>c
    DEF Inv, Typed, ResumeRecord, ReqKeeps, objects, ghosts, ReqAt
  <1>1. Typed'
    BY <1>0 DEF Inv, Typed, RunTo, RunFailed, RowTo
  <1>2. LiveInv'
    BY <1>0 DEF Inv, Typed, RunTo, RunFailed, RowTo, LiveInv, Quiet
  <1>3. EarlyInv'
    BY <1>0
    DEF Inv, Typed, RunTo, RunFailed, RowTo, EarlyInv, RowInv, ReqInv, LiveInv, FinInv, Early, Quiet, Away,
        Resumable, RowNeverAhead
  <1>4. RowInv'
    BY <1>0
    DEF Inv, Typed, RunTo, RunFailed, RowTo, EarlyInv, RowInv, ReqInv, LiveInv, Early, Quiet, Away,
        Resumable, RowNeverAhead
  <1>5. ReqInv'
    BY <1>0
    DEF Inv, Typed, RunTo, RunFailed, RowTo, EarlyInv, RowInv, ReqInv, LiveInv, Early, Quiet, Away,
        Resumable, RowNeverAhead
  <1>6. CopyInv'
    BY <1>0 DEF Inv, Typed, RunTo, RunFailed, RowTo, CopyInv
  <1>7. FinInv'
    BY <1>0, KeepFin DEF Inv, FinInv, RunTo, RunFailed
  <1>8. IdInv' /\ PlanInv' /\ WholeInv' /\ OnlyOwnDropped'
    BY <1>0, KeepData DEF Inv
  <1>9. OnlyAcknowledged'
    BY <1>0 DEF Inv, OnlyAcknowledged
  <1> QED BY <1>1, <1>2, <1>3, <1>4, <1>5, <1>6, <1>7, <1>8, <1>9 DEF Inv

(* The status of a resumed job is swapped. *)
LEMMA ResumeSwapStep ==
    ASSUME Inv, ResumeSwap
    PROVE  Inv'
  <1>0. /\ rec' = rec /\ tab' = tab /\ fks' = fks /\ nextId' = nextId /\ made' = made
        /\ dropped' = dropped /\ fin' = fin /\ acked' = acked /\ published' = published /\ policy' = policy
        /\ run' = run
        /\ reg' = reg
        /\ req.pc = "resume"
        /\ req' \in Reqs
        /\ \/ row' = row /\ req'.pc = "idle" /\ ~req'.j.done
           \/ RowTo("initializing", row.state) /\ req'.pc = "launch" /\ req'.j = req.j
    BY ReqEffect, SetRowEffect, Literals, ConstantTypes
    DEF Inv, Typed, ResumeSwap, ReqKeeps, objects, ghosts, ReqAt
  <1>1. Typed'
    BY <1>0 DEF Inv, Typed, RunTo, RunFailed, RowTo
  <1>2. LiveInv'
    BY <1>0 DEF Inv, Typed, RunTo, RunFailed, RowTo, LiveInv, Quiet
  <1>3. EarlyInv'
    BY <1>0
    DEF Inv, Typed, RunTo, RunFailed, RowTo, EarlyInv, RowInv, ReqInv, LiveInv, FinInv, Early, Quiet, Away,
        Resumable, RowNeverAhead
  <1>4. RowInv'
    BY <1>0
    DEF Inv, Typed, RunTo, RunFailed, RowTo, EarlyInv, RowInv, ReqInv, LiveInv, Early, Quiet, Away,
        Resumable, RowNeverAhead
  <1>5. ReqInv'
    BY <1>0
    DEF Inv, Typed, RunTo, RunFailed, RowTo, EarlyInv, RowInv, ReqInv, LiveInv, Early, Quiet, Away,
        Resumable, RowNeverAhead
  <1>6. CopyInv'
    BY <1>0 DEF Inv, Typed, RunTo, RunFailed, RowTo, CopyInv
  <1>7. FinInv'
    BY <1>0, KeepFin DEF Inv, FinInv, RunTo, RunFailed
  <1>8. IdInv' /\ PlanInv' /\ WholeInv' /\ OnlyOwnDropped'
    BY <1>0, KeepData DEF Inv
  <1>9. OnlyAcknowledged'
    BY <1>0 DEF Inv, OnlyAcknowledged
  <1> QED BY <1>1, <1>2, <1>3, <1>4, <1>5, <1>6, <1>7, <1>8, <1>9 DEF Inv

(* An abort cancels the runner or goes on itself. *)
LEMMA AbortActsStep ==
    ASSUME Inv, AbortActs
    PROVE  Inv'
  <1>0. /\ rec' = rec /\ tab' = tab /\ fks' = fks /\ nextId' = nextId /\ made' = made
        /\ dropped' = dropped /\ fin' = fin /\ acked' = acked /\ published' = published /\ policy' = policy
        /\ run' = run
        /\ row' = row
        /\ req.pc = "abort"
        /\ req' \in Reqs /\ reg' \in Regs /\ reg'.live = reg.live
        /\ \/ reg.live /\ req'.pc = "idle" /\ ~req'.j.done
           \/ ~reg.live /\ reg' = reg /\ req'.pc \in {"abort_swap", "abort_target"} /\ req'.j = req.j
    BY ReqEffect, Literals, ConstantTypes
    DEF Inv, Typed, AbortActs, ReqKeeps, objects, ghosts, ReqAt, Regs
  <1>1. Typed'
    BY <1>0 DEF Inv, Typed, RunTo, RunFailed, RowTo
  <1>2. LiveInv'
    BY <1>0 DEF Inv, Typed, RunTo, RunFailed, RowTo, LiveInv, Quiet
  <1>3. EarlyInv'
    BY <1>0
    DEF Inv, Typed, RunTo, RunFailed, RowTo, EarlyInv, RowInv, ReqInv, LiveInv, FinInv, Early, Quiet, Away,
        Resumable, RowNeverAhead
  <1>4. RowInv'
    BY <1>0
    DEF Inv, Typed, RunTo, RunFailed, RowTo, EarlyInv, RowInv, ReqInv, LiveInv, Early, Quiet, Away,
        Resumable, RowNeverAhead
  <1>5. ReqInv'
    BY <1>0
    DEF Inv, Typed, RunTo, RunFailed, RowTo, EarlyInv, RowInv, ReqInv, LiveInv, Early, Quiet, Away,
        Resumable, RowNeverAhead
  <1>6. CopyInv'
    BY <1>0 DEF Inv, Typed, RunTo, RunFailed, RowTo, CopyInv
  <1>7. FinInv'
    BY <1>0, KeepFin DEF Inv, FinInv, RunTo, RunFailed
  <1>8. IdInv' /\ PlanInv' /\ WholeInv' /\ OnlyOwnDropped'
    BY <1>0, KeepData DEF Inv
  <1>9. OnlyAcknowledged'
    BY <1>0 DEF Inv, OnlyAcknowledged
  <1> QED BY <1>1, <1>2, <1>3, <1>4, <1>5, <1>6, <1>7, <1>8, <1>9 DEF Inv

(* The abort is written to the row. *)
LEMMA AbortSwapStep ==
    ASSUME Inv, AbortSwap
    PROVE  Inv'
  <1>0. /\ rec' = rec /\ tab' = tab /\ fks' = fks /\ nextId' = nextId /\ made' = made
        /\ dropped' = dropped /\ fin' = fin /\ acked' = acked /\ published' = published /\ policy' = policy
        /\ run' = run
        /\ reg' = reg
        /\ req.pc = "abort_swap"
        /\ req' \in Reqs /\ req'.pc = "idle" /\ ~req'.j.done
        /\ RowTo("aborted", "aborted") \/ row' = row
    BY SetRowEffect, Literals, ConstantTypes
    DEF Inv, Typed, AbortSwap, ReqKeeps, objects, ghosts, ReqAt
  <1>1. Typed'
    BY <1>0 DEF Inv, Typed, RunTo, RunFailed, RowTo
  <1>2. LiveInv'
    BY <1>0 DEF Inv, Typed, RunTo, RunFailed, RowTo, LiveInv, Quiet
  <1>3. EarlyInv'
    BY <1>0
    DEF Inv, Typed, RunTo, RunFailed, RowTo, EarlyInv, RowInv, ReqInv, LiveInv, FinInv, Early, Quiet, Away,
        Resumable, RowNeverAhead
  <1>4. RowInv'
    BY <1>0
    DEF Inv, Typed, RunTo, RunFailed, RowTo, EarlyInv, RowInv, ReqInv, LiveInv, Early, Quiet, Away,
        Resumable, RowNeverAhead
  <1>5. ReqInv'
    BY <1>0
    DEF Inv, Typed, RunTo, RunFailed, RowTo, EarlyInv, RowInv, ReqInv, LiveInv, Early, Quiet, Away,
        Resumable, RowNeverAhead
  <1>6. CopyInv'
    BY <1>0 DEF Inv, Typed, RunTo, RunFailed, RowTo, CopyInv
  <1>7. FinInv'
    BY <1>0, KeepFin DEF Inv, FinInv, RunTo, RunFailed
  <1>8. IdInv' /\ PlanInv' /\ WholeInv' /\ OnlyOwnDropped'
    BY <1>0, KeepData DEF Inv
  <1>9. OnlyAcknowledged'
    BY <1>0 DEF Inv, OnlyAcknowledged
  <1> QED BY <1>1, <1>2, <1>3, <1>4, <1>5, <1>6, <1>7, <1>8, <1>9 DEF Inv

(* The server is killed and started again. *)
LEMMA CrashStep ==
    ASSUME Inv, Crash
    PROVE  Inv'
  <1>a. /\ Swept(row.status) \in RowStatuses
        /\ Swept(row.status) = "paused_bootstrap_review" => row.status = "paused_bootstrap_review"
        /\ NotRegistered.live = FALSE /\ NotRegistered.action = ""
        /\ row' = [row EXCEPT !.status = Swept(@)] => RowTo(Swept(row.status), row.state)
    <2>1. /\ Swept(row.status) \in RowStatuses
          /\ Swept(row.status) = "paused_bootstrap_review" => row.status = "paused_bootstrap_review"
      BY Literals DEF Swept, Inv, Typed, Rows
    <2> QED BY <2>1 DEF NotRegistered, RowTo, Inv, Typed, Rows
  <1>0. /\ rec' = rec /\ tab' = tab /\ fks' = fks /\ nextId' = nextId /\ made' = made
        /\ dropped' = dropped /\ acked' = acked /\ published' = published /\ policy' = policy
        /\ RowTo(Swept(row.status), row.state)
        /\ reg' \in Regs /\ ~reg'.live /\ reg'.action = ""
        /\ fin' = NoFin /\ fin' \in Fins /\ fin'.by = "none"
        /\ run' \in Runs /\ run'.pc = "gone" /\ ~run'.done
        /\ req' \in Reqs /\ req'.pc = "idle" /\ ~req'.j.done
        /\ Swept(row.status) \in RowStatuses
        /\ Swept(row.status) = "paused_bootstrap_review" => row.status = "paused_bootstrap_review"
    BY <1>a, Literals, ConstantTypes
    DEF Inv, Typed, Crash, objects, ghosts, Quiet
  <1>1. Typed'
    BY <1>0 DEF Inv, Typed, RunTo, RunFailed, RowTo
  <1>2. LiveInv'
    BY <1>0 DEF Inv, Typed, RunTo, RunFailed, RowTo, LiveInv, Quiet
  <1>3. EarlyInv'
    BY <1>0
    DEF Inv, Typed, RunTo, RunFailed, RowTo, EarlyInv, RowInv, ReqInv, LiveInv, FinInv, Early, Quiet, Away,
        Resumable, RowNeverAhead
  <1>4. RowInv'
    BY <1>0
    DEF Inv, Typed, RunTo, RunFailed, RowTo, EarlyInv, RowInv, ReqInv, LiveInv, Early, Quiet, Away,
        Resumable, RowNeverAhead
  <1>5. ReqInv'
    BY <1>0
    DEF Inv, Typed, RunTo, RunFailed, RowTo, EarlyInv, RowInv, ReqInv, LiveInv, Early, Quiet, Away,
        Resumable, RowNeverAhead
  <1>6. CopyInv'
    BY <1>0 DEF Inv, Typed, RunTo, RunFailed, RowTo, CopyInv
  <1>7. FinInv'
    BY <1>0 DEF FinInv
  <1>8. IdInv' /\ PlanInv' /\ WholeInv' /\ OnlyOwnDropped'
    BY <1>0, KeepData DEF Inv
  <1>9. OnlyAcknowledged'
    BY <1>0 DEF Inv, OnlyAcknowledged
  <1> QED BY <1>1, <1>2, <1>3, <1>4, <1>5, <1>6, <1>7, <1>8, <1>9 DEF Inv

-----------------------------------------------------------------------------
(* Actions that write the record.                                          *)

(* While the copy is made there is no cleanup and no plan.                 *)
LEMMA NoFinEarly ==
    ASSUME Inv, run.pc \in Early, fin.by = "none" \/ run.pc # "review"
    PROVE  fin = NoFin /\ fin.by = "none" /\ (run.pc # "review_row" => ~rec.planned)
  BY DEF Inv, Typed, Fins, EarlyInv, FinInv, Early

(* A saved record; the run goes on or has failed although it was saved.    *)
LEMMA SaveEffect ==
    ASSUME Typed, rec.state \in {"none", "snapshot_in_progress"}, ~rec.planned,
           NEW state \in {"snapshot_in_progress", "review_pending"}, NEW m \in Manifests,
           NEW next \in RunPcs, Save(state, m, next), PlanCleanup(m) \in Seq(Items)
    PROVE  /\ fin = NoFin /\ acked' = acked /\ dropped' = dropped /\ published' \subseteq Manifests
           /\ \/ rec' = rec /\ RunFailed("error")
              \/ /\ rec' \in Recs /\ rec'.state = state /\ rec'.m = m /\ rec'.pos = 0
                 /\ rec'.planned <=> state = "review_pending"
                 /\ state = "review_pending" => rec'.plan = PlanCleanup(m)
                 /\ RunTo(next) \/ RunFailed("error")
  <1> DEFINE s == Saved(state, m)
  <1>1. /\ s \in Recs /\ s.state = state /\ s.m = m /\ s.pos = 0
        /\ s.planned <=> state = "review_pending"
        /\ state = "review_pending" => s.plan = PlanCleanup(m)
    <2>1. state \in RecStates /\ 0 \in 0 .. MaxPos
      BY Literals, BootstrapAssumption
    <2> DEFINE r == [rec EXCEPT !.state = state, !.m = m, !.pos = 0]
    <2>2. r \in Recs /\ r.state = state /\ r.m = m /\ r.pos = 0 /\ r.planned = rec.planned
      BY <2>1 DEF Typed, Recs
    <2>3. s = IF state = "review_pending" /\ ~rec.planned
              THEN [r EXCEPT !.planned = TRUE, !.plan = PlanCleanup(m)] ELSE r
      BY DEF Saved
    <2> HIDE DEF r, s
    <2> QED BY <2>2, <2>3 DEF Recs
  <1> HIDE DEF s
  <1>2. PICK end \in Ends(TRUE) :
           LET works == end # "fail" /\ MaySave(state, m)
           IN  /\ rec' = IF works THEN s ELSE rec
               /\ published' = IF works THEN published \cup {m} ELSE published
               /\ IF end = "ok" /\ works THEN Goto(next) ELSE Fails("error")
    BY DEF Save, s
  <1>3. fin = NoFin /\ acked' = acked /\ dropped' = dropped
    BY DEF Save
  <1>4. published' \subseteq Manifests
    BY <1>2 DEF Typed
  <1>5. Goto(next) => RunTo(next)
    BY GotoEffect DEF Typed
  <1>6. Fails("error") => RunFailed("error")
    BY FailsEffect DEF Typed
  <1> QED BY <1>1, <1>2, <1>3, <1>4, <1>5, <1>6

(* MarkBootstrapAborted leaves everything but the state.                   *)
LEMMA AbortEffect ==
    ASSUME rec \in Recs, AbortTarget
    PROVE  /\ fin = NoFin /\ rec' \in Recs
           /\ rec'.m = rec.m /\ rec'.pos = rec.pos /\ rec'.planned = rec.planned /\ rec'.plan = rec.plan
           /\ rec'.state = rec.state \/ (rec.state \notin {"none", "completed"} /\ rec'.state = "aborted")
  BY Literals DEF AbortTarget, MarkAborted, Recs

(* An aborted record keeps what the plan and the tables are known for.     *)
LEMMA AbortKeeps ==
    ASSUME Inv, tab' = tab, fks' = fks, nextId' = nextId, made' = made, dropped' = dropped, acked' = acked,
           rec'.m = rec.m, rec'.pos = rec.pos, rec'.planned = rec.planned, rec'.plan = rec.plan,
           rec'.state = rec.state \/ (rec.state \notin {"none", "completed"} /\ rec'.state = "aborted")
    PROVE  IdInv' /\ PlanInv' /\ WholeInv' /\ OnlyOwnDropped' /\ OnlyAcknowledged'
  <1>1. IdInv' /\ OnlyOwnDropped'
    BY DEF Inv, IdInv, OnlyOwnDropped
  <1>2. PlanInv'
    BY DEF Inv, PlanInv, ObjectGone
  <1>3. WholeInv' /\ OnlyAcknowledged'
    BY DEF Inv, WholeInv, OnlyAcknowledged
  <1> QED BY <1>1, <1>2, <1>3

(* What the runner may save, and when.                                     *)
LEMMA SaveStep ==
    ASSUME Inv, NEW state \in {"snapshot_in_progress", "review_pending"}, NEW m \in Manifests,
           NEW next \in RunPcs, Save(state, m, next), RunKeeps, row' = row,
           tab' = tab, fks' = fks, nextId' = nextId, made' = made,
           \/ run.pc = "capture" /\ next = "pending" /\ state = "snapshot_in_progress"
           \/ run.pc = "report" /\ next = "strict" /\ state = "snapshot_in_progress"
           \/ run.pc = "review" /\ next = "review_row" /\ state = "review_pending" /\ m = Manifest(run.issues),
           \A t \in m.effective : t \notin Excluded(m),
           PlanFor(m, PlanCleanup(m)) \/ (state = "snapshot_in_progress" /\ PlanCleanup(m) \in Seq(Items)),
           state = "review_pending" => \A t \in m.effective : tab[t].id \in made /\ tab[t].pages = Pages
    PROVE  Inv'
  <1>a. run.pc \in Early /\ fin = NoFin
    BY DEF Early, Save
  <1>b. fin.by = "none" /\ rec.state \in {"none", "snapshot_in_progress"} /\ ~rec.planned
    BY <1>a, NoFinEarly, ConstantTypes DEF Inv, EarlyInv
  <1>c. PlanCleanup(m) \in Seq(Items)
    BY DEF PlanFor
  <1>0. /\ policy' = policy /\ reg' = reg /\ req' = req /\ fin' = fin
        /\ acked' = acked /\ dropped' = dropped /\ published' \subseteq Manifests
        /\ \/ rec' = rec /\ RunFailed("error")
           \/ /\ rec' \in Recs /\ rec'.state = state /\ rec'.m = m /\ rec'.pos = 0
              /\ rec'.planned <=> state = "review_pending"
              /\ state = "review_pending" => rec'.plan = PlanCleanup(m)
              /\ RunTo(next) \/ RunFailed("error")
    BY <1>b, <1>c, SaveEffect DEF RunKeeps, Inv
  <1>1. Typed'
    BY <1>0 DEF Inv, Typed, RunTo, RunFailed
  <1>2. LiveInv'
    BY <1>0, <1>a, <1>b DEF Inv, Typed, RunTo, RunFailed, LiveInv, Quiet
  <1>3. EarlyInv'
    BY <1>0, <1>a, <1>b
    DEF Inv, Typed, RunTo, RunFailed, EarlyInv, RowInv, ReqInv, LiveInv, Early, Quiet, Away, Resumable,
        RowNeverAhead, FinInv
  <1>4. RowInv'
    BY <1>0, <1>a, <1>b
    DEF Inv, Typed, RunTo, RunFailed, EarlyInv, RowInv, ReqInv, LiveInv, Early, Quiet, Away, Resumable,
        RowNeverAhead
  <1>5. ReqInv'
    BY <1>0, <1>a, <1>b
    DEF Inv, Typed, RunTo, RunFailed, EarlyInv, RowInv, ReqInv, LiveInv, Early, Quiet, Away, Resumable,
        RowNeverAhead
  <1>6. CopyInv'
    BY ZenonT(60), <1>0, <1>a, <1>b DEF Inv, Typed, RunTo, RunFailed, CopyInv
  <1>7. FinInv'
    BY <1>0, <1>a, <1>b DEF Inv, FinInv
  <1>8. IdInv' /\ OnlyOwnDropped' /\ OnlyAcknowledged'
    BY <1>0 DEF Inv, IdInv, OnlyOwnDropped, OnlyAcknowledged
  <1>9. PlanInv'
    <2>1. CASE rec' = rec
      BY <2>1, <1>b DEF PlanInv
    <2>2. CASE rec'.m = m /\ ~rec'.planned
      BY <2>2 DEF PlanInv
    <2>3. CASE rec'.m = m /\ rec'.plan = PlanCleanup(m) /\ PlanFor(m, PlanCleanup(m))
      BY <2>3 DEF PlanInv, PlanFor
    <2> QED BY <1>0, <2>1, <2>2, <2>3
  <1>10. WholeInv'
    <2>1. \A t \in Tables : tab[t].upto = 0
      BY <1>b DEF Inv, CopyInv
    <2>2. m.effective \subseteq Tables
      BY DEF Manifests
    <2>3. CASE rec' = rec
      BY <2>3 DEF Inv, WholeInv
    <2>4. CASE /\ rec'.state = state /\ rec'.m = m /\ rec'.pos = 0
               /\ rec'.planned <=> state = "review_pending"
      BY <2>1, <2>2, <2>4 DEF WholeInv
    <2> QED BY <1>0, <2>3, <2>4
  <1> QED BY <1>1, <1>2, <1>3, <1>4, <1>5, <1>6, <1>7, <1>8, <1>9, <1>10 DEF Inv

(* The snapshot position is recorded.                                      *)
LEMMA RunCaptureStep ==
    ASSUME Inv, RunCapture
    PROVE  Inv'
  <1>1. /\ run.pc = "capture" /\ Save("snapshot_in_progress", NoManifest, "pending") /\ RunKeeps
        /\ row' = row /\ tab' = tab /\ fks' = fks /\ nextId' = nextId /\ made' = made
    BY DEF RunCapture, RunAt, objects
  <1>2. NoManifest \in Manifests /\ NoManifest.effective = {} /\ OwnedTables(NoManifest) = {}
    BY ConstantTypes DEF NoManifest, OwnedTables
  <1>3. PlanFor(NoManifest, PlanCleanup(NoManifest))
    BY <1>2, PlanFacts DEF Inv, Typed
  <1> QED BY <1>1, <1>2, <1>3, SaveStep, Literals

(* What is known of the manifest of a copy whose data is in.               *)
LEMMA CopiedManifest ==
    ASSUME Inv, run.pc \in {"report", "review", "review_row"}
    PROVE  LET m == Manifest(run.issues)
           IN  /\ m \in Manifests
               /\ PlanFor(m, PlanCleanup(m))
               /\ \A t \in m.effective : t \notin Excluded(m)
               /\ \A t \in m.effective : tab[t].id \in made /\ tab[t].pages = Pages
  <1> DEFINE m == Manifest(run.issues)
  <1>1. run.issues \in [Tables -> Stages \cup {""}]
    BY DEF Inv, Typed, Runs
  <1>2. /\ m \in Manifests /\ m.effective \subseteq Tables /\ OwnedTables(m) \subseteq Tables
        /\ \A t \in Tables : t \in m.effective <=> run.issues[t] = ""
        /\ \A t \in Tables : t \in Excluded(m) <=> run.issues[t] # ""
        /\ \A t \in Tables : t \in OwnedTables(m) <=> run.issues[t] \in Owned
    BY <1>1, ManifestFacts, ManifestTables
  <1> HIDE DEF m
  <1>3. \A t \in Tables : run.issues[t] # "schema" => tab[t].id \in made
    BY DEF Inv, CopyInv
  <1>4. \A t \in OwnedTables(m) : tab[t].id \in made
    BY <1>2, <1>3 DEF Owned
  <1>5. PlanFor(m, PlanCleanup(m))
    BY <1>2, <1>4, PlanFacts DEF Inv, Typed
  <1>6. \A t \in m.effective : tab[t].id \in made /\ tab[t].pages = Pages
    BY <1>2, <1>3 DEF Inv, CopyInv
  <1> QED BY <1>2, <1>5, <1>6 DEF m

(* The preliminary review is recorded.                                     *)
LEMMA RunReportStep ==
    ASSUME Inv, RunReport
    PROVE  Inv'
  <1>1. /\ run.pc = "report" /\ Save("snapshot_in_progress", Manifest(run.issues), "strict") /\ RunKeeps
        /\ row' = row /\ tab' = tab /\ fks' = fks /\ nextId' = nextId /\ made' = made
    BY DEF RunReport, RunAt, objects
  <1> QED BY <1>1, CopiedManifest, SaveStep, Literals

(* The manifest is published for review.                                   *)
LEMMA RunReviewStep ==
    ASSUME Inv, RunReview
    PROVE  Inv'
  <1>1. /\ run.pc = "review" /\ Save("review_pending", Manifest(run.issues), "review_row") /\ RunKeeps
        /\ row' = row /\ tab' = tab /\ fks' = fks /\ nextId' = nextId /\ made' = made
    BY DEF RunReview, RunAt, objects
  <1> QED BY <1>1, CopiedManifest, SaveStep, Literals

(* The copy is given up on the target. *)
LEMMA RunAbortStep ==
    ASSUME Inv, RunAbort
    PROVE  Inv'
  <1>0. /\ tab' = tab /\ fks' = fks /\ nextId' = nextId /\ made' = made /\ dropped' = dropped
        /\ fin' = fin /\ acked' = acked /\ published' = published /\ policy' = policy /\ row' = row /\ reg' = reg
        /\ fin = NoFin /\ fin.by = "none" /\ rec' \in Recs
        /\ rec'.m = rec.m /\ rec'.pos = rec.pos /\ rec'.planned = rec.planned /\ rec'.plan = rec.plan
        /\ rec'.state = rec.state \/ (rec.state \notin {"none", "completed"} /\ rec'.state = "aborted")
        /\ req' = req /\ run.pc = "abort" /\ RunTo("abort_row")
    BY AbortEffect, GotoEffect, ReqEffect, Literals, ConstantTypes
    DEF Inv, Typed, RunAbort, RunKeeps, RunAt, objects, ghosts
  <1>1. Typed'
    BY <1>0 DEF Inv, Typed, RunTo
  <1>2. LiveInv'
    BY <1>0 DEF Inv, Typed, RunTo, RunFailed, LiveInv, Quiet
  <1>3. EarlyInv'
    BY <1>0
    DEF Inv, Typed, RunTo, RunFailed, EarlyInv, RowInv, ReqInv, LiveInv, Early, Quiet, Away, Resumable,
        RowNeverAhead, FinInv
  <1>4. RowInv'
    BY <1>0
    DEF Inv, Typed, RunTo, RunFailed, EarlyInv, RowInv, ReqInv, LiveInv, Early, Quiet, Away, Resumable,
        RowNeverAhead
  <1>5. ReqInv'
    BY <1>0
    DEF Inv, Typed, RunTo, RunFailed, EarlyInv, RowInv, ReqInv, LiveInv, Early, Quiet, Away, Resumable,
        RowNeverAhead
  <1>6. CopyInv'
    BY <1>0 DEF Inv, Typed, RunTo, RunFailed, CopyInv
  <1>7. FinInv'
    BY <1>0 DEF Inv, FinInv
  <1>8. IdInv' /\ PlanInv' /\ WholeInv' /\ OnlyOwnDropped' /\ OnlyAcknowledged'
    BY <1>0, AbortKeeps
  <1> QED BY <1>1, <1>2, <1>3, <1>4, <1>5, <1>6, <1>7, <1>8 DEF Inv

(* A cancelled copy is given up on the target. *)
LEMMA RunGivesUpStep ==
    ASSUME Inv, RunGivesUp
    PROVE  Inv'
  <1>0. /\ tab' = tab /\ fks' = fks /\ nextId' = nextId /\ made' = made /\ dropped' = dropped
        /\ fin' = fin /\ acked' = acked /\ published' = published /\ policy' = policy /\ row' = row /\ reg' = reg
        /\ fin = NoFin /\ fin.by = "none" /\ rec' \in Recs
        /\ rec'.m = rec.m /\ rec'.pos = rec.pos /\ rec'.planned = rec.planned /\ rec'.plan = rec.plan
        /\ rec'.state = rec.state \/ (rec.state \notin {"none", "completed"} /\ rec'.state = "aborted")
        /\ req' = req /\ run.pc = "give_up" /\ RunTo("gone_row")
    BY AbortEffect, GotoEffect, ReqEffect, Literals, ConstantTypes
    DEF Inv, Typed, RunGivesUp, RunKeeps, RunAt, objects, ghosts
  <1>1. Typed'
    BY <1>0 DEF Inv, Typed, RunTo
  <1>2. LiveInv'
    BY <1>0 DEF Inv, Typed, RunTo, RunFailed, LiveInv, Quiet
  <1>3. EarlyInv'
    BY <1>0
    DEF Inv, Typed, RunTo, RunFailed, EarlyInv, RowInv, ReqInv, LiveInv, Early, Quiet, Away, Resumable,
        RowNeverAhead, FinInv
  <1>4. RowInv'
    BY <1>0
    DEF Inv, Typed, RunTo, RunFailed, EarlyInv, RowInv, ReqInv, LiveInv, Early, Quiet, Away, Resumable,
        RowNeverAhead
  <1>5. ReqInv'
    BY <1>0
    DEF Inv, Typed, RunTo, RunFailed, EarlyInv, RowInv, ReqInv, LiveInv, Early, Quiet, Away, Resumable,
        RowNeverAhead
  <1>6. CopyInv'
    BY <1>0 DEF Inv, Typed, RunTo, RunFailed, CopyInv
  <1>7. FinInv'
    BY <1>0 DEF Inv, FinInv
  <1>8. IdInv' /\ PlanInv' /\ WholeInv' /\ OnlyOwnDropped' /\ OnlyAcknowledged'
    BY <1>0, AbortKeeps
  <1> QED BY <1>1, <1>2, <1>3, <1>4, <1>5, <1>6, <1>7, <1>8 DEF Inv

(* An abort of a job that does not run. *)
LEMMA AbortRecordStep ==
    ASSUME Inv, AbortRecord
    PROVE  Inv'
  <1>0. /\ tab' = tab /\ fks' = fks /\ nextId' = nextId /\ made' = made /\ dropped' = dropped
        /\ fin' = fin /\ acked' = acked /\ published' = published /\ policy' = policy /\ row' = row /\ reg' = reg
        /\ fin = NoFin /\ fin.by = "none" /\ rec' \in Recs
        /\ rec'.m = rec.m /\ rec'.pos = rec.pos /\ rec'.planned = rec.planned /\ rec'.plan = rec.plan
        /\ rec'.state = rec.state \/ (rec.state \notin {"none", "completed"} /\ rec'.state = "aborted")
        /\ run' = run /\ req.pc = "abort_target" /\ req' \in Reqs /\ req'.pc = "abort_swap" /\ req'.j = req.j
    BY AbortEffect, GotoEffect, ReqEffect, Literals, ConstantTypes
    DEF Inv, Typed, AbortRecord, ReqKeeps, ReqAt, objects, ghosts
  <1>1. Typed'
    BY <1>0 DEF Inv, Typed, RunTo
  <1>2. LiveInv'
    BY <1>0 DEF Inv, Typed, RunTo, RunFailed, LiveInv, Quiet
  <1>3. EarlyInv'
    BY <1>0
    DEF Inv, Typed, RunTo, RunFailed, EarlyInv, RowInv, ReqInv, LiveInv, Early, Quiet, Away, Resumable,
        RowNeverAhead, FinInv
  <1>4. RowInv'
    BY <1>0
    DEF Inv, Typed, RunTo, RunFailed, EarlyInv, RowInv, ReqInv, LiveInv, Early, Quiet, Away, Resumable,
        RowNeverAhead
  <1>5. ReqInv'
    BY <1>0
    DEF Inv, Typed, RunTo, RunFailed, EarlyInv, RowInv, ReqInv, LiveInv, Early, Quiet, Away, Resumable,
        RowNeverAhead
  <1>6. CopyInv'
    BY <1>0 DEF Inv, Typed, RunTo, RunFailed, CopyInv
  <1>7. FinInv'
    BY <1>0 DEF Inv, FinInv
  <1>8. IdInv' /\ PlanInv' /\ WholeInv' /\ OnlyOwnDropped' /\ OnlyAcknowledged'
    BY <1>0, AbortKeeps
  <1> QED BY <1>1, <1>2, <1>3, <1>4, <1>5, <1>6, <1>7, <1>8 DEF Inv

(* The copy cannot go on.                                                  *)
LEMMA RunHopelessStep ==
    ASSUME Inv, RunHopeless
    PROVE  Inv'
  <1> DEFINE m == Manifest(run.issues)
  <1>a. run.pc = "review" /\ fin = NoFin /\ fin.by = "none" /\ run.pc \in Early
    BY ConstantTypes DEF RunHopeless, RunAt, Early
  <1>b. rec.state \in {"none", "snapshot_in_progress"} /\ ~rec.planned
    BY <1>a, NoFinEarly DEF Inv, EarlyInv
  <1>c. m \in Manifests /\ \A t \in m.effective : t \notin Excluded(m)
    BY <1>a, CopiedManifest
  <1> HIDE DEF m
  <1>d. LET s == Saved("aborted", m)
        IN  s \in Recs /\ s.state = "aborted" /\ s.m = m /\ s.pos = 0 /\ ~s.planned
    <2>1. "aborted" \in RecStates /\ 0 \in 0 .. MaxPos
      BY Literals, BootstrapAssumption
    <2>2. Saved("aborted", m) = [rec EXCEPT !.state = "aborted", !.m = m, !.pos = 0]
      BY <1>b DEF Saved
    <2> QED BY <2>1, <2>2, <1>b, <1>c DEF Inv, Typed, Recs
  <1>0. /\ tab' = tab /\ fks' = fks /\ nextId' = nextId /\ made' = made /\ dropped' = dropped
        /\ fin' = fin /\ acked' = acked /\ published' = published /\ policy' = policy /\ row' = row /\ reg' = reg
        /\ req' = req /\ RunTo("abort")
        /\ \/ rec' = rec
           \/ rec' \in Recs /\ rec'.state = "aborted" /\ rec'.m = m /\ rec'.pos = 0 /\ ~rec'.planned
    BY <1>d, GotoEffect, Literals DEF Inv, Typed, RunHopeless, RunKeeps, objects, ghosts, m
  <1>1. Typed'
    BY <1>0 DEF Inv, Typed, RunTo
  <1>2. LiveInv'
    BY <1>0, <1>a, <1>b DEF Inv, Typed, RunTo, RunFailed, LiveInv, Quiet
  <1>3. EarlyInv'
    BY <1>0, <1>a, <1>b
    DEF Inv, Typed, RunTo, RunFailed, EarlyInv, RowInv, ReqInv, LiveInv, Early, Quiet, Away, Resumable,
        RowNeverAhead, FinInv
  <1>4. RowInv'
    BY <1>0, <1>a, <1>b
    DEF Inv, Typed, RunTo, RunFailed, EarlyInv, RowInv, ReqInv, LiveInv, Early, Quiet, Away, Resumable,
        RowNeverAhead
  <1>5. ReqInv'
    BY <1>0, <1>a, <1>b
    DEF Inv, Typed, RunTo, RunFailed, EarlyInv, RowInv, ReqInv, LiveInv, Early, Quiet, Away, Resumable,
        RowNeverAhead
  <1>6. CopyInv'
    BY <1>0, <1>a, <1>b DEF Inv, Typed, RunTo, RunFailed, CopyInv
  <1>7. FinInv'
    BY <1>0, <1>a DEF Inv, FinInv
  <1>8. IdInv' /\ OnlyOwnDropped' /\ OnlyAcknowledged' /\ PlanInv'
    BY <1>0, <1>b DEF Inv, IdInv, OnlyOwnDropped, OnlyAcknowledged, PlanInv
  <1>9. WholeInv'
    BY <1>0, <1>b, <1>c DEF Inv, WholeInv, CopyInv
  <1> QED BY <1>1, <1>2, <1>3, <1>4, <1>5, <1>6, <1>7, <1>8, <1>9 DEF Inv

-----------------------------------------------------------------------------
(* FinalizeBootstrap.                                                      *)

(* A FinalizeBootstrap that returns tells its caller.                      *)
FinBack(by, ok) ==
    /\ fin' = NoFin /\ fin' \in Fins /\ fin'.by = "none"
    /\ \/ by = "run" /\ req' = req /\ (IF ok THEN RunTo("apply") ELSE RunFailed("error"))
       \/ /\ by = "req" /\ run' = run /\ req' \in Reqs
          /\ IF ok THEN req'.pc = "apply" /\ req'.j = req.j ELSE req'.pc = "idle" /\ ~req'.j.done

(* FinReturn.                                                              *)
LEMMA FinReturnEffect ==
    ASSUME Typed, NEW by \in {"run", "req"}, NEW ok \in BOOLEAN, FinReturn(by, ok)
    PROVE  FinBack(by, ok)
  <1>1. fin' = NoFin /\ fin' \in Fins /\ fin'.by = "none"
    BY ConstantTypes DEF FinReturn
  <1>2. CASE by = "run"
    BY <1>1, <1>2, GotoEffect, FailsEffect, Literals DEF FinReturn, FinBack, Typed
  <1>3. CASE by = "req"
    <2>1. run' = run /\ req' = IF ok THEN [req EXCEPT !.pc = "apply"] ELSE Idle
      BY <1>3 DEF FinReturn
    <2>2. CASE ok
      BY <1>1, <1>3, <2>1, <2>2, Literals DEF FinBack, Typed, Reqs
    <2>3. CASE ~ok
      BY <1>1, <1>3, <2>1, <2>3, ConstantTypes DEF FinBack
    <2> QED BY <2>2, <2>3
  <1> QED BY <1>2, <1>3

(* A plan is added to the record.                                          *)
LEMMA PlannedEffect ==
    ASSUME rec \in Recs, NEW plan \in Seq(Items), rec' = [rec EXCEPT !.planned = TRUE, !.plan = plan]
    PROVE  /\ rec' \in Recs /\ rec'.planned /\ rec'.plan = plan
           /\ rec'.state = rec.state /\ rec'.m = rec.m /\ rec'.pos = rec.pos
  BY DEF Recs

(* Nothing failed: the runner finalizes the copy itself.                   *)
LEMMA RunFinalizeStep ==
    ASSUME Inv, RunFinalize
    PROVE  Inv'
  <1> DEFINE m == Manifest(run.issues)
  <1>a. run.pc = "review" /\ fin = NoFin /\ fin.by = "none" /\ run.pc \in Early /\ m.excluded = {}
    BY ConstantTypes DEF RunFinalize, FinBegin, RunAt, Early
  <1>b. rec.state \in {"none", "snapshot_in_progress"} /\ ~rec.planned
    BY <1>a, NoFinEarly DEF Inv, EarlyInv
  <1>c. m \in Manifests /\ PlanFor(m, PlanCleanup(m))
    BY <1>a, CopiedManifest
  <1>d. FinBegin("run", m)
    BY DEF RunFinalize
  <1>e. [by |-> "run", pc |-> "item", m |-> m, i |-> 1] \in Fins
    BY <1>c DEF Fins
  <1> HIDE DEF m
  <1>f. PICK end \in Ends(TRUE) :
           LET ok == rec.state = "snapshot_in_progress" /\ rec.m = m
           IN  /\ rec' = IF end # "fail" /\ ok
                         THEN [rec EXCEPT !.planned = TRUE, !.plan = PlanCleanup(m)] ELSE rec
               /\ IF end # "ok" \/ ~ok THEN FinReturn("run", FALSE)
                  ELSE fin' = [by |-> "run", pc |-> "item", m |-> m, i |-> 1] /\ run' = run /\ req' = req
    <2>1. PICK end \in Ends(TRUE) :
             LET ok == /\ rec.state \in {"snapshot_in_progress", "review_pending", "completed"}
                       /\ rec.m = m
                 plans == ok /\ rec.state # "completed" /\ ~rec.planned
             IN  /\ rec' = IF end # "fail" /\ plans
                           THEN [rec EXCEPT !.planned = TRUE, !.plan = PlanCleanup(m)] ELSE rec
                 /\ IF end # "ok" \/ ~ok \/ rec.state = "completed"
                    THEN FinReturn("run", end = "ok" /\ ok)
                    ELSE fin' = [by |-> "run", pc |-> "item", m |-> m, i |-> 1] /\ UNCHANGED <<run, req>>
      BY <1>d DEF FinBegin
    <2>2. rec.state \in {"snapshot_in_progress", "review_pending", "completed"} <=> rec.state = "snapshot_in_progress"
      BY <1>b
    <2>3. rec.state # "completed" /\ ~rec.planned
      BY <1>b
    <2>4. CASE end # "ok"
      BY <2>1, <2>2, <2>3, <2>4
    <2>5. CASE ~(rec.state = "snapshot_in_progress" /\ rec.m = m)
      BY <2>1, <2>2, <2>3, <2>5
    <2>6. CASE end = "ok" /\ rec.state = "snapshot_in_progress" /\ rec.m = m
      BY <2>1, <2>2, <2>3, <2>6
    <2> QED BY <2>4, <2>5, <2>6
  <1>0. /\ tab' = tab /\ fks' = fks /\ nextId' = nextId /\ made' = made /\ dropped' = dropped
        /\ acked' = acked /\ published' = published /\ policy' = policy /\ row' = row /\ reg' = reg
        /\ req' = req /\ rec' \in Recs /\ fin' \in Fins
        /\ \/ rec' = rec
           \/ /\ rec'.planned /\ rec'.plan = PlanCleanup(m) /\ rec'.state = rec.state /\ rec'.m = rec.m
              /\ rec'.pos = rec.pos /\ rec.m = m /\ rec.state = "snapshot_in_progress"
        /\ \/ fin' = NoFin /\ fin'.by = "none" /\ RunFailed("error")
           \/ /\ fin'.by = "run" /\ fin'.pc = "item" /\ fin'.i = 1 /\ run' = run
              /\ rec'.planned /\ rec'.plan = PlanCleanup(m) /\ rec.m = m /\ rec.state = "snapshot_in_progress"
    <2>1. /\ tab' = tab /\ fks' = fks /\ nextId' = nextId /\ made' = made /\ dropped' = dropped
          /\ acked' = acked /\ published' = published /\ policy' = policy /\ row' = row /\ reg' = reg
      BY <1>d DEF FinBegin, objects, ghosts
    <2>2. PlanCleanup(m) \in Seq(Items)
      BY <1>c DEF PlanFor
    <2>3. rec' = [rec EXCEPT !.planned = TRUE, !.plan = PlanCleanup(m)] =>
             /\ rec' \in Recs /\ rec'.planned /\ rec'.plan = PlanCleanup(m)
             /\ rec'.state = rec.state /\ rec'.m = rec.m /\ rec'.pos = rec.pos
      BY <2>2, PlannedEffect DEF Inv, Typed
    <2>4. FinReturn("run", FALSE) => FinBack("run", FALSE)
      BY FinReturnEffect DEF Inv
    <2>5. rec \in Recs
      BY DEF Inv, Typed
    <2>6. CASE rec.state = "snapshot_in_progress" /\ rec.m = m
      <3>1. CASE end = "ok"
        BY <2>1, <2>3, <2>6, <3>1, <1>f, <1>e
      <3>2. CASE end # "ok"
        BY <2>1, <2>3, <2>4, <2>5, <2>6, <3>2, <1>f DEF FinBack
      <3> QED BY <3>1, <3>2
    <2>7. CASE ~(rec.state = "snapshot_in_progress" /\ rec.m = m)
      BY <2>1, <2>4, <2>5, <2>7, <1>f DEF FinBack
    <2> QED BY <2>6, <2>7
  <1>1. Typed'
    BY <1>0 DEF Inv, Typed, RunFailed
  <1>2. LiveInv'
    BY <1>0, <1>a, <1>b DEF Inv, Typed, RunTo, RunFailed, LiveInv, Quiet
  <1>3. EarlyInv'
    BY <1>0, <1>a, <1>b
    DEF Inv, Typed, RunTo, RunFailed, EarlyInv, RowInv, ReqInv, LiveInv, Early, Quiet, Away, Resumable,
        RowNeverAhead, FinInv
  <1>4. RowInv'
    BY <1>0, <1>a, <1>b
    DEF Inv, Typed, RunTo, RunFailed, EarlyInv, RowInv, ReqInv, LiveInv, Early, Quiet, Away, Resumable,
        RowNeverAhead
  <1>5. ReqInv'
    BY <1>0, <1>a, <1>b
    DEF Inv, Typed, RunTo, RunFailed, EarlyInv, RowInv, ReqInv, LiveInv, Early, Quiet, Away, Resumable,
        RowNeverAhead
  <1>6. CopyInv'
    BY <1>0, <1>a, <1>b DEF Inv, Typed, RunTo, RunFailed, CopyInv
  <1>7. PlanInv'
    <2>1. CASE rec' = rec
      BY <2>1, <1>b DEF PlanInv
    <2>2. CASE rec'.plan = PlanCleanup(m) /\ rec'.m = m
      BY <2>2, <1>0, <1>c DEF PlanInv, PlanFor
    <2> QED BY <1>0, <2>1, <2>2
  <1>8. FinInv'
    <2>1. CASE fin' = NoFin /\ fin'.by = "none"
      BY <2>1 DEF FinInv
    <2>2. CASE fin'.by = "run"
      <3>1. rec'.plan \in Seq(Items) /\ Len(rec'.plan) \in Nat /\ DOMAIN rec'.plan = 1 .. Len(rec'.plan)
        BY <1>0 DEF Recs
      <3>2. 1 \in 1 .. Len(rec'.plan) + 1 /\ \A k \in DOMAIN rec'.plan : ~(k < 1)
        BY <3>1
      <3> QED BY <2>2, <3>2, <1>0, <1>a DEF FinInv, m
    <2> QED BY <1>0, <2>1, <2>2
  <1>9. IdInv' /\ OnlyOwnDropped' /\ OnlyAcknowledged'
    BY <1>0, <1>b DEF Inv, IdInv, OnlyOwnDropped, OnlyAcknowledged
  <1>10. WholeInv'
    BY <1>0, <1>b DEF Inv, WholeInv
  <1> QED BY <1>1, <1>2, <1>3, <1>4, <1>5, <1>6, <1>7, <1>8, <1>9, <1>10 DEF Inv

(* The accepted manifest is finalized.                                     *)
LEMMA AcceptFinalizeStep ==
    ASSUME Inv, AcceptFinalize
    PROVE  Inv'
  <1>a. req.pc = "finalize" /\ fin = NoFin /\ fin.by = "none" /\ FinBegin("req", rec.m)
    BY ConstantTypes DEF AcceptFinalize, FinBegin, ReqAt
  <1>b. rec.state = "review_pending" /\ rec.planned /\ rec.m \in Manifests
    BY <1>a DEF Inv, ReqInv, WholeInv, Typed, Recs
  <1>c. PICK end \in Ends(FALSE) :
           /\ rec' = rec
           /\ IF end # "ok" THEN FinReturn("req", FALSE)
              ELSE fin' = [by |-> "req", pc |-> "item", m |-> rec.m, i |-> 1] /\ run' = run /\ req' = req
    <2>1. PICK end \in Ends("req" = "run") :
             LET ok == /\ rec.state \in {"snapshot_in_progress", "review_pending", "completed"}
                       /\ rec.m = rec.m
                 plans == ok /\ rec.state # "completed" /\ ~rec.planned
             IN  /\ rec' = IF end # "fail" /\ plans
                           THEN [rec EXCEPT !.planned = TRUE, !.plan = PlanCleanup(rec.m)] ELSE rec
                 /\ IF end # "ok" \/ ~ok \/ rec.state = "completed"
                    THEN FinReturn("req", end = "ok" /\ ok)
                    ELSE fin' = [by |-> "req", pc |-> "item", m |-> rec.m, i |-> 1] /\ UNCHANGED <<run, req>>
      BY <1>a DEF FinBegin
    <2>2. ("req" = "run") = FALSE
      OBVIOUS
    <2>3. CASE end # "ok"
      BY <2>1, <2>2, <2>3, <1>b
    <2>4. CASE end = "ok"
      BY <2>1, <2>2, <2>4, <1>b
    <2> QED BY <2>3, <2>4
  <1>0. /\ tab' = tab /\ fks' = fks /\ nextId' = nextId /\ made' = made /\ dropped' = dropped
        /\ acked' = acked /\ published' = published /\ policy' = policy /\ row' = row /\ reg' = reg
        /\ run' = run /\ rec' = rec /\ fin' \in Fins /\ req' \in Reqs
        /\ \/ fin' = NoFin /\ fin'.by = "none" /\ req'.pc = "idle" /\ ~req'.j.done
           \/ fin'.by = "req" /\ fin'.pc = "item" /\ fin'.i = 1 /\ req' = req
    <2>1. /\ tab' = tab /\ fks' = fks /\ nextId' = nextId /\ made' = made /\ dropped' = dropped
          /\ acked' = acked /\ published' = published /\ policy' = policy /\ row' = row /\ reg' = reg
      BY <1>a DEF FinBegin, objects, ghosts
    <2>2. FinReturn("req", FALSE) => FinBack("req", FALSE)
      BY FinReturnEffect DEF Inv
    <2>3. [by |-> "req", pc |-> "item", m |-> rec.m, i |-> 1] \in Fins /\ req \in Reqs
      BY <1>b DEF Fins, Inv, Typed
    <2>4. CASE end = "ok"
      BY <2>1, <2>3, <2>4, <1>c
    <2>5. CASE end # "ok"
      BY <2>1, <2>2, <2>5, <1>c DEF FinBack
    <2> QED BY <2>4, <2>5
  <1>1. Typed'
    BY <1>0 DEF Inv, Typed
  <1>2. LiveInv'
    BY <1>0, <1>a, <1>b DEF Inv, Typed, RunTo, RunFailed, LiveInv, Quiet
  <1>3. EarlyInv'
    BY <1>0, <1>a, <1>b
    DEF Inv, Typed, RunTo, RunFailed, EarlyInv, RowInv, ReqInv, LiveInv, Early, Quiet, Away, Resumable,
        RowNeverAhead, FinInv
  <1>4. RowInv'
    BY <1>0, <1>a, <1>b
    DEF Inv, Typed, RunTo, RunFailed, EarlyInv, RowInv, ReqInv, LiveInv, Early, Quiet, Away, Resumable,
        RowNeverAhead
  <1>5. ReqInv'
    BY <1>0, <1>a, <1>b
    DEF Inv, Typed, RunTo, RunFailed, EarlyInv, RowInv, ReqInv, LiveInv, Early, Quiet, Away, Resumable,
        RowNeverAhead
  <1>6. CopyInv'
    BY <1>0, <1>a, <1>b DEF Inv, Typed, RunTo, RunFailed, CopyInv
  <1>7. FinInv'
    <2>1. CASE fin' = NoFin /\ fin'.by = "none"
      BY <2>1 DEF FinInv
    <2>2. CASE fin'.by = "req"
      <3>1. rec'.plan \in Seq(Items) /\ Len(rec'.plan) \in Nat /\ DOMAIN rec'.plan = 1 .. Len(rec'.plan)
        BY <1>0 DEF Recs, Inv, Typed
      <3>2. 1 \in 1 .. Len(rec'.plan) + 1 /\ \A k \in DOMAIN rec'.plan : ~(k < 1)
        BY <3>1
      <3> QED BY <2>2, <3>2, <1>0, <1>a, <1>b DEF FinInv
    <2> QED BY <1>0, <2>1, <2>2
  <1>8. IdInv' /\ PlanInv' /\ WholeInv' /\ OnlyOwnDropped'
    BY <1>0, KeepData DEF Inv
  <1>9. OnlyAcknowledged'
    BY <1>0 DEF Inv, OnlyAcknowledged
  <1> QED BY <1>1, <1>2, <1>3, <1>4, <1>5, <1>6, <1>7, <1>8, <1>9 DEF Inv

(* What is known while FinalizeBootstrap is in progress.                   *)
LEMMA FinFacts ==
    ASSUME Inv, fin.by # "none"
    PROVE  /\ fin.by \in {"run", "req"} /\ fin.i \in Nat /\ fin.i >= 1 /\ fin.i <= Len(rec.plan) + 1
           /\ rec.plan \in Seq(Items) /\ Len(rec.plan) \in Nat /\ DOMAIN rec.plan = 1 .. Len(rec.plan)
           /\ rec.planned
           /\ rec.state \in {"snapshot_in_progress", "review_pending"}
           /\ \/ /\ fin.by = "run" /\ run.pc = "review" /\ req.pc \in {"idle", "abort"} /\ ~req.j.done
                 /\ rec.state = "snapshot_in_progress" /\ rec.m = Manifest(run.issues) /\ rec.m.excluded = {}
                 /\ ~row.done
              \/ /\ fin.by = "req" /\ req.pc = "finalize" /\ Away /\ rec.state = "review_pending"
                 /\ row.status = "paused_bootstrap_review" /\ rec.m \in acked
  <1>1. fin.by \in {"run", "req"} /\ rec.plan \in Seq(Items) /\ fin.i \in Nat
    BY DEF Inv, Typed, Fins, Recs
  <1>2. Len(rec.plan) \in Nat /\ DOMAIN rec.plan = 1 .. Len(rec.plan)
    BY <1>1
  <1>3. fin.i \in 1 .. Len(rec.plan) + 1 /\ rec.planned
    BY DEF Inv, FinInv
  <1>4. fin.i >= 1 /\ fin.i <= Len(rec.plan) + 1
    BY <1>1, <1>2, <1>3
  <1>5. CASE fin.by = "run"
    <2>1. /\ run.pc = "review" /\ rec.m = Manifest(run.issues) /\ rec.m.excluded = {}
          /\ rec.state = "snapshot_in_progress"
      BY <1>5 DEF Inv, FinInv
    <2>2. req.pc \in {"idle", "abort"} /\ ~req.j.done /\ ~row.done
      BY <2>1 DEF Inv, EarlyInv, Early
    <2> QED BY <1>1, <1>2, <1>3, <1>4, <1>5, <2>1, <2>2
  <1>6. CASE fin.by = "req"
    <2>1. req.pc = "finalize"
      BY <1>6 DEF Inv, FinInv
    <2>2. rec.state = "review_pending" /\ row.status = "paused_bootstrap_review" /\ rec.m \in acked
      BY <2>1 DEF Inv, ReqInv
    <2>3. Away
      BY <2>2 DEF Inv, RowInv
    <2> QED BY <1>1, <1>2, <1>3, <1>4, <1>6, <2>1, <2>2, <2>3
  <1> QED BY <1>1, <1>5, <1>6

(* FinGoto.                                                                *)
LEMMA FinGotoEffect ==
    ASSUME Typed, NEW pc \in {"item", "save"}, NEW i \in Nat, FinGoto(pc, i)
    PROVE  /\ fin' \in Fins /\ fin'.by = fin.by /\ fin'.pc = pc /\ fin'.i = i
           /\ run' = run /\ req' = req
  BY DEF FinGoto, Typed, Fins

(* An item is skipped.                                                     *)
LEMMA FinSkipStep ==
    ASSUME Inv, FinSkip
    PROVE  Inv'
  <1>a. fin.by # "none" /\ fin.pc = "item" /\ fin.i <= Len(rec.plan)
    BY DEF FinSkip, AtItem, FinAt
  <1>b. /\ fin.i \in DOMAIN rec.plan /\ fin.i \in Nat /\ fin.i + 1 \in Nat /\ rec.plan[fin.i] \in Items
        /\ fin.i + 1 \in 1 .. Len(rec.plan) + 1 /\ DOMAIN rec.plan \subseteq Nat
    BY <1>a, FinFacts
  <1>0. /\ tab' = tab /\ fks' = fks /\ nextId' = nextId /\ made' = made /\ dropped' = dropped
        /\ acked' = acked /\ published' = published /\ policy' = policy /\ row' = row /\ reg' = reg
        /\ rec' = rec /\ run' = run /\ req' = req /\ fin' \in Fins /\ fin'.by = fin.by
        /\ \/ rec.plan[fin.i].done /\ fin'.pc = "item" /\ fin'.i = fin.i + 1
           \/ ItemId = 0 /\ fin'.pc = "save" /\ fin'.i = fin.i
    BY <1>b, FinGotoEffect DEF FinSkip, Item, Inv, objects, ghosts
  <1>1. Typed'
    BY <1>0 DEF Inv, Typed
  <1>2. LiveInv'
    BY <1>0 DEF Inv, Typed, RunTo, RunFailed, LiveInv, Quiet
  <1>3. EarlyInv'
    BY <1>0
    DEF Inv, Typed, RunTo, RunFailed, EarlyInv, RowInv, ReqInv, LiveInv, Early, Quiet, Away, Resumable,
        RowNeverAhead, FinInv
  <1>4. RowInv'
    BY <1>0
    DEF Inv, Typed, RunTo, RunFailed, EarlyInv, RowInv, ReqInv, LiveInv, Early, Quiet, Away, Resumable,
        RowNeverAhead
  <1>5. ReqInv'
    BY <1>0
    DEF Inv, Typed, RunTo, RunFailed, EarlyInv, RowInv, ReqInv, LiveInv, Early, Quiet, Away, Resumable,
        RowNeverAhead
  <1>6. CopyInv'
    BY <1>0 DEF Inv, Typed, RunTo, RunFailed, CopyInv
  <1>7. FinInv'
    <2>1. CASE rec.plan[fin.i].done /\ fin'.pc = "item" /\ fin'.i = fin.i + 1
      <3>1. \A k \in DOMAIN rec.plan : k < fin.i + 1 => k < fin.i \/ k = fin.i
        BY <1>b
      <3> QED BY <1>0, <1>a, <1>b, <2>1, <3>1 DEF Inv, FinInv
    <2>2. CASE ItemId = 0 /\ fin'.pc = "save" /\ fin'.i = fin.i
      <3>1. 0 \notin made
        BY DEF Inv, IdInv
      <3>2. ObjectGone(rec.plan[fin.i])
        BY <2>2, <3>1 DEF ItemId, Item, ObjectGone
      <3>3. ObjectGone(rec.plan[fin.i])'
        BY <3>2, <1>0, <2>2 DEF ObjectGone
      <3> QED BY <1>0, <1>a, <2>2, <3>3 DEF Inv, FinInv
    <2> QED BY <1>0, <2>1, <2>2
  <1>8. IdInv' /\ PlanInv' /\ WholeInv' /\ OnlyOwnDropped'
    BY <1>0, KeepData DEF Inv
  <1>9. OnlyAcknowledged'
    BY <1>0 DEF Inv, OnlyAcknowledged
  <1> QED BY <1>1, <1>2, <1>3, <1>4, <1>5, <1>6, <1>7, <1>8, <1>9 DEF Inv

(* What a drop does to the objects.                                        *)
LEMMA DropEffect ==
    ASSUME Inv, AtItem, DropItem, SameObject(Item, ItemId)
    PROVE  /\ tab' \in [Tables -> TabRecs] /\ fks' \in [Refs -> Nat]
           /\ \A t \in Tables : tab'[t] = tab[t] \/ (t \in OwnedTables(rec.m) /\ tab'[t] = NoTable)
           /\ \A r \in Refs : fks'[r] = fks[r] \/ fks'[r] = 0
           /\ IF Item.key # <<>> THEN fks'[Item.key] = 0 ELSE tab'[Item.table] = NoTable
           /\ dropped' \subseteq dropped \cup made
  <1>a. fin.by # "none" /\ fin.pc = "item" /\ fin.i <= Len(rec.plan)
    BY DEF AtItem, FinAt
  <1>b. fin.i \in DOMAIN rec.plan /\ rec.plan[fin.i] \in Items /\ rec.planned
    BY <1>a, FinFacts
  <1>c. /\ Item \in Items /\ Item.id \in made
        /\ Item.key = <<>> => Item.table \in OwnedTables(rec.m)
    BY <1>b DEF Inv, PlanInv, Item
  <1>d. Item.table \in Tables /\ (Item.key # <<>> => Item.key \in Refs)
    BY <1>c DEF Items, Keys
  <1>e. ItemId \in made
    BY <1>c DEF SameObject
  <1>f. tab \in [Tables -> TabRecs] /\ fks \in [Refs -> Nat] /\ NoTable \in TabRecs
    BY ConstantTypes DEF Inv, Typed
  <1>1. /\ tab' = IF Item.key # <<>> THEN tab ELSE [tab EXCEPT ![Item.table] = NoTable]
        /\ fks' = [r \in Refs |->
                     IF r = Item.key \/ (Item.key = <<>> /\ r[1] = Item.table) THEN 0 ELSE fks[r]]
        /\ dropped' = dropped \cup {ItemId}
    BY DEF DropItem
  <1>2. tab' \in [Tables -> TabRecs] /\ fks' \in [Refs -> Nat]
    BY <1>1, <1>d, <1>f
  <1>3. \A t \in Tables : tab'[t] = tab[t] \/ (t \in OwnedTables(rec.m) /\ tab'[t] = NoTable)
    BY <1>1, <1>c, <1>d, <1>f
  <1>4. \A r \in Refs : fks'[r] = fks[r] \/ fks'[r] = 0
    BY <1>1
  <1>5. IF Item.key # <<>> THEN fks'[Item.key] = 0 ELSE tab'[Item.table] = NoTable
    BY <1>1, <1>d, <1>f
  <1> QED BY <1>1, <1>2, <1>3, <1>4, <1>5, <1>e

(* An object is dropped, or the cleanup fails.                             *)
LEMMA FinDropStep ==
    ASSUME Inv, FinDrop
    PROVE  Inv'
  <1>a. AtItem /\ fin.by # "none" /\ fin.pc = "item" /\ fin.i <= Len(rec.plan)
    BY DEF FinDrop, AtItem, FinAt
  <1>b. fin.i \in DOMAIN rec.plan /\ fin.i \in Nat /\ rec.plan[fin.i] \in Items /\ fin.by \in {"run", "req"}
    BY <1>a, FinFacts
  <1>c. /\ \/ DropItem /\ SameObject(Item, ItemId)
           \/ tab' = tab /\ fks' = fks /\ dropped' = dropped
        /\ (FinGoto("save", fin.i) /\ DropItem /\ SameObject(Item, ItemId)) \/ FinReturn(fin.by, FALSE)
    BY DEF FinDrop, FinFails
  <1>d. /\ nextId' = nextId /\ made' = made
        /\ acked' = acked /\ published' = published /\ policy' = policy /\ row' = row /\ reg' = reg
        /\ rec' = rec
    BY DEF FinDrop
  <1>e. /\ tab' \in [Tables -> TabRecs] /\ fks' \in [Refs -> Nat]
        /\ \A t \in Tables : tab'[t] = tab[t] \/ (t \in OwnedTables(rec.m) /\ tab'[t] = NoTable)
        /\ \A r \in Refs : fks'[r] = fks[r] \/ fks'[r] = 0
        /\ dropped' \subseteq dropped \cup made
    BY <1>a, <1>c, DropEffect DEF Inv, Typed
  <1>f. \/ FinBack(fin.by, FALSE)
        \/ /\ fin' \in Fins /\ fin'.by = fin.by /\ fin'.pc = "save" /\ fin'.i = fin.i
           /\ run' = run /\ req' = req
           /\ IF Item.key # <<>> THEN fks'[Item.key] = 0 ELSE tab'[Item.table] = NoTable
    BY <1>a, <1>b, <1>c, DropEffect, FinGotoEffect, FinReturnEffect DEF Inv
  <1>g. NoTable.id = 0 /\ NoTable.upto = 0 /\ 0 \notin made
    BY DEF NoTable, Inv, IdInv
  <1>h. \/ /\ fin.by = "run" /\ run.pc = "review" /\ req.pc \in {"idle", "abort"} /\ ~req.j.done
           /\ OwnedTables(rec.m) = {} /\ rec.state = "snapshot_in_progress"
        \/ fin.by = "req" /\ req.pc = "finalize" /\ Away /\ rec.state = "review_pending"
    BY <1>a, FinFacts DEF OwnedTables
  <1>0. /\ run' \in Runs /\ req' \in Reqs /\ fin' \in Fins
        /\ \/ run' = run /\ req' = req
           \/ fin.by = "run" /\ RunFailed("error") /\ req' = req
           \/ fin.by = "req" /\ run' = run /\ req'.pc = "idle" /\ ~req'.j.done
    BY <1>f, <1>h DEF FinBack, RunFailed, Inv, Typed
  <1>1. Typed'
    BY <1>0, <1>d, <1>e DEF Inv, Typed
  <1>2. LiveInv'
    BY <1>0, <1>d, <1>h DEF Inv, Typed, RunTo, RunFailed, LiveInv, Quiet
  <1>3. EarlyInv'
    <2>1. CASE run' = run /\ req' = req
      <3>1. fin.by = "run" /\ fin' \in Fins => (run.pc = "review" /\ fin'.by = "run") \/ run'.pc = "returned"
        BY <1>f, <1>h, <2>1 DEF FinBack, RunFailed
      <3> QED BY <1>d, <1>h, <2>1, <3>1, <1>0 DEF Inv, EarlyInv, Early, Away
    <2>2. CASE fin.by = "run" /\ RunFailed("error")
      BY <2>2 DEF RunFailed, EarlyInv, Early
    <2>3. CASE fin.by = "req" /\ run' = run
      BY <2>3, <1>h DEF EarlyInv, Early, Away
    <2> QED BY <1>0, <2>1, <2>2, <2>3
  <1>4. RowInv'
    BY <1>0, <1>d, <1>h
    DEF Inv, Typed, RunTo, RunFailed, EarlyInv, RowInv, ReqInv, LiveInv, Early, Quiet, Away, Resumable,
        RowNeverAhead
  <1>5. ReqInv'
    BY <1>0, <1>d, <1>h
    DEF Inv, Typed, RunTo, RunFailed, EarlyInv, RowInv, ReqInv, LiveInv, Early, Quiet, Away, Resumable,
        RowNeverAhead
  <1>6. CopyInv'
    <2>1. \A t \in Tables : tab[t].upto = 0 /\ tab'[t].upto = 0
      BY <1>e, <1>g, <1>h DEF Inv, CopyInv
    <2>2. CASE fin.by = "run"
      <3>1. \A t \in Tables : tab'[t] = tab[t]
        BY <1>e, <1>h, <2>2
      <3>2. run' = run \/ run'.pc = "returned"
        BY <1>0, <2>2 DEF RunFailed
      <3> QED BY <1>d, <1>h, <2>1, <2>2, <3>1, <3>2 DEF Inv, CopyInv
    <2>3. CASE fin.by = "req"
      <3>1. run'.pc \in {"gone", "returned"}
        BY <1>0, <1>h, <2>3 DEF Away
      <3> QED BY <1>d, <1>h, <2>1, <3>1 DEF Inv, CopyInv
    <2> QED BY <1>b, <2>2, <2>3
  <1>7. \A item \in Items : ObjectGone(item) => ObjectGone(item)'
    BY <1>d, <1>e, <1>g DEF ObjectGone, Items, Keys
  <1>8. FinInv'
    <2>1. CASE FinBack(fin.by, FALSE)
      BY <2>1 DEF FinBack, FinInv
    <2>2. CASE /\ fin' \in Fins /\ fin'.by = fin.by /\ fin'.pc = "save" /\ fin'.i = fin.i
               /\ run' = run /\ req' = req
               /\ IF Item.key # <<>> THEN fks'[Item.key] = 0 ELSE tab'[Item.table] = NoTable
      <3>1. ObjectGone(rec.plan[fin.i])'
        BY <2>2, <1>d, <1>g DEF ObjectGone, Item
      <3> QED BY <2>2, <3>1, <1>a, <1>d DEF Inv, FinInv
    <2> QED BY <1>f, <2>1, <2>2
  <1>9. PlanInv'
    <2>1. \A i \in DOMAIN rec.plan : rec.plan[i] \in Items
      BY <1>a, FinFacts
    <2>2. \A t \in OwnedTables(rec.m) : tab'[t].id \in made => tab[t].id \in made
      BY <1>e, <1>g, ManifestTables DEF Inv, Typed, Recs
    <2>3. \A r \in Refs : fks'[r] # 0 => fks[r] # 0
      BY <1>e
    <2> QED BY <1>d, <1>7, <2>1, <2>2, <2>3 DEF Inv, PlanInv
  <1>10. WholeInv'
    <2>1. rec.m.effective \subseteq Tables /\ OwnedTables(rec.m) \subseteq Excluded(rec.m)
      BY ManifestTables DEF Inv, Typed, Recs
    <2>2. \A t \in rec.m.effective : tab'[t] = tab[t]
      BY <2>1, <1>e DEF Inv, WholeInv
    <2> QED BY <1>d, <1>e, <1>g, <2>1, <2>2 DEF Inv, WholeInv
  <1>11. IdInv' /\ OnlyOwnDropped' /\ OnlyAcknowledged'
    <2>1. \A t \in Tables : tab'[t].id < nextId
      <3>1. nextId > 0 \/ \A t \in Tables : tab'[t] = tab[t]
        BY <1>a, <1>b, FinFacts DEF Inv, PlanInv, IdInv, Typed
      <3> QED BY <3>1, <1>e, <1>g DEF Inv, IdInv, Typed
    <2> QED BY <2>1, <1>d, <1>e DEF Inv, IdInv, OnlyOwnDropped, OnlyAcknowledged
  <1> QED BY <1>1, <1>2, <1>3, <1>4, <1>5, <1>6, <1>8, <1>9, <1>10, <1>11 DEF Inv

(* The finished item is marked in the stored plan.                         *)
LEMMA MarkEffect ==
    ASSUME rec \in Recs, NEW i \in DOMAIN rec.plan, rec' = [rec EXCEPT !.plan[i].done = TRUE]
    PROVE  /\ rec' \in Recs /\ rec'.state = rec.state /\ rec'.m = rec.m /\ rec'.pos = rec.pos
           /\ rec'.planned = rec.planned /\ DOMAIN rec'.plan = DOMAIN rec.plan
           /\ Len(rec'.plan) = Len(rec.plan)
           /\ \A k \in DOMAIN rec.plan :
                 /\ rec'.plan[k].id = rec.plan[k].id /\ rec'.plan[k].key = rec.plan[k].key
                 /\ rec'.plan[k].table = rec.plan[k].table
                 /\ rec'.plan[k].done = (rec.plan[k].done \/ k = i)
  <1> DEFINE it == [rec.plan[i] EXCEPT !.done = TRUE]
             pl == [rec.plan EXCEPT ![i] = it]
  <1>1. rec.plan \in Seq(Items) /\ \A k \in DOMAIN rec.plan : rec.plan[k] \in Items
    BY DEF Recs
  <1>2. it \in Items /\ it.id = rec.plan[i].id /\ it.key = rec.plan[i].key /\ it.table = rec.plan[i].table /\ it.done = TRUE
    BY <1>1 DEF Items
  <1>3. rec' = [rec EXCEPT !.plan = pl]
    OBVIOUS
  <1> HIDE DEF it
  <1>4. pl \in Seq(Items) /\ DOMAIN pl = DOMAIN rec.plan /\ Len(pl) = Len(rec.plan)
    BY <1>1, <1>2
  <1>5. \A k \in DOMAIN rec.plan : pl[k] = IF k = i THEN it ELSE rec.plan[k]
    BY <1>1
  <1> HIDE DEF pl
  <1>6. /\ rec' \in Recs /\ rec'.state = rec.state /\ rec'.m = rec.m /\ rec'.pos = rec.pos
        /\ rec'.planned = rec.planned /\ rec'.plan = pl
    BY <1>3, <1>4 DEF Recs
  <1>7. ASSUME NEW k \in DOMAIN rec.plan
        PROVE  /\ pl[k].id = rec.plan[k].id /\ pl[k].key = rec.plan[k].key
               /\ pl[k].table = rec.plan[k].table
               /\ pl[k].done = (rec.plan[k].done \/ k = i)
    <2>1. rec.plan[k].done \in BOOLEAN
      BY <1>1 DEF Items
    <2>2. CASE k = i
      BY <2>2, <1>5, <1>2
    <2>3. CASE k # i
      BY <2>1, <2>3, <1>5
    <2> QED BY <2>2, <2>3
  <1> QED BY <1>4, <1>6, <1>7

(* saveCleanupPlan.                                                        *)
LEMMA FinSavePlanStep ==
    ASSUME Inv, FinSavePlan
    PROVE  Inv'
  <1>a. fin.by # "none" /\ fin.pc = "save" /\ fin.i <= Len(rec.plan) /\ ObjectGone(rec.plan[fin.i])
    BY DEF FinSavePlan, FinAt, Inv, FinInv
  <1>b. /\ fin.i \in DOMAIN rec.plan /\ fin.i \in Nat /\ fin.i + 1 \in Nat /\ fin.by \in {"run", "req"}
        /\ fin.i + 1 \in 1 .. Len(rec.plan) + 1 /\ DOMAIN rec.plan \subseteq Nat
    BY <1>a, FinFacts
  <1>c. /\ tab' = tab /\ fks' = fks /\ nextId' = nextId /\ made' = made /\ dropped' = dropped
        /\ acked' = acked /\ published' = published /\ policy' = policy /\ row' = row /\ reg' = reg
    BY DEF FinSavePlan, objects, ghosts
  <1>d. /\ rec' = rec \/ rec' = [rec EXCEPT !.plan[fin.i].done = TRUE]
        /\ \/ FinGoto("item", fin.i + 1) /\ rec' = [rec EXCEPT !.plan[fin.i].done = TRUE]
           \/ FinReturn(fin.by, FALSE)
    BY DEF FinSavePlan, FinFails
  <1> DEFINE marked ==
          /\ rec' \in Recs /\ rec'.state = rec.state /\ rec'.m = rec.m /\ rec'.pos = rec.pos
          /\ rec'.planned = rec.planned /\ DOMAIN rec'.plan = DOMAIN rec.plan
          /\ Len(rec'.plan) = Len(rec.plan)
          /\ \A k \in DOMAIN rec.plan :
                /\ rec'.plan[k].id = rec.plan[k].id /\ rec'.plan[k].key = rec.plan[k].key
                /\ rec'.plan[k].table = rec.plan[k].table
                /\ rec'.plan[k].done = (rec.plan[k].done \/ k = fin.i)
  <1>e. rec' = rec \/ marked
    BY <1>b, <1>d, MarkEffect DEF Inv, Typed
  <1>f. \/ FinBack(fin.by, FALSE)
        \/ /\ marked /\ fin' \in Fins /\ fin'.by = fin.by /\ fin'.pc = "item" /\ fin'.i = fin.i + 1
           /\ run' = run /\ req' = req
    BY <1>b, <1>d, MarkEffect, FinGotoEffect, FinReturnEffect DEF Inv, Typed
  <1>g. /\ rec' \in Recs /\ rec'.state = rec.state /\ rec'.m = rec.m /\ rec'.pos = rec.pos
        /\ rec'.planned = rec.planned
    BY <1>e DEF Inv, Typed
  <1>h. \/ /\ fin.by = "run" /\ run.pc = "review" /\ req.pc \in {"idle", "abort"} /\ ~req.j.done
           /\ rec.state = "snapshot_in_progress"
        \/ fin.by = "req" /\ req.pc = "finalize" /\ Away /\ rec.state = "review_pending"
    BY <1>a, FinFacts
  <1> HIDE DEF marked
  <1>0. /\ run' \in Runs /\ req' \in Reqs /\ fin' \in Fins
        /\ \/ run' = run /\ req' = req /\ fin'.by = fin.by
           \/ fin.by = "run" /\ RunFailed("error") /\ req' = req
           \/ fin.by = "req" /\ run' = run /\ req'.pc = "idle" /\ ~req'.j.done
    BY <1>f, <1>h DEF FinBack, RunFailed, Inv, Typed
  <1>1. Typed'
    BY <1>0, <1>c, <1>g DEF Inv, Typed
  <1>2. LiveInv'
    BY <1>0, <1>c, <1>g, <1>h DEF Inv, Typed, RunTo, RunFailed, LiveInv, Quiet
  <1>3. EarlyInv'
    BY <1>0, <1>c, <1>g, <1>h
    DEF Inv, Typed, RunTo, RunFailed, EarlyInv, RowInv, ReqInv, LiveInv, Early, Quiet, Away, Resumable,
        RowNeverAhead, FinInv
  <1>4. RowInv'
    BY <1>0, <1>c, <1>g, <1>h
    DEF Inv, Typed, RunTo, RunFailed, EarlyInv, RowInv, ReqInv, LiveInv, Early, Quiet, Away, Resumable,
        RowNeverAhead
  <1>5. ReqInv'
    BY <1>0, <1>c, <1>g, <1>h
    DEF Inv, Typed, RunTo, RunFailed, EarlyInv, RowInv, ReqInv, LiveInv, Early, Quiet, Away, Resumable,
        RowNeverAhead
  <1>6. CopyInv'
    BY <1>0, <1>c, <1>g, <1>h DEF Inv, Typed, RunTo, RunFailed, CopyInv
  <1>7. PlanInv'
    <2>1. CASE rec' = rec
      BY <2>1, <1>c DEF Inv, PlanInv, ObjectGone
    <2>2. CASE marked
      <3>1. \A k \in DOMAIN rec.plan : rec'.plan[k].done => ObjectGone(rec.plan[k])
        BY <1>a, <2>2 DEF marked, Inv, PlanInv, FinInv
      <3>2. \A k \in DOMAIN rec.plan : ObjectGone(rec.plan[k]) => ObjectGone(rec.plan[k])'
        BY <1>c, <2>2 DEF marked, ObjectGone
      <3> QED BY <1>c, <2>2, <3>1, <3>2 DEF marked, Inv, PlanInv
    <2> QED BY <1>e, <2>1, <2>2
  <1>8. FinInv'
    <2>1. CASE FinBack(fin.by, FALSE)
      BY <2>1 DEF FinBack, FinInv
    <2>2. CASE /\ marked /\ fin' \in Fins /\ fin'.by = fin.by /\ fin'.pc = "item" /\ fin'.i = fin.i + 1
               /\ run' = run /\ req' = req
      <3>1. \A k \in DOMAIN rec.plan : k < fin.i + 1 => k < fin.i \/ k = fin.i
        BY <1>b
      <3>2. \A k \in DOMAIN rec'.plan : k < fin'.i => rec'.plan[k].done
        BY <2>2, <3>1, <1>a DEF marked, Inv, FinInv
      <3>3. fin'.i \in 1 .. Len(rec'.plan) + 1
        BY <2>2, <1>b DEF marked
      <3> QED BY <2>2, <3>2, <3>3, <1>a, <1>g DEF Inv, FinInv, Manifest
    <2> QED BY <1>f, <2>1, <2>2
  <1>9. WholeInv'
    BY <1>c, <1>g, <1>h DEF Inv, WholeInv
  <1>10. IdInv' /\ OnlyOwnDropped' /\ OnlyAcknowledged'
    BY <1>c, <1>g DEF Inv, IdInv, OnlyOwnDropped, OnlyAcknowledged
  <1> QED BY <1>1, <1>2, <1>3, <1>4, <1>5, <1>6, <1>7, <1>8, <1>9, <1>10 DEF Inv

(* The record becomes completed.                                           *)
LEMMA FinCommitStep ==
    ASSUME Inv, FinCommit
    PROVE  Inv'
  <1>a. fin.by # "none" /\ fin.i > Len(rec.plan)
    BY DEF FinCommit, FinAt
  <1>b. /\ fin.by \in {"run", "req"} /\ rec.planned
        /\ \A k \in DOMAIN rec.plan : rec.plan[k].done
    <2>1. \A k \in DOMAIN rec.plan : k < fin.i
      BY <1>a, FinFacts
    <2> QED BY <1>a, <2>1, FinFacts DEF Inv, FinInv
  <1>c. /\ tab' = tab /\ fks' = fks /\ nextId' = nextId /\ made' = made /\ dropped' = dropped
        /\ acked' = acked /\ published' = published /\ policy' = policy /\ row' = row /\ reg' = reg
    BY DEF FinCommit, objects, ghosts
  <1>d. \/ rec' = rec /\ FinReturn(fin.by, FALSE)
        \/ rec' = [rec EXCEPT !.state = "completed"] /\ \E ok \in BOOLEAN : FinReturn(fin.by, ok)
    <2>1. PICK end \in Ends(fin.by = "run") :
             /\ rec' = IF end = "fail" THEN rec ELSE [rec EXCEPT !.state = "completed"]
             /\ FinReturn(fin.by, end = "ok")
      BY DEF FinCommit
    <2>2. CASE end = "ok"
      BY <2>1, <2>2
    <2>3. CASE end # "ok"
      BY <2>1, <2>3
    <2> QED BY <2>2, <2>3
  <1>e. \/ rec' = rec /\ FinBack(fin.by, FALSE)
        \/ /\ rec' \in Recs /\ rec'.state = "completed" /\ rec'.m = rec.m /\ rec'.pos = rec.pos
           /\ rec'.planned = rec.planned /\ rec'.plan = rec.plan
           /\ FinBack(fin.by, TRUE) \/ FinBack(fin.by, FALSE)
    <2>1. \A ok \in BOOLEAN : FinReturn(fin.by, ok) => FinBack(fin.by, ok)
      BY <1>b, FinReturnEffect DEF Inv
    <2>2. rec' = [rec EXCEPT !.state = "completed"] =>
             /\ rec' \in Recs /\ rec'.state = "completed" /\ rec'.m = rec.m /\ rec'.pos = rec.pos
             /\ rec'.planned = rec.planned /\ rec'.plan = rec.plan
      BY Literals DEF Inv, Typed, Recs
    <2> QED BY <1>d, <2>1, <2>2
  <1>h. \/ /\ fin.by = "run" /\ run.pc = "review" /\ req.pc \in {"idle", "abort"} /\ ~req.j.done
           /\ rec.state = "snapshot_in_progress" /\ ~row.done /\ rec.m = Manifest(run.issues) /\ rec.m.excluded = {}
        \/ /\ fin.by = "req" /\ req.pc = "finalize" /\ Away /\ rec.state = "review_pending"
           /\ rec.m \in acked /\ row.status = "paused_bootstrap_review"
    BY <1>a, FinFacts
  <1>0. /\ run' \in Runs /\ req' \in Reqs /\ fin' \in Fins /\ fin' = NoFin /\ fin'.by = "none" /\ rec' \in Recs
        /\ rec'.m = rec.m /\ rec'.pos = rec.pos /\ rec'.planned = rec.planned /\ rec'.plan = rec.plan
        /\ \/ rec'.state = rec.state \/ rec'.state = "completed"
        /\ \/ fin.by = "run" /\ req' = req /\ (RunFailed("error") \/ (RunTo("apply") /\ rec'.state = "completed"))
           \/ /\ fin.by = "req" /\ run' = run
              /\ \/ req'.pc = "idle" /\ ~req'.j.done
                 \/ req'.pc = "apply" /\ req'.j = req.j /\ rec'.state = "completed"
    BY <1>b, <1>e DEF FinBack, RunFailed, RunTo, Inv, Typed
  <1>1. Typed'
    BY <1>0, <1>c DEF Inv, Typed
  <1>2. LiveInv'
    BY <1>0, <1>c, <1>h DEF Inv, Typed, RunTo, RunFailed, LiveInv, Quiet
  <1>3. EarlyInv'
    BY <1>0, <1>c, <1>h
    DEF Inv, Typed, RunTo, RunFailed, EarlyInv, RowInv, ReqInv, LiveInv, Early, Quiet, Away, Resumable,
        RowNeverAhead, FinInv
  <1>4. RowInv'
    BY <1>0, <1>c, <1>h
    DEF Inv, Typed, RunTo, RunFailed, EarlyInv, RowInv, ReqInv, LiveInv, Early, Quiet, Away, Resumable,
        RowNeverAhead
  <1>5. ReqInv'
    BY <1>0, <1>c, <1>h
    DEF Inv, Typed, RunTo, RunFailed, EarlyInv, RowInv, ReqInv, LiveInv, Early, Quiet, Away, Resumable,
        RowNeverAhead
  <1>6. CopyInv'
    BY <1>0, <1>c, <1>h DEF Inv, Typed, RunTo, RunFailed, CopyInv
  <1>7. FinInv' /\ PlanInv'
    BY <1>0, <1>c DEF Inv, FinInv, PlanInv, ObjectGone
  <1>8. WholeInv'
    <2>1. rec.m.effective \subseteq Tables /\ rec.pos = 0 /\ \A t \in Tables : tab[t].upto = 0
      BY <1>h DEF Inv, Typed, Recs, Manifests, CopyInv
    <2>2. \A t \in rec.m.effective : tab[t].id \in made /\ tab[t].pages = Pages
      <3>1. CASE fin.by = "run"
        BY <3>1, <1>h, CopiedManifest
      <3>2. CASE fin.by = "req"
        BY <3>2, <1>h DEF Inv, WholeInv
      <3> QED BY <1>b, <3>1, <3>2
    <2> QED BY <1>0, <1>b, <1>c, <2>1, <2>2 DEF Inv, WholeInv
  <1>9. IdInv' /\ OnlyOwnDropped' /\ OnlyAcknowledged'
    BY <1>0, <1>c, <1>h DEF Inv, IdInv, OnlyOwnDropped, OnlyAcknowledged
  <1> QED BY <1>1, <1>2, <1>3, <1>4, <1>5, <1>6, <1>7, <1>8, <1>9 DEF Inv

-----------------------------------------------------------------------------
(* Actions that change tables.                                             *)

(* A transaction of changes is applied.                                    *)
LEMMA RunChangeStep ==
    ASSUME Inv, RunChange
    PROVE  Inv'
  <1>a. run.pc = "stream" /\ rec.pos < MaxPos
    BY DEF RunChange, RunAt
  <1>b. /\ rec.state = "completed" /\ run.scope = rec.m.effective /\ rec.m.effective \subseteq Tables
        /\ rec.pos \in 0 .. MaxPos
    BY <1>a DEF Inv, RowInv, RowNeverAhead, Typed, Recs, Manifests
  <1>c. /\ acked' = acked /\ published' = published /\ policy' = policy /\ row' = row /\ reg' = reg
        /\ dropped' = dropped /\ fin' = fin /\ req' = req /\ fks' = fks /\ nextId' = nextId /\ made' = made
    BY DEF RunChange, RunKeeps, ghosts
  <1> DEFINE ch == [t \in Tables |-> IF t \in run.scope THEN [tab[t] EXCEPT !.upto = @ + 1] ELSE tab[t]]
  <1>d. /\ \/ rec' = rec /\ tab' = tab
           \/ rec' = [rec EXCEPT !.pos = @ + 1] /\ tab' = ch
        /\ run' = run \/ RunFailed("error")
    BY FailsEffect DEF RunChange, Inv, Typed
  <1>e. rec' = [rec EXCEPT !.pos = @ + 1] =>
           /\ rec' \in Recs /\ rec'.state = rec.state /\ rec'.m = rec.m /\ rec'.pos = rec.pos + 1
           /\ rec'.planned = rec.planned /\ rec'.plan = rec.plan
    <2>1. rec.pos + 1 \in 0 .. MaxPos
      BY <1>a, <1>b, BootstrapAssumption
    <2> QED BY <2>1 DEF Inv, Typed, Recs
  <1>f. /\ ch \in [Tables -> TabRecs]
        /\ \A t \in Tables : /\ ch[t].id = tab[t].id /\ ch[t].pages = tab[t].pages
                             /\ ch[t].upto = IF t \in run.scope THEN tab[t].upto + 1 ELSE tab[t].upto
    BY DEF Inv, Typed, TabRecs
  <1> HIDE DEF ch
  <1>0. /\ rec' \in Recs /\ rec'.state = rec.state /\ rec'.m = rec.m
        /\ rec'.planned = rec.planned /\ rec'.plan = rec.plan
        /\ tab' \in [Tables -> TabRecs]
        /\ \A t \in Tables : tab'[t].id = tab[t].id /\ tab'[t].pages = tab[t].pages
        /\ \/ rec' = rec /\ tab' = tab
           \/ /\ rec'.pos = rec.pos + 1
              /\ \A t \in Tables : tab'[t].upto = IF t \in run.scope THEN tab[t].upto + 1 ELSE tab[t].upto
        /\ run' \in Runs /\ (run' = run \/ RunFailed("error"))
    BY <1>d, <1>e, <1>f DEF Inv, Typed, RunFailed
  <1>1. Typed'
    BY <1>0, <1>c DEF Inv, Typed
  <1>2. LiveInv'
    BY <1>0, <1>a, <1>b, <1>c DEF Inv, Typed, RunTo, RunFailed, LiveInv, Quiet
  <1>3. EarlyInv'
    BY <1>0, <1>a, <1>b, <1>c
    DEF Inv, Typed, RunTo, RunFailed, EarlyInv, RowInv, ReqInv, LiveInv, Early, Quiet, Away, Resumable,
        RowNeverAhead, FinInv
  <1>4. RowInv'
    BY <1>0, <1>a, <1>b, <1>c
    DEF Inv, Typed, RunTo, RunFailed, EarlyInv, RowInv, ReqInv, LiveInv, Early, Quiet, Away, Resumable,
        RowNeverAhead
  <1>5. ReqInv'
    BY <1>0, <1>a, <1>b, <1>c
    DEF Inv, Typed, RunTo, RunFailed, EarlyInv, RowInv, ReqInv, LiveInv, Early, Quiet, Away, Resumable,
        RowNeverAhead
  <1>6. CopyInv'
    BY <1>0, <1>a, <1>b, <1>c DEF Inv, Typed, RunTo, RunFailed, CopyInv
  <1>7. FinInv'
    BY <1>0, <1>a, <1>b, <1>c, FinFacts DEF Inv, FinInv
  <1>8. IdInv' /\ OnlyOwnDropped' /\ OnlyAcknowledged'
    BY <1>0, <1>c DEF Inv, IdInv, OnlyOwnDropped, OnlyAcknowledged
  <1>9. PlanInv'
    <2>1. \A i \in DOMAIN rec.plan : rec.plan[i] \in Items
      BY DEF Inv, Typed, Recs
    <2>2. \A item \in Items : ObjectGone(item) <=> ObjectGone(item)'
      BY <1>0, <1>c DEF ObjectGone, Items
    <2>3. OwnedTables(rec.m) \subseteq Tables
      BY ManifestTables DEF Inv, Typed, Recs
    <2> QED BY <1>0, <1>c, <2>1, <2>2, <2>3 DEF Inv, PlanInv
  <1>10. WholeInv'
    BY <1>0, <1>b, <1>c DEF Inv, WholeInv
  <1> QED BY <1>1, <1>2, <1>3, <1>4, <1>5, <1>6, <1>7, <1>8, <1>9, <1>10 DEF Inv

(* The operator replaces or drops an excluded table.                       *)
LEMMA ReplaceStep ==
    ASSUME Inv, Replace
    PROVE  Inv'
  <1>a. req = Idle /\ row.status = "paused_bootstrap_review"
    BY DEF Replace
  <1>b. /\ rec.state \in {"review_pending", "completed", "aborted"} /\ row.m = rec.m /\ Away
        /\ Excluded(rec.m) \subseteq Tables /\ rec.m.effective \subseteq Tables /\ nextId \in Nat
    BY <1>a, ManifestTables DEF Inv, RowInv, Typed, Recs
  <1>c. /\ acked' = acked /\ published' = published /\ policy' = policy /\ row' = row /\ reg' = reg
        /\ dropped' = dropped /\ fin' = fin /\ req' = req /\ rec' = rec /\ run' = run
        /\ nextId' = nextId + 1 /\ made' = made
    BY DEF Replace, ghosts
  <1>d. PICK t \in Excluded(rec.m), new \in {0, nextId} :
           /\ tab' = [tab EXCEPT ![t] = [NoTable EXCEPT !.id = new]]
           /\ fks' = [r \in Refs |-> IF t \in {r[1], r[2]} THEN 0 ELSE fks[r]]
    BY <1>b DEF Replace
  <1>e. LET n == [NoTable EXCEPT !.id = new]
        IN  n \in TabRecs /\ n.id = new /\ n.upto = 0
    BY <1>b DEF NoTable, TabRecs
  <1>f. /\ tab' \in [Tables -> TabRecs] /\ fks' \in [Refs -> Nat]
        /\ \A u \in Tables : u # t => tab'[u] = tab[u]
        /\ tab'[t].id = new /\ tab'[t].upto = 0
        /\ \A r \in Refs : fks'[r] = fks[r] \/ fks'[r] = 0
    BY <1>b, <1>d, <1>e DEF Inv, Typed
  <1>g. new \notin made
    BY DEF Inv, IdInv, Typed
  <1>h. fin.by = "none"
    BY <1>a, <1>b, FinFacts, ConstantTypes DEF Away
  <1>1. Typed'
    BY <1>b, <1>c, <1>f DEF Inv, Typed
  <1>2. LiveInv' /\ EarlyInv' /\ RowInv' /\ ReqInv'
    <2>1. LiveInv'
      BY <1>c DEF Inv, LiveInv
    <2>2. EarlyInv'
      BY <1>b, <1>c DEF EarlyInv, Early, Away
    <2>3. RowInv'
      BY <1>c DEF Inv, RowInv, RowNeverAhead, Away
    <2>4. ReqInv'
      BY <1>c DEF Inv, ReqInv, Away
    <2> QED BY <2>1, <2>2, <2>3, <2>4
  <1>3. CopyInv'
    BY <1>b, <1>c, <1>f DEF Inv, CopyInv, Away
  <1>4. FinInv'
    BY <1>c, <1>h DEF Inv, FinInv
  <1>5. IdInv' /\ OnlyOwnDropped' /\ OnlyAcknowledged'
    <2>1. /\ \A x \in made : x \in Nat /\ x > 0 /\ x < nextId + 1
          /\ \A u \in Tables : tab'[u].id < nextId + 1
      BY <1>b, <1>f DEF Inv, IdInv, Typed, TabRecs
    <2>2. \A r \in Refs : fks'[r] # 0 => fks'[r] \in made
      BY <1>f DEF Inv, IdInv
    <2> QED BY <1>c, <2>1, <2>2 DEF Inv, IdInv, OnlyOwnDropped, OnlyAcknowledged
  <1>6. PlanInv'
    <2>1. \A i \in DOMAIN rec.plan : rec.plan[i] \in Items
      BY DEF Inv, Typed, Recs
    <2>2. \A u \in Tables : tab'[u].id \in made => tab[u].id \in made
      BY <1>f, <1>g
    <2>3. \A item \in Items : ObjectGone(item) => ObjectGone(item)'
      BY <1>c, <1>f, <2>2 DEF ObjectGone, Items, Keys
    <2>4. OwnedTables(rec.m) \subseteq Tables
      BY <1>b, ManifestTables DEF Inv, Typed, Recs
    <2>5. \A r \in Refs : fks'[r] # 0 => fks[r] # 0
      BY <1>f
    <2> QED BY <1>c, <2>1, <2>2, <2>3, <2>4, <2>5 DEF Inv, PlanInv
  <1>7. WholeInv'
    <2>1. \A u \in rec.m.effective : tab'[u] = tab[u]
      BY <1>b, <1>f DEF Inv, WholeInv
    <2> QED BY <1>c, <1>f, <2>1 DEF Inv, WholeInv
  <1> QED BY <1>1, <1>2, <1>3, <1>4, <1>5, <1>6, <1>7 DEF Inv

(* The numbers of pages and of the next table.                             *)
LEMMA NextNumber ==
    /\ 1 \in Pages /\ 1 \in 0 .. NumPages
    /\ \A t \in Tables : t # NumTables => t + 1 \in Tables /\ t + 1 \in 0 .. NumTables
    /\ \A p \in Pages : p # NumPages => p + 1 \in Pages /\ p + 1 \in 0 .. NumPages
  BY BootstrapAssumption DEF Tables, Pages

(* The next table, or the next phase.                                      *)
LEMMA NextTableEffect ==
    ASSUME run \in Runs, run.t \in Tables, NEW pc \in RunPcs,
           NEW issues \in [Tables -> Stages \cup {""}], NextTable(pc, issues)
    PROVE  /\ run' \in Runs /\ run'.issues = issues /\ run'.done = run.done /\ run'.scope = run.scope
           /\ run'.p \in Pages /\ run'.t \in Tables
           /\ \/ run.t = NumTables /\ run'.pc = pc
              \/ run.t # NumTables /\ run'.pc = run.pc /\ run'.t = run.t + 1
  <1>0. /\ 1 \in Pages /\ 1 \in 0 .. NumPages /\ 1 \in Tables /\ 1 \in 0 .. NumTables
        /\ run.t # NumTables => run.t + 1 \in Tables /\ run.t + 1 \in 0 .. NumTables
    BY NextNumber, TableNumbers
  <1> DEFINE n == IF run.t = NumTables THEN 1 ELSE run.t + 1
             c == IF run.t = NumTables THEN pc ELSE run.pc
  <1>1. n \in Tables /\ n \in 0 .. NumTables /\ 1 \in Pages /\ 1 \in 0 .. NumPages
    BY <1>0
  <1>2. c \in RunPcs
    BY DEF Runs
  <1>3. run' = [run EXCEPT !.issues = issues, !.p = 1, !.t = n, !.pc = c]
    BY DEF NextTable, Runs
  <1>4. (run.t = NumTables => c = pc) /\ (run.t # NumTables => c = run.pc /\ n = run.t + 1)
    OBVIOUS
  <1> HIDE DEF n, c
  <1> QED BY <1>1, <1>2, <1>3, <1>4 DEF Runs

(* An issue is noted for one table.                                        *)
LEMMA FailedEffect ==
    ASSUME run \in Runs, NEW t \in Tables, NEW stage \in Stages
    PROVE  /\ Failed(t, stage) \in [Tables -> Stages \cup {""}] /\ Failed(t, stage)[t] = stage
           /\ \A u \in Tables : u # t => Failed(t, stage)[u] = run.issues[u]
  BY DEF Failed, Runs

(* Tables change while the copy is made: what the other parts of the       *)
(* invariant need to know of such a step.                                  *)
LEMMA CopyStep ==
    ASSUME Inv, run.pc \in {"create", "copy", "post"}, rec' = rec, row' = row, RunKeeps, ghosts' = ghosts,
           run' \in Runs, run'.done = run.done, run'.scope = run.scope,
           run'.pc \in {"create", "copy", "post", "count"},
           tab' \in [Tables -> TabRecs], fks' \in [Refs -> Nat], nextId' \in Nat,
           \A t \in Tables : tab'[t].upto = 0,
           CopyInv', IdInv', made \subseteq made'
    PROVE  Inv'
  <1>a. fin = NoFin /\ fin.by = "none" /\ ~rec.planned /\ run.pc \in Early
    BY NoFinEarly DEF Early
  <1>b. rec.state \in {"none", "snapshot_in_progress"} /\ ~row.done
    BY <1>a DEF Inv, EarlyInv
  <1>0. /\ policy' = policy /\ reg' = reg /\ req' = req /\ fin' = fin
        /\ published' = published /\ acked' = acked /\ dropped' = dropped
    BY DEF RunKeeps, ghosts
  <1>1. Typed'
    BY <1>0 DEF Inv, Typed
  <1>2. LiveInv'
    BY <1>0 DEF Inv, LiveInv, Quiet
  <1>3. EarlyInv'
    BY <1>0, <1>a, <1>b DEF Inv, EarlyInv, Early
  <1>4. RowInv'
    BY <1>0, <1>a, <1>b DEF Inv, EarlyInv, RowInv, RowNeverAhead, Early, Away, Resumable
  <1>5. ReqInv'
    BY <1>0, <1>a, <1>b DEF Inv, EarlyInv, RowInv, ReqInv, Early, Away
  <1>6. PlanInv' /\ FinInv' /\ OnlyAcknowledged' /\ OnlyOwnDropped'
    BY <1>0, <1>a, <1>b DEF Inv, PlanInv, FinInv, OnlyAcknowledged, OnlyOwnDropped
  <1>7. WholeInv'
    BY <1>a, <1>b DEF Inv, WholeInv
  <1> QED BY <1>1, <1>2, <1>3, <1>4, <1>5, <1>6, <1>7 DEF Inv

(* A table is created, or not.                                             *)
LEMMA RunCreateStep ==
    ASSUME Inv, RunCreate
    PROVE  Inv'
  <1>a. run.pc = "create" /\ run.t \in Tables /\ nextId \in Nat /\ run \in Runs /\ tab \in [Tables -> TabRecs]
    BY DEF RunCreate, RunAt, Inv, CopyInv, Typed
  <1>b. /\ rec.state \in {"none", "snapshot_in_progress"}
        /\ \A t \in Tables : tab[t].upto = 0
    BY <1>a DEF Inv, EarlyInv, Early, CopyInv
  <1>c. rec' = rec /\ row' = row /\ fks' = fks /\ RunKeeps /\ ghosts' = ghosts
    BY DEF RunCreate, ghosts
  <1> DEFINE n == [NoTable EXCEPT !.id = nextId]
  <1>d. /\ n \in TabRecs /\ n.id = nextId /\ n.upto = 0
        /\ NoTable \in TabRecs /\ NoTable.id = 0 /\ NoTable.upto = 0
    BY <1>a DEF NoTable, TabRecs
  <1> HIDE DEF n
  <1>e. \/ tab' = [tab EXCEPT ![run.t] = n] /\ made' = made \cup {nextId} /\ nextId' = nextId + 1
        \/ /\ made' = made /\ nextId' = nextId /\ NextTable("copy", Failed(run.t, "schema"))
           /\ tab' = tab \/ tab' = [tab EXCEPT ![run.t] = NoTable]
    BY DEF RunCreate, Create, n
  <1>f. NextTable("copy", run.issues) \/ NextTable("copy", Failed(run.t, "schema"))
    BY DEF RunCreate
  <1>g. /\ tab' \in [Tables -> TabRecs] /\ nextId' \in Nat /\ made \subseteq made'
        /\ \A u \in Tables : u # run.t => tab'[u] = tab[u]
        /\ \A u \in Tables : tab'[u].upto = 0
    BY <1>a, <1>b, <1>d, <1>e
  <1>h. IdInv'
    <2>1. CASE made' = made /\ nextId' = nextId /\ (tab' = tab \/ tab' = [tab EXCEPT ![run.t] = NoTable])
      <3>1. nextId > 0
        BY <1>a DEF Inv, IdInv, Typed, TabRecs
      <3> QED BY <1>a, <1>c, <1>d, <2>1, <3>1 DEF Inv, IdInv
    <2>2. CASE tab' = [tab EXCEPT ![run.t] = n] /\ made' = made \cup {nextId} /\ nextId' = nextId + 1
      <3>1. nextId > 0
        BY <1>a DEF Inv, IdInv, Typed, TabRecs
      <3>2. \A x \in made' : x \in Nat /\ x > 0 /\ x < nextId'
        BY <1>a, <2>2, <3>1 DEF Inv, IdInv
      <3>3. \A t \in Tables : tab'[t].id < nextId'
        <4>1. \A t \in Tables : tab[t].id \in Nat /\ tab[t].id < nextId
          BY <1>a DEF Inv, IdInv, TabRecs
        <4>2. \A t \in Tables : tab'[t].id = IF t = run.t THEN nextId ELSE tab[t].id
          BY <1>a, <1>d, <2>2
        <4> QED BY <1>a, <2>2, <4>1, <4>2
      <3>4. \A r \in Refs : fks'[r] # 0 => fks'[r] \in made'
        BY <1>c, <2>2 DEF Inv, IdInv
      <3> QED BY <3>2, <3>3, <3>4 DEF IdInv
    <2> QED BY <1>e, <2>1, <2>2
  <1>i. /\ run.issues \in [Tables -> Stages \cup {""}] /\ Failed(run.t, "schema") \in [Tables -> Stages \cup {""}]
        /\ Failed(run.t, "schema")[run.t] = "schema"
        /\ \A u \in Tables : u # run.t => Failed(run.t, "schema")[u] = run.issues[u]
        /\ "copy" \in RunPcs
    BY <1>a, FailedEffect, Literals DEF Stages, Runs
  <1>j. PICK issues \in {run.issues, Failed(run.t, "schema")} : NextTable("copy", issues)
                /\ (issues[run.t] # "schema" => tab'[run.t].id \in made')
    <2>1. CASE tab' = [tab EXCEPT ![run.t] = n] /\ made' = made \cup {nextId}
      BY <1>a, <1>d, <1>f, <2>1
    <2>2. CASE NextTable("copy", Failed(run.t, "schema"))
      BY <1>i, <2>2
    <2> QED BY <1>e, <2>1, <2>2
  <1>k. /\ run' \in Runs /\ run'.issues = issues /\ run'.done = run.done /\ run'.scope = run.scope
        /\ run'.p \in Pages /\ run'.t \in Tables
        /\ \/ run.t = NumTables /\ run'.pc = "copy"
           \/ run.t # NumTables /\ run'.pc = "create" /\ run'.t = run.t + 1
    <2>1. issues \in [Tables -> Stages \cup {""}] /\ NextTable("copy", issues)
      BY <1>i, <1>j
    <2> HIDE <1>j
    <2> QED BY <1>a, <1>i, <2>1, NextTableEffect
  <1>l. /\ \A t \in Tables : t < run.t \/ t = run.t => (issues[t] # "schema" => tab'[t].id \in made')
        /\ \A t \in Tables : ~(t < run.t) /\ t # run.t => issues[t] = ""
    <2>1. \A t \in Tables : t # run.t => issues[t] = run.issues[t] /\ tab'[t] = tab[t]
      BY <1>g, <1>i, <1>j
    <2>2. \A t \in Tables : IF t < run.t THEN run.issues[t] # "schema" => tab[t].id \in made ELSE run.issues[t] = ""
      BY <1>a DEF Inv, CopyInv
    <2>3. \A t \in Tables : ~(t < run.t) /\ t # run.t => issues[t] = ""
      BY <2>1, <2>2
    <2>4. \A t \in Tables : t < run.t /\ t # run.t => (issues[t] # "schema" => tab'[t].id \in made')
      BY <1>g, <2>1, <2>2
    <2>5. issues[run.t] # "schema" => tab'[run.t].id \in made'
      BY <1>j
    <2> QED BY <2>3, <2>4, <2>5
  <1>m. CopyInv'
    <2>1. \A t \in Tables : t \in Nat /\ run.t \in Nat /\ (run.t = NumTables => t < run.t \/ t = run.t)
      BY <1>a, TableNumbers
    <2>2. CASE run.t = NumTables /\ run'.pc = "copy"
      <3>1. \A t \in Tables : issues[t] # "schema" => tab'[t].id \in made'
        BY <1>l, <2>1, <2>2
      <3> QED BY <1>b, <1>c, <1>g, <1>k, <2>2, <3>1 DEF Inv, CopyInv
    <2>3. CASE run.t # NumTables /\ run'.pc = "create" /\ run'.t = run.t + 1
      <3>1. \A t \in Tables : (t < run'.t) <=> (t < run.t \/ t = run.t)
        BY <2>1, <2>3
      <3>2. \A t \in Tables : IF t < run'.t THEN issues[t] # "schema" => tab'[t].id \in made' ELSE issues[t] = ""
        BY <1>l, <3>1
      <3> QED BY <1>b, <1>c, <1>g, <1>k, <2>3, <3>2 DEF Inv, CopyInv
    <2> QED BY <1>k, <2>2, <2>3
  <1>n. fks' \in [Refs -> Nat]
    BY <1>c DEF Inv, Typed
  <1> QED BY <1>a, <1>c, <1>g, <1>h, <1>k, <1>m, <1>n, CopyStep

(* A page is copied, or its table is given up.                             *)
LEMMA RunCopyStep ==
    ASSUME Inv, RunCopy
    PROVE  Inv'
  <1>a. /\ run.pc = "copy" /\ run.t \in Tables /\ run.p \in Pages /\ run \in Runs
        /\ tab \in [Tables -> TabRecs]
    BY DEF RunCopy, RunAt, Inv, CopyInv, Typed
  <1>b. /\ rec.state \in {"none", "snapshot_in_progress"}
        /\ \A t \in Tables : tab[t].upto = 0
    BY <1>a DEF Inv, EarlyInv, Early, CopyInv
  <1>c. /\ rec' = rec /\ row' = row /\ fks' = fks /\ nextId' = nextId /\ made' = made
        /\ RunKeeps /\ ghosts' = ghosts
    BY DEF RunCopy, ghosts
  <1>d. tab' = tab \/ tab' = [tab EXCEPT ![run.t].pages = @ \cup {run.p}]
    BY DEF RunCopy
  <1>e. /\ tab' \in [Tables -> TabRecs]
        /\ \A t \in Tables : tab'[t].id = tab[t].id /\ tab'[t].upto = tab[t].upto
    BY <1>a, <1>d DEF TabRecs
  <1>f. \/ NextTable("post", run.issues)
        \/ run.issues[run.t] = "" /\ NextTable("post", Failed(run.t, "data"))
        \/ run.p # NumPages /\ run' = [run EXCEPT !.p = @ + 1]
    BY DEF RunCopy
  <1>g. /\ run.issues \in [Tables -> Stages \cup {""}] /\ Failed(run.t, "data") \in [Tables -> Stages \cup {""}]
        /\ "post" \in RunPcs
    BY <1>a, FailedEffect, Literals DEF Stages, Runs
  <1>h. run.issues[run.t] = "" =>
           \A u \in Tables : Failed(run.t, "data")[u] # "schema" => run.issues[u] # "schema"
    BY <1>a DEF Failed, Runs
  <1>i. /\ run' \in Runs /\ run'.done = run.done /\ run'.scope = run.scope /\ run'.pc \in {"copy", "post"}
        /\ run'.p \in Pages /\ run'.t \in Tables
        /\ run'.issues = run.issues \/ (run.issues[run.t] = "" /\ run'.issues = Failed(run.t, "data"))
    <2>1. CASE NextTable("post", run.issues)
      BY <1>a, <1>g, <2>1, NextTableEffect
    <2>2. CASE run.issues[run.t] = "" /\ NextTable("post", Failed(run.t, "data"))
      BY <1>a, <1>g, <2>2, NextTableEffect
    <2>3. CASE run.p # NumPages /\ run' = [run EXCEPT !.p = @ + 1]
      <3>1. run.p + 1 \in Pages /\ run.p + 1 \in 0 .. NumPages
        BY <1>a, <2>3, BootstrapAssumption DEF Pages
      <3> QED BY <1>a, <2>3, <3>1 DEF Runs
    <2> QED BY <1>f, <2>1, <2>2, <2>3
  <1>j. \A u \in Tables : run'.issues[u] # "schema" => tab'[u].id \in made'
    <2>1. \A u \in Tables : run.issues[u] # "schema" => tab[u].id \in made
      BY <1>a DEF Inv, CopyInv
    <2>2. \A u \in Tables : run'.issues[u] # "schema" => run.issues[u] # "schema"
      BY <1>h, <1>i
    <2> QED BY <1>c, <1>e, <2>1, <2>2
  <1>k. CopyInv'
    BY <1>a, <1>b, <1>c, <1>e, <1>i, <1>j DEF Inv, CopyInv
  <1>l. IdInv'
    BY <1>c, <1>e DEF Inv, IdInv
  <1>m. fks' \in [Refs -> Nat] /\ nextId' \in Nat
    BY <1>c DEF Inv, Typed
  <1> QED BY <1>a, <1>b, <1>c, <1>e, <1>i, <1>k, <1>l, <1>m, CopyStep

(* Keys and constraints are added.                                         *)
LEMMA RunPostStep ==
    ASSUME Inv, RunPost
    PROVE  Inv'
  <1>a. run.pc = "post" /\ run \in Runs /\ tab \in [Tables -> TabRecs] /\ nextId \in Nat
        /\ fks \in [Refs -> Nat]
    BY DEF RunPost, RunAt, Inv, Typed
  <1>b. /\ rec.state \in {"none", "snapshot_in_progress"}
        /\ \A t \in Tables : tab[t].upto = 0
    BY <1>a DEF Inv, EarlyInv, Early, CopyInv
  <1>c. /\ rec' = rec /\ row' = row /\ tab' = tab /\ RunKeeps /\ ghosts' = ghosts
        /\ nextId' = nextId + 1 /\ made' = made \cup {nextId}
    BY DEF RunPost, ghosts
  <1>d. fks' \in [Refs -> Nat] /\ \A r \in Refs : fks'[r] = nextId \/ fks'[r] = fks[r]
    <2> DEFINE due == {r \in Refs : run.issues[r[1]] = "" /\ run.issues[r[2]] = ""}
    <2>1. \/ fks' = [r \in Refs |-> IF r \in due THEN nextId ELSE fks[r]]
          \/ fks' = [r \in Refs |-> IF r \in {} THEN nextId ELSE fks[r]]
      BY DEF RunPost
    <2> HIDE DEF due
    <2> QED BY <1>a, <2>1
  <1>e. \/ run' = [run EXCEPT !.pc = "count"] \/ run' = [run EXCEPT !.pc = "count", !.objs = FALSE]
        \/ \E t \in Tables : /\ run.issues[t] = ""
                             /\ run' = [run EXCEPT !.pc = "count", !.objs = FALSE,
                                                   !.issues = Failed(t, "cdc_compatibility")]
    BY DEF RunPost
  <1>f. /\ run' \in Runs /\ run'.done = run.done /\ run'.scope = run.scope /\ run'.pc = "count"
        /\ \A u \in Tables : run'.issues[u] # "schema" => tab[u].id \in made
    <2>0. "count" \in RunPcs /\ \A u \in Tables : run.issues[u] # "schema" => tab[u].id \in made
      BY <1>a, Literals DEF Inv, CopyInv
    <2>1. CASE run' = [run EXCEPT !.pc = "count"] \/ run' = [run EXCEPT !.pc = "count", !.objs = FALSE]
      BY ZenonT(60), <1>a, <2>0, <2>1 DEF Runs
    <2>2. ASSUME NEW t \in Tables, run.issues[t] = "",
                 run' = [run EXCEPT !.pc = "count", !.objs = FALSE, !.issues = Failed(t, "cdc_compatibility")]
          PROVE  <1>f!1 /\ <1>f!2
      <3> DEFINE f == Failed(t, "cdc_compatibility")
      <3>1. /\ f \in [Tables -> Stages \cup {""}]
            /\ \A u \in Tables : f[u] # "schema" => tab[u].id \in made
        BY ZenonT(60), <1>a, <2>0, <2>2, FailedEffect DEF Stages
      <3> HIDE DEF f
      <3>2. run' = [run EXCEPT !.pc = "count", !.objs = FALSE, !.issues = f]
        BY <2>2 DEF f
      <3> QED BY <1>a, <2>0, <3>1, <3>2 DEF Runs
    <2> QED BY <1>e, <2>1, <2>2
  <1>g. CopyInv'
    BY <1>a, <1>b, <1>c, <1>f DEF Inv, CopyInv
  <1>h. IdInv'
    <2>1. nextId > 0 \/ Tables = {}
      BY <1>a DEF Inv, IdInv, TabRecs
    <2>2. Tables # {}
      BY TableNumbers
    <2>3. \A x \in made' : x \in Nat /\ x > 0 /\ x < nextId'
      BY <1>a, <1>c, <2>1, <2>2 DEF Inv, IdInv
    <2>4. \A t \in Tables : tab'[t].id < nextId'
      BY <1>a, <1>c DEF Inv, IdInv, TabRecs
    <2> QED BY <1>c, <1>d, <2>3, <2>4 DEF Inv, IdInv
  <1> QED BY <1>a, <1>b, <1>c, <1>d, <1>f, <1>g, <1>h, CopyStep

-----------------------------------------------------------------------------
(* The invariant holds.                                                    *)

(* A job that has just been launched.                                      *)
LEMMA InitInv == Init => Inv
  <1> SUFFICES ASSUME Init PROVE Inv
    OBVIOUS
  <1> DEFINE first == [Gone EXCEPT !.pc = "load"]
  <1>a. /\ first \in Runs /\ first.pc = "load" /\ ~first.done
        /\ \A t \in Tables : first.issues[t] = ""
    BY ConstantTypes, Literals DEF Gone, Runs
  <1>b. /\ row = NewRow /\ rec = NoRecord /\ fks = [r \in Refs |-> 0] /\ nextId = NumTables + 1
        /\ reg = Registered /\ run = first /\ req = Idle /\ fin = NoFin
        /\ published = {} /\ acked = {} /\ made = {} /\ dropped = {}
    BY DEF Init
  <1> HIDE DEF first
  <1>c. PICK old \in SUBSET Tables :
           tab = [t \in Tables |-> IF t \in old THEN [NoTable EXCEPT !.id = t] ELSE NoTable]
    BY DEF Init
  <1>d. /\ tab \in [Tables -> TabRecs]
        /\ \A t \in Tables : tab[t].id < NumTables + 1 /\ tab[t].upto = 0
    <2>1. \A t \in Tables : t \in Nat /\ t < NumTables + 1 /\ 0 < NumTables + 1
      BY BootstrapAssumption DEF Tables
    <2>2. ASSUME NEW t \in Tables
          PROVE  LET n == [NoTable EXCEPT !.id = t] IN n \in TabRecs /\ n.id = t /\ n.upto = 0
      BY <2>1 DEF NoTable, TabRecs
    <2>3. NoTable \in TabRecs /\ NoTable.id = 0 /\ NoTable.upto = 0
      BY DEF NoTable, TabRecs
    <2>4. ASSUME NEW t \in Tables
          PROVE  tab[t] \in TabRecs /\ tab[t].id < NumTables + 1 /\ tab[t].upto = 0
      <3>1. CASE t \in old
        BY <1>c, <2>1, <2>2, <3>1
      <3>2. CASE t \notin old
        BY <1>c, <2>1, <2>3, <3>2
      <3> QED BY <3>1, <3>2
    <2> QED BY <1>c, <2>4
  <1>e. rec.state = "none" /\ rec.m = NoManifest /\ rec.pos = 0 /\ ~rec.planned
    BY <1>b DEF NoRecord, Record
  <1>f. /\ ~row.done /\ row.status = "initializing" /\ row.state = "pending"
        /\ reg.live /\ reg.action = ""
    BY <1>b DEF NewRow, Registered
  <1>1. Typed
    <2>1. NumTables + 1 \in Nat /\ policy \in {"fail_all", "review_and_exclude"}
      BY BootstrapAssumption DEF Init
    <2> QED BY <1>a, <1>b, <1>d, <2>1, ConstantTypes DEF Typed
  <1>2. IdInv
    BY <1>b, <1>d DEF IdInv
  <1>3. LiveInv /\ EarlyInv
    BY <1>a, <1>b, <1>e, <1>f, ConstantTypes DEF LiveInv, EarlyInv, Quiet
  <1>4. RowInv
    BY <1>a, <1>b, <1>f DEF RowInv, RowNeverAhead, Resumable
  <1>5. ReqInv
    BY <1>b, ConstantTypes DEF ReqInv
  <1>6. CopyInv
    BY <1>a, <1>b, <1>d, <1>e DEF CopyInv
  <1>7. PlanInv /\ FinInv /\ OnlyAcknowledged /\ OnlyOwnDropped
    BY <1>b, <1>e, ConstantTypes DEF PlanInv, FinInv, OnlyAcknowledged, OnlyOwnDropped
  <1>8. WholeInv
    BY <1>d, <1>e DEF WholeInv, NoManifest
  <1> QED BY <1>1, <1>2, <1>3, <1>4, <1>5, <1>6, <1>7, <1>8 DEF Inv

(* A step that changes nothing.                                            *)
LEMMA StutterStep ==
    ASSUME Inv, UNCHANGED vars
    PROVE  Inv'
  <1>0. /\ policy' = policy /\ row' = row /\ rec' = rec /\ tab' = tab /\ fks' = fks /\ nextId' = nextId
        /\ made' = made /\ reg' = reg /\ run' = run /\ req' = req /\ fin' = fin /\ published' = published
        /\ acked' = acked /\ dropped' = dropped
    BY DEF vars, objects, ghosts
  <1>1. Typed' /\ IdInv'
    BY <1>0 DEF Inv, Typed, IdInv
  <1>2. LiveInv' /\ RowInv'
    BY <1>0 DEF Inv, LiveInv, RowInv, RowNeverAhead, Away
  <1>3. EarlyInv'
    BY <1>0 DEF Inv, EarlyInv, Manifest
  <1>4. ReqInv'
    BY <1>0 DEF Inv, ReqInv, Away
  <1>5. CopyInv'
    BY <1>0 DEF Inv, CopyInv
  <1>6. FinInv'
    BY <1>0 DEF Inv, FinInv, ObjectGone, Manifest
  <1>7. PlanInv' /\ WholeInv'
    BY <1>0 DEF Inv, PlanInv, WholeInv, ObjectGone
  <1>8. OnlyAcknowledged' /\ OnlyOwnDropped'
    BY <1>0 DEF Inv, OnlyAcknowledged, OnlyOwnDropped
  <1> QED BY <1>1, <1>2, <1>3, <1>4, <1>5, <1>6, <1>7, <1>8 DEF Inv

(* Every step keeps the invariant.                                         *)
LEMMA NextInv == Inv /\ [Next]_vars => Inv'
  <1> SUFFICES ASSUME Inv, [Next]_vars PROVE Inv'
    OBVIOUS
  <1>1. CASE FinSkip
    BY <1>1, FinSkipStep
  <1>2. CASE FinDrop
    BY <1>2, FinDropStep
  <1>3. CASE FinSavePlan
    BY <1>3, FinSavePlanStep
  <1>4. CASE FinCommit
    BY <1>4, FinCommitStep
  <1>5. CASE RunLoad
    BY <1>5, RunLoadStep
  <1>6. CASE RunCapture
    BY <1>6, RunCaptureStep
  <1>7. CASE RunPending
    BY <1>7, RunPendingStep
  <1>8. CASE RunStops
    BY <1>8, RunStopsStep
  <1>9. CASE RunCreate
    BY <1>9, RunCreateStep
  <1>10. CASE RunCopy
    BY <1>10, RunCopyStep
  <1>11. CASE RunPost
    BY <1>11, RunPostStep
  <1>12. CASE RunCount
    BY <1>12, RunCountStep
  <1>13. CASE RunReport
    BY <1>13, RunReportStep
  <1>14. CASE RunStrict
    BY <1>14, RunStrictStep
  <1>15. CASE RunAbort
    BY <1>15, RunAbortStep
  <1>16. CASE RunAbortRow
    BY <1>16, RunAbortRowStep
  <1>17. CASE RunCompat
    BY <1>17, RunCompatStep
  <1>18. CASE RunHopeless
    BY <1>18, RunHopelessStep
  <1>19. CASE RunReview
    BY <1>19, RunReviewStep
  <1>20. CASE RunReviewRow
    BY <1>20, RunReviewRowStep
  <1>21. CASE RunFinalize
    BY <1>21, RunFinalizeStep
  <1>22. CASE RunApply
    BY <1>22, RunApplyStep
  <1>23. CASE RunCatching
    BY <1>23, RunCatchingStep
  <1>24. CASE RunCdc
    BY <1>24, RunCdcStep
  <1>25. CASE RunChange
    BY <1>25, RunChangeStep
  <1>26. CASE RunStreamEnds
    BY <1>26, RunStreamEndsStep
  <1>27. CASE RunRemove
    BY <1>27, RunRemoveStep
  <1>28. CASE RunGivesUp
    BY <1>28, RunGivesUpStep
  <1>29. CASE RunEnds
    BY <1>29, RunEndsStep
  <1>30. CASE AcceptRecord
    BY <1>30, AcceptRecordStep
  <1>31. CASE AcceptFinalize
    BY <1>31, AcceptFinalizeStep
  <1>32. CASE AcceptApply
    BY <1>32, AcceptApplyStep
  <1>33. CASE AcceptStatus
    BY <1>33, AcceptStatusStep
  <1>34. CASE ReqLaunch
    BY <1>34, ReqLaunchStep
  <1>35. CASE ResumeRecord
    BY <1>35, ResumeRecordStep
  <1>36. CASE ResumeSwap
    BY <1>36, ResumeSwapStep
  <1>37. CASE AbortActs
    BY <1>37, AbortActsStep
  <1>38. CASE AbortRecord
    BY <1>38, AbortRecordStep
  <1>39. CASE AbortSwap
    BY <1>39, AbortSwapStep
  <1>40. CASE AcceptRequest
    BY <1>40, AcceptRequestStep
  <1>41. CASE ResumeRequest
    BY <1>41, ResumeRequestStep
  <1>42. CASE AbortRequest
    BY <1>42, AbortRequestStep
  <1>43. CASE Replace
    BY <1>43, ReplaceStep
  <1>44. CASE Crash
    BY <1>44, CrashStep
  <1>45. CASE UNCHANGED vars
    BY <1>45, StutterStep
  <1> QED
    BY <1>1, <1>2, <1>3, <1>4, <1>5, <1>6, <1>7, <1>8, <1>9, <1>10, <1>11, <1>12, <1>13, <1>14, <1>15,
       <1>16, <1>17, <1>18, <1>19, <1>20, <1>21, <1>22, <1>23, <1>24, <1>25, <1>26, <1>27, <1>28, <1>29,
       <1>30, <1>31, <1>32, <1>33, <1>34, <1>35, <1>36, <1>37, <1>38, <1>39, <1>40, <1>41, <1>42, <1>43,
       <1>44, <1>45
    DEF Next, FinNext, RunNext, ReqNext, Operator

(* The inductive invariant holds of every behaviour of the copy: for all   *)
(* tables, pages, foreign keys, requests, failures, replacements and kills.*)
THEOREM InvariantHolds == Spec => []Inv
  BY InitInv, NextInv, PTL DEF Spec

-----------------------------------------------------------------------------
(* How the record on the target moves.                                     *)

(* A completed or aborted record keeps its state, a manifest in review or  *)
(* completed stays, the checkpoint does not go back, and a plan is made    *)
(* together with its mark.                                                 *)
Forward ==
    /\ rec.state \in {"completed", "aborted"} => rec'.state = rec.state
    /\ rec.state \in {"completed", "review_pending"} => rec'.m = rec.m
    /\ rec'.pos >= rec.pos
    /\ rec'.planned \/ (rec'.planned = rec.planned /\ rec'.plan = rec.plan)

(* A record that stays moves forward.                                      *)
LEMMA SameForward ==
    ASSUME Inv, rec' = rec
    PROVE  Forward
  BY DEF Inv, Typed, Recs, Forward

(* SaveBootstrapRecord, before anything was published.                     *)
LEMMA SaveForward ==
    ASSUME Inv, rec.state \in {"none", "snapshot_in_progress"},
           NEW state \in {"snapshot_in_progress", "review_pending"}, NEW m \in Manifests, NEW next, Save(state, m, next)
    PROVE  Forward
  <1>1. rec \in Recs /\ rec.pos = 0
    BY DEF Inv, Typed, CopyInv
  <1>2. rec' = rec \/ rec' = Saved(state, m)
    BY DEF Save
  <1>3. CASE rec' = Saved(state, m)
    <2> DEFINE r == [rec EXCEPT !.state = state, !.m = m, !.pos = 0]
    <2>1. r \in Recs /\ r.pos = 0 /\ r.planned = rec.planned /\ r.plan = rec.plan
      BY <1>1, Literals DEF Recs
    <2> HIDE DEF r
    <2>2. rec' = r \/ rec' = [r EXCEPT !.planned = TRUE, !.plan = PlanCleanup(m)]
      BY <1>3 DEF Saved, r
    <2>3. rec'.pos = 0 /\ (rec'.planned \/ (rec'.planned = rec.planned /\ rec'.plan = rec.plan))
      <3>1. CASE rec' = r
        BY <2>1, <3>1
      <3>2. CASE rec' = [r EXCEPT !.planned = TRUE, !.plan = PlanCleanup(m)]
        BY <2>1, <3>2 DEF Recs
      <3> QED BY <2>2, <3>1, <3>2
    <2> QED BY <1>1, <2>3 DEF Forward
  <1> QED BY <1>2, <1>3, SameForward

(* The runner saves before the review is published.                        *)
LEMMA RunSavesForward ==
    ASSUME Inv, RunCapture \/ RunReport \/ RunReview
    PROVE  Forward
  <1>1. rec.state \in {"none", "snapshot_in_progress"}
    BY DEF Inv, EarlyInv, Early, RunCapture, RunReport, RunReview, RunAt
  <1>0. Manifest(run.issues) \in Manifests
    BY ManifestFacts DEF Inv, Typed, Runs
  <1>2. CASE RunCapture
    BY <1>1, <1>2, SaveForward, ConstantTypes DEF RunCapture
  <1>3. CASE RunReport
    BY <1>0, <1>1, <1>3, SaveForward DEF RunReport
  <1>4. CASE RunReview
    BY <1>0, <1>1, <1>4, SaveForward DEF RunReview
  <1> QED BY <1>2, <1>3, <1>4

(* MarkBootstrapAborted.                                                   *)
LEMMA AbortForward ==
    ASSUME Inv, AbortTarget
    PROVE  Forward
  <1>1. rec \in Recs
    BY DEF Inv, Typed
  <1>2. rec' = rec \/ rec' = MarkAborted
    BY DEF AbortTarget
  <1>3. CASE rec' = MarkAborted
    BY <1>1, <1>3 DEF MarkAborted, Recs, Forward
  <1> QED BY <1>2, <1>3, SameForward

(* A copy that cannot go on.                                               *)
LEMMA HopelessForward ==
    ASSUME Inv, RunHopeless
    PROVE  Forward
  <1>1. /\ rec \in Recs /\ rec.state \in {"none", "snapshot_in_progress"} /\ rec.pos = 0
        /\ rec' = rec \/ rec' = Saved("aborted", Manifest(run.issues))
    BY DEF Inv, Typed, RunHopeless, RunAt, EarlyInv, Early, CopyInv
  <1>2. CASE rec' = Saved("aborted", Manifest(run.issues))
    <2>1. rec' = [rec EXCEPT !.state = "aborted", !.m = Manifest(run.issues), !.pos = 0]
      BY <1>1, <1>2 DEF Saved
    <2> QED BY <1>1, <2>1 DEF Recs, Forward
  <1> QED BY <1>1, <1>2, SameForward

(* FinalizeBootstrap makes its plan, works it off and commits.             *)
LEMMA FinForward ==
    ASSUME Inv, RunFinalize \/ AcceptFinalize \/ FinSavePlan \/ FinCommit
    PROVE  Forward
  <1>1. rec \in Recs
    BY DEF Inv, Typed
  <1>2. CASE RunFinalize \/ AcceptFinalize
    <2>1. \E m : rec' = rec \/ rec' = [rec EXCEPT !.planned = TRUE, !.plan = PlanCleanup(m)]
      BY <1>2 DEF RunFinalize, AcceptFinalize, FinBegin
    <2>2. PICK m : rec' = rec \/ rec' = [rec EXCEPT !.planned = TRUE, !.plan = PlanCleanup(m)]
      BY <2>1
    <2>3. CASE rec' = [rec EXCEPT !.planned = TRUE, !.plan = PlanCleanup(m)]
      BY <1>1, <2>3 DEF Recs, Forward
    <2> QED BY <2>2, <2>3, SameForward
  <1>3. ASSUME FinSavePlan \/ FinCommit
        PROVE  rec.planned /\ rec.state \in {"snapshot_in_progress", "review_pending"}
    BY <1>3, FinFacts DEF FinSavePlan, FinCommit, FinAt
  <1>4. CASE FinSavePlan
    <2>1. rec' = rec \/ rec' = [rec EXCEPT !.plan[fin.i].done = TRUE]
      BY <1>4 DEF FinSavePlan
    <2>2. CASE rec' = [rec EXCEPT !.plan[fin.i].done = TRUE]
      <3>1. /\ rec'.state = rec.state /\ rec'.m = rec.m /\ rec'.pos = rec.pos /\ rec'.planned = rec.planned
        BY <1>1, <2>2 DEF Recs
      <3> QED BY <1>1, <1>3, <1>4, <3>1 DEF Recs, Forward
    <2> QED BY <2>1, <2>2, SameForward
  <1>5. CASE FinCommit
    <2>1. rec' = rec \/ rec' = [rec EXCEPT !.state = "completed"]
      BY <1>5 DEF FinCommit
    <2>2. CASE rec' = [rec EXCEPT !.state = "completed"]
      BY <1>1, <1>3, <1>5, <2>2 DEF Recs, Forward
    <2> QED BY <2>1, <2>2, SameForward
  <1> QED BY <1>2, <1>4, <1>5

(* A transaction of changes.                                               *)
LEMMA ChangeForward ==
    ASSUME Inv, RunChange
    PROVE  Forward
  <1>1. rec \in Recs /\ (rec' = rec \/ rec' = [rec EXCEPT !.pos = @ + 1])
    BY DEF Inv, Typed, RunChange
  <1>2. CASE rec' = [rec EXCEPT !.pos = @ + 1]
    BY <1>1, <1>2, BootstrapAssumption DEF Recs, Forward
  <1> QED BY <1>1, <1>2, SameForward

(* Every step moves the record forward.                                    *)
LEMMA NextForward == Inv /\ [Next]_vars => Forward
  <1> SUFFICES ASSUME Inv, [Next]_vars PROVE Forward
    OBVIOUS
  <1>1. CASE RunCapture \/ RunReport \/ RunReview
    BY <1>1, RunSavesForward
  <1>2. CASE RunAbort \/ RunGivesUp \/ AbortRecord
    BY <1>2, AbortForward DEF RunAbort, RunGivesUp, AbortRecord
  <1>3. CASE RunHopeless
    BY <1>3, HopelessForward
  <1>4. CASE RunFinalize \/ AcceptFinalize \/ FinSavePlan \/ FinCommit
    BY <1>4, FinForward
  <1>5. CASE RunChange
    BY <1>5, ChangeForward
  <1>6. CASE FinSkip
    BY <1>6, SameForward DEF FinSkip
  <1>7. CASE FinDrop
    BY <1>7, SameForward DEF FinDrop
  <1>8. CASE RunLoad
    BY <1>8, SameForward DEF RunLoad
  <1>9. CASE RunPending
    BY <1>9, SameForward DEF RunPending
  <1>10. CASE RunStops
    BY <1>10, SameForward DEF RunStops
  <1>11. CASE RunCreate
    BY <1>11, SameForward DEF RunCreate
  <1>12. CASE RunCopy
    BY <1>12, SameForward DEF RunCopy
  <1>13. CASE RunPost
    BY <1>13, SameForward DEF RunPost
  <1>14. CASE RunCount
    BY <1>14, SameForward DEF RunCount
  <1>15. CASE RunStrict
    BY <1>15, SameForward DEF RunStrict
  <1>16. CASE RunAbortRow
    BY <1>16, SameForward DEF RunAbortRow
  <1>17. CASE RunCompat
    BY <1>17, SameForward DEF RunCompat
  <1>18. CASE RunReviewRow
    BY <1>18, SameForward DEF RunReviewRow
  <1>19. CASE RunApply
    BY <1>19, SameForward DEF RunApply
  <1>20. CASE RunCatching
    BY <1>20, SameForward DEF RunCatching
  <1>21. CASE RunCdc
    BY <1>21, SameForward DEF RunCdc
  <1>22. CASE RunStreamEnds
    BY <1>22, SameForward DEF RunStreamEnds
  <1>23. CASE RunRemove
    BY <1>23, SameForward DEF RunRemove
  <1>24. CASE RunEnds
    BY <1>24, SameForward DEF RunEnds
  <1>25. CASE AcceptRecord
    BY <1>25, SameForward DEF AcceptRecord
  <1>26. CASE AcceptApply
    BY <1>26, SameForward DEF AcceptApply
  <1>27. CASE AcceptStatus
    BY <1>27, SameForward DEF AcceptStatus
  <1>28. CASE ReqLaunch
    BY <1>28, SameForward DEF ReqLaunch
  <1>29. CASE ResumeRecord
    BY <1>29, SameForward DEF ResumeRecord
  <1>30. CASE ResumeSwap
    BY <1>30, SameForward DEF ResumeSwap
  <1>31. CASE AbortActs
    BY <1>31, SameForward DEF AbortActs
  <1>32. CASE AbortSwap
    BY <1>32, SameForward DEF AbortSwap
  <1>33. CASE AcceptRequest
    BY <1>33, SameForward DEF AcceptRequest, Request
  <1>34. CASE ResumeRequest
    BY <1>34, SameForward DEF ResumeRequest, Request
  <1>35. CASE AbortRequest
    BY <1>35, SameForward DEF AbortRequest, Request
  <1>36. CASE Replace
    BY <1>36, SameForward DEF Replace
  <1>37. CASE Crash
    BY <1>37, SameForward DEF Crash
  <1>38. CASE UNCHANGED vars
    BY <1>38, SameForward DEF vars
  <1> QED
    BY <1>1, <1>2, <1>3, <1>4, <1>5, <1>6, <1>7, <1>8, <1>9, <1>10, <1>11, <1>12, <1>13, <1>14, <1>15,
       <1>16, <1>17, <1>18, <1>19, <1>20, <1>21, <1>22, <1>23, <1>24, <1>25, <1>26, <1>27, <1>28, <1>29,
       <1>30, <1>31, <1>32, <1>33, <1>34, <1>35, <1>36, <1>37, <1>38
    DEF Next, FinNext, RunNext, ReqNext, Operator

(* A record without a plan has an empty one.                               *)
EmptyPlan == rec.planned \/ rec.plan = NoPlan

(* The plan is empty until it is made.                                     *)
LEMMA NoPlanBefore == Spec => []EmptyPlan
  <1>1. Init => EmptyPlan
    BY DEF Init, NoRecord, Record, EmptyPlan
  <1>2. Inv /\ EmptyPlan /\ [Next]_vars => EmptyPlan'
    BY NextForward DEF Forward, EmptyPlan
  <1> QED BY <1>1, <1>2, InvariantHolds, PTL DEF Spec

(* On the target a completed or aborted record stays so, the manifest in   *)
(* review is frozen, and the checkpoint never goes back.                   *)
THEOREM RecordMovesForward == Spec => RecordOneWay
  <1>1. Inv /\ [Next]_vars =>
           [/\ rec.state \in {"completed", "aborted"} => rec'.state = rec.state
            /\ rec.state \in {"completed", "review_pending"} => rec'.m = rec.m
            /\ rec'.pos >= rec.pos]_vars
    BY NextForward DEF Forward
  <1> QED BY <1>1, InvariantHolds, PTL DEF Spec, RecordOneWay

(* Every variable holds a value of its kind, no object has an id that is   *)
(* still to come, no table has had more changes than the record says, and  *)
(* FinalizeBootstrap runs only inside its callers.                         *)
THEOREM TypeCorrect == Spec => []TypeOK
  <1>1. Inv /\ EmptyPlan => TypeOK
    <2> SUFFICES ASSUME Inv, EmptyPlan PROVE TypeOK
      OBVIOUS
    <2>1. /\ policy \in {"fail_all", "review_and_exclude"} /\ row \in Rows /\ rec \in Recs
          /\ tab \in [Tables -> TabRecs] /\ fks \in [Refs -> Nat] /\ nextId \in Nat /\ reg \in Regs
          /\ run \in Runs /\ fin \in Fins
      BY DEF Inv, Typed
    <2>2. /\ row.status \in Interrupted \cup Resumable \cup {"paused_bootstrap_review", "aborted"}
          /\ row.state \in RowStates /\ row.done \in BOOLEAN /\ row.m \in Manifests
      BY <2>1 DEF Rows, RowStatuses, Interrupted, Resumable
    <2>3. rec.state \in RecStates /\ rec.m \in Manifests /\ rec.pos \in 0 .. MaxPos /\ rec.plan \in Seq(Items)
      BY <2>1 DEF Recs
    <2>4. /\ \A t \in Tables : tab[t].id \in Ids
          /\ \A x \in made : x \in Ids \ {0}
          /\ \A r \in Refs : fks[r] \in Ids
      BY <2>1 DEF Inv, IdInv, Ids, TabRecs
    <2>5. ASSUME NEW t \in Tables PROVE tab[t].upto \in 0 .. MaxPos
      <3>0. 0 \in 0 .. MaxPos
        BY BootstrapAssumption
      <3>1. CASE rec.state # "completed" \/ t \notin rec.m.effective
        BY <3>0, <3>1 DEF Inv, CopyInv, WholeInv
      <3>2. CASE rec.state = "completed" /\ t \in rec.m.effective
        BY <2>3, <3>2 DEF Inv, WholeInv
      <3> QED BY <3>1, <3>2
    <2>6. tab \in [Tables -> [id : Ids, pages : SUBSET Pages, upto : 0 .. MaxPos]]
      BY <2>1, <2>4, <2>5 DEF TabRecs
    <2>7. ASSUME NEW i \in 1 .. Len(rec.plan)
          PROVE  rec.plan[i].table \in Tables /\ rec.plan[i].id \in Ids \ {0}
      <3>1. rec.planned
        BY <2>7 DEF EmptyPlan, NoPlan
      <3>2. i \in DOMAIN rec.plan /\ rec.plan[i] \in Items
        BY <2>3
      <3> QED BY <2>4, <3>1, <3>2 DEF Inv, PlanInv, Items
    <2>8. /\ run.t \in 0 .. NumTables /\ run.p \in 0 .. NumPages
          /\ run.issues \in [Tables -> Stages \cup {""}]
          /\ fin.by \in {"none", "run", "req"}
          /\ reg \in [live : BOOLEAN, action : {"", "abort"}]
      BY <2>1 DEF Runs, Fins, Regs
    <2>9. fks \in [Refs -> Ids]
      BY <2>1, <2>4
    <2>10. (fin.by = "req" => req.pc = "finalize") /\ (fin.by = "run" => run.pc = "review")
      BY DEF Inv, FinInv
    <2> QED BY <2>1, <2>2, <2>3, <2>6, <2>7, <2>8, <2>9, <2>10 DEF TypeOK, RowStates, RecStates
  <1> QED BY <1>1, InvariantHolds, NoPlanBefore, PTL

(* The row of the job never says that the copy is done unless the record   *)
(* on the target says so, for the same tables: whichever of the two        *)
(* databases was written last before a failure or a kill.                  *)
THEOREM RowStaysBehind == Spec => []RowNeverAhead
  <1>1. Inv => RowNeverAhead
    BY DEF Inv, RowInv
  <1> QED BY <1>1, InvariantHolds, PTL

(* A copy with excluded tables is completed only after the operator has    *)
(* acknowledged this very manifest.                                        *)
THEOREM ExclusionsAcknowledged == Spec => []OnlyAcknowledged
  <1>1. Inv => OnlyAcknowledged
    BY DEF Inv
  <1> QED BY <1>1, InvariantHolds, PTL

(* FinalizeBootstrap drops nothing but objects the copy has created.       *)
THEOREM DropsOnlyOwn == Spec => []OnlyOwnDropped
  <1>1. Inv => OnlyOwnDropped
    BY DEF Inv
  <1> QED BY <1>1, InvariantHolds, PTL

(* Once the record says completed, the followed tables are whole up to the *)
(* recorded position, and nothing the copy made of an excluded table is    *)
(* left, nor a foreign key of a followed table on it.                      *)
THEOREM CompletedCopyIsWhole == Spec => []CompletedIsWhole
  <1>1. Inv => CompletedIsWhole
    <2> SUFFICES ASSUME Inv, rec.state = "completed"
                 PROVE  /\ \A t \in rec.m.effective :
                              tab[t].id \in made /\ tab[t].pages = Pages /\ tab[t].upto = rec.pos
                        /\ \A t \in OwnedTables(rec.m) : tab[t].id \notin made
                        /\ \A r \in Refs : r[1] \in rec.m.effective /\ r[2] \in OwnedTables(rec.m) => fks[r] = 0
      BY DEF CompletedIsWhole
    <2>1. \A i \in DOMAIN rec.plan : ObjectGone(rec.plan[i])
      BY DEF Inv, PlanInv, WholeInv
    <2>2. \A t \in rec.m.effective : tab[t].id \in made /\ tab[t].pages = Pages /\ tab[t].upto = rec.pos
      BY DEF Inv, WholeInv
    <2>3. ASSUME NEW t \in OwnedTables(rec.m), tab[t].id \in made PROVE FALSE
      <3>1. PICK i \in DOMAIN rec.plan : rec.plan[i].key = <<>> /\ rec.plan[i].table = t
        BY <2>3 DEF Inv, PlanInv, WholeInv
      <3> QED BY <2>1, <2>3, <3>1 DEF ObjectGone
    <2>4. ASSUME NEW r \in Refs, r[1] \in rec.m.effective, r[2] \in OwnedTables(rec.m), fks[r] # 0 PROVE FALSE
      <3>1. PICK i \in DOMAIN rec.plan : rec.plan[i].key = r
        BY <2>4 DEF Inv, PlanInv, WholeInv
      <3>2. r # <<>>
        BY FiniteTables
      <3> QED BY <2>1, <2>4, <3>1, <3>2 DEF ObjectGone
    <2> QED BY <2>2, <2>3, <2>4
  <1> QED BY <1>1, InvariantHolds, PTL
=============================================================================
