----------------------- MODULE MigrationRepairProofs -----------------------
(***************************************************************************)
(* Proofs about MigrationRepair: one writer on the target, what runs is    *)
(* what was confirmed, cancels arrive, no unit takes effect twice, the     *)
(* ledger says what is so, and a table shown as loaded is.                 *)
(***************************************************************************)
EXTENDS MigrationRepair, FiniteSetTheorems, WellFoundedInduction, TLAPS

WorkerPcs == {"check", "open", "next", "exec", "saved", "commit", "reportdone", "report", "recheck",
              "run", "progress", "truncate", "copy", "result", "publish", "related", "saverelated",
              "finish"}
UnitFns   == [Units -> UnitStates]
DataStates == {"succeeded", "failed", "unknown"}
Versions  == Nat \ {0}
IndexRows == [ver : Versions, status : Statuses, data : {"none"}, units : UnitFns]
TableRows == [ver : Versions, status : {"succeeded"}, data : DataStates, units : {<<>>}]
Previews  == [ver : Versions, bind : Nat, related : BOOLEAN, index : IndexRows, rows : Nat, required : BOOLEAN]
Pres      == {NoPreview} \cup Previews
Workers   == [pc : WorkerPcs, ctx : {"live", "cancelled"}, kind : {"ddl", "recovery"},
              units : UnitFns \cup {<<>>}, ver : Versions, todo : SUBSET Units, done : SUBSET Units,
              cur : Nat, pre : Pres, truncate : BOOLEAN, data : DataStates \cup {"none"},
              res : {"running", "succeeded"}, told : {"none", "running", "succeeded"},
              page : 0 .. NumPages, open : BOOLEAN, why : {"none", "error", "cancelled"}]
Attempts  == [req : Requests, kind : {"ddl", "recovery"}, status : {"running", "ended"},
              cancel : BOOLEAN, result : {"none", "running", "succeeded"}, bind : Nat]

Drafts    == [op : {"draft"}, row : IndexRows]
Binds     == [op : {"bind"}, bind : Nat]
Looks     == [op : {"preview"}, pre : Previews]
DdlQueries == [op : {"execute"}, kind : {"ddl"}, req : Requests, row : IndexRows, bind : Nat,
               pre : {NoPreview}, truncate : BOOLEAN]
RecQueries == [op : {"execute"}, kind : {"recovery"}, req : Requests, row : TableRows, bind : Nat,
               pre : Previews, truncate : BOOLEAN]
Queries   == DdlQueries \cup RecQueries
Starts    == [op : {"start"}, at : Nat, q : Queries]
Cancels   == [op : {"cancel"}, at : Nat]
HandlerStates == {Idle} \cup Drafts \cup Binds \cup Looks \cup Queries \cup Starts \cup Cancels

(* Every variable has its type.                                            *)
Typed ==
    /\ objs \in [table : TableRows, index : IndexRows] /\ binding \in Nat
    /\ attempts \in Seq(Attempts) /\ workers \in Seq(Workers \cup {Gone, Lost})
    /\ Len(workers) = Len(attempts) /\ lock \in Int /\ preview \in Pres
    /\ migration \in {"idle", "running"} /\ handlers \in [Handlers -> HandlerStates]
    /\ applied \in [Units -> Nat] /\ rows \in [Pages -> Nat]
    /\ unsaved \in BOOLEAN /\ tx \in BOOLEAN

Starting(h) == handlers[h].op = "start"

(* The lock is that of the one attempt that runs, or of the migration.     *)
LockInv ==
    /\ \A i \in DOMAIN attempts : i \in Running <=> lock = i
    /\ lock \in {MigrationJob, NoOwner} \cup DOMAIN attempts
    /\ migration = "running" => lock = MigrationJob
    /\ \A i \in DOMAIN workers : workers[i] # Gone => i \in Running
    /\ \A i \in Running : workers[i] = Gone => attempts[i].result = "none"
    /\ \A i \in Active : workers[i].kind = attempts[i].kind
    /\ \A h \in Handlers : Starting(h) =>
          /\ handlers[h].at \in Running /\ workers[handlers[h].at] = Gone
          /\ attempts[handlers[h].at].kind = handlers[h].q.kind
    /\ \A g, h \in Handlers : Starting(g) /\ Starting(h) => g = h

(* What was confirmed: a claimed request, and the worker it becomes.       *)
Confirmed(q) ==
    /\ q.kind = "ddl" => objs.index.ver = q.row.ver
    /\ q.kind = "recovery" =>
          objs.table.ver = q.row.ver /\ (q.pre.related => objs.index.ver = q.pre.index.ver)

UnitPcs == {"next", "exec", "saved", "commit", "reportdone", "report"}

(* A worker on units has the units of the object, and one of them in work. *)
Shaped(w) ==
    /\ w.kind = "ddl" => w.pc \in UnitPcs \cup {"check", "open", "finish"}
    /\ w.kind = "ddl" \/ w.pc \in UnitPcs \cup {"saverelated"} => w.units \in UnitFns
    /\ w.pc \in {"exec", "saved"} => w.cur \in Units

WorkerReviewed(w) ==
    /\ Shaped(w)
    /\ w.kind = "ddl" => w.pre = NoPreview /\ objs.index.ver = w.ver
    /\ w.kind = "recovery" => w.pre \in Previews /\ w.data \in DataStates
    /\ w.kind = "recovery" /\ w.pre.related /\ w.pc # "finish" => objs.index.ver = w.pre.index.ver

ReviewInv ==
    /\ \A i \in Running : binding = attempts[i].bind
    /\ \A h \in Handlers : Starting(h) => Confirmed(handlers[h].q)
    /\ \A i \in Active : WorkerReviewed(workers[i])

ControlInv == Typed /\ LockInv /\ ReviewInv /\ CancelReaches

-----------------------------------------------------------------------------
(* What requests have loaded.                                              *)

Clean(units) == \A u \in Units : units[u] \notin {"unknown", "running"}

(* A row of the index object with the current version has its units, unless*)
(* an attempt is changing them.                                            *)
LoadedIndex(r) ==
    /\ r.ver <= objs.index.ver
    /\ ~unsaved /\ r.ver = objs.index.ver /\ objs.index.status # "running" => r.units = objs.index.units

LoadedTable(r) ==
    r.ver <= objs.table.ver /\ (r.ver = objs.table.ver => r.data = objs.table.data)

LoadedPre(p) ==
    /\ LoadedIndex(p.index) /\ (p.related => Clean(p.index.units))
    /\ p.ver <= objs.table.ver
    /\ p.ver = objs.table.ver => (p.required <=> objs.table.data # "succeeded")

LoadedQuery(q) ==
    /\ q.kind = "ddl" => LoadedIndex(q.row) /\ Clean(q.row.units)
    /\ q.kind = "recovery" => LoadedPre(q.pre) /\ LoadedTable(q.row) /\ q.row.ver = q.pre.ver

LoadedHandler(x) ==
    /\ x.op = "draft" => LoadedIndex(x.row) /\ Clean(x.row.units)
    /\ x.op = "preview" => LoadedPre(x.pre)
    /\ x.op = "execute" => LoadedQuery(x)
    /\ x.op = "start" => LoadedQuery(x.q)

LoadedInv ==
    /\ \A h \in Handlers : LoadedHandler(handlers[h])
    /\ preview # NoPreview => LoadedPre(preview)
    /\ \A i \in Active : workers[i].kind = "recovery" => LoadedPre(workers[i].pre)

-----------------------------------------------------------------------------
(* The ledger and the units.                                               *)

Truth(units) ==
    \A u \in Units :
      /\ units[u] = "succeeded" => applied[u] = 1
      /\ units[u] \in {"pending", "failed", "rolled_back"} => applied[u] = 0

NoneRunning(units) == \A u \in Units : units[u] # "running"

Before  == {"check", "open", "recheck", "run", "progress", "truncate", "copy", "result"}
Copied  == Before \cup {"publish", "related"}

(* A worker in the loop of ExecuteRepair: w knows what has taken effect,   *)
(* and the ledger is behind by the unit in work at most.                   *)
Executing(w) ==
    /\ w.units \in UnitFns
    /\ \A u \in Units :
         /\ w.units[u] # "unknown"
         /\ u \in w.todo => w.units[u] \notin {"succeeded", "running"} /\ u \notin w.done
         /\ u \in w.done => w.units[u] = (IF tx THEN "running" ELSE "succeeded") /\ (tx => applied[u] = 0)
         /\ w.units[u] = "running" => (tx /\ u \in w.done) \/ (w.pc = "exec" /\ u = w.cur)
    /\ Truth(w.units)
    /\ w.pc = "exec" => /\ w.cur \in Units /\ w.cur \notin w.todo /\ w.cur \notin w.done
                        /\ w.units[w.cur] = "running" /\ applied[w.cur] = 0
    /\ w.pc = "saved" => w.cur \in w.done
    /\ w.pc = "commit" => tx
    /\ w.pc # "saved" => objs.index.units = w.units
    /\ w.pc = "saved" => \A u \in Units :
                            objs.index.units[u] = IF u = w.cur THEN "running" ELSE w.units[u]

(* The transaction is committed; the ledger does not know it yet.          *)
Committed(w) ==
    /\ w.units \in UnitFns /\ Truth(w.units) /\ NoneRunning(w.units)
    /\ \A u \in Units : IF u \in w.done THEN w.units[u] = "succeeded" /\ objs.index.units[u] = "running"
                                        ELSE objs.index.units[u] = w.units[u]

(* What becomes of the units is known.                                     *)
Decided(w) == w.units \in UnitFns /\ Truth(w.units) /\ NoneRunning(w.units)

WorkerUnits(w) ==
    /\ w.kind = "ddl" /\ w.pc \in {"check", "open"} =>
          w.units = objs.index.units /\ Clean(w.units) /\ objs.index.status # "running"
    /\ w.kind = "recovery" /\ w.pc \in Copied => objs.index.status # "running"
    /\ w.kind = "recovery" /\ w.pc \in UnitPcs \cup {"saverelated"} => w.pre.related
    /\ w.pc \in {"next", "exec", "saved", "commit"} => Executing(w)
    /\ w.pc = "reportdone" => Committed(w)
    /\ w.pc \in {"report", "saverelated"} \/ (w.kind = "ddl" /\ w.pc = "finish") => Decided(w)

(* Who may have left the object as running.                                *)
Changing(i) ==
    \/ attempts[i].kind = "ddl" /\ workers[i] # Gone
    \/ i \in Active /\ workers[i].pc \in UnitPcs \cup {"saverelated"}

UnitInv ==
    ~unsaved =>
      /\ \A u \in Units : applied[u] <= 1
      /\ Truth(objs.index.units)
      /\ objs.index.status # "running" => NoneRunning(objs.index.units)
      /\ objs.index.status = "running" => \E i \in Running : Changing(i)
      /\ \A h \in Handlers : Starting(h) => objs.index.status # "running"
      /\ \A i \in Active : WorkerUnits(workers[i])

-----------------------------------------------------------------------------
(* The data of the table.                                                  *)

AllOnce   == \A p \in Pages : rows[p] = 1
Loaded(n) == \A p \in Pages : rows[p] = IF p <= n THEN 1 ELSE 0

WorkerData(w) ==
    /\ w.kind = "recovery" /\ w.pc \in Before => w.pre.ver = objs.table.ver /\ w.data = objs.table.data
    /\ w.kind = "recovery" /\ w.data = "succeeded" => AllOnce
    /\ w.pc \in {"progress", "truncate", "copy"} => w.kind = "recovery" /\ w.pre.required
    /\ w.pc \in Before \ {"result"} => w.res = "running"
    /\ w.pc \in {"check", "open", "recheck", "run", "truncate"} => w.page = 0
    /\ w.pc = "copy" \/ (w.pc = "progress" /\ (w.page > 0 \/ ~w.truncate)) => Loaded(w.page)
    /\ w.pc = "result" => (w.res = "succeeded" => AllOnce) /\ (w.why = "none" => w.res = "succeeded")

DataInv ==
    /\ DataTruth
    /\ \A i \in Running : attempts[i].kind = "recovery" /\ attempts[i].result = "succeeded" =>
          AllOnce /\ (i \in Active => workers[i].pc \notin Before)
    /\ \A i \in Active : WorkerData(workers[i])

Inv == ControlInv /\ LoadedInv /\ UnitInv /\ DataInv

-----------------------------------------------------------------------------
(* What Count computes: the sum over the pages, in the order Pick takes them. *)
Pick(s) == CHOOSE x \in s : TRUE
Adds(r, f) == f = [s \in SUBSET Pages |-> IF s = {} THEN 0 ELSE r[Pick(s)] + f[s \ {Pick(s)}]]
Upto(n) == {s \in SUBSET Pages : Cardinality(s) <= n}
AddsUpto(r, n, f) ==
    /\ f \in [Upto(n) -> Nat]
    /\ \A s \in Upto(n) : f[s] = IF s = {} THEN 0 ELSE r[Pick(s)] + f[s \ {Pick(s)}]
(* Count is the sum a recursive function over sets of pages computes. *)
LEMMA CountIs == ASSUME NEW r PROVE Count(r) = (CHOOSE f : Adds(r, f))[Pages]
BY Zenon DEF Count, MapThenSumSet, MapThenFoldSet, Adds, Pick

(* A set of numbers has a least one. *)
LEMMA Least ==
    ASSUME NEW S \in SUBSET Nat, S # {}
    PROVE  \E x \in S : \A y \in S : x <= y
<1> DEFINE R == {ss \in Nat \X Nat : ss[1] < ss[2]}
<1>1. IsWellFoundedOn(R, Nat)
  <2>1. R = OpToRel(<, Nat)
    BY Zenon DEF OpToRel
  <2> QED BY <2>1, NatLessThanWellFounded
<1>2. PICK x \in S : \A y \in S : ~ (<<y, x>> \in R)
  BY <1>1, WFMin
<1>3. \A a, c \in Nat : <<a, c>> \in Nat \X Nat /\ <<a, c>>[1] = a /\ <<a, c>>[2] = c
  OBVIOUS
<1>4. \A y \in S : ~(y < x)
  BY Zenon, <1>2, <1>3
<1> QED BY <1>2, <1>4

(* A set of pages without one page has one page less. *)
LEMMA Removing ==
    ASSUME NEW s \in SUBSET Pages
    PROVE  /\ IsFiniteSet(s) /\ Cardinality(s) \in Nat
           /\ s # {} => /\ Pick(s) \in s /\ s \ {Pick(s)} \in SUBSET Pages
                        /\ Cardinality(s \ {Pick(s)}) = Cardinality(s) - 1
           /\ Cardinality(s) = 0 => s = {}
<1>1. IsFiniteSet(Pages)
  <2>1. 1 \in Int /\ NumPages \in Int
    BY RepairAssumption
  <2> QED BY <2>1, FS_Interval DEF Pages
<1>2. IsFiniteSet(s) /\ Cardinality(s) \in Nat
  BY <1>1, FS_Subset, FS_CardinalityType
<1>3. s # {} => Pick(s) \in s
  BY Zenon DEF Pick
<1>4. s # {} => Cardinality(s \ {Pick(s)}) = Cardinality(s) - 1
  BY <1>2, <1>3, FS_RemoveElement
<1> QED BY <1>2, <1>3, <1>4, FS_EmptySet

(* There is such a sum over the sets of at most n pages. *)
LEMMA SumsUpto ==
    ASSUME NEW r \in [Pages -> Nat], NEW n \in Nat
    PROVE  \E f : AddsUpto(r, n, f)
<1> DEFINE Bad == {k \in Nat : ~ \E f : AddsUpto(r, k, f)}
<1> SUFFICES ASSUME Bad # {} PROVE FALSE
  OBVIOUS
<1>1. PICK k \in Bad : \A j \in Bad : k <= j
  <2>1. Bad \in SUBSET Nat
    OBVIOUS
  <2> HIDE DEF Bad
  <2> QED BY <2>1, Least
<1>2. k \in Nat /\ ~ \E f : AddsUpto(r, k, f)
  OBVIOUS
<1>3. CASE k = 0
  <2>1. ASSUME NEW s \in Upto(k) PROVE s = {}
    <3>1. s \in SUBSET Pages /\ Cardinality(s) <= 0
      BY <1>3 DEF Upto
    <3>2. Cardinality(s) \in Nat /\ (Cardinality(s) = 0 => s = {})
      BY <3>1, Removing
    <3> QED BY <3>1, <3>2
  <2> DEFINE g == [s \in Upto(k) |-> 0]
  <2>2. AddsUpto(r, k, g)
    BY <2>1 DEF AddsUpto
  <2> QED BY <1>2, <2>2
<1>4. CASE k # 0
  <2>1. k - 1 \in Nat /\ ~(k - 1 \in Bad)
    BY <1>1, <1>2, <1>4
  <2>2. PICK f : AddsUpto(r, k - 1, f)
    BY <2>1
  <2> DEFINE g == [s \in Upto(k) |-> IF Cardinality(s) <= k - 1 THEN f[s]
                                     ELSE r[Pick(s)] + f[s \ {Pick(s)}]]
  <2>3. ASSUME NEW s \in Upto(k)
        PROVE  g[s] \in Nat /\ g[s] = IF s = {} THEN 0 ELSE r[Pick(s)] + g[s \ {Pick(s)}]
    <3>1. CASE s = {}
      <4>1. Cardinality(s) = 0
        BY <3>1, FS_EmptySet
      <4>2. s \in Upto(k - 1) /\ g[s] = f[s]
        BY <2>1, <4>1 DEF Upto
      <4> QED BY <2>2, <3>1, <4>2 DEF AddsUpto
    <3>2. CASE s # {}
      <4> DEFINE t == s \ {Pick(s)}
      <4>1. /\ s \in SUBSET Pages /\ Cardinality(s) \in Nat /\ Cardinality(s) <= k
            /\ Pick(s) \in Pages /\ t \in SUBSET Pages /\ Cardinality(t) = Cardinality(s) - 1
        BY <3>2, Removing DEF Upto
      <4>2. t \in Upto(k - 1) /\ t \in Upto(k)
        BY <1>2, <4>1 DEF Upto
      <4>3. g[t] = f[t] /\ f[t] \in Nat
        BY <1>2, <2>2, <4>1, <4>2 DEF AddsUpto
      <4>4. g[s] = r[Pick(s)] + f[t]
        <5>1. CASE Cardinality(s) <= k - 1
          <6>1. s \in Upto(k - 1)
            BY <4>1, <5>1 DEF Upto
          <6> QED BY <2>2, <3>2, <5>1, <6>1 DEF AddsUpto
        <5> QED BY <5>1
      <4> HIDE DEF g
      <4> QED BY <3>2, <4>1, <4>3, <4>4
    <3> QED BY <3>1, <3>2
  <2>4. g \in [Upto(k) -> Nat]
    <3>1. \A s \in Upto(k) : g[s] \in Nat
      BY <2>3
    <3> QED BY <3>1
  <2>5. AddsUpto(r, k, g)
    <3> HIDE DEF g
    <3> QED BY <2>3, <2>4 DEF AddsUpto
  <2> QED BY <1>2, <2>5
<1> QED BY <1>3, <1>4

(* There is such a sum over all sets of pages. *)
LEMMA SumExists ==
    ASSUME NEW r \in [Pages -> Nat]
    PROVE  \E f : Adds(r, f) /\ f \in [SUBSET Pages -> Nat]
<1>1. Pages \in SUBSET Pages
  OBVIOUS
<1>2. IsFiniteSet(Pages) /\ Cardinality(Pages) \in Nat
  BY <1>1, Removing
<1>3. Upto(Cardinality(Pages)) = SUBSET Pages
  <2>1. \A s \in SUBSET Pages : Cardinality(s) <= Cardinality(Pages)
    BY <1>2, FS_Subset
  <2> QED BY <2>1 DEF Upto
<1>4. PICK f : AddsUpto(r, Cardinality(Pages), f)
  BY <1>2, SumsUpto
<1>5. f \in [SUBSET Pages -> Nat]
  BY <1>3, <1>4 DEF AddsUpto
<1>6. \A s \in SUBSET Pages : f[s] = IF s = {} THEN 0 ELSE r[Pick(s)] + f[s \ {Pick(s)}]
  BY <1>3, <1>4 DEF AddsUpto
<1>7. Adds(r, f)
  BY <1>5, <1>6 DEF Adds
<1> QED BY <1>5, <1>7

(* A count of rows is a number, and no rows are counted only where none are. *)
LEMMA Counting ==
    ASSUME NEW r \in [Pages -> Nat]
    PROVE  Count(r) \in Nat /\ (Count(r) = 0 => \A p \in Pages : r[p] = 0)
<1>1. PICK f : Adds(r, f) /\ Count(r) = f[Pages]
  <2>1. \E f : Adds(r, f)
    BY SumExists
  <2>2. Adds(r, CHOOSE f : Adds(r, f))
    BY Zenon, <2>1
  <2> QED BY Zenon, <2>2, CountIs
<1>2. \A s \in SUBSET Pages : f[s] = IF s = {} THEN 0 ELSE r[Pick(s)] + f[s \ {Pick(s)}]
  BY <1>1 DEF Adds
<1> DEFINE Good(s) == f[s] \in Nat /\ (f[s] = 0 => \A p \in s : r[p] = 0)
           Bad == {n \in Nat : \E s \in SUBSET Pages : Cardinality(s) = n /\ ~Good(s)}
<1>3. ASSUME NEW s \in SUBSET Pages, s # {}, Good(s \ {Pick(s)}) PROVE Good(s)
  <2> DEFINE t == s \ {Pick(s)}
  <2>1. Pick(s) \in s /\ r[Pick(s)] \in Nat
    BY <1>3, Removing
  <2>2. f[s] = r[Pick(s)] + f[t]
    BY <1>2, <1>3
  <2>3. f[t] \in Nat /\ (f[t] = 0 => \A p \in t : r[p] = 0)
    BY <1>3
  <2>4. f[s] \in Nat /\ (f[s] = 0 => r[Pick(s)] = 0 /\ f[t] = 0)
    BY <2>1, <2>2, <2>3
  <2>5. \A p \in s : p = Pick(s) \/ p \in t
    OBVIOUS
  <2> HIDE DEF t
  <2> QED BY <2>1, <2>3, <2>4, <2>5
<1>4. Good({})
  <2>1. {} \in SUBSET Pages
    OBVIOUS
  <2>2. f[{}] = 0
    BY <1>2, <2>1
  <2> QED BY <2>2
<1>5. Bad = {}
  <2> SUFFICES ASSUME Bad # {} PROVE FALSE
    OBVIOUS
  <2>1. PICK n \in Bad : \A j \in Bad : n <= j
    <3>1. Bad \in SUBSET Nat
      OBVIOUS
    <3> HIDE DEF Bad
    <3> QED BY <3>1, Least
  <2>2. PICK s \in SUBSET Pages : Cardinality(s) = n /\ ~Good(s)
    OBVIOUS
  <2>3. s # {}
    BY <1>4, <2>2
  <2>4. /\ s \ {Pick(s)} \in SUBSET Pages
        /\ Cardinality(s \ {Pick(s)}) = n - 1 /\ n \in Nat /\ n - 1 \in Nat
    <3>1. /\ s \ {Pick(s)} \in SUBSET Pages
          /\ Cardinality(s \ {Pick(s)}) = n - 1
      BY <2>2, <2>3, Removing
    <3>2. Cardinality(s \ {Pick(s)}) \in Nat
      BY <3>1, Removing
    <3> QED BY <3>1, <3>2
  <2>5. ~(n - 1 \in Bad)
    BY <2>1, <2>4
  <2>6. Good(s \ {Pick(s)})
    BY <2>4, <2>5
  <2> HIDE DEF Good
  <2> QED BY <1>3, <2>2, <2>3, <2>6
<1>6. Good(Pages)
  <2>1. Pages \in SUBSET Pages /\ Cardinality(Pages) \in Nat
    BY Removing
  <2> QED BY <1>5, <2>1
<1> QED BY <1>1, <1>6

-----------------------------------------------------------------------------
(* The writer of the target. *)

(* A worker belongs to the one attempt that runs. *)
LEMMA ActiveFacts ==
    ASSUME ControlInv, NEW i \in Active
    PROVE  /\ i \in DOMAIN workers /\ i \in DOMAIN attempts /\ i \in Running /\ lock = i
           /\ workers[i] \in Workers /\ attempts[i] \in Attempts
           /\ workers[i].kind = attempts[i].kind
<1>1. i \in DOMAIN workers /\ workers[i] \notin {Gone, Lost}
  BY DEF Active
<1>2. DOMAIN workers = DOMAIN attempts
  BY DEF ControlInv, Typed
<1>3. workers[i] \in Workers /\ attempts[i] \in Attempts
  BY <1>1, <1>2 DEF ControlInv, Typed
<1>4. i \in Running
  BY <1>1 DEF ControlInv, LockInv
<1> QED BY <1>1, <1>2, <1>3, <1>4 DEF ControlInv, LockInv

(* While an attempt runs no other does. *)
LEMMA Alone ==
    ASSUME ControlInv, NEW i \in Running
    PROVE  /\ lock = i /\ i \in DOMAIN attempts /\ i \in Nat \ {0} /\ migration = "idle"
           /\ \A j \in Running : j = i
           /\ \A j \in Active : j = i
<1>1. i \in DOMAIN attempts /\ lock = i
  BY DEF ControlInv, LockInv, Running
<1>2. i \in Nat \ {0}
  BY <1>1 DEF ControlInv, Typed
<1>3. \A j \in Running : j = i
  BY <1>1 DEF ControlInv, LockInv, Running
<1>4. \A j \in Active : j \in Running
  BY ActiveFacts
<1>5. migration = "idle"
  BY <1>1, <1>2 DEF ControlInv, LockInv, Typed, MigrationJob
<1> QED BY <1>1, <1>2, <1>3, <1>4, <1>5

(* Where no attempt runs there is no worker, and none is about to start. *)
LEMMA Quiet ==
    ASSUME ControlInv, Running = {}
    PROVE  Active = {} /\ \A h \in Handlers : ~Starting(h)
<1>1. \A i \in Active : FALSE
  BY ActiveFacts
<1> QED BY <1>1 DEF ControlInv, LockInv

(* A worker is not one of the two marks of a goroutine that is gone. *)
LEMMA WorkerIsThere == ASSUME NEW v \in Workers PROVE v \notin {Gone, Lost}
BY DEF Workers, WorkerPcs, Gone, Lost

-----------------------------------------------------------------------------
(* Steps of a worker. *)

Results == {"none", "running", "succeeded"}

(* The worker of attempt i becomes v; it may store results of its attempt and *)
(* of the objects, but changes the version of the index only at its end.      *)
Moves(i, v) ==
    /\ i \in Active /\ v \in Workers /\ Become(i, v)
    /\ v.kind = workers[i].kind /\ v.pre = workers[i].pre /\ v.ver = workers[i].ver
    /\ Shaped(v) /\ (v.data # workers[i].data => v.data \in DataStates)
    /\ v.ctx # workers[i].ctx => v.ctx = "cancelled"
    /\ workers[i].pc = "check" => v.pc = "check" \/ (attempts[i].cancel => v.ctx = "cancelled")
    /\ v.pc = "check" => workers[i].pc = "check"
    /\ workers[i].pc = "finish" => v.pc = "finish"
    /\ attempts' = attempts \/ \E r \in Results : Progress(i, r)
    /\ objs' \in [table : TableRows, index : IndexRows]
    /\ objs'.index.ver # objs.index.ver => v.kind = "recovery" /\ v.pc = "finish"
    /\ applied' \in [Units -> Nat] /\ rows' \in [Pages -> Nat] /\ unsaved' \in BOOLEAN
    /\ UNCHANGED <<binding, lock, preview, migration, handlers, tx>>

(* What such a step leaves as it is. *)
LEMMA MovesFacts ==
    ASSUME ControlInv, NEW i, NEW v, Moves(i, v)
    PROVE  /\ i \in DOMAIN workers /\ workers[i] \in Workers /\ attempts[i] \in Attempts
           /\ DOMAIN workers' = DOMAIN workers /\ workers'[i] = v
           /\ \A j \in DOMAIN workers : j # i => workers'[j] = workers[j]
           /\ attempts' \in Seq(Attempts) /\ Len(attempts') = Len(attempts)
           /\ DOMAIN attempts' = DOMAIN attempts
           /\ \A j \in DOMAIN attempts :
                /\ attempts'[j].status = attempts[j].status /\ attempts'[j].cancel = attempts[j].cancel
                /\ attempts'[j].bind = attempts[j].bind /\ attempts'[j].kind = attempts[j].kind
                /\ j # i => attempts'[j] = attempts[j]
           /\ workers' \in Seq(Workers \cup {Gone, Lost}) /\ Len(workers') = Len(workers)
           /\ Running' = Running /\ Active' = Active /\ i \in Running
           /\ \A j \in Running : j = i
           /\ \A j \in Active : j = i
           /\ \A h \in Handlers : ~Starting(h)
<1>1. i \in Active /\ v \in Workers /\ workers' = [workers EXCEPT ![i] = v]
  BY DEF Moves, Become
<1>2. /\ i \in DOMAIN workers /\ workers[i] \in Workers /\ attempts[i] \in Attempts
      /\ i \in Running /\ i \in DOMAIN attempts /\ workers[i] \notin {Gone, Lost}
  BY <1>1, ActiveFacts DEF Active
<1>3. /\ workers \in Seq(Workers \cup {Gone, Lost}) /\ attempts \in Seq(Attempts)
      /\ Len(workers) = Len(attempts) /\ DOMAIN workers = 1 .. Len(workers)
      /\ DOMAIN attempts = 1 .. Len(attempts)
  BY DEF ControlInv, Typed
<1>4. /\ DOMAIN workers' = DOMAIN workers /\ workers'[i] = v
      /\ \A j \in DOMAIN workers : j # i => workers'[j] = workers[j]
      /\ workers' \in Seq(Workers \cup {Gone, Lost}) /\ Len(workers') = Len(workers)
  BY <1>1, <1>2, <1>3
<1>5. /\ attempts' \in Seq(Attempts) /\ Len(attempts') = Len(attempts)
      /\ DOMAIN attempts' = DOMAIN attempts
      /\ \A j \in DOMAIN attempts :
           /\ attempts'[j].status = attempts[j].status /\ attempts'[j].cancel = attempts[j].cancel
           /\ attempts'[j].bind = attempts[j].bind /\ attempts'[j].kind = attempts[j].kind
           /\ j # i => attempts'[j] = attempts[j]
  <2>1. CASE attempts' = attempts
    BY <1>3, <2>1
  <2>2. CASE \E r \in Results : Progress(i, r)
    <3>0. PICK r \in Results : Progress(i, r)
      BY <2>2
    <3> DEFINE a == [attempts[i] EXCEPT !.result = r]
    <3>1. /\ a \in Attempts /\ a.status = attempts[i].status /\ a.cancel = attempts[i].cancel
          /\ a.bind = attempts[i].bind /\ a.kind = attempts[i].kind
      BY <1>2 DEF Attempts, Results
    <3>2. attempts' = [attempts EXCEPT ![i] = a]
      BY <3>0 DEF Progress
    <3> HIDE DEF a
    <3> QED BY <1>2, <1>3, <3>1, <3>2
  <2> QED BY <2>1, <2>2 DEF Moves
<1>6. Running' = Running
  BY <1>5 DEF Running
<1>7. Active' = Active
  BY <1>1, <1>2, <1>4, WorkerIsThere DEF Active
<1>8. /\ \A j \in Running : j = i
      /\ \A j \in Active : j = i
  BY <1>2, Alone
<1>9. \A h \in Handlers : ~Starting(h)
  BY <1>2, <1>8 DEF ControlInv, LockInv
<1> QED BY <1>2, <1>4, <1>5, <1>6, <1>7, <1>8, <1>9

(* Such a step keeps the lock, the versions that were confirmed and cancels. *)
LEMMA MovesControl ==
    ASSUME ControlInv, NEW i, NEW v, Moves(i, v)
    PROVE  ControlInv'
<1>1. /\ i \in DOMAIN workers /\ workers[i] \in Workers /\ attempts[i] \in Attempts
      /\ DOMAIN workers' = DOMAIN workers /\ workers'[i] = v
      /\ \A j \in DOMAIN workers : j # i => workers'[j] = workers[j]
      /\ attempts' \in Seq(Attempts) /\ Len(attempts') = Len(attempts)
      /\ DOMAIN attempts' = DOMAIN attempts
      /\ \A j \in DOMAIN attempts :
           /\ attempts'[j].status = attempts[j].status /\ attempts'[j].cancel = attempts[j].cancel
           /\ attempts'[j].bind = attempts[j].bind /\ attempts'[j].kind = attempts[j].kind
           /\ j # i => attempts'[j] = attempts[j]
      /\ workers' \in Seq(Workers \cup {Gone, Lost}) /\ Len(workers') = Len(workers)
      /\ Running' = Running /\ Active' = Active /\ i \in Running
      /\ \A j \in Running : j = i
      /\ \A j \in Active : j = i
      /\ \A h \in Handlers : ~Starting(h)
  BY MovesFacts
<1>2. /\ i \in Active /\ v \in Workers /\ v \notin {Gone, Lost} /\ i \in DOMAIN attempts
      /\ workers[i].kind = attempts[i].kind
  BY ActiveFacts, WorkerIsThere DEF Moves
<1>3. Typed'
  BY <1>1 DEF Typed, ControlInv, Moves
<1>4. LockInv'
  <2>1. /\ handlers' = handlers /\ lock' = lock /\ migration' = migration
        /\ v.kind = workers[i].kind
    BY DEF Moves
  <2>2. \A h \in Handlers : ~Starting(h)'
    BY <1>1, <2>1 DEF Starting
  <2> QED BY <1>1, <1>2, <2>1, <2>2 DEF LockInv, ControlInv, Running
<1>5. ReviewInv'
  <2>1. handlers' = handlers /\ binding' = binding
    BY DEF Moves
  <2>2. \A h \in Handlers : ~Starting(h)'
    BY <1>1, <2>1 DEF Starting
  <2>3. \A j \in Running : binding' = attempts'[j].bind
    BY <1>1, <2>1 DEF ControlInv, ReviewInv, Running
  <2>4. WorkerReviewed(workers[i])
    BY <1>2 DEF ControlInv, ReviewInv
  <2>5. WorkerReviewed(v)'
    BY <2>4 DEF WorkerReviewed, Moves
  <2> QED BY <1>1, <2>2, <2>3, <2>5 DEF ReviewInv
<1>6. CancelReaches'
  <2> SUFFICES ASSUME attempts'[i].cancel, v.pc # "check",
                      \A h \in Handlers : handlers'[h] # [op |-> "cancel", at |-> i]
               PROVE  v.ctx = "cancelled"
    BY <1>1 DEF CancelReaches, Cancelled
  <2>1. attempts[i].cancel /\ \A h \in Handlers : handlers[h] # [op |-> "cancel", at |-> i]
    BY <1>1, <1>2 DEF Moves
  <2>2. workers[i].pc # "check" => workers[i].ctx = "cancelled"
    BY <1>2, <2>1 DEF ControlInv, CancelReaches, Cancelled
  <2> QED BY <2>1, <2>2 DEF Moves
<1> QED BY <1>3, <1>4, <1>5, <1>6 DEF ControlInv

(* How the rows of the objects may change under a request that has read them. *)
IndexMoves ==
    /\ objs.index.ver <= objs'.index.ver
    /\ unsaved => unsaved'
    /\ ~unsaved' /\ objs'.index.ver = objs.index.ver /\ objs'.index.status # "running" =>
          objs.index.status # "running" /\ objs'.index.units = objs.index.units

TableMoves ==
    /\ objs.table.ver <= objs'.table.ver
    /\ objs'.table.ver = objs.table.ver => objs'.table.data = objs.table.data

(* What was loaded stays a version of the row. *)
LEMMA LoadedKeeps ==
    ASSUME Typed, objs' \in [table : TableRows, index : IndexRows], unsaved' \in BOOLEAN,
           IndexMoves, TableMoves
    PROVE  /\ \A r \in IndexRows : LoadedIndex(r) => LoadedIndex(r)'
           /\ \A p \in Previews : LoadedPre(p) => LoadedPre(p)'
           /\ \A x \in HandlerStates : LoadedHandler(x) => LoadedHandler(x)'
<1>1. /\ objs.index.ver \in Nat /\ objs'.index.ver \in Nat
      /\ objs.table.ver \in Nat /\ objs'.table.ver \in Nat
      /\ unsaved \in BOOLEAN /\ unsaved' \in BOOLEAN
  BY DEF Typed, TableRows, IndexRows, Versions
<1>2. ASSUME NEW r \in IndexRows, LoadedIndex(r) PROVE LoadedIndex(r)'
  <2>1. r.ver \in Nat
    BY DEF IndexRows, Versions
  <2> QED BY <1>1, <1>2, <2>1 DEF LoadedIndex, IndexMoves
<1>3. ASSUME NEW r \in TableRows, LoadedTable(r) PROVE LoadedTable(r)'
  <2>1. r.ver \in Nat
    BY DEF TableRows, Versions
  <2> QED BY <1>1, <1>3, <2>1 DEF LoadedTable, TableMoves
<1>4. ASSUME NEW p \in Previews, LoadedPre(p) PROVE LoadedPre(p)'
  <2>1. p.ver \in Nat /\ p.index \in IndexRows
    BY DEF Previews, Versions
  <2>2. LoadedIndex(p.index)'
    BY <1>2, <1>4, <2>1 DEF LoadedPre
  <2> QED BY <1>1, <1>4, <2>1, <2>2 DEF LoadedPre, TableMoves
<1>5. ASSUME NEW q \in Queries, LoadedQuery(q) PROVE LoadedQuery(q)'
  <2>1. CASE q.kind = "ddl"
    <3>1. q.row \in IndexRows
      BY <2>1 DEF Queries, DdlQueries, RecQueries
    <3> QED BY <1>2, <1>5, <2>1, <3>1 DEF LoadedQuery
  <2>2. CASE q.kind = "recovery"
    <3>1. q.row \in TableRows /\ q.pre \in Previews
      BY <2>2 DEF Queries, DdlQueries, RecQueries
    <3> QED BY <1>3, <1>4, <1>5, <2>2, <3>1 DEF LoadedQuery
  <2> QED BY <2>1, <2>2 DEF LoadedQuery
<1>6. ASSUME NEW x \in HandlerStates, LoadedHandler(x) PROVE LoadedHandler(x)'
  <2>1. CASE x.op = "draft"
    <3>1. x \in Drafts
      BY <2>1 DEF HandlerStates, Idle, Drafts, Binds, Looks, Queries, DdlQueries, RecQueries, Starts, Cancels
    <3>2. x.row \in IndexRows
      BY <3>1 DEF Drafts
    <3> QED BY <1>2, <1>6, <2>1, <3>2 DEF LoadedHandler
  <2>2. CASE x.op = "preview"
    <3>1. x \in Looks
      BY <2>2 DEF HandlerStates, Idle, Drafts, Binds, Looks, Queries, DdlQueries, RecQueries, Starts, Cancels
    <3>2. x.pre \in Previews
      BY <3>1 DEF Looks
    <3> QED BY <1>4, <1>6, <2>2, <3>2 DEF LoadedHandler
  <2>3. CASE x.op = "execute"
    <3>1. x \in Queries
      BY <2>3 DEF HandlerStates, Idle, Drafts, Binds, Looks, Queries, DdlQueries, RecQueries, Starts, Cancels
    <3> QED BY <1>5, <1>6, <2>3, <3>1 DEF LoadedHandler
  <2>4. CASE x.op = "start"
    <3>1. x \in Starts
      BY <2>4 DEF HandlerStates, Idle, Drafts, Binds, Looks, Queries, DdlQueries, RecQueries, Starts, Cancels
    <3>2. x.q \in Queries
      BY <3>1 DEF Starts
    <3> QED BY <1>5, <1>6, <2>4, <3>2 DEF LoadedHandler
  <2> QED BY <2>1, <2>2, <2>3, <2>4 DEF LoadedHandler
<1> QED BY <1>2, <1>4, <1>6

(* Where requests and workers keep what they loaded, it stays a version of the rows. *)
LEMMA MovesLoaded ==
    ASSUME ControlInv, LoadedInv, NEW i, NEW v, Moves(i, v), IndexMoves, TableMoves
    PROVE  LoadedInv'
<1>1. /\ \A p \in Previews : LoadedPre(p) => LoadedPre(p)'
      /\ \A x \in HandlerStates : LoadedHandler(x) => LoadedHandler(x)'
  BY LoadedKeeps DEF ControlInv, Moves
<1>2. /\ handlers \in [Handlers -> HandlerStates] /\ handlers' = handlers /\ preview' = preview
      /\ preview \in {NoPreview} \cup Previews
  BY DEF ControlInv, Typed, Moves, Pres
<1>3. /\ Active' = Active /\ workers'[i] = v /\ \A j \in Active : j = i
  BY MovesFacts
<1>4. v.kind = "recovery" => LoadedPre(v.pre)'
  <2>1. i \in Active /\ v.kind = workers[i].kind /\ v.pre = workers[i].pre
    BY DEF Moves
  <2>2. v.kind = "recovery" => v.pre \in Previews /\ LoadedPre(v.pre)
    BY <2>1 DEF ControlInv, ReviewInv, WorkerReviewed, LoadedInv
  <2> QED BY <1>1, <2>2
<1>5. \A h \in Handlers : LoadedHandler(handlers[h])'
  BY <1>1, <1>2 DEF LoadedInv
<1>6. (preview # NoPreview)' => LoadedPre(preview)'
  BY <1>1, <1>2 DEF LoadedInv
<1> QED BY <1>3, <1>4, <1>5, <1>6 DEF LoadedInv

(* What a step of a worker must show for the units. *)
UnitsAfter(v) ==
    /\ ~unsaved
    /\ \A u \in Units : applied'[u] <= 1
    /\ Truth(objs.index.units)'
    /\ objs'.index.status # "running" => NoneRunning(objs'.index.units)
    /\ objs'.index.status = "running" => v.kind = "ddl" \/ v.pc \in UnitPcs \cup {"saverelated"}
    /\ WorkerUnits(v)'

(* A step of a worker that shows UnitsAfter keeps what is said of the units. *)
LEMMA MovesUnits ==
    ASSUME ControlInv, UnitInv, NEW i, NEW v, Moves(i, v), ~unsaved' => UnitsAfter(v)
    PROVE  UnitInv'
<1> SUFFICES ASSUME ~unsaved' PROVE UnitInv'
  BY DEF UnitInv
<1>1. /\ Active' = Active /\ Running' = Running /\ i \in Running /\ workers'[i] = v
      /\ \A j \in Active : j = i
      /\ \A h \in Handlers : ~Starting(h)
      /\ i \in DOMAIN attempts /\ attempts'[i].kind = attempts[i].kind
  BY MovesFacts DEF Running
<1>2. i \in Active /\ v \in Workers /\ v \notin {Gone, Lost} /\ v.kind = attempts[i].kind
  BY ActiveFacts, WorkerIsThere DEF Moves
<1>3. \A h \in Handlers : ~Starting(h)'
  BY <1>1 DEF Starting, Moves
<1>4. v.kind = "ddl" \/ v.pc \in UnitPcs \cup {"saverelated"} => Changing(i)'
  BY <1>1, <1>2 DEF Changing
<1> QED BY <1>1, <1>3, <1>4 DEF UnitInv, UnitsAfter

(* What a step of a worker must show for the data of the table. *)
DataAfter(i, v) ==
    /\ DataTruth' /\ WorkerData(v)'
    /\ attempts'[i].kind = "recovery" /\ attempts'[i].result = "succeeded" =>
          AllOnce' /\ v.pc \notin Before

(* A step of a worker that shows DataAfter keeps what is said of the data. *)
LEMMA MovesData ==
    ASSUME ControlInv, DataInv, NEW i, NEW v, Moves(i, v), DataAfter(i, v)
    PROVE  DataInv'
<1>1. /\ Active' = Active /\ Running' = Running /\ workers'[i] = v
      /\ \A j \in Active : j = i
      /\ \A j \in Running : j = i
  BY MovesFacts
<1> QED BY <1>1 DEF DataInv, DataAfter

-----------------------------------------------------------------------------
(* ExecuteRepair. *)

(* What a worker that executes units must know where it stands. *)
Stage(v) ==
    /\ v.pc \in {"next", "exec", "saved", "commit"} => Executing(v)
    /\ v.pc = "reportdone" => Committed(v)
    /\ v.pc \in {"report", "saverelated", "finish"} => Decided(v)

(* v follows w in the execution of units. *)
Follows(w, v) ==
    /\ w.pc \notin {"check", "finish"} /\ v.pc \in UnitPcs \cup {"saverelated", "finish"}
    /\ w.pc \in UnitPcs \/ (w.kind = "recovery" => w.pre.related)
    /\ v \in Workers
    /\ v.kind = w.kind /\ v.pre = w.pre /\ v.ver = w.ver /\ v.ctx = w.ctx /\ v.data = w.data
    /\ v.pc = "finish" => v.kind = "ddl"
    /\ v.pc = "saverelated" => v.kind = "recovery"
    /\ v.units \in UnitFns /\ Shaped(v)

(* A step of ExecuteRepair keeps everything, when what it stores of the units is so. *)
LEMMA UnitMove ==
    ASSUME Inv, NEW i \in Active, NEW v, Become(i, v), Follows(workers[i], v),
           objs' = objs \/ \E units \in UnitFns : Persist(units),
           applied' \in [Units -> Nat],
           UNCHANGED <<binding, attempts, lock, preview, rows, migration, handlers, tx, unsaved>>,
           ~unsaved => /\ \A u \in Units : applied'[u] <= 1
                       /\ Truth(objs.index.units)' /\ Stage(v)'
    PROVE  Inv'
<1>1. /\ workers[i] \in Workers /\ i \in Active /\ ControlInv /\ LoadedInv /\ UnitInv /\ DataInv
      /\ i \in DOMAIN attempts
  BY ActiveFacts DEF Inv
<1>2. /\ objs' \in [table : TableRows, index : IndexRows]
      /\ objs'.table = objs.table /\ objs'.index.ver = objs.index.ver
      /\ objs' = objs \/ objs'.index.status = "running"
  <2>1. objs \in [table : TableRows, index : IndexRows]
    BY <1>1 DEF ControlInv, Typed
  <2>2. ASSUME NEW units \in UnitFns, Persist(units)
        PROVE  /\ objs' \in [table : TableRows, index : IndexRows]
               /\ objs'.table = objs.table /\ objs'.index.ver = objs.index.ver
               /\ objs'.index.status = "running"
    <3> DEFINE o == [objs.index EXCEPT !.units = units, !.status = "running"]
    <3>1. o \in IndexRows /\ o.ver = objs.index.ver /\ o.status = "running"
      BY <2>1 DEF IndexRows, Statuses
    <3>2. objs' = [objs EXCEPT !.index = o]
      BY <2>1, <2>2 DEF Persist
    <3> HIDE DEF o
    <3> QED BY <2>1, <3>1, <3>2
  <2> QED BY <2>1, <2>2
<1>3. unsaved' \in BOOLEAN /\ rows' \in [Pages -> Nat]
  BY <1>1 DEF ControlInv, Typed
<1>4. Moves(i, v)
  BY <1>1, <1>2, <1>3 DEF Moves, Follows, UnitPcs
<1>5. ControlInv'
  BY <1>1, <1>4, MovesControl
<1>6. LoadedInv'
  <2>1. objs.index.ver \in Nat /\ objs.table.ver \in Nat
    BY <1>1 DEF ControlInv, Typed, IndexRows, TableRows, Versions
  <2>2. IndexMoves /\ TableMoves
    BY <1>2, <2>1 DEF IndexMoves, TableMoves
  <2> QED BY <1>1, <1>4, <2>2, MovesLoaded
<1>7. UnitInv'
  <2>1. ASSUME ~unsaved PROVE UnitsAfter(v)
    <3>1. WorkerUnits(workers[i]) /\ (objs.index.status # "running" => NoneRunning(objs.index.units))
      BY <1>1, <2>1 DEF UnitInv
    <3>2. WorkerUnits(v)'
      BY <2>1, <3>1 DEF WorkerUnits, Stage, Follows, UnitPcs, Copied, Before
    <3>3. (objs'.index.status # "running") => NoneRunning(objs'.index.units)
      BY <1>2, <3>1
    <3>4. objs'.index.status = "running" => v.kind = "ddl" \/ v.pc \in UnitPcs \cup {"saverelated"}
      BY DEF Follows
    <3> QED BY <2>1, <3>2, <3>3, <3>4 DEF UnitsAfter
  <2> QED BY <1>1, <1>4, <2>1, MovesUnits
<1>8. DataInv'
  <2>1. WorkerData(workers[i]) /\ DataTruth
    BY <1>1 DEF DataInv
  <2>2. DataTruth' /\ (AllOnce => AllOnce')
    BY <1>2, <2>1 DEF DataTruth, AllOnce
  <2>3. WorkerData(v)'
    BY <2>1, <2>2 DEF WorkerData, Follows, UnitPcs, Before
  <2>4. attempts'[i].kind = "recovery" /\ attempts'[i].result = "succeeded" =>
          AllOnce' /\ v.pc \notin Before
    <3>1. attempts' = attempts /\ i \in Running
      BY <1>1, ActiveFacts
    <3> QED BY <1>1, <2>2, <3>1 DEF DataInv, Follows, UnitPcs, Before
  <2> QED BY <1>1, <1>4, <2>2, <2>3, <2>4, MovesData DEF DataAfter
<1> QED BY <1>5, <1>6, <1>7, <1>8 DEF Inv

(* Where a worker executes units, it knows what it should. *)
LEMMA AtStage ==
    ASSUME Inv, NEW i \in Active, workers[i].pc \in UnitPcs
    PROVE  /\ workers[i] \in Workers /\ workers[i].pc # "check" /\ Shaped(workers[i])
           /\ workers[i].units \in UnitFns
           /\ workers[i].kind = "ddl" \/ workers[i].kind = "recovery"
           /\ ~unsaved => /\ Stage(workers[i]) /\ Truth(objs.index.units)
                          /\ \A u \in Units : applied[u] <= 1
           /\ applied \in [Units -> Nat] /\ tx \in BOOLEAN
           /\ objs.index \in IndexRows
<1>1. workers[i] \in Workers
  BY ActiveFacts DEF Inv
<1>2. workers[i].pc # "check" /\ workers[i].pc \notin {"saverelated", "finish"}
  BY DEF UnitPcs
<1>3. ~unsaved => WorkerUnits(workers[i])
  BY DEF Inv, UnitInv
<1>4. ~unsaved => Stage(workers[i])
  BY <1>2, <1>3 DEF WorkerUnits, Stage
<1>5. applied \in [Units -> Nat] /\ tx \in BOOLEAN /\ objs.index \in IndexRows
  BY DEF Inv, ControlInv, Typed
<1>6. workers[i].kind = "ddl" \/ workers[i].kind = "recovery"
  BY <1>1 DEF Workers
<1>7. Shaped(workers[i]) /\ workers[i].units \in UnitFns
  BY DEF Inv, ControlInv, ReviewInv, WorkerReviewed, Shaped
<1> QED BY <1>1, <1>2, <1>4, <1>5, <1>6, <1>7 DEF Inv, UnitInv

(* The worker after ExecuteRepair returned, or before it reports its units. *)
LEMMA ReturnsFacts ==
    ASSUME NEW w \in Workers, w.pc \in UnitPcs, NEW units \in UnitFns,
           NEW why \in {"none", "error", "cancelled"}, NEW v,
           v = Returns(w, units, why) \/ v = [Returns(w, units, why) EXCEPT !.pc = "report"]
    PROVE  /\ Follows(w, v) /\ v.units = units
           /\ v.pc \in {"report", "saverelated", "finish"}
<1>1. w.kind \in {"ddl", "recovery"}
  BY DEF Workers
<1>2. PICK pc \in WorkerPcs : pc = (IF w.kind = "ddl" THEN "finish" ELSE "saverelated")
  BY DEF WorkerPcs
<1>3. PICK r : r = [w EXCEPT !.pc = pc, !.units = units, !.why = why, !.todo = {}, !.done = {}, !.cur = 0]
  OBVIOUS
<1>4. r = Returns(w, units, why)
  BY <1>2, <1>3 DEF Returns
<1>5. /\ r \in Workers /\ r.kind = w.kind /\ r.pre = w.pre /\ r.ver = w.ver /\ r.ctx = w.ctx
      /\ r.data = w.data /\ r.units = units /\ r.pc = pc
  BY <1>3 DEF Workers
<1>6. CASE v = r
  BY <1>1, <1>2, <1>5, <1>6 DEF Follows, Shaped, UnitPcs
<1>7. CASE v = [r EXCEPT !.pc = "report"]
  <2>1. /\ v \in Workers /\ v.kind = r.kind /\ v.pre = r.pre /\ v.ver = r.ver /\ v.ctx = r.ctx
        /\ v.data = r.data /\ v.units = r.units /\ v.pc = "report"
    BY <1>5, <1>7 DEF Workers, WorkerPcs
  <2> QED BY <1>5, <2>1 DEF Follows, Shaped, UnitPcs
<1> QED BY <1>4, <1>6, <1>7

(* What a rollback makes of the units. *)
LEMMA RollbackFacts ==
    ASSUME NEW w, w.units \in UnitFns, NEW units \in RolledBack(w)
    PROVE  /\ units \in UnitFns
           /\ \A u \in Units : IF tx /\ u \in w.done THEN units[u] \in {"rolled_back", "unknown"}
                               ELSE units[u] = w.units[u]
BY DEF RolledBack, UnitFns, UnitStates

(* ExecuteRepair returns with what has become of the units. *)
LEMMA ReturnMove ==
    ASSUME Inv, NEW i \in Active, NEW units \in UnitFns,
           NEW why \in {"none", "error", "cancelled"}, NEW v,
           workers[i].pc \in UnitPcs, Become(i, v),
           v = Returns(workers[i], units, why) \/ v = [Returns(workers[i], units, why) EXCEPT !.pc = "report"],
           objs' = objs \/ \E x \in UnitFns : Persist(x),
           applied' \in [Units -> Nat],
           UNCHANGED <<binding, attempts, lock, preview, rows, migration, handlers, tx, unsaved>>,
           ~unsaved => /\ \A u \in Units : applied'[u] <= 1
                       /\ Truth(objs.index.units)' /\ Truth(units)' /\ NoneRunning(units)
    PROVE  Inv'
<1>1. workers[i] \in Workers
  BY AtStage
<1>2. /\ Follows(workers[i], v) /\ v.units = units
      /\ v.pc \in {"report", "saverelated", "finish"}
  BY <1>1, ReturnsFacts
<1>3. ~unsaved => Stage(v)'
  BY <1>2 DEF Stage, Decided
<1> QED BY <1>2, <1>3, UnitMove

(* The next selected unit is marked, or its mark could not be stored. *)
LEMMA NextUnitInv == ASSUME Inv, NEW i, NextUnit(i) PROVE Inv'
<1>1. /\ i \in Active /\ workers[i].pc = "next" /\ workers[i].todo # {}
      /\ UNCHANGED <<binding, attempts, lock, preview, applied, rows, migration, handlers, tx, unsaved>>
  BY DEF NextUnit, At, target
<1>2. PICK w : w = workers[i]
  OBVIOUS
<1>3. /\ w \in Workers /\ w.pc = "next" /\ w.pc \in UnitPcs /\ w.units \in UnitFns
      /\ ~unsaved => /\ Executing(w) /\ Truth(objs.index.units)
                     /\ \A u \in Units : applied[u] <= 1
      /\ applied \in [Units -> Nat] /\ tx \in BOOLEAN
  BY <1>1, <1>2, AtStage DEF Stage, UnitPcs
<1>4. PICK u \in Units : u = Min(w.todo) /\ u \in w.todo
  <2>1. w.todo \in SUBSET Nat /\ w.todo # {} /\ w.todo \subseteq Units
    BY <1>1, <1>2, <1>3, RepairAssumption DEF Workers, Units
  <2>2. Min(w.todo) \in w.todo
    BY <2>1, Least DEF Min
  <2> QED BY <2>1, <2>2
<1>5. PICK marked \in UnitFns : marked = [w.units EXCEPT ![u] = "running"]
  BY <1>3 DEF UnitFns, UnitStates
<1>6. CASE /\ Persist(marked)
           /\ Become(i, [w EXCEPT !.pc = "exec", !.cur = u, !.todo = @ \ {u}, !.units = marked])
  <2>1. PICK v : v = [w EXCEPT !.pc = "exec", !.cur = u, !.todo = @ \ {u}, !.units = marked]
    OBVIOUS
  <2>2. /\ v \in Workers /\ v.pc = "exec" /\ v.cur = u /\ v.todo = w.todo \ {u} /\ v.units = marked
        /\ v.done = w.done /\ v.kind = w.kind /\ v.pre = w.pre /\ v.ver = w.ver /\ v.ctx = w.ctx
        /\ v.data = w.data
    <3>1. u \in Nat
      BY RepairAssumption DEF Units
    <3> QED BY <1>3, <2>1, <3>1 DEF Workers, WorkerPcs
  <2>3. Follows(w, v)
    BY <1>3, <2>2 DEF Follows, Shaped, UnitPcs
  <2>4. objs'.index.units = marked
    BY <1>6 DEF Persist, Inv, ControlInv, Typed, IndexRows
  <2>5. ASSUME ~unsaved PROVE Truth(objs.index.units)' /\ Stage(v)'
    <3>1. marked[u] = "running" /\ \A x \in Units : x # u => marked[x] = w.units[x]
      BY <1>3, <1>5 DEF UnitFns
    <3>2. /\ w.units[u] \in {"pending", "failed", "rolled_back"} /\ u \notin w.done /\ applied[u] = 0
          /\ Truth(w.units)
      BY <1>3, <1>4, <2>5 DEF Executing, UnitFns, UnitStates, Truth
    <3>3. Truth(marked)'
      BY <1>1, <3>1, <3>2 DEF Truth
    <3>4. Executing(v)'
      BY <1>1, <1>3, <2>2, <2>4, <2>5, <3>1, <3>2, <3>3 DEF Executing
    <3> QED BY <2>2, <2>4, <3>3, <3>4 DEF Stage
  <2> QED BY <1>1, <1>2, <1>3, <1>6, <2>1, <2>3, <2>5, UnitMove
<1>7. CASE /\ \E units \in RolledBack([w EXCEPT !.units[u] = "pending"]) :
                  Become(i, Returns(w, units, "error"))
           /\ UNCHANGED objs
  <2>1. PICK y : y = [w EXCEPT !.units[u] = "pending"]
    OBVIOUS
  <2>2. /\ y.units = [w.units EXCEPT ![u] = "pending"] /\ y.done = w.done /\ y.units \in UnitFns
    BY <1>3, <2>1 DEF Workers, UnitFns, UnitStates
  <2>3. PICK units \in RolledBack(y) : Become(i, Returns(w, units, "error"))
    BY <1>7, <2>1
  <2>4. /\ units \in UnitFns
        /\ \A x \in Units : IF tx /\ x \in w.done THEN units[x] \in {"rolled_back", "unknown"}
                            ELSE units[x] = y.units[x]
    <3>1. units \in UnitFns /\ \A x \in Units : IF tx /\ x \in y.done THEN units[x] \in {"rolled_back", "unknown"}
                                                                    ELSE units[x] = y.units[x]
      BY <2>2, RollbackFacts, Zenon
    <3> QED BY <2>2, <3>1
  <2>5. ASSUME ~unsaved PROVE Truth(units)' /\ NoneRunning(units)
    <3>1. y.units[u] = "pending" /\ \A x \in Units : x # u => y.units[x] = w.units[x]
      BY <1>3, <2>2 DEF UnitFns
    <3>2. /\ w.units[u] \in {"pending", "failed", "rolled_back"} /\ u \notin w.done /\ applied[u] = 0
          /\ Truth(w.units)
      BY <1>3, <1>4, <2>5 DEF Executing, UnitFns, UnitStates, Truth
    <3>3. \A x \in Units : x \in w.done /\ tx => applied[x] = 0
      BY <1>3, <2>5 DEF Executing
    <3>4. \A x \in Units : w.units[x] = "running" => tx /\ x \in w.done
      BY <1>3, <2>5 DEF Executing
    <3> QED BY <1>1, <2>4, <3>1, <3>2, <3>3, <3>4 DEF Truth, NoneRunning
  <2>6. Truth(objs.index.units)' <=> Truth(objs.index.units)
    BY <1>1, <1>7 DEF Truth
  <2>7. PICK v : v = Returns(w, units, "error")
    OBVIOUS
  <2> QED BY <1>1, <1>2, <1>3, <1>7, <2>3, <2>4, <2>5, <2>6, <2>7, ReturnMove
<1> QED BY <1>2, <1>4, <1>5, <1>6, <1>7 DEF NextUnit

(* A cancel is seen before the next unit. *)
LEMMA NextCancelledInv == ASSUME Inv, NEW i, NextCancelled(i) PROVE Inv'
<1>1. /\ i \in Active /\ workers[i].pc = "next"
      /\ UNCHANGED <<objs, binding, attempts, lock, preview, applied, rows, migration, handlers, tx, unsaved>>
  BY DEF NextCancelled, At, target, stored, Local
<1>2. PICK w : w = workers[i]
  OBVIOUS
<1>3. /\ w \in Workers /\ w.pc = "next" /\ w.pc \in UnitPcs /\ w.units \in UnitFns
      /\ ~unsaved => /\ Executing(w) /\ Truth(objs.index.units)
                     /\ \A u \in Units : applied[u] <= 1
      /\ applied \in [Units -> Nat] /\ tx \in BOOLEAN
  BY <1>1, <1>2, AtStage DEF Stage, UnitPcs
<1>4. PICK units \in RolledBack(w) : Become(i, [Returns(w, units, "cancelled") EXCEPT !.pc = "report"])
  BY <1>2 DEF NextCancelled
<1>5. /\ units \in UnitFns
      /\ \A x \in Units : IF tx /\ x \in w.done THEN units[x] \in {"rolled_back", "unknown"}
                          ELSE units[x] = w.units[x]
  BY ZenonT(60), <1>3, RollbackFacts
<1>6. ASSUME ~unsaved PROVE Truth(units)' /\ NoneRunning(units)
  <2>1. \A x \in Units : x \in w.done /\ tx => applied[x] = 0
    BY <1>3, <1>6 DEF Executing
  <2>2. \A x \in Units : w.units[x] = "running" => tx /\ x \in w.done
    BY <1>3, <1>6 DEF Executing
  <2>3. Truth(w.units)
    BY <1>3, <1>6 DEF Executing
  <2> QED BY <1>1, <1>5, <2>1, <2>2, <2>3 DEF Truth, NoneRunning
<1>7. Truth(objs.index.units)' <=> Truth(objs.index.units)
  BY <1>1 DEF Truth
<1>8. PICK v : v = [Returns(w, units, "cancelled") EXCEPT !.pc = "report"]
  OBVIOUS
<1> QED BY <1>1, <1>2, <1>3, <1>4, <1>5, <1>6, <1>7, <1>8, ReturnMove

(* No unit is left. *)
LEMMA NextDoneInv == ASSUME Inv, NEW i, NextDone(i) PROVE Inv'
<1>1. /\ i \in Active /\ workers[i].pc = "next" /\ workers[i].todo = {}
      /\ UNCHANGED <<objs, binding, attempts, lock, preview, applied, rows, migration, handlers, tx, unsaved>>
  BY DEF NextDone, At, target, stored, Local
<1>2. PICK w : w = workers[i]
  OBVIOUS
<1>3. /\ w \in Workers /\ w.pc = "next" /\ w.pc \in UnitPcs /\ w.units \in UnitFns
      /\ ~unsaved => /\ Executing(w) /\ Truth(objs.index.units)
                     /\ \A u \in Units : applied[u] <= 1
      /\ applied \in [Units -> Nat] /\ tx \in BOOLEAN
  BY <1>1, <1>2, AtStage DEF Stage, UnitPcs
<1>4. Truth(objs.index.units)' <=> Truth(objs.index.units)
  BY <1>1 DEF Truth
<1>5. CASE tx
  <2>1. PICK v : v = [w EXCEPT !.pc = "commit"]
    OBVIOUS
  <2>2. /\ v \in Workers /\ v.pc = "commit" /\ v.todo = w.todo /\ v.units = w.units
        /\ v.done = w.done /\ v.kind = w.kind /\ v.pre = w.pre /\ v.ver = w.ver /\ v.ctx = w.ctx
        /\ v.data = w.data
    BY <1>3, <2>1 DEF Workers, WorkerPcs
  <2>3. Follows(w, v)
    BY <1>3, <2>2 DEF Follows, Shaped, UnitPcs
  <2>4. ASSUME ~unsaved PROVE Stage(v)'
    <3>1. Truth(w.units)' <=> Truth(w.units)
      BY <1>1, <1>2 DEF Truth
    <3>2. Truth(v.units)'
      BY <1>1, <1>3, <2>2, <2>4 DEF Executing, Truth
    <3>3. Executing(v)'
      BY <1>1, <1>3, <1>5, <2>2, <2>4, <3>2 DEF Executing
    <3> QED BY <2>2, <3>3 DEF Stage
  <2>5. Become(i, v)
    BY <1>2, <1>5, <2>1 DEF NextDone
  <2> QED BY <1>1, <1>2, <1>3, <1>4, <2>3, <2>4, <2>5, UnitMove
<1>6. CASE ~tx
  <2>1. PICK v : v = Returns(w, w.units, "none")
    OBVIOUS
  <2>2. Become(i, v)
    BY <1>2, <1>6, <2>1 DEF NextDone
  <2>3. ASSUME ~unsaved PROVE Truth(w.units) /\ NoneRunning(w.units)
    BY <1>3, <1>6, <2>3 DEF Executing, NoneRunning
  <2>4. PICK units : units = w.units
    OBVIOUS
  <2>5. ~unsaved => Truth(units)' /\ NoneRunning(units)
    BY <1>1, <2>3, <2>4 DEF Truth
  <2> QED BY <1>1, <1>2, <1>3, <1>4, <2>1, <2>2, <2>4, <2>5, ReturnMove
<1> QED BY <1>5, <1>6

(* A unit takes effect, or will with its transaction. *)
LEMMA ExecInv == ASSUME Inv, NEW i, Exec(i) PROVE Inv'
<1>1. /\ i \in Active /\ workers[i].pc = "exec"
      /\ UNCHANGED <<objs, binding, attempts, lock, preview, rows, migration, handlers, tx, unsaved>>
  BY DEF Exec, At, stored
<1>2. PICK w : w = workers[i]
  OBVIOUS
<1>3. /\ w \in Workers /\ w.pc = "exec" /\ w.pc \in UnitPcs /\ w.units \in UnitFns
      /\ w.cur \in Units
      /\ ~unsaved => /\ Executing(w) /\ Truth(objs.index.units)
                     /\ \A u \in Units : applied[u] <= 1
      /\ applied \in [Units -> Nat] /\ tx \in BOOLEAN
  BY <1>1, <1>2, AtStage DEF Stage, UnitPcs, Shaped
<1>4. PICK units \in UnitFns : units = [w.units EXCEPT ![w.cur] = IF tx THEN @ ELSE "succeeded"]
  BY <1>3 DEF UnitFns, UnitStates
<1>5. PICK v : v = [w EXCEPT !.pc = "saved", !.done = @ \cup {w.cur}, !.units = units]
  OBVIOUS
<1>6. v = [w EXCEPT !.pc = "saved", !.done = @ \cup {w.cur}, !.units[w.cur] = IF tx THEN @ ELSE "succeeded"]
  BY <1>3, <1>4, <1>5 DEF Workers
<1>7. Become(i, v) /\ IF tx THEN UNCHANGED applied ELSE Took(w.cur)
  BY <1>2, <1>6 DEF Exec
<1>8. /\ v \in Workers /\ v.pc = "saved" /\ v.cur = w.cur /\ v.todo = w.todo /\ v.units = units
      /\ v.done = w.done \cup {w.cur} /\ v.kind = w.kind /\ v.pre = w.pre /\ v.ver = w.ver
      /\ v.ctx = w.ctx /\ v.data = w.data
  BY <1>3, <1>5 DEF Workers, WorkerPcs
<1>9. Follows(w, v)
  BY <1>3, <1>8 DEF Follows, Shaped, UnitPcs
<1>10. /\ applied' \in [Units -> Nat]
       /\ \A x \in Units : applied'[x] = IF ~tx /\ x = w.cur THEN applied[x] + 1 ELSE applied[x]
  BY <1>3, <1>7 DEF Took
<1>11. /\ units[w.cur] = (IF tx THEN w.units[w.cur] ELSE "succeeded")
       /\ \A x \in Units : x # w.cur => units[x] = w.units[x]
  BY <1>3, <1>4 DEF UnitFns
<1>12. ASSUME ~unsaved
       PROVE  /\ \A u \in Units : applied'[u] <= 1
              /\ Truth(objs.index.units)' /\ Stage(v)'
  <2>1. /\ w.cur \notin w.todo /\ w.cur \notin w.done
        /\ w.units[w.cur] = "running" /\ applied[w.cur] = 0
        /\ objs.index.units = w.units /\ Truth(w.units)
    BY <1>3, <1>12 DEF Executing
  <2>2. \A u \in Units : applied'[u] <= 1
    BY <1>3, <1>10, <1>12, <2>1
  <2>3. Truth(objs.index.units)'
    BY <1>1, <1>10, <2>1 DEF Truth
  <2>4. Truth(units)'
    BY <1>10, <1>11, <2>1 DEF Truth
  <2>5. Executing(v)'
    BY <1>1, <1>3, <1>8, <1>10, <1>11, <1>12, <2>1, <2>4 DEF Executing
  <2> QED BY <1>8, <2>2, <2>3, <2>5 DEF Stage
<1> QED BY <1>1, <1>2, <1>7, <1>9, <1>10, <1>12, UnitMove

(* A unit fails: it did not take effect, or that is not known. *)
LEMMA ExecFailsInv == ASSUME Inv, NEW i, ExecFails(i) PROVE Inv'
<1>1. /\ i \in Active /\ workers[i].pc = "exec"
      /\ UNCHANGED <<objs, binding, attempts, lock, preview, rows, migration, handlers, tx, unsaved>>
  BY DEF ExecFails, At, stored
<1>2. PICK w : w = workers[i]
  OBVIOUS
<1>3. /\ w \in Workers /\ w.pc = "exec" /\ w.pc \in UnitPcs /\ w.units \in UnitFns
      /\ w.cur \in Units
      /\ ~unsaved => /\ Executing(w) /\ Truth(objs.index.units)
                     /\ \A u \in Units : applied[u] <= 1
      /\ applied \in [Units -> Nat] /\ tx \in BOOLEAN
  BY <1>1, <1>2, AtStage DEF Stage, UnitPcs, Shaped
<1>4. PICK s \in {"failed", "unknown"} :
         /\ \/ s = "unknown" /\ ~tx /\ Took(w.cur)
            \/ UNCHANGED applied
         /\ \E units \in RolledBack([w EXCEPT !.units[w.cur] = s]) :
              Become(i, [Returns(w, units, IF Cancelled(i) THEN "cancelled" ELSE "error") EXCEPT !.pc = "report"])
  BY <1>2 DEF ExecFails
<1>5. PICK why \in {"none", "error", "cancelled"} : why = IF Cancelled(i) THEN "cancelled" ELSE "error"
  OBVIOUS
<1>6. PICK y : y = [w EXCEPT !.units[w.cur] = s]
  OBVIOUS
<1>7. /\ y.units = [w.units EXCEPT ![w.cur] = s] /\ y.done = w.done /\ y.units \in UnitFns
  BY <1>3, <1>6 DEF Workers, UnitFns, UnitStates
<1>8. PICK units \in RolledBack(y) : Become(i, [Returns(w, units, why) EXCEPT !.pc = "report"])
  BY <1>4, <1>5, <1>6
<1>9. /\ units \in UnitFns
      /\ \A x \in Units : IF tx /\ x \in w.done THEN units[x] \in {"rolled_back", "unknown"}
                          ELSE units[x] = y.units[x]
  <2>1. units \in UnitFns /\ \A x \in Units : IF tx /\ x \in y.done THEN units[x] \in {"rolled_back", "unknown"}
                                                                  ELSE units[x] = y.units[x]
    BY <1>7, RollbackFacts, Zenon
  <2> QED BY <1>7, <2>1
<1>10. /\ applied' \in [Units -> Nat]
       /\ \A x \in Units : x # w.cur => applied'[x] = applied[x]
       /\ s = "failed" => applied'[w.cur] = applied[w.cur]
       /\ applied'[w.cur] <= applied[w.cur] + 1
  BY <1>3, <1>4 DEF Took
<1>11. ASSUME ~unsaved
       PROVE  /\ \A u \in Units : applied'[u] <= 1
              /\ Truth(objs.index.units)' /\ Truth(units)' /\ NoneRunning(units)
  <2>1. y.units[w.cur] = s /\ \A x \in Units : x # w.cur => y.units[x] = w.units[x]
    BY <1>3, <1>7 DEF UnitFns
  <2>2. /\ w.cur \notin w.done /\ w.units[w.cur] = "running" /\ applied[w.cur] = 0
        /\ objs.index.units = w.units /\ Truth(w.units)
    BY <1>3, <1>11 DEF Executing
  <2>3. \A x \in Units : x \in w.done /\ tx => applied[x] = 0
    BY <1>3, <1>11 DEF Executing
  <2>4. \A x \in Units : w.units[x] = "running" => (tx /\ x \in w.done) \/ x = w.cur
    BY <1>3, <1>11 DEF Executing
  <2>5. \A u \in Units : applied'[u] <= 1
    BY <1>3, <1>10, <1>11, <2>2
  <2>6. Truth(objs.index.units)'
    BY <1>1, <1>10, <2>2 DEF Truth
  <2>7. Truth(units)' /\ NoneRunning(units)
    BY <1>9, <1>10, <2>1, <2>2, <2>3, <2>4 DEF Truth, NoneRunning
  <2> QED BY <2>5, <2>6, <2>7
<1>12. PICK v : v = [Returns(w, units, why) EXCEPT !.pc = "report"]
  OBVIOUS
<1> QED BY <1>1, <1>2, <1>3, <1>8, <1>9, <1>10, <1>11, <1>12, ReturnMove

(* The unit is stored after it ran, or that could not be stored. *)
LEMMA SavedInv == ASSUME Inv, NEW i, Saved(i) PROVE Inv'
<1>1. /\ i \in Active /\ workers[i].pc = "saved"
      /\ UNCHANGED <<binding, attempts, lock, preview, applied, rows, migration, handlers, tx, unsaved>>
  BY DEF Saved, At, target
<1>2. PICK w : w = workers[i]
  OBVIOUS
<1>3. /\ w \in Workers /\ w.pc = "saved" /\ w.pc \in UnitPcs /\ w.units \in UnitFns
      /\ w.cur \in Units
      /\ ~unsaved => /\ Executing(w) /\ Truth(objs.index.units)
                     /\ \A u \in Units : applied[u] <= 1
      /\ applied \in [Units -> Nat] /\ tx \in BOOLEAN
  BY <1>1, <1>2, AtStage DEF Stage, UnitPcs, Shaped
<1>4. CASE Persist(w.units) /\ Become(i, [w EXCEPT !.pc = "next"])
  <2>1. PICK v : v = [w EXCEPT !.pc = "next"]
    OBVIOUS
  <2>2. /\ v \in Workers /\ v.pc = "next" /\ v.todo = w.todo /\ v.units = w.units
        /\ v.done = w.done /\ v.kind = w.kind /\ v.pre = w.pre /\ v.ver = w.ver /\ v.ctx = w.ctx
        /\ v.data = w.data
    BY <1>3, <2>1 DEF Workers, WorkerPcs
  <2>3. Follows(w, v)
    BY <1>3, <2>2 DEF Follows, Shaped, UnitPcs
  <2>4. objs'.index.units = w.units
    BY <1>4 DEF Persist, Inv, ControlInv, Typed, IndexRows
  <2>5. ASSUME ~unsaved PROVE Truth(objs.index.units)' /\ Stage(v)'
    <3>1. Truth(v.units)'
      BY <1>1, <1>3, <2>2, <2>5 DEF Executing, Truth
    <3>2. Executing(v)'
      BY <1>1, <1>3, <2>2, <2>4, <2>5, <3>1 DEF Executing
    <3> QED BY <2>2, <2>4, <3>1, <3>2 DEF Stage
  <2> QED BY <1>1, <1>2, <1>3, <1>4, <2>1, <2>3, <2>5, UnitMove
<1>5. CASE /\ \E units \in RolledBack([w EXCEPT !.units[w.cur] = "unknown"]) :
                  Become(i, Returns(w, units, "error"))
           /\ UNCHANGED objs
  <2>1. PICK y : y = [w EXCEPT !.units[w.cur] = "unknown"]
    OBVIOUS
  <2>2. /\ y.units = [w.units EXCEPT ![w.cur] = "unknown"] /\ y.done = w.done /\ y.units \in UnitFns
    BY <1>3, <2>1 DEF Workers, UnitFns, UnitStates
  <2>3. PICK units \in RolledBack(y) : Become(i, Returns(w, units, "error"))
    BY <1>5, <2>1
  <2>4. /\ units \in UnitFns
        /\ \A x \in Units : IF tx /\ x \in w.done THEN units[x] \in {"rolled_back", "unknown"}
                            ELSE units[x] = y.units[x]
    <3>1. units \in UnitFns /\ \A x \in Units : IF tx /\ x \in y.done THEN units[x] \in {"rolled_back", "unknown"}
                                                                    ELSE units[x] = y.units[x]
      BY <2>2, RollbackFacts, Zenon
    <3> QED BY <2>2, <3>1
  <2>5. ASSUME ~unsaved PROVE Truth(units)' /\ NoneRunning(units)
    <3>1. y.units[w.cur] = "unknown" /\ \A x \in Units : x # w.cur => y.units[x] = w.units[x]
      BY <1>3, <2>2 DEF UnitFns
    <3>2. Truth(w.units)
      BY <1>3, <2>5 DEF Executing
    <3>3. \A x \in Units : x \in w.done /\ tx => applied[x] = 0
      BY <1>3, <2>5 DEF Executing
    <3>4. \A x \in Units : w.units[x] = "running" => tx /\ x \in w.done
      BY <1>3, <2>5 DEF Executing
    <3> QED BY <1>1, <2>4, <3>1, <3>2, <3>3, <3>4 DEF Truth, NoneRunning
  <2>6. Truth(objs.index.units)' <=> Truth(objs.index.units)
    BY <1>1, <1>5 DEF Truth
  <2>7. PICK v : v = Returns(w, units, "error")
    OBVIOUS
  <2> QED BY <1>1, <1>2, <1>3, <1>5, <2>3, <2>4, <2>5, <2>6, <2>7, ReturnMove
<1> QED BY <1>2, <1>4, <1>5 DEF Saved

(* The units of a transaction with their state after its end. *)
LEMMA SettledFacts ==
    ASSUME NEW w, w.units \in UnitFns, NEW s \in UnitStates
    PROVE  /\ Settled(w, s) \in UnitFns
           /\ \A u \in Units : Settled(w, s)[u] = IF u \in w.done THEN s ELSE w.units[u]
BY DEF Settled, UnitFns

(* The transaction ends: its units took effect, or that is not known. *)
LEMMA CommitUnitsInv == ASSUME Inv, NEW i, CommitUnits(i) PROVE Inv'
<1>1. /\ i \in Active /\ workers[i].pc = "commit"
      /\ UNCHANGED <<objs, binding, attempts, lock, preview, rows, migration, handlers, tx, unsaved>>
  BY DEF CommitUnits, At, stored
<1>2. PICK w : w = workers[i]
  OBVIOUS
<1>3. /\ w \in Workers /\ w.pc = "commit" /\ w.pc \in UnitPcs /\ w.units \in UnitFns
      /\ ~unsaved => /\ Executing(w) /\ Truth(objs.index.units)
                     /\ \A u \in Units : applied[u] <= 1
      /\ applied \in [Units -> Nat] /\ tx \in BOOLEAN
  BY <1>1, <1>2, AtStage DEF Stage, UnitPcs
<1>4. PICK all \in [Units -> Nat] : all = [u \in Units |-> applied[u] + IF u \in w.done THEN 1 ELSE 0]
  <2>1. \A u \in Units : applied[u] + (IF u \in w.done THEN 1 ELSE 0) \in Nat
    BY <1>3
  <2> QED BY <2>1
<1>5. PICK good \in UnitFns : good = Settled(w, "succeeded") /\
         \A u \in Units : good[u] = IF u \in w.done THEN "succeeded" ELSE w.units[u]
  BY <1>3, SettledFacts DEF UnitStates
<1>6. PICK doubt \in UnitFns : doubt = Settled(w, "unknown") /\
         \A u \in Units : doubt[u] = IF u \in w.done THEN "unknown" ELSE w.units[u]
  BY <1>3, SettledFacts DEF UnitStates
<1>7. ASSUME ~unsaved
      PROVE  /\ \A u \in Units : u \in w.done => w.units[u] = "running" /\ applied[u] = 0
             /\ \A u \in Units : w.units[u] = "running" => u \in w.done
             /\ Truth(w.units) /\ objs.index.units = w.units
             /\ \A u \in Units : all[u] <= 1
             /\ \A u \in Units : u \in w.done => all[u] = 1
             /\ \A u \in Units : u \notin w.done => all[u] = applied[u]
  BY <1>3, <1>4, <1>7 DEF Executing
<1>8. CASE /\ applied' = all
           /\ Become(i, [w EXCEPT !.pc = "reportdone", !.units = good])
  <2>1. PICK v : v = [w EXCEPT !.pc = "reportdone", !.units = good]
    OBVIOUS
  <2>2. /\ v \in Workers /\ v.pc = "reportdone" /\ v.units = good
        /\ v.done = w.done /\ v.kind = w.kind /\ v.pre = w.pre /\ v.ver = w.ver /\ v.ctx = w.ctx
        /\ v.data = w.data
    BY <1>3, <2>1 DEF Workers, WorkerPcs
  <2>3. Follows(w, v)
    BY <1>3, <2>2 DEF Follows, Shaped, UnitPcs
  <2>4. ASSUME ~unsaved PROVE Truth(objs.index.units)' /\ Stage(v)'
    <3>1. Truth(objs.index.units)'
      BY <1>1, <1>7, <1>8, <2>4 DEF Truth
    <3>2. Truth(good)' /\ NoneRunning(good)
      BY <1>5, <1>7, <1>8, <2>4 DEF Truth, NoneRunning
    <3>3. Committed(v)'
      BY <1>1, <1>5, <1>7, <2>2, <2>4, <3>2 DEF Committed
    <3> QED BY <2>2, <3>1, <3>3 DEF Stage
  <2> QED BY <1>1, <1>2, <1>3, <1>7, <1>8, <2>1, <2>3, <2>4, UnitMove
<1>9. CASE /\ applied' \in {applied, all}
           /\ Become(i, [Returns(w, doubt, "error") EXCEPT !.pc = "report"])
  <2>1. PICK v : v = [Returns(w, doubt, "error") EXCEPT !.pc = "report"]
    OBVIOUS
  <2>2. ASSUME ~unsaved
        PROVE  /\ \A u \in Units : applied'[u] <= 1
               /\ Truth(objs.index.units)' /\ Truth(doubt)' /\ NoneRunning(doubt)
    <3>1. \A u \in Units : applied'[u] <= 1 /\ (u \notin w.done => applied'[u] = applied[u])
      BY <1>3, <1>7, <1>9, <2>2
    <3>2. Truth(objs.index.units)'
      BY <1>1, <1>7, <2>2, <3>1 DEF Truth
    <3>3. Truth(doubt)' /\ NoneRunning(doubt)
      BY <1>6, <1>7, <2>2, <3>1 DEF Truth, NoneRunning
    <3> QED BY <3>1, <3>2, <3>3
  <2>3. applied' \in [Units -> Nat]
    BY <1>3, <1>9
  <2> QED BY <1>1, <1>2, <1>3, <1>9, <2>1, <2>2, <2>3, ReturnMove
<1> QED BY <1>2, <1>4, <1>5, <1>6, <1>8, <1>9 DEF CommitUnits

(* The units of a committed transaction are stored, or that could not be done. *)
LEMMA ReportDoneInv == ASSUME Inv, NEW i, ReportDone(i) PROVE Inv'
<1>1. /\ i \in Active /\ workers[i].pc = "reportdone"
      /\ UNCHANGED <<binding, attempts, lock, preview, applied, rows, migration, handlers, tx, unsaved>>
  BY DEF ReportDone, At, target
<1>2. PICK w : w = workers[i]
  OBVIOUS
<1>3. /\ w \in Workers /\ w.pc = "reportdone" /\ w.pc \in UnitPcs /\ w.units \in UnitFns
      /\ ~unsaved => /\ Committed(w) /\ Truth(objs.index.units)
                     /\ \A u \in Units : applied[u] <= 1
      /\ applied \in [Units -> Nat] /\ tx \in BOOLEAN
  BY <1>1, <1>2, AtStage DEF Stage, UnitPcs
<1>4. CASE Persist(w.units) /\ Become(i, Returns(w, w.units, "none"))
  <2>1. PICK v : v = Returns(w, w.units, "none")
    OBVIOUS
  <2>2. PICK units \in UnitFns : units = w.units
    BY <1>3
  <2>3. objs'.index.units = units
    BY <1>4, <2>2 DEF Persist, Inv, ControlInv, Typed, IndexRows
  <2>4. ~unsaved => Truth(units)' /\ NoneRunning(units)
    BY <1>1, <1>3, <2>2 DEF Committed, Truth
  <2>5. ~unsaved => Truth(objs.index.units)'
    BY <2>3, <2>4 DEF Truth
  <2> QED BY <1>1, <1>2, <1>3, <1>4, <2>1, <2>2, <2>4, <2>5, ReturnMove
<1>5. CASE Become(i, Returns(w, Settled(w, "unknown"), "error")) /\ UNCHANGED objs
  <2>1. PICK units \in UnitFns : units = Settled(w, "unknown") /\
           \A u \in Units : units[u] = IF u \in w.done THEN "unknown" ELSE w.units[u]
    BY <1>3, SettledFacts DEF UnitStates
  <2>2. PICK v : v = Returns(w, units, "error")
    OBVIOUS
  <2>3. ~unsaved => Truth(units)' /\ NoneRunning(units)
    BY <1>1, <1>3, <2>1 DEF Committed, Truth, NoneRunning
  <2>4. Truth(objs.index.units)' <=> Truth(objs.index.units)
    BY <1>1, <1>5 DEF Truth
  <2> QED BY <1>1, <1>2, <1>3, <1>5, <2>1, <2>2, <2>3, <2>4, ReturnMove
<1> QED BY <1>2, <1>4, <1>5 DEF ReportDone

(* The units are stored on the way out of a failure, or not. *)
LEMMA ReportInv == ASSUME Inv, NEW i, Report(i) PROVE Inv'
<1>1. /\ i \in Active /\ workers[i].pc = "report"
      /\ UNCHANGED <<binding, attempts, lock, preview, applied, rows, migration, handlers, tx, unsaved>>
      /\ Persist(workers[i].units) \/ UNCHANGED objs
      /\ Become(i, Returns(workers[i], workers[i].units, workers[i].why))
  BY DEF Report, At, target
<1>2. PICK w : w = workers[i]
  OBVIOUS
<1>3. /\ w \in Workers /\ w.pc = "report" /\ w.pc \in UnitPcs /\ w.units \in UnitFns
      /\ ~unsaved => /\ Decided(w) /\ Truth(objs.index.units)
                     /\ \A u \in Units : applied[u] <= 1
      /\ applied \in [Units -> Nat] /\ tx \in BOOLEAN
  BY <1>1, <1>2, AtStage DEF Stage, UnitPcs
<1>4. PICK units \in UnitFns : units = w.units
  BY <1>3
<1>5. PICK why \in {"none", "error", "cancelled"} : why = w.why
  BY <1>3 DEF Workers
<1>6. PICK v : v = Returns(w, units, why)
  OBVIOUS
<1>7. objs'.index.units = units \/ objs' = objs
  BY ZenonT(60), <1>1, <1>2, <1>4 DEF Persist, Inv, ControlInv, Typed, IndexRows
<1>8. ~unsaved => Truth(units)' /\ NoneRunning(units)
  BY <1>1, <1>3, <1>4 DEF Decided, Truth
<1>9. ~unsaved => Truth(objs.index.units)'
  BY <1>1, <1>3, <1>7, <1>8 DEF Truth
<1> QED BY <1>1, <1>2, <1>3, <1>4, <1>5, <1>6, <1>8, <1>9, ReturnMove

(* ExecuteRepair begins: what has not succeeded is selected. *)
LEMMA SelectingFacts ==
    ASSUME NEW w \in Workers, NEW units \in UnitFns, NEW v, v = Selecting(w, units),
           w.pc \notin {"check", "finish"}, w.kind = "recovery" => w.pre.related
    PROVE  /\ Follows(w, v) /\ v.units = units /\ v.done = {}
           /\ v.todo = {u \in Units : units[u] # "succeeded"}
           /\ v.pc \in {"next", "saverelated", "finish"}
<1>1. PICK todo \in SUBSET Units : todo = {u \in Units : units[u] # "succeeded"}
  OBVIOUS
<1>2. PICK pc \in {"next", "saverelated", "finish"} :
         /\ pc = IF todo # {} THEN "next" ELSE IF w.kind = "ddl" THEN "finish" ELSE "saverelated"
         /\ pc = "finish" => w.kind = "ddl"
         /\ pc = "saverelated" => w.kind # "ddl"
  OBVIOUS
<1>3. PICK why \in {"none", "error", "cancelled"} : why = IF todo # {} THEN w.why ELSE "error"
  BY DEF Workers
<1>4. v = [w EXCEPT !.pc = pc, !.why = why, !.units = units, !.todo = todo, !.done = {}]
  BY <1>1, <1>2, <1>3 DEF Selecting, Workers
<1>5. pc \in WorkerPcs
  BY <1>2 DEF WorkerPcs
<1>6. /\ v \in Workers /\ v.kind = w.kind /\ v.pre = w.pre /\ v.ver = w.ver /\ v.ctx = w.ctx
      /\ v.data = w.data /\ v.units = units /\ v.todo = todo /\ v.done = {} /\ v.pc = pc
      /\ w.kind \in {"ddl", "recovery"}
  BY ZenonT(60), <1>4, <1>5 DEF Workers
<1> QED BY <1>1, <1>2, <1>6 DEF Follows, Shaped, UnitPcs

(* ExecuteRepair up to its loop: what succeeded is not selected, the rest is to do. *)
LEMMA SelectMove ==
    ASSUME Inv, NEW i \in Active, NEW units \in UnitFns, Become(i, Selecting(workers[i], units)),
           workers[i].pc \notin {"check", "finish"},
           workers[i].kind = "recovery" => workers[i].pre.related,
           ~unsaved => units = objs.index.units /\ Clean(units),
           UNCHANGED <<objs, binding, attempts, lock, preview, applied, rows, migration, handlers, tx, unsaved>>
    PROVE  Inv'
<1>1. PICK w : w = workers[i]
  OBVIOUS
<1>2. w \in Workers /\ applied \in [Units -> Nat]
  BY <1>1, ActiveFacts DEF Inv, ControlInv, Typed
<1>3. PICK v : v = Selecting(w, units)
  OBVIOUS
<1>4. /\ Follows(w, v) /\ v.units = units /\ v.done = {}
      /\ v.todo = {u \in Units : units[u] # "succeeded"}
      /\ v.pc \in {"next", "saverelated", "finish"}
  BY <1>1, <1>2, <1>3, SelectingFacts
<1>5. ASSUME ~unsaved
      PROVE  /\ \A u \in Units : applied'[u] <= 1
             /\ Truth(objs.index.units)' /\ Stage(v)'
  <2>1. /\ \A u \in Units : applied[u] <= 1
        /\ Truth(objs.index.units) /\ units = objs.index.units
        /\ \A u \in Units : units[u] \notin {"unknown", "running"}
    BY <1>5 DEF Inv, UnitInv, Clean
  <2>2. Truth(units)' /\ Truth(objs.index.units)' /\ NoneRunning(units)
    BY <2>1 DEF Truth, NoneRunning
  <2>3. v.pc = "next" => Executing(v)'
    BY <1>4, <2>1, <2>2 DEF Executing
  <2>4. v.pc \in {"saverelated", "finish"} => Decided(v)'
    BY <1>4, <2>2 DEF Decided
  <2> QED BY <1>4, <2>1, <2>2, <2>3, <2>4 DEF Stage
<1> QED BY <1>1, <1>2, <1>3, <1>4, <1>5, UnitMove

-----------------------------------------------------------------------------
(* RunRecovery. *)

(* A step of a recovery before its units keeps everything, when what it stores of *)
(* the data is so.                                                                *)
LEMMA DataMove ==
    ASSUME Inv, NEW i \in Active, NEW v \in Workers, Become(i, v),
           workers[i].kind = "recovery", workers[i].pc \in Copied \ {"check"},
           v.pc \in (Copied \ {"check"}) \cup {"finish"},
           v.kind = "recovery", v.pre = workers[i].pre, v.ver = workers[i].ver, v.ctx = workers[i].ctx,
           v.data = workers[i].data \/ v.data \in DataStates,
           attempts' = attempts \/ \E r \in Results : Progress(i, r),
           objs' \in [table : TableRows, index : IndexRows], objs'.index = objs.index,
           TableMoves, rows' \in [Pages -> Nat],
           UNCHANGED <<binding, lock, preview, applied, migration, handlers, tx, unsaved>>,
           DataAfter(i, v)
    PROVE  Inv'
<1>1. /\ workers[i] \in Workers /\ ControlInv /\ LoadedInv /\ UnitInv /\ DataInv
      /\ applied \in [Units -> Nat] /\ unsaved \in BOOLEAN
  BY ActiveFacts DEF Inv, ControlInv, Typed
<1>2. Shaped(v)
  BY DEF Shaped, Copied, Before, UnitPcs
<1>3. Moves(i, v)
  BY <1>1, <1>2 DEF Moves, Copied, Before
<1>4. IndexMoves
  <2>1. objs.index.ver \in Nat
    BY <1>1 DEF ControlInv, Typed, IndexRows, Versions
  <2> QED BY <2>1 DEF IndexMoves
<1>5. ASSUME ~unsaved' PROVE UnitsAfter(v)
  <2>1. /\ ~unsaved /\ WorkerUnits(workers[i]) /\ \A u \in Units : applied[u] <= 1
        /\ Truth(objs.index.units)
        /\ objs.index.status # "running" => NoneRunning(objs.index.units)
    BY <1>1, <1>5 DEF UnitInv
  <2>2. objs.index.status # "running"
    BY <2>1 DEF WorkerUnits
  <2>3. Truth(objs.index.units)'
    BY <2>1 DEF Truth
  <2>4. WorkerUnits(v)'
    BY <2>2 DEF WorkerUnits, Copied, Before, UnitPcs
  <2> QED BY <2>1, <2>2, <2>3, <2>4 DEF UnitsAfter
<1>6. ControlInv' /\ LoadedInv' /\ UnitInv' /\ DataInv'
  BY <1>1, <1>3, <1>4, <1>5, MovesControl, MovesLoaded, MovesUnits, MovesData
<1> QED BY <1>6 DEF Inv

(* What a recovery knows before and while it copies. *)
LEMMA AtData ==
    ASSUME Inv, NEW i \in Active
    PROVE  /\ workers[i] \in Workers /\ WorkerData(workers[i]) /\ DataTruth
           /\ workers[i].kind = "recovery" =>
                /\ workers[i].pre \in Previews /\ LoadedPre(workers[i].pre)
                /\ workers[i].data \in DataStates
           /\ objs \in [table : TableRows, index : IndexRows] /\ rows \in [Pages -> Nat]
           /\ TableMoves \/ objs' # objs
           /\ workers[i].kind = attempts[i].kind
           /\ attempts[i].kind = "recovery" /\ attempts[i].result = "succeeded" =>
                AllOnce /\ workers[i].pc \notin Before
           /\ ~unsaved => WorkerUnits(workers[i])
           /\ Shaped(workers[i])
<1>1. workers[i] \in Workers /\ i \in Running /\ workers[i].kind = attempts[i].kind
  BY ActiveFacts DEF Inv
<1>2. objs \in [table : TableRows, index : IndexRows] /\ rows \in [Pages -> Nat]
  BY DEF Inv, ControlInv, Typed
<1>3. objs.table.ver \in Nat
  BY <1>2 DEF TableRows, Versions
<1>4. TableMoves \/ objs' # objs
  BY <1>3 DEF TableMoves
<1>5. WorkerData(workers[i]) /\ DataTruth /\ (~unsaved => WorkerUnits(workers[i]))
  BY DEF Inv, DataInv, UnitInv
<1>6. WorkerReviewed(workers[i])
  BY DEF Inv, ControlInv, ReviewInv
<1>7. workers[i].kind = "recovery" =>
         /\ workers[i].pre \in Previews /\ LoadedPre(workers[i].pre)
         /\ workers[i].data \in DataStates
  BY <1>6 DEF WorkerReviewed, Inv, LoadedInv
<1>8. attempts[i].kind = "recovery" /\ attempts[i].result = "succeeded" =>
         AllOnce /\ workers[i].pc \notin Before
  BY <1>1 DEF Inv, DataInv
<1> QED BY <1>1, <1>2, <1>4, <1>5, <1>6, <1>7, <1>8 DEF WorkerReviewed

(* A recovery ends before its data, or after it without units. *)
LEMMA EndMove ==
    ASSUME Inv, NEW i \in Active, NEW why \in {"none", "error", "cancelled"},
           Become(i, Ended(workers[i], why)),
           workers[i].kind = "recovery", workers[i].pc \in Copied \ {"check"},
           UNCHANGED <<objs, binding, attempts, lock, preview, applied, rows, migration, handlers, tx, unsaved>>
    PROVE  Inv'
<1>1. PICK w : w = workers[i]
  OBVIOUS
<1>2. /\ w \in Workers /\ WorkerData(w) /\ DataTruth
      /\ objs \in [table : TableRows, index : IndexRows] /\ rows \in [Pages -> Nat] /\ TableMoves
      /\ attempts[i].kind = "recovery" /\ attempts[i].result = "succeeded" => AllOnce
  BY <1>1, AtData
<1>3. PICK v : v = Ended(w, why)
  OBVIOUS
<1>4. /\ v \in Workers /\ v.pc = "finish" /\ v.kind = w.kind /\ v.pre = w.pre /\ v.ver = w.ver
      /\ v.ctx = w.ctx /\ v.data = w.data
  BY ZenonT(60), <1>2, <1>3 DEF Ended, Workers, WorkerPcs
<1>5. DataTruth' /\ (AllOnce => AllOnce')
  BY <1>2 DEF DataTruth, AllOnce
<1>6. WorkerData(v)'
  BY <1>2, <1>4, <1>5 DEF WorkerData, Before
<1>7. DataAfter(i, v)
  BY <1>2, <1>4, <1>5, <1>6 DEF DataAfter, Before
<1> QED BY <1>1, <1>2, <1>3, <1>4, <1>7, DataMove

(* A data step that stays in memory. *)
LEMMA ThinkMove ==
    ASSUME Inv, NEW i \in Active, NEW v \in Workers, Become(i, v),
           workers[i].kind = "recovery", workers[i].pc \in Before \ {"check"},
           v.pc \in Before \ {"check"}, v.kind = "recovery", v.pre = workers[i].pre,
           v.ver = workers[i].ver, v.ctx = workers[i].ctx, v.data = workers[i].data, WorkerData(v),
           UNCHANGED <<objs, binding, attempts, lock, preview, applied, rows, migration, handlers, tx, unsaved>>
    PROVE  Inv'
<1>1. /\ DataTruth /\ objs \in [table : TableRows, index : IndexRows] /\ rows \in [Pages -> Nat]
      /\ TableMoves
      /\ attempts[i].kind = "recovery" /\ attempts[i].result = "succeeded" =>
           AllOnce /\ workers[i].pc \notin Before
  BY AtData
<1>2. DataTruth' /\ WorkerData(v)'
  BY <1>1 DEF DataTruth, WorkerData, AllOnce, Loaded
<1>3. DataAfter(i, v)
  BY <1>1, <1>2 DEF DataAfter
<1> QED BY <1>1, <1>3, DataMove DEF Copied

(* The cancel stored before the worker was there is read. *)
LEMMA CheckCancelInv == ASSUME Inv, NEW i, CheckCancel(i) PROVE Inv'
<1>1. /\ i \in Active /\ workers[i].pc = "check"
      /\ UNCHANGED <<objs, binding, attempts, lock, preview, applied, rows, migration, handlers, tx, unsaved>>
  BY DEF CheckCancel, At, target, stored, Local
<1>2. PICK w : w = workers[i]
  OBVIOUS
<1>3. /\ w \in Workers /\ WorkerData(w) /\ DataTruth /\ w.pc = "check"
      /\ objs \in [table : TableRows, index : IndexRows] /\ rows \in [Pages -> Nat] /\ TableMoves
      /\ attempts[i].kind = "recovery" /\ attempts[i].result = "succeeded" => w.pc \notin Before
      /\ ~unsaved => WorkerUnits(w)
      /\ Shaped(w)
  BY <1>1, <1>2, AtData
<1>4. PICK ctx \in {"live", "cancelled"} : ctx = IF attempts[i].cancel THEN "cancelled" ELSE w.ctx
  BY <1>3 DEF Workers
<1>5. PICK v : v = [w EXCEPT !.pc = "open", !.ctx = ctx]
  OBVIOUS
<1>6. Become(i, v)
  BY <1>2, <1>3, <1>4, <1>5 DEF CheckCancel, Workers
<1>7. /\ v \in Workers /\ v.pc = "open" /\ v.ctx = ctx /\ v.kind = w.kind /\ v.units = w.units
      /\ v.ver = w.ver /\ v.pre = w.pre /\ v.truncate = w.truncate /\ v.data = w.data /\ v.res = w.res
      /\ v.page = w.page
  BY <1>3, <1>5 DEF Workers, WorkerPcs
<1>8. Moves(i, v)
  <2>1. Shaped(v)
    BY <1>3, <1>7 DEF Shaped, UnitPcs
  <2>2. applied \in [Units -> Nat] /\ unsaved \in BOOLEAN
    BY DEF Inv, ControlInv, Typed
  <2> QED BY <1>1, <1>2, <1>3, <1>4, <1>6, <1>7, <2>1, <2>2 DEF Moves
<1>9. IndexMoves
  <2>1. objs.index.ver \in Nat
    BY <1>3 DEF IndexRows, Versions
  <2> QED BY <1>1, <2>1 DEF IndexMoves
<1>10. ASSUME ~unsaved' PROVE UnitsAfter(v)
  <2>1. /\ ~unsaved /\ WorkerUnits(w) /\ \A u \in Units : applied[u] <= 1
        /\ Truth(objs.index.units)
        /\ objs.index.status # "running" => NoneRunning(objs.index.units)
    BY <1>1, <1>3, <1>10 DEF UnitInv, Inv
  <2>2. w.kind \in {"ddl", "recovery"}
    BY <1>3 DEF Workers
  <2>3. objs.index.status # "running"
    BY <1>3, <2>1, <2>2 DEF WorkerUnits, Copied, Before
  <2>4. Truth(objs.index.units)'
    BY <1>1, <2>1 DEF Truth
  <2>5. WorkerUnits(v)'
    BY <1>1, <1>3, <1>7, <2>1, <2>3 DEF WorkerUnits, Copied, Before, UnitPcs
  <2> QED BY <1>1, <2>1, <2>3, <2>4, <2>5 DEF UnitsAfter
<1>11. DataAfter(i, v)
  <2>1. DataTruth' /\ WorkerData(v)'
    BY <1>1, <1>3, <1>7 DEF DataTruth, WorkerData, AllOnce, Loaded, Before
  <2> QED BY <1>1, <1>3, <2>1 DEF DataAfter, Before
<1>12. ControlInv' /\ LoadedInv' /\ UnitInv' /\ DataInv'
  BY <1>3, <1>8, <1>9, <1>10, <1>11, MovesControl, MovesLoaded, MovesUnits, MovesData DEF Inv
<1> QED BY <1>12 DEF Inv

(* The connections are there, or not. *)
LEMMA OpenTargetInv == ASSUME Inv, NEW i, OpenTarget(i) PROVE Inv'
<1>1. /\ i \in Active /\ workers[i].pc = "open"
      /\ UNCHANGED <<objs, binding, attempts, lock, preview, applied, rows, migration, handlers, tx, unsaved>>
  BY DEF OpenTarget, At, target, stored, Local
<1>2. PICK w : w = workers[i]
  OBVIOUS
<1>3. /\ w \in Workers /\ WorkerData(w) /\ w.pc = "open" /\ Shaped(w)
      /\ ~unsaved => WorkerUnits(w)
  BY <1>1, <1>2, AtData
<1>4. w.kind \in {"ddl", "recovery"}
  BY <1>3 DEF Workers
<1>5. \/ Become(i, IF w.kind = "ddl" THEN Selecting(w, w.units) ELSE [w EXCEPT !.pc = "recheck"])
      \/ Become(i, Ended(w, "error"))
  BY <1>2 DEF OpenTarget
<1>6. CASE w.kind = "ddl"
  <2>1. PICK units \in UnitFns : units = w.units
    BY <1>3, <1>6 DEF Shaped
  <2>2. ~unsaved => units = objs.index.units /\ Clean(units)
    BY <1>3, <1>6, <2>1 DEF WorkerUnits
  <2>3. CASE Become(i, Selecting(w, units))
    BY <1>1, <1>2, <1>3, <1>6, <2>2, <2>3, SelectMove
  <2>4. CASE Become(i, Ended(w, "error"))
    <3>1. PICK v : v = Ended(w, "error")
      OBVIOUS
    <3>2. /\ v \in Workers /\ v.pc = "finish" /\ v.kind = w.kind /\ v.pre = w.pre /\ v.ver = w.ver
          /\ v.ctx = w.ctx /\ v.data = w.data /\ v.units = w.units
      BY <1>3, <3>1 DEF Ended, Workers, WorkerPcs
    <3>3. Follows(w, v)
      BY <1>3, <1>6, <2>1, <3>2 DEF Follows, Shaped, UnitPcs
    <3>4. applied \in [Units -> Nat]
      BY DEF Inv, ControlInv, Typed
    <3>5. ASSUME ~unsaved
          PROVE  /\ \A u \in Units : applied'[u] <= 1
                 /\ Truth(objs.index.units)' /\ Stage(v)'
      <4>1. Truth(objs.index.units) /\ \A u \in Units : applied[u] <= 1
        BY <3>5 DEF Inv, UnitInv
      <4>2. Truth(objs.index.units)' /\ Truth(units)' /\ NoneRunning(units)
        BY <1>1, <2>2, <3>5, <4>1 DEF Truth, Clean, NoneRunning
      <4> QED BY <1>1, <2>1, <3>2, <4>1, <4>2 DEF Stage, Decided
    <3> QED BY <1>1, <1>2, <2>4, <3>1, <3>3, <3>4, <3>5, UnitMove
  <2> QED BY <1>5, <1>6, <2>1, <2>3, <2>4
<1>7. CASE w.kind = "recovery"
  <2>1. CASE Become(i, [w EXCEPT !.pc = "recheck"])
    <3>1. PICK v : v = [w EXCEPT !.pc = "recheck"]
      OBVIOUS
    <3>2. /\ v \in Workers /\ v.pc = "recheck" /\ v.kind = w.kind /\ v.pre = w.pre /\ v.ver = w.ver
          /\ v.ctx = w.ctx /\ v.data = w.data /\ v.res = w.res /\ v.page = w.page /\ v.truncate = w.truncate
      BY <1>3, <3>1 DEF Workers, WorkerPcs
    <3>3. WorkerData(v)
      BY <1>3, <1>7, <3>2 DEF WorkerData, Before
    <3> QED BY <1>1, <1>2, <1>3, <1>7, <2>1, <3>1, <3>2, <3>3, ThinkMove DEF Before
  <2>2. CASE Become(i, Ended(w, "error"))
    BY <1>1, <1>2, <1>3, <1>7, <2>2, EndMove DEF Copied, Before
  <2> QED BY <1>5, <1>7, <2>1, <2>2
<1> QED BY <1>4, <1>6, <1>7

(* Who is at a step of a recovery. *)
LEMMA AtRecovery ==
    ASSUME Inv, NEW i, NEW pc, At(i, pc),
           pc \in {"recheck", "run", "progress", "truncate", "copy", "result", "publish", "related",
                   "saverelated"}
    PROVE  /\ i \in Active /\ workers[i] \in Workers /\ workers[i].pc = pc
           /\ workers[i].kind = "recovery" /\ WorkerData(workers[i]) /\ DataTruth
           /\ workers[i].pre \in Previews /\ LoadedPre(workers[i].pre) /\ workers[i].data \in DataStates
           /\ objs \in [table : TableRows, index : IndexRows] /\ rows \in [Pages -> Nat]
           /\ attempts[i].result = "succeeded" => AllOnce /\ pc \notin Before
           /\ attempts[i].kind = "recovery"
           /\ objs.table.ver \in Nat
<1>1. i \in Active /\ workers[i].pc = pc
  BY DEF At
<1>2. workers[i].kind = "recovery"
  BY <1>1, AtData DEF Shaped, UnitPcs, Workers
<1>3. objs.table.ver \in Nat
  BY <1>1, AtData DEF TableRows, Versions
<1> QED BY <1>1, <1>2, <1>3, AtData

(* The rows are counted again. *)
LEMMA RecheckInv == ASSUME Inv, NEW i, Recheck(i) PROVE Inv'
<1>1. /\ At(i, "recheck")
      /\ UNCHANGED <<objs, binding, attempts, lock, preview, applied, rows, migration, handlers, tx, unsaved>>
  BY DEF Recheck, target, stored, Local
<1>2. PICK w : w = workers[i]
  OBVIOUS
<1>3. i \in Active /\ w \in Workers /\ w.pc = "recheck" /\ w.kind = "recovery" /\ WorkerData(w)
  BY <1>1, <1>2, AtRecovery
<1>4. \/ Become(i, Ended(w, "cancelled")) \/ Become(i, Ended(w, "error"))
      \/ Become(i, [w EXCEPT !.pc = "run"])
  BY <1>2 DEF Recheck
<1>5. CASE Become(i, Ended(w, "cancelled")) \/ Become(i, Ended(w, "error"))
  BY <1>1, <1>2, <1>3, <1>5, EndMove DEF Copied, Before
<1>6. CASE Become(i, [w EXCEPT !.pc = "run"])
  <2>1. PICK v : v = [w EXCEPT !.pc = "run"]
    OBVIOUS
  <2>2. /\ v \in Workers /\ v.pc = "run" /\ v.kind = w.kind /\ v.pre = w.pre /\ v.ver = w.ver
        /\ v.ctx = w.ctx /\ v.data = w.data /\ v.res = w.res /\ v.page = w.page /\ v.truncate = w.truncate
    BY <1>3, <2>1 DEF Workers, WorkerPcs
  <2>3. WorkerData(v)
    BY <1>3, <2>2 DEF WorkerData, Before
  <2> QED BY <1>1, <1>2, <1>3, <1>6, <2>1, <2>2, <2>3, ThinkMove DEF Before
<1> QED BY <1>4, <1>5, <1>6

(* A worker whose recovery has a result. *)
LEMMA ResultFacts ==
    ASSUME NEW w \in Workers, NEW why \in {"none", "error", "cancelled"}, NEW v, v = Result(w, why)
    PROVE  /\ v \in Workers /\ v.pc = "result" /\ v.why = why /\ v.kind = w.kind /\ v.pre = w.pre
           /\ v.ver = w.ver /\ v.ctx = w.ctx /\ v.data = w.data /\ v.res = w.res
           /\ v.page = w.page /\ v.truncate = w.truncate
BY DEF Result, Workers, WorkerPcs

(* A recovery that stops before anything was written. *)
LEMMA StopMove ==
    ASSUME Inv, NEW i, NEW why \in {"error", "cancelled"}, NEW pc, At(i, pc),
           pc \in {"run", "progress", "copy"}, Become(i, Result(workers[i], why)),
           UNCHANGED <<objs, binding, attempts, lock, preview, applied, rows, migration, handlers, tx, unsaved>>
    PROVE  Inv'
<1>1. PICK w : w = workers[i]
  OBVIOUS
<1>2. i \in Active /\ w \in Workers /\ w.pc = pc /\ w.kind = "recovery" /\ WorkerData(w)
  BY <1>1, AtRecovery
<1>3. PICK v : v = Result(w, why)
  OBVIOUS
<1>4. /\ v \in Workers /\ v.pc = "result" /\ v.why = why /\ v.kind = w.kind /\ v.pre = w.pre
      /\ v.ver = w.ver /\ v.ctx = w.ctx /\ v.data = w.data /\ v.res = w.res
  BY <1>2, <1>3, ResultFacts
<1>5. WorkerData(v)
  BY <1>2, <1>4 DEF WorkerData, Before
<1> QED BY <1>1, <1>2, <1>3, <1>4, <1>5, ThinkMove DEF Before

(* A table shown as loaded is not loaded again; any other is empty, or will be truncated. *)
LEMMA RunRecoveryInv == ASSUME Inv, NEW i, RunRecovery(i) PROVE Inv'
<1>1. /\ At(i, "run")
      /\ UNCHANGED <<objs, binding, attempts, lock, preview, applied, rows, migration, handlers, tx, unsaved>>
  BY DEF RunRecovery, target, stored, Local
<1>2. PICK w : w = workers[i]
  OBVIOUS
<1>3. /\ i \in Active /\ w \in Workers /\ w.pc = "run" /\ w.kind = "recovery" /\ WorkerData(w)
      /\ w.pre \in Previews /\ LoadedPre(w.pre) /\ DataTruth /\ rows \in [Pages -> Nat]
  BY <1>1, <1>2, AtRecovery
<1>4. w.pre.ver = objs.table.ver /\ w.res = "running" /\ w.page = 0 /\ w.data = objs.table.data
  BY <1>3 DEF WorkerData, Before
<1>5. w.pre.required <=> objs.table.data # "succeeded"
  BY <1>3, <1>4 DEF LoadedPre
<1>6. \/ Become(i, Result(w, "cancelled")) \/ Become(i, Result(w, "error"))
      \/ /\ Same(w) /\ ~(w.pre.required /\ w.pre.rows > 0 /\ ~w.truncate) /\ w.pre.required
         /\ Become(i, [w EXCEPT !.pc = "progress"])
      \/ ~w.pre.required /\ Become(i, [Result(w, "none") EXCEPT !.res = "succeeded"])
  BY <1>2 DEF RunRecovery
<1>7. CASE Become(i, Result(w, "cancelled")) \/ Become(i, Result(w, "error"))
  BY <1>1, <1>2, <1>7, StopMove
<1>8. CASE /\ Same(w) /\ ~(w.pre.required /\ w.pre.rows > 0 /\ ~w.truncate) /\ w.pre.required
           /\ Become(i, [w EXCEPT !.pc = "progress"])
  <2>1. PICK v : v = [w EXCEPT !.pc = "progress"]
    OBVIOUS
  <2>2. /\ v \in Workers /\ v.pc = "progress" /\ v.kind = w.kind /\ v.pre = w.pre /\ v.ver = w.ver
        /\ v.ctx = w.ctx /\ v.data = w.data /\ v.res = w.res /\ v.page = w.page /\ v.truncate = w.truncate
    BY <1>3, <2>1 DEF Workers, WorkerPcs
  <2>3. ~w.truncate => Loaded(0)
    <3> SUFFICES ASSUME ~w.truncate PROVE Loaded(0)
      OBVIOUS
    <3>1. w.pre.rows \in Nat
      BY <1>3 DEF Previews
    <3>2. Count(rows) = 0
      BY <1>8, <3>1 DEF Same
    <3>3. \A p \in Pages : rows[p] = 0
      BY <1>3, <3>2, Counting
    <3>4. \A p \in Pages : ~(p <= 0)
      BY RepairAssumption DEF Pages
    <3> QED BY <3>3, <3>4 DEF Loaded
  <2>4. WorkerData(v)
    BY <1>3, <1>4, <1>8, <2>2, <2>3 DEF WorkerData, Before
  <2> QED BY <1>1, <1>2, <1>3, <1>8, <2>1, <2>2, <2>4, ThinkMove DEF Before
<1>9. CASE ~w.pre.required /\ Become(i, [Result(w, "none") EXCEPT !.res = "succeeded"])
  <2>1. PICK r : r = Result(w, "none")
    OBVIOUS
  <2>2. /\ r \in Workers /\ r.pc = "result" /\ r.why = "none" /\ r.kind = w.kind /\ r.pre = w.pre
        /\ r.ver = w.ver /\ r.ctx = w.ctx /\ r.data = w.data
    BY <1>3, <2>1, ResultFacts
  <2>3. PICK v : v = [r EXCEPT !.res = "succeeded"]
    OBVIOUS
  <2>4. /\ v \in Workers /\ v.pc = "result" /\ v.kind = w.kind /\ v.pre = w.pre
        /\ v.ver = w.ver /\ v.ctx = w.ctx /\ v.data = w.data
    BY <2>2, <2>3 DEF Workers
  <2>5. AllOnce
    BY <1>3, <1>5, <1>9 DEF DataTruth, AllOnce
  <2>6. WorkerData(v)
    BY <1>3, <1>4, <2>4, <2>5, <2>3, <2>2 DEF WorkerData, Before, Workers
  <2> QED BY <1>1, <1>2, <1>3, <1>9, <2>1, <2>3, <2>4, <2>6, ThinkMove DEF Before
<1> QED BY <1>6, <1>7, <1>8, <1>9

(* While a table is loaded it is not shown as loaded. *)
LEMMA Loading ==
    ASSUME Inv, NEW i, NEW pc \in {"progress", "truncate", "copy"}, At(i, pc)
    PROVE  /\ objs.table.data # "succeeded" /\ workers[i].data # "succeeded"
           /\ workers[i].res = "running" /\ attempts[i].result # "succeeded"
           /\ workers[i].pre.ver = objs.table.ver /\ workers[i].pre.required
           /\ workers[i].data = objs.table.data
<1>1. /\ i \in Active /\ workers[i].pc = pc /\ workers[i].kind = "recovery"
      /\ WorkerData(workers[i]) /\ LoadedPre(workers[i].pre)
      /\ attempts[i].result = "succeeded" => pc \notin Before
  BY AtRecovery
<1>2. /\ workers[i].pre.ver = objs.table.ver /\ workers[i].pre.required
      /\ workers[i].data = objs.table.data /\ workers[i].res = "running"
  BY <1>1 DEF WorkerData, Before
<1> QED BY <1>1, <1>2 DEF LoadedPre, Before

(* The progress of a load never says that it is complete. *)
LEMMA StoreProgressInv == ASSUME Inv, NEW i, StoreProgress(i) PROVE Inv'
<1>1. /\ At(i, "progress")
      /\ UNCHANGED <<objs, binding, lock, preview, applied, rows, migration, handlers, tx, unsaved>>
  BY DEF StoreProgress, target
<1>2. PICK w0 : w0 = workers[i]
  OBVIOUS
<1>3. /\ i \in Active /\ w0 \in Workers /\ w0.pc = "progress" /\ w0.kind = "recovery" /\ WorkerData(w0)
      /\ w0.pre \in Previews /\ rows \in [Pages -> Nat] /\ w0.data \in DataStates
      /\ objs \in [table : TableRows, index : IndexRows] /\ objs.table.ver \in Nat
  BY <1>1, <1>2, AtRecovery
<1>4. /\ objs.table.data # "succeeded" /\ w0.data # "succeeded" /\ w0.res = "running"
      /\ attempts[i].result # "succeeded" /\ w0.pre.ver = objs.table.ver /\ w0.pre.required
      /\ w0.data = objs.table.data
  BY <1>1, <1>2, Loading
<1>5. PICK w : w = [w0 EXCEPT !.told = w0.res]
  OBVIOUS
<1>6. /\ w \in Workers /\ w.pc = w0.pc /\ w.kind = w0.kind /\ w.pre = w0.pre /\ w.ver = w0.ver
      /\ w.ctx = w0.ctx /\ w.data = w0.data /\ w.res = w0.res /\ w.page = w0.page
      /\ w.truncate = w0.truncate
  BY <1>3, <1>4, <1>5 DEF Workers
<1>7. TableMoves /\ DataTruth'
  BY <1>1, <1>3, <1>4 DEF TableMoves, DataTruth
<1>8. CASE /\ Progress(i, w.res)
           /\ Become(i, [w EXCEPT !.pc = IF w.page = 0 /\ w.truncate THEN "truncate" ELSE "copy"])
  <2>1. PICK pc \in {"truncate", "copy"} :
           pc = IF w.page = 0 /\ w.truncate THEN "truncate" ELSE "copy"
    OBVIOUS
  <2>2. PICK v : v = [w EXCEPT !.pc = pc]
    OBVIOUS
  <2>3. /\ v \in Workers /\ v.pc = pc /\ v.kind = w.kind /\ v.pre = w.pre /\ v.ver = w.ver
        /\ v.ctx = w.ctx /\ v.data = w.data /\ v.res = w.res /\ v.page = w.page /\ v.truncate = w.truncate
    BY <1>6, <2>1, <2>2 DEF Workers, WorkerPcs
  <2>4. Become(i, v)
    BY <1>8, <2>1, <2>2
  <2>5. v.page \in Nat
    BY <2>3, RepairAssumption DEF Workers
  <2>6. pc = "truncate" => v.page = 0
    BY <2>1, <2>3
  <2>7. pc = "copy" => Loaded(v.page)
    BY <1>3, <1>6, <2>1, <2>3, <2>5 DEF WorkerData
  <2>8. WorkerData(v)'
    <3>1. Loaded(v.page) => Loaded(v.page)'
      BY <1>1 DEF Loaded
    <3> QED BY <1>1, <1>3, <1>4, <1>6, <2>1, <2>3, <2>6, <2>7, <3>1 DEF WorkerData, Before
  <2>9. attempts'[i].result = "running"
    <3>1. i \in DOMAIN attempts /\ attempts[i] \in Attempts
      BY <1>3, ActiveFacts DEF Inv
    <3> QED BY <1>4, <1>6, <1>8, <3>1 DEF Progress, Attempts
  <2>10. DataAfter(i, v)
    BY <1>7, <2>8, <2>9 DEF DataAfter
  <2>11. \E r \in Results : Progress(i, r)
    BY <1>4, <1>6, <1>8 DEF Results
  <2> QED BY <1>1, <1>2, <1>3, <1>6, <1>7, <2>1, <2>3, <2>4, <2>10, <2>11, DataMove DEF Copied, Before
<1>9. CASE Become(i, Result(w, "error")) /\ UNCHANGED attempts
  <2>1. PICK v : v = Result(w, "error")
    OBVIOUS
  <2>2. /\ v \in Workers /\ v.pc = "result" /\ v.why = "error" /\ v.kind = w.kind /\ v.pre = w.pre
        /\ v.ver = w.ver /\ v.ctx = w.ctx /\ v.data = w.data /\ v.res = w.res
    BY <1>6, <2>1, ResultFacts
  <2>3. WorkerData(v)
    BY <1>3, <1>4, <1>6, <2>2 DEF WorkerData, Before
  <2> QED BY <1>1, <1>2, <1>3, <1>6, <1>9, <2>1, <2>2, <2>3, ThinkMove DEF Before
<1> QED BY <1>2, <1>5, <1>8, <1>9 DEF StoreProgress

(* A step that writes to the table while it is loaded. *)
LEMMA LoadMove ==
    ASSUME Inv, NEW i, NEW pc \in {"truncate", "copy"}, At(i, pc), NEW v \in Workers, Become(i, v),
           v.kind = workers[i].kind, v.pre = workers[i].pre, v.ver = workers[i].ver,
           v.ctx = workers[i].ctx, v.data = workers[i].data, v.res = workers[i].res,
           v.pc \in {"progress", "copy", "result"},
           v.pc = "result" => v.why # "none",
           v.pc # "result" => Loaded(v.page)',
           rows' \in [Pages -> Nat],
           UNCHANGED <<objs, binding, attempts, lock, preview, applied, migration, handlers, tx, unsaved>>
    PROVE  Inv'
<1>1. /\ i \in Active /\ workers[i].pc = pc /\ workers[i].kind = "recovery"
      /\ objs \in [table : TableRows, index : IndexRows] /\ objs.table.ver \in Nat
  BY AtRecovery
<1>2. /\ objs.table.data # "succeeded" /\ workers[i].data # "succeeded" /\ workers[i].res = "running"
      /\ attempts[i].result # "succeeded" /\ workers[i].pre.ver = objs.table.ver
      /\ workers[i].pre.required /\ workers[i].data = objs.table.data
  BY Loading
<1>3. TableMoves /\ DataTruth'
  BY <1>1, <1>2 DEF TableMoves, DataTruth
<1>4. WorkerData(v)'
  BY <1>1, <1>2 DEF WorkerData, Before
<1>5. DataAfter(i, v)
  BY <1>2, <1>3, <1>4 DEF DataAfter
<1> QED BY <1>1, <1>2, <1>3, <1>5, DataMove DEF Copied, Before

(* The table is truncated, or that is not known. *)
LEMMA TruncateInv == ASSUME Inv, NEW i, Truncate(i) PROVE Inv'
<1>1. /\ At(i, "truncate")
      /\ UNCHANGED <<objs, binding, attempts, lock, preview, applied, migration, handlers, tx, unsaved>>
  BY DEF Truncate, stored
<1>2. PICK w : w = workers[i]
  OBVIOUS
<1>3. w \in Workers /\ w.pc = "truncate" /\ rows \in [Pages -> Nat] /\ WorkerData(w)
  BY <1>1, <1>2, AtRecovery
<1>4. PICK none \in [Pages -> Nat] : none = [p \in Pages |-> 0]
  OBVIOUS
<1>5. CASE rows' = none /\ Become(i, [w EXCEPT !.pc = "copy"])
  <2>1. PICK v : v = [w EXCEPT !.pc = "copy"]
    OBVIOUS
  <2>2. /\ v \in Workers /\ v.pc = "copy" /\ v.kind = w.kind /\ v.pre = w.pre /\ v.ver = w.ver
        /\ v.ctx = w.ctx /\ v.data = w.data /\ v.res = w.res /\ v.page = w.page
    BY <1>3, <2>1 DEF Workers, WorkerPcs
  <2>3. v.page = 0
    BY <1>3, <2>2 DEF WorkerData
  <2>4. \A p \in Pages : ~(p <= 0)
    BY RepairAssumption DEF Pages
  <2>5. Loaded(v.page)'
    BY <1>4, <1>5, <2>3, <2>4 DEF Loaded
  <2> QED BY <1>1, <1>2, <1>5, <2>1, <2>2, <2>5, LoadMove
<1>6. CASE rows' \in {rows, none} /\ Become(i, Result(w, "error"))
  <2>1. PICK v : v = Result(w, "error")
    OBVIOUS
  <2>2. /\ v \in Workers /\ v.pc = "result" /\ v.why = "error" /\ v.kind = w.kind /\ v.pre = w.pre
        /\ v.ver = w.ver /\ v.ctx = w.ctx /\ v.data = w.data /\ v.res = w.res
    BY <1>3, <2>1, ResultFacts
  <2> QED BY <1>1, <1>2, <1>3, <1>6, <2>1, <2>2, LoadMove
<1> QED BY <1>2, <1>4, <1>5, <1>6 DEF Truncate

(* A page is committed, or that is not known. *)
LEMMA CopyPageInv == ASSUME Inv, NEW i, CopyPage(i) PROVE Inv'
<1>1. /\ At(i, "copy") /\ workers[i].page < NumPages
      /\ UNCHANGED <<objs, binding, attempts, lock, preview, applied, migration, handlers, tx, unsaved>>
  BY DEF CopyPage, stored
<1>2. PICK w : w = workers[i]
  OBVIOUS
<1>3. w \in Workers /\ w.pc = "copy" /\ rows \in [Pages -> Nat] /\ WorkerData(w)
  BY <1>1, <1>2, AtRecovery
<1>4. w.page \in Nat /\ w.page + 1 \in Pages /\ w.page + 1 \in 0 .. NumPages /\ Pages \subseteq Nat
  BY <1>1, <1>2, <1>3, RepairAssumption DEF Workers, Pages
<1>5. PICK loaded \in [Pages -> Nat] : loaded = [rows EXCEPT ![w.page + 1] = @ + 1]
  <2>1. PICK p \in Pages : p = w.page + 1
    BY <1>4
  <2>2. [rows EXCEPT ![p] = @ + 1] \in [Pages -> Nat]
    BY <1>3
  <2> QED BY <2>1, <2>2
<1>6. CASE rows' = loaded /\ Become(i, [w EXCEPT !.pc = "progress", !.page = @ + 1])
  <2>1. PICK v : v = [w EXCEPT !.pc = "progress", !.page = @ + 1]
    OBVIOUS
  <2>2. /\ v \in Workers /\ v.pc = "progress" /\ v.kind = w.kind /\ v.pre = w.pre /\ v.ver = w.ver
        /\ v.ctx = w.ctx /\ v.data = w.data /\ v.res = w.res /\ v.page = w.page + 1
    BY <1>3, <1>4, <2>1 DEF Workers, WorkerPcs
  <2>3. Loaded(w.page)
    BY <1>3 DEF WorkerData
  <2>4. Loaded(v.page)'
    BY <1>3, <1>4, <1>5, <1>6, <2>2, <2>3 DEF Loaded
  <2> QED BY <1>1, <1>2, <1>6, <2>1, <2>2, <2>4, LoadMove
<1>7. CASE rows' \in {rows, loaded} /\ Become(i, [Result(w, "error") EXCEPT !.open = TRUE])
  <2>1. PICK r : r = Result(w, "error")
    OBVIOUS
  <2>2. /\ r \in Workers /\ r.pc = "result" /\ r.why = "error" /\ r.kind = w.kind /\ r.pre = w.pre
        /\ r.ver = w.ver /\ r.ctx = w.ctx /\ r.data = w.data /\ r.res = w.res
    BY <1>3, <2>1, ResultFacts
  <2>3. PICK v : v = [r EXCEPT !.open = TRUE]
    OBVIOUS
  <2>4. /\ v \in Workers /\ v.pc = "result" /\ v.why = "error" /\ v.kind = w.kind /\ v.pre = w.pre
        /\ v.ver = w.ver /\ v.ctx = w.ctx /\ v.data = w.data /\ v.res = w.res
    BY <2>2, <2>3 DEF Workers
  <2> QED BY <1>1, <1>2, <1>3, <1>7, <2>1, <2>3, <2>4, LoadMove
<1> QED BY <1>2, <1>5, <1>6, <1>7 DEF CopyPage

(* Every page is loaded, and the counts agree. *)
LEMMA VerifyInv == ASSUME Inv, NEW i, Verify(i) PROVE Inv'
<1>1. /\ At(i, "copy") /\ workers[i].page = NumPages
      /\ UNCHANGED <<objs, binding, attempts, lock, preview, applied, rows, migration, handlers, tx, unsaved>>
  BY DEF Verify, stored, target, Local
<1>2. PICK w : w = workers[i]
  OBVIOUS
<1>3. /\ i \in Active /\ w \in Workers /\ w.pc = "copy" /\ w.kind = "recovery" /\ WorkerData(w)
      /\ rows \in [Pages -> Nat]
  BY <1>1, <1>2, AtRecovery
<1>4. PICK done : done = [w EXCEPT !.res = "succeeded"]
  OBVIOUS
<1>5. /\ done \in Workers /\ done.kind = w.kind /\ done.pre = w.pre /\ done.pc = w.pc
      /\ done.ver = w.ver /\ done.ctx = w.ctx /\ done.data = w.data /\ done.res = "succeeded"
  BY <1>3, <1>4 DEF Workers
<1>6. \/ Become(i, Result(w, "cancelled")) \/ Become(i, Result(w, "error"))
      \/ \E why \in {"none", "error"} : Become(i, Result(done, why))
  BY <1>2, <1>4 DEF Verify
<1>7. CASE Become(i, Result(w, "cancelled")) \/ Become(i, Result(w, "error"))
  BY <1>1, <1>2, <1>7, StopMove
<1>8. CASE \E why \in {"none", "error"} : Become(i, Result(done, why))
  <2>1. PICK why \in {"none", "error", "cancelled"} : Become(i, Result(done, why))
    BY <1>8
  <2>2. PICK v : v = Result(done, why)
    OBVIOUS
  <2>3. /\ v \in Workers /\ v.pc = "result" /\ v.why = why /\ v.kind = w.kind /\ v.pre = w.pre
        /\ v.ver = w.ver /\ v.ctx = w.ctx /\ v.data = w.data /\ v.res = "succeeded"
    BY <1>5, <2>2, ResultFacts
  <2>4. AllOnce
    <3>1. Loaded(NumPages)
      BY <1>1, <1>2, <1>3 DEF WorkerData
    <3> QED BY <3>1, RepairAssumption DEF Loaded, AllOnce, Pages
  <2>5. WorkerData(v)
    BY <1>3, <2>3, <2>4 DEF WorkerData, Before
  <2> QED BY <1>1, <1>2, <1>3, <2>1, <2>2, <2>3, <2>5, ThinkMove DEF Before
<1> QED BY <1>6, <1>7, <1>8

(* The result of a load is stored, or becomes unknown. *)
LEMMA StoreResultInv == ASSUME Inv, NEW i, StoreResult(i) PROVE Inv'
<1>1. /\ At(i, "result")
      /\ UNCHANGED <<objs, binding, lock, preview, applied, rows, migration, handlers, tx, unsaved>>
  BY DEF StoreResult, target
<1>2. PICK w : w = workers[i]
  OBVIOUS
<1>3. /\ i \in Active /\ w \in Workers /\ w.pc = "result" /\ w.kind = "recovery" /\ WorkerData(w)
      /\ rows \in [Pages -> Nat] /\ w.data \in DataStates /\ DataTruth
      /\ objs \in [table : TableRows, index : IndexRows] /\ objs.table.ver \in Nat
      /\ attempts[i].result = "succeeded" => AllOnce
  BY <1>1, <1>2, AtRecovery
<1>4. \A open \in BOOLEAN : /\ DataStatus(i, open) \in DataStates
                            /\ DataStatus(i, open) = "succeeded" => w.res = "succeeded" \/ w.data = "succeeded"
  BY <1>2, <1>3 DEF DataStatus, DataStates
<1>5. \E data \in DataStates, why \in {"none", "error", "cancelled"} :
         /\ data = "succeeded" => w.res = "succeeded" \/ w.data = "succeeded"
         /\ Become(i, [w EXCEPT !.pc = "publish", !.told = w.res, !.why = why, !.data = data])
         /\ Progress(i, w.res) \/ UNCHANGED attempts
  <2>1. PICK why \in {"none", "error", "cancelled"} : why = IF w.why = "none" /\ Cancelled(i) THEN "cancelled" ELSE w.why
    BY <1>3 DEF Workers
  <2>2. w.open \in BOOLEAN
    BY <1>3 DEF Workers
  <2>3. CASE /\ Progress(i, w.res)
             /\ Become(i, [w EXCEPT !.pc = "publish", !.told = w.res, !.why = why, !.data = DataStatus(i, w.open)])
    BY <1>4, <2>2, <2>3
  <2>4. CASE /\ UNCHANGED attempts
             /\ Become(i, [w EXCEPT !.pc = "publish", !.told = w.res, !.why = "error", !.data = DataStatus(i, TRUE)])
    BY <1>4, <2>4
  <2> QED BY <1>2, <2>1, <2>3, <2>4 DEF StoreResult
<1>6. PICK data \in DataStates, why \in {"none", "error", "cancelled"} :
         /\ data = "succeeded" => w.res = "succeeded" \/ w.data = "succeeded"
         /\ Become(i, [w EXCEPT !.pc = "publish", !.told = w.res, !.why = why, !.data = data])
         /\ Progress(i, w.res) \/ UNCHANGED attempts
  BY <1>5
<1>7. PICK v : v = [w EXCEPT !.pc = "publish", !.told = w.res, !.why = why, !.data = data]
  OBVIOUS
<1>8. /\ v \in Workers /\ v.pc = "publish" /\ v.kind = w.kind /\ v.pre = w.pre
      /\ v.ver = w.ver /\ v.ctx = w.ctx /\ v.data = data
  BY <1>3, <1>7 DEF Workers, WorkerPcs
<1>9. (w.res = "succeeded" => AllOnce) /\ (w.data = "succeeded" => AllOnce)
  BY <1>3 DEF WorkerData
<1>10. AllOnce => AllOnce'
  BY <1>1 DEF AllOnce
<1>11. TableMoves /\ DataTruth'
  BY <1>1, <1>3 DEF TableMoves, DataTruth
<1>12. WorkerData(v)'
  BY <1>6, <1>8, <1>9, <1>10 DEF WorkerData, Before
<1>13. attempts'[i].result = "succeeded" => AllOnce'
  <2>1. i \in DOMAIN attempts /\ attempts[i] \in Attempts
    BY <1>3, ActiveFacts DEF Inv
  <2>2. attempts'[i].result = w.res \/ attempts'[i].result = attempts[i].result
    BY <1>6, <2>1 DEF Progress, Attempts
  <2> QED BY <1>3, <1>9, <1>10, <2>2
<1>14. DataAfter(i, v)
  BY <1>8, <1>11, <1>12, <1>13 DEF DataAfter, Before
<1>15. attempts' = attempts \/ \E r \in Results : Progress(i, r)
  BY <1>3, <1>6 DEF Results, Workers
<1> QED BY <1>1, <1>2, <1>3, <1>6, <1>7, <1>8, <1>11, <1>14, <1>15, DataMove DEF Copied, Before

(* The data status of the table is stored with its new version, or not. *)
LEMMA PublishInv == ASSUME Inv, NEW i, Publish(i) PROVE Inv'
<1>1. /\ At(i, "publish")
      /\ UNCHANGED <<binding, attempts, lock, preview, applied, rows, migration, handlers, tx, unsaved>>
  BY DEF Publish, target
<1>2. PICK w : w = workers[i]
  OBVIOUS
<1>3. /\ i \in Active /\ w \in Workers /\ w.pc = "publish" /\ w.kind = "recovery" /\ WorkerData(w)
      /\ rows \in [Pages -> Nat] /\ w.data \in DataStates /\ DataTruth
      /\ objs \in [table : TableRows, index : IndexRows] /\ objs.table.ver \in Nat
      /\ attempts[i].result = "succeeded" => AllOnce
  BY <1>1, <1>2, AtRecovery
<1>4. w.data = "succeeded" => AllOnce
  BY <1>3 DEF WorkerData
<1>5. AllOnce => AllOnce'
  BY <1>1 DEF AllOnce
<1>6. CASE /\ objs' = [objs EXCEPT !.table.data = w.data, !.table.ver = @ + 1]
           /\ Become(i, IF w.why = "none" THEN [w EXCEPT !.pc = "related"] ELSE Ended(w, w.why))
  <2>1. PICK v : v = IF w.why = "none" THEN [w EXCEPT !.pc = "related"] ELSE Ended(w, w.why)
    OBVIOUS
  <2>2. /\ v \in Workers /\ v.pc \in {"related", "finish"} /\ v.kind = w.kind /\ v.pre = w.pre
        /\ v.ver = w.ver /\ v.ctx = w.ctx /\ v.data = w.data
    BY ZenonT(60), <1>3, <2>1 DEF Workers, WorkerPcs, Ended
  <2>3. PICK o : o = [objs.table EXCEPT !.data = w.data, !.ver = @ + 1]
    OBVIOUS
  <2>4. o \in TableRows /\ o.data = w.data /\ o.ver = objs.table.ver + 1
    <3>1. objs.table.ver + 1 \in Versions
      BY <1>3 DEF Versions
    <3>2. objs.table \in TableRows
      BY <1>3
    <3> QED BY <1>3, <2>3, <3>1, <3>2 DEF TableRows
  <2>5. objs' = [objs EXCEPT !.table = o]
    BY <1>3, <1>6, <2>3
  <2>6. /\ objs' \in [table : TableRows, index : IndexRows] /\ objs'.index = objs.index
        /\ objs'.table = o
    BY <1>3, <2>4, <2>5
  <2>7. TableMoves /\ DataTruth'
    BY <1>3, <1>4, <1>5, <2>4, <2>6 DEF TableMoves, DataTruth, AllOnce
  <2>8. WorkerData(v)'
    BY <1>4, <1>5, <2>2 DEF WorkerData, Before
  <2>9. DataAfter(i, v)
    BY <1>1, <1>3, <1>5, <2>2, <2>7, <2>8 DEF DataAfter, Before
  <2> QED BY <1>1, <1>2, <1>3, <1>6, <2>1, <2>2, <2>6, <2>7, <2>9, DataMove DEF Copied, Before
<1>7. CASE Become(i, Ended(w, "error")) /\ UNCHANGED objs
  BY <1>1, <1>2, <1>3, <1>7, EndMove DEF Copied
<1> QED BY <1>2, <1>6, <1>7 DEF Publish

(* The units of the selected object are those of its preview. *)
LEMMA RelatedInv == ASSUME Inv, NEW i, Related(i) PROVE Inv'
<1>1. /\ At(i, "related")
      /\ UNCHANGED <<objs, binding, attempts, lock, preview, applied, rows, migration, handlers, tx, unsaved>>
  BY DEF Related, stored, target, Local
<1>2. PICK w : w = workers[i]
  OBVIOUS
<1>3. /\ i \in Active /\ w \in Workers /\ w.pc = "related" /\ w.kind = "recovery"
      /\ w.pre \in Previews /\ LoadedPre(w.pre)
  BY <1>1, <1>2, AtRecovery
<1>4. CASE Become(i, Ended(w, "none")) \/ Become(i, Ended(w, "cancelled"))
  BY <1>1, <1>2, <1>3, <1>4, EndMove DEF Copied
<1>5. CASE w.pre.related /\ Become(i, Selecting(w, w.pre.index.units))
  <2>1. PICK units \in UnitFns : units = w.pre.index.units
    BY <1>3 DEF Previews, IndexRows
  <2>2. objs.index.ver = w.pre.index.ver
    BY <1>2, <1>3, <1>5 DEF Inv, ControlInv, ReviewInv, WorkerReviewed
  <2>3. ~unsaved => objs.index.status # "running"
    BY <1>2, <1>3 DEF Inv, UnitInv, WorkerUnits, Copied
  <2>4. ~unsaved => units = objs.index.units /\ Clean(units)
    BY <1>3, <1>5, <2>1, <2>2, <2>3 DEF LoadedPre, LoadedIndex
  <2> QED BY <1>1, <1>2, <1>3, <1>5, <2>1, <2>4, SelectMove
<1> QED BY <1>2, <1>4, <1>5 DEF Related

(* What finishRepair stores of the units. *)
LEMMA FinalFacts == ASSUME NEW w PROVE FinalStatus(w) \in Statuses \ {"running"}
BY DEF FinalStatus, Statuses

(* The outcome of a related object is stored, or lost. *)
LEMMA SaveRelatedInv == ASSUME Inv, NEW i, SaveRelated(i) PROVE Inv'
<1>1. /\ At(i, "saverelated")
      /\ UNCHANGED <<binding, attempts, lock, preview, applied, rows, migration, handlers, tx>>
  BY DEF SaveRelated, target
<1>2. PICK w : w = workers[i]
  OBVIOUS
<1>3. /\ i \in Active /\ w \in Workers /\ w.pc = "saverelated" /\ w.kind = "recovery" /\ WorkerData(w)
      /\ rows \in [Pages -> Nat] /\ w.data \in DataStates /\ DataTruth
      /\ objs \in [table : TableRows, index : IndexRows] /\ objs.table.ver \in Nat
      /\ attempts[i].result = "succeeded" => AllOnce
  BY <1>1, <1>2, AtRecovery
<1>4. /\ ~unsaved => Decided(w)
      /\ w.units \in UnitFns /\ objs.index.ver \in Nat
      /\ applied \in [Units -> Nat] /\ unsaved \in BOOLEAN
  <2>1. w.units \in UnitFns
    BY <1>2, <1>3, AtData DEF Shaped
  <2>2. ~unsaved => Decided(w)
    BY <1>2, <1>3, AtData DEF WorkerUnits
  <2>3. objs.index.ver \in Nat
    BY <1>3 DEF IndexRows, Versions
  <2> QED BY <2>1, <2>2, <2>3 DEF Inv, ControlInv, Typed
<1>5. PICK why \in {"none", "error", "cancelled"} :
         Become(i, Ended(w, why)) /\
           \/ /\ objs' = [objs EXCEPT !.index.units = w.units, !.index.status = FinalStatus(w), !.index.ver = @ + 1]
              /\ unsaved' = unsaved
           \/ objs' = objs /\ unsaved' = TRUE
  <2>1. w.why \in {"none", "error", "cancelled"}
    BY <1>3 DEF Workers
  <2> QED BY <1>2, <2>1 DEF SaveRelated
<1>6. PICK v : v = Ended(w, why)
  OBVIOUS
<1>7. /\ v \in Workers /\ v.pc = "finish" /\ v.kind = w.kind /\ v.pre = w.pre /\ v.ver = w.ver
      /\ v.ctx = w.ctx /\ v.data = w.data
  BY <1>3, <1>6 DEF Ended, Workers, WorkerPcs
<1>8. PICK o : o = [objs.index EXCEPT !.units = w.units, !.status = FinalStatus(w), !.ver = @ + 1]
  OBVIOUS
<1>9. /\ o \in IndexRows /\ o.units = w.units /\ o.status # "running" /\ o.ver = objs.index.ver + 1
  <2>1. objs.index.ver + 1 \in Versions
    BY <1>4 DEF Versions
  <2>2. objs.index \in IndexRows
    BY <1>3
  <2>3. PICK s \in Statuses \ {"running"} : s = FinalStatus(w)
    BY FinalFacts
  <2> QED BY <1>4, <1>8, <2>1, <2>2, <2>3 DEF IndexRows
<1>10. \/ objs' = [objs EXCEPT !.index = o] /\ unsaved' = unsaved
       \/ objs' = objs /\ unsaved' = TRUE
  BY <1>3, <1>5, <1>8
<1>11. /\ objs' \in [table : TableRows, index : IndexRows] /\ objs'.table = objs.table
       /\ (objs'.index = o /\ unsaved' = unsaved) \/ (objs' = objs /\ unsaved' = TRUE)
  BY <1>3, <1>9, <1>10
<1>12. Moves(i, v)
  <2>1. Shaped(v)
    BY <1>3, <1>7 DEF Shaped, UnitPcs
  <2> QED BY <1>1, <1>2, <1>3, <1>4, <1>5, <1>6, <1>7, <1>11, <2>1 DEF Moves
<1>13. IndexMoves /\ TableMoves
  BY <1>3, <1>4, <1>9, <1>11 DEF IndexMoves, TableMoves
<1>14. ASSUME ~unsaved' PROVE UnitsAfter(v)
  <2>1. ~unsaved /\ objs'.index = o /\ \A u \in Units : applied[u] <= 1
    BY <1>11, <1>14 DEF Inv, UnitInv
  <2>2. Truth(objs.index.units)' /\ NoneRunning(objs'.index.units)
    BY <1>1, <1>4, <1>9, <2>1 DEF Decided, Truth
  <2>3. WorkerUnits(v)'
    BY <1>3, <1>7 DEF WorkerUnits, UnitPcs, Copied, Before
  <2> QED BY <1>1, <1>9, <2>1, <2>2, <2>3 DEF UnitsAfter
<1>15. DataAfter(i, v)
  <2>1. AllOnce => AllOnce'
    BY <1>1 DEF AllOnce
  <2>2. DataTruth'
    BY <1>1, <1>3, <1>11 DEF DataTruth
  <2>3. WorkerData(v)'
    BY <1>3, <1>7, <2>1 DEF WorkerData, Before
  <2> QED BY <1>1, <1>3, <1>7, <2>1, <2>2, <2>3 DEF DataAfter, Before
<1>16. ControlInv' /\ LoadedInv' /\ UnitInv' /\ DataInv'
  BY <1>12, <1>13, <1>14, <1>15, MovesControl, MovesLoaded, MovesUnits, MovesData DEF Inv
<1> QED BY <1>16 DEF Inv

(* A worker whose context ends is the same worker. *)
SameButCtx(w, v) ==
    /\ v \in Workers /\ v.pc = w.pc /\ v.kind = w.kind /\ v.units = w.units /\ v.ver = w.ver
    /\ v.todo = w.todo /\ v.done = w.done /\ v.cur = w.cur /\ v.pre = w.pre /\ v.truncate = w.truncate
    /\ v.data = w.data /\ v.res = w.res /\ v.page = w.page /\ v.why = w.why /\ v.ctx = "cancelled"

(* What holds of a worker holds of it once its context has ended. *)
LEMMA SameWorker ==
    ASSUME NEW w, NEW v, SameButCtx(w, v)
    PROVE  /\ Shaped(w) => Shaped(v)
           /\ WorkerUnits(w) => WorkerUnits(v)
           /\ WorkerData(w) => WorkerData(v)
           /\ WorkerReviewed(w) => WorkerReviewed(v)
<1>1. Shaped(w) => Shaped(v)
  BY DEF SameButCtx, Shaped
<1>2. (Executing(w) => Executing(v)) /\ (Committed(w) => Committed(v)) /\ (Decided(w) => Decided(v))
  BY DEF SameButCtx, Executing, Committed, Decided
<1>3. WorkerUnits(w) => WorkerUnits(v)
  BY <1>2 DEF SameButCtx, WorkerUnits
<1>4. WorkerData(w) => WorkerData(v)
  BY DEF SameButCtx, WorkerData
<1>5. WorkerReviewed(w) => WorkerReviewed(v)
  BY <1>1 DEF SameButCtx, WorkerReviewed
<1> QED BY <1>1, <1>3, <1>4, <1>5

(* The worker's two hours are over. *)
LEMMA DeadlineInv == ASSUME Inv, NEW i, Deadline(i) PROVE Inv'
<1>1. /\ i \in Active
      /\ UNCHANGED <<objs, binding, attempts, lock, preview, applied, rows, migration, handlers, tx, unsaved>>
  BY DEF Deadline, target, stored, Local
<1>2. PICK w : w = workers[i]
  OBVIOUS
<1>3. /\ w \in Workers /\ WorkerData(w) /\ DataTruth
      /\ objs \in [table : TableRows, index : IndexRows] /\ rows \in [Pages -> Nat] /\ TableMoves
      /\ attempts[i].kind = "recovery" /\ attempts[i].result = "succeeded" => AllOnce /\ w.pc \notin Before
      /\ ~unsaved => WorkerUnits(w)
      /\ Shaped(w)
  BY <1>1, <1>2, AtData
<1>4. PICK v : v = [w EXCEPT !.ctx = "cancelled"]
  OBVIOUS
<1>5. Become(i, v)
  BY <1>1, <1>2, <1>4 DEF Deadline, Become, Active
<1>6. SameButCtx(w, v)
  BY <1>3, <1>4 DEF Workers, SameButCtx
<1>7. Shaped(v) /\ WorkerData(v) /\ (~unsaved => WorkerUnits(v))
  BY <1>3, <1>6, SameWorker
<1>8. Moves(i, v)
  <2>1. applied \in [Units -> Nat] /\ unsaved \in BOOLEAN
    BY DEF Inv, ControlInv, Typed
  <2> QED BY <1>1, <1>2, <1>3, <1>5, <1>6, <1>7, <2>1 DEF Moves, SameButCtx
<1>9. IndexMoves
  <2>1. objs.index.ver \in Nat
    BY <1>3 DEF IndexRows, Versions
  <2> QED BY <1>1, <2>1 DEF IndexMoves
<1>10. ASSUME ~unsaved' PROVE UnitsAfter(v)
  <2>1. /\ ~unsaved /\ WorkerUnits(v) /\ \A u \in Units : applied[u] <= 1
        /\ Truth(objs.index.units)
        /\ objs.index.status # "running" => NoneRunning(objs.index.units)
        /\ objs.index.status = "running" => \E j \in Running : Changing(j)
    BY <1>1, <1>7, <1>10 DEF UnitInv, Inv
  <2>2. objs.index.status = "running" => v.kind = "ddl" \/ v.pc \in UnitPcs \cup {"saverelated"}
    <3>1. /\ \A j \in Running : j = i
          /\ workers[i].kind = attempts[i].kind
      BY <1>1, ActiveFacts, Alone DEF Inv
    <3> QED BY <1>2, <1>6, <2>1, <3>1 DEF Changing, SameButCtx
  <2>3. Truth(objs.index.units)'
    BY <1>1, <2>1 DEF Truth
  <2>4. WorkerUnits(v)'
    BY <1>1, <2>1 DEF WorkerUnits, Executing, Committed, Decided, Truth
  <2> QED BY <1>1, <2>1, <2>2, <2>3, <2>4 DEF UnitsAfter
<1>11. DataAfter(i, v)
  <2>1. DataTruth' /\ WorkerData(v)'
    BY <1>1, <1>3, <1>7 DEF DataTruth, WorkerData, AllOnce, Loaded
  <2>2. AllOnce => AllOnce'
    BY <1>1 DEF AllOnce
  <2> QED BY <1>1, <1>3, <1>6, <2>1, <2>2 DEF DataAfter, SameButCtx
<1>12. ControlInv' /\ LoadedInv' /\ UnitInv' /\ DataInv'
  BY <1>3, <1>8, <1>9, <1>10, <1>11, MovesControl, MovesLoaded, MovesUnits, MovesData DEF Inv
<1> QED BY <1>12 DEF Inv

-----------------------------------------------------------------------------
(* The end of an attempt. *)

(* FinishRepairAttempt releases the lock with the attempt. *)
LEMMA StoreMove ==
    ASSUME Inv, NEW i \in Active, Store(i, objs'),
           objs' \in [table : TableRows, index : IndexRows], unsaved' \in BOOLEAN,
           IndexMoves, TableMoves, DataTruth',
           ~unsaved' => /\ ~unsaved /\ Truth(objs.index.units)' /\ NoneRunning(objs'.index.units)
                        /\ objs'.index.status # "running",
           UNCHANGED <<binding, preview, applied, rows, migration, handlers, tx>>
    PROVE  Inv'
<1>1. /\ i \in DOMAIN workers /\ i \in DOMAIN attempts /\ i \in Running /\ lock = i
      /\ attempts[i] \in Attempts /\ i # NoOwner /\ i # MigrationJob
      /\ \A j \in Running : j = i
      /\ \A j \in Active : j = i
      /\ migration = "idle"
  BY ActiveFacts, Alone DEF Inv, NoOwner, MigrationJob
<1>2. /\ workers \in Seq(Workers \cup {Gone, Lost}) /\ attempts \in Seq(Attempts)
      /\ Len(workers) = Len(attempts) /\ DOMAIN workers = 1 .. Len(workers)
      /\ DOMAIN attempts = 1 .. Len(attempts)
  BY DEF Inv, ControlInv, Typed
<1>3. /\ attempts' = [attempts EXCEPT ![i].status = "ended"]
      /\ workers' = [workers EXCEPT ![i] = Gone] /\ lock' = NoOwner
  BY <1>1 DEF Store, Become
<1>4. PICK a : a = [attempts[i] EXCEPT !.status = "ended"]
  OBVIOUS
<1>5. a \in Attempts /\ a.status = "ended"
  BY <1>1, <1>4 DEF Attempts
<1>6. attempts' = [attempts EXCEPT ![i] = a]
  BY <1>3, <1>4
<1>7. /\ attempts' \in Seq(Attempts) /\ Len(attempts') = Len(attempts)
      /\ DOMAIN attempts' = DOMAIN attempts /\ attempts'[i] = a
      /\ \A j \in DOMAIN attempts : j # i => attempts'[j] = attempts[j]
  BY <1>1, <1>2, <1>5, <1>6
<1>8. /\ workers' \in Seq(Workers \cup {Gone, Lost}) /\ Len(workers') = Len(workers)
      /\ DOMAIN workers' = DOMAIN workers /\ workers'[i] = Gone
      /\ \A j \in DOMAIN workers : j # i => workers'[j] = workers[j]
  BY <1>1, <1>2, <1>3
<1>9. Running' = {}
  BY <1>1, <1>5, <1>7 DEF Running
<1>10. Active' = {}
  BY <1>1, <1>8 DEF Active
<1>11. \A g \in Handlers : ~Starting(g) /\ ~Starting(g)'
  <2>1. \A g \in Handlers : ~Starting(g)
    BY <1>1 DEF Inv, ControlInv, LockInv, Active
  <2> QED BY <2>1 DEF Starting
<1>12. Typed'
  BY <1>3, <1>7, <1>8 DEF Inv, ControlInv, Typed, NoOwner
<1>13. LockInv'
  <2>1. \A j \in DOMAIN workers' : workers'[j] = Gone
    <3> SUFFICES ASSUME NEW j \in DOMAIN workers, j # i, workers[j] # Gone PROVE FALSE
      BY <1>8
    <3> QED BY <1>1 DEF Inv, ControlInv, LockInv
  <2>2. \A j \in DOMAIN attempts' : j # lock'
    BY <1>2, <1>3, <1>7 DEF NoOwner
  <2> QED BY <1>1, <1>3, <1>9, <1>10, <1>11, <2>1, <2>2 DEF LockInv
<1>14. ReviewInv' /\ CancelReaches'
  BY <1>9, <1>10, <1>11 DEF ReviewInv, CancelReaches
<1>15. LoadedInv'
  <2>1. /\ \A p \in Previews : LoadedPre(p) => LoadedPre(p)'
        /\ \A x \in HandlerStates : LoadedHandler(x) => LoadedHandler(x)'
    BY LoadedKeeps DEF Inv, ControlInv
  <2>2. handlers \in [Handlers -> HandlerStates] /\ preview \in {NoPreview} \cup Previews
    BY DEF Inv, ControlInv, Typed, Pres
  <2>3. \A g \in Handlers : LoadedHandler(handlers[g])'
    BY <2>1, <2>2 DEF Inv, LoadedInv
  <2>4. (preview # NoPreview)' => LoadedPre(preview)'
    BY <2>1, <2>2 DEF Inv, LoadedInv
  <2> QED BY <1>10, <2>3, <2>4 DEF LoadedInv
<1>16. UnitInv'
  <2> SUFFICES ASSUME ~unsaved' PROVE UnitInv'
    BY DEF UnitInv
  <2>1. \A u \in Units : applied[u] <= 1
    BY DEF Inv, UnitInv
  <2> QED BY <1>10, <1>11, <2>1 DEF UnitInv
<1>17. DataInv'
  BY <1>9, <1>10 DEF DataInv
<1> QED BY <1>12, <1>13, <1>14, <1>15, <1>16, <1>17 DEF Inv, ControlInv

(* The transaction failed: the attempt stays running, with its lock. *)
LEMMA LoseMove ==
    ASSUME Inv, NEW i \in Active, Lose(i), unsaved' \in BOOLEAN, unsaved => unsaved',
           ~unsaved' /\ objs.index.status = "running" => workers[i].kind = "ddl",
           UNCHANGED <<binding, preview, applied, rows, migration, handlers, tx>>
    PROVE  Inv'
<1>1. /\ i \in DOMAIN workers /\ i \in DOMAIN attempts /\ i \in Running
      /\ \A j \in Running : j = i
      /\ \A j \in Active : j = i
      /\ workers[i].kind = attempts[i].kind
  BY ActiveFacts, Alone DEF Inv
<1>2. /\ workers \in Seq(Workers \cup {Gone, Lost})
      /\ Len(workers) = Len(attempts) /\ DOMAIN workers = 1 .. Len(workers)
  BY DEF Inv, ControlInv, Typed
<1>3. /\ workers' = [workers EXCEPT ![i] = Lost] /\ attempts' = attempts /\ objs' = objs /\ lock' = lock
  BY DEF Lose, Become
<1>4. /\ workers' \in Seq(Workers \cup {Gone, Lost}) /\ Len(workers') = Len(workers)
      /\ DOMAIN workers' = DOMAIN workers /\ workers'[i] = Lost
      /\ \A j \in DOMAIN workers : j # i => workers'[j] = workers[j]
  BY <1>1, <1>2, <1>3
<1>5. Running' = Running /\ Active' = {} /\ Lost # Gone
  BY <1>1, <1>3, <1>4 DEF Running, Active, Lost, Gone
<1>6. \A g \in Handlers : ~Starting(g) /\ ~Starting(g)'
  <2>1. \A g \in Handlers : ~Starting(g)
    BY <1>1 DEF Inv, ControlInv, LockInv, Active
  <2> QED BY <2>1 DEF Starting
<1>7. Typed'
  BY <1>3, <1>4 DEF Inv, ControlInv, Typed
<1>8. LockInv'
  BY <1>1, <1>3, <1>4, <1>5, <1>6 DEF Inv, ControlInv, LockInv
<1>9. ReviewInv' /\ CancelReaches'
  BY <1>3, <1>5, <1>6 DEF Inv, ControlInv, ReviewInv, CancelReaches
<1>10. LoadedInv'
  <2>1. objs \in [table : TableRows, index : IndexRows] /\ objs.index.ver \in Nat /\ objs.table.ver \in Nat
    BY DEF Inv, ControlInv, Typed, IndexRows, TableRows, Versions
  <2>2. IndexMoves /\ TableMoves
    BY <1>3, <2>1 DEF IndexMoves, TableMoves
  <2>3. /\ \A p \in Previews : LoadedPre(p) => LoadedPre(p)'
        /\ \A x \in HandlerStates : LoadedHandler(x) => LoadedHandler(x)'
    BY <1>3, <2>1, <2>2, LoadedKeeps DEF Inv, ControlInv
  <2>4. handlers \in [Handlers -> HandlerStates] /\ preview \in {NoPreview} \cup Previews
    BY DEF Inv, ControlInv, Typed, Pres
  <2>5. \A g \in Handlers : LoadedHandler(handlers[g])'
    BY <2>3, <2>4 DEF Inv, LoadedInv
  <2>6. (preview # NoPreview)' => LoadedPre(preview)'
    BY <2>3, <2>4 DEF Inv, LoadedInv
  <2> QED BY <1>5, <2>5, <2>6 DEF LoadedInv
<1>11. UnitInv'
  <2> SUFFICES ASSUME ~unsaved' PROVE UnitInv'
    BY DEF UnitInv
  <2>1. /\ \A u \in Units : applied[u] <= 1
        /\ Truth(objs.index.units)
        /\ objs.index.status # "running" => NoneRunning(objs.index.units)
    BY DEF Inv, UnitInv
  <2>2. Truth(objs.index.units)'
    BY <1>3, <2>1 DEF Truth
  <2>3. objs.index.status = "running" => Changing(i)'
    BY <1>1, <1>3, <1>4, <1>5 DEF Changing
  <2> QED BY <1>1, <1>3, <1>5, <1>6, <2>1, <2>2, <2>3 DEF UnitInv
<1>12. DataInv'
  <2>1. DataTruth' /\ (AllOnce => AllOnce')
    BY <1>3 DEF Inv, DataInv, DataTruth, AllOnce
  <2> QED BY <1>3, <1>5, <2>1 DEF Inv, DataInv
<1> QED BY <1>7, <1>8, <1>9, <1>10, <1>11, <1>12 DEF Inv, ControlInv

(* Who may have the units of the object in work. *)
LEMMA NotChanging ==
    ASSUME Inv, NEW i \in Active, workers[i].kind = "recovery",
           workers[i].pc \notin UnitPcs \cup {"saverelated"}, ~unsaved
    PROVE  objs.index.status # "running"
<1>1. /\ \A j \in Running : j = i
      /\ workers[i].kind = attempts[i].kind
  BY ActiveFacts, Alone DEF Inv
<1> QED BY <1>1 DEF Inv, UnitInv, Changing

(* The rows of the two objects, and rows with a result and the next version. *)
LEMMA RowTypes ==
    ASSUME Inv
    PROVE  /\ objs \in [table : TableRows, index : IndexRows]
           /\ objs.index.ver \in Nat /\ objs.table.ver \in Nat
           /\ objs.index.ver + 1 \in Versions /\ objs.table.ver + 1 \in Versions
           /\ objs.index.units \in UnitFns /\ objs.table.data \in DataStates
           /\ objs.index.status \in Statuses
<1>1. /\ objs \in [table : TableRows, index : IndexRows]
      /\ objs.index.ver \in Nat /\ objs.table.ver \in Nat
      /\ objs.index.units \in UnitFns /\ objs.table.data \in DataStates
      /\ objs.index.status \in Statuses
  BY DEF Inv, ControlInv, Typed, IndexRows, TableRows, Versions
<1> QED BY <1>1 DEF Versions

(* The rows with the units and the status of the object replaced. *)
IndexNow(units, s) == [objs EXCEPT !.index.units = units, !.index.status = s, !.index.ver = @ + 1]

(* The rows after an attempt on the object is stored. *)
LEMMA IndexRow ==
    ASSUME Inv, NEW units \in UnitFns, NEW s \in Statuses, NEW o, o = IndexNow(units, s)
    PROVE  /\ o \in [table : TableRows, index : IndexRows]
           /\ o.table = objs.table /\ o.index.units = units /\ o.index.status = s
           /\ o.index.ver = objs.index.ver + 1
<1>1. PICK r : r = [objs.index EXCEPT !.units = units, !.status = s, !.ver = @ + 1]
  OBVIOUS
<1>2. r \in IndexRows /\ r.units = units /\ r.status = s /\ r.ver = objs.index.ver + 1
  BY <1>1, RowTypes DEF IndexRows
<1>3. o = [objs EXCEPT !.index = r]
  BY <1>1, RowTypes DEF IndexNow
<1> QED BY <1>2, <1>3, RowTypes

(* The rows after an outcome of the table is stored. *)
LEMMA TableRow ==
    ASSUME Inv, NEW d \in DataStates, NEW o,
           o = [objs EXCEPT !.table.data = d, !.table.ver = @ + 1]
    PROVE  /\ o \in [table : TableRows, index : IndexRows]
           /\ o.index = objs.index /\ o.table.data = d
           /\ o.table.ver = objs.table.ver + 1
<1>1. PICK r : r = [objs.table EXCEPT !.data = d, !.ver = @ + 1]
  OBVIOUS
<1>2. r \in TableRows /\ r.data = d /\ r.ver = objs.table.ver + 1
  BY <1>1, RowTypes DEF TableRows
<1>3. o = [objs EXCEPT !.table = r]
  BY <1>1, RowTypes
<1> QED BY <1>2, <1>3, RowTypes

(* finishRepair stores what the worker knows. *)
LEMMA FinishInv == ASSUME Inv, NEW i, Finish(i) PROVE Inv'
<1>1. /\ i \in Active /\ workers[i].pc = "finish"
      /\ UNCHANGED <<binding, preview, applied, rows, migration, handlers, tx, unsaved>>
  BY DEF Finish, At, target
<1>2. PICK w : w = workers[i]
  OBVIOUS
<1>3. /\ w \in Workers /\ w.pc = "finish" /\ WorkerData(w) /\ DataTruth /\ Shaped(w)
      /\ ~unsaved => WorkerUnits(w)
      /\ w.kind = "recovery" => w.data \in DataStates
      /\ unsaved \in BOOLEAN /\ w.kind \in {"ddl", "recovery"}
  BY <1>1, <1>2, AtData DEF Inv, ControlInv, Typed, Workers
<1>4. CASE Lose(i)
  <2>1. ~unsaved /\ objs.index.status = "running" => workers[i].kind = "ddl"
    BY <1>1, <1>2, <1>3, NotChanging DEF UnitPcs
  <2> QED BY <1>1, <1>3, <1>4, <2>1, LoseMove
<1>5. CASE /\ w.kind = "ddl"
           /\ Store(i, [objs EXCEPT !.index.units = w.units, !.index.status = FinalStatus(w), !.index.ver = @ + 1])
  <2>1. PICK units \in UnitFns : units = w.units
    BY <1>3, <1>5 DEF Shaped
  <2>2. PICK s \in Statuses : s = FinalStatus(w) /\ s # "running"
    BY FinalFacts
  <2>3. objs' = [objs EXCEPT !.index.units = units, !.index.status = s, !.index.ver = @ + 1]
    BY <1>5, <2>1, <2>2 DEF Store
  <2>4. /\ objs' \in [table : TableRows, index : IndexRows]
        /\ objs'.table = objs.table /\ objs'.index.units = units /\ objs'.index.status = s
        /\ objs'.index.ver = objs.index.ver + 1
    <3>1. PICK o : o = IndexNow(units, s)
      OBVIOUS
    <3>2. /\ o \in [table : TableRows, index : IndexRows]
          /\ o.table = objs.table /\ o.index.units = units /\ o.index.status = s
          /\ o.index.ver = objs.index.ver + 1
      BY <3>1, IndexRow
    <3> QED BY <2>3, <3>1, <3>2 DEF IndexNow
  <2>5. IndexMoves /\ TableMoves
    BY <1>1, <2>4, RowTypes DEF IndexMoves, TableMoves
  <2>6. DataTruth'
    BY <1>1, <1>3, <2>4 DEF DataTruth
  <2>7. ~unsaved => Truth(objs.index.units)' /\ NoneRunning(objs'.index.units)
    BY <1>1, <1>3, <1>5, <2>1, <2>4 DEF WorkerUnits, Decided, Truth
  <2>8. Store(i, objs')
    BY <1>5, <2>1, <2>2, <2>3
  <2> QED BY <1>1, <1>3, <2>2, <2>4, <2>5, <2>6, <2>7, <2>8, StoreMove
<1>6. CASE /\ w.kind = "recovery"
           /\ Store(i, [objs EXCEPT !.table.data = w.data, !.table.ver = @ + 1])
  <2>1. PICK d \in DataStates : d = w.data
    BY <1>3, <1>6
  <2>2. objs' = [objs EXCEPT !.table.data = d, !.table.ver = @ + 1]
    BY <1>6, <2>1 DEF Store
  <2>3. /\ objs' \in [table : TableRows, index : IndexRows]
        /\ objs'.index = objs.index /\ objs'.table.data = d
        /\ objs'.table.ver = objs.table.ver + 1
    BY <2>2, TableRow
  <2>4. IndexMoves /\ TableMoves
    BY <1>1, <2>3, RowTypes DEF IndexMoves, TableMoves
  <2>5. DataTruth'
    BY <1>1, <1>3, <1>6, <2>1, <2>3 DEF DataTruth, WorkerData, AllOnce
  <2>6. ~unsaved => objs.index.status # "running"
    BY <1>1, <1>2, <1>6, NotChanging DEF UnitPcs
  <2>7. ~unsaved => Truth(objs.index.units) /\ NoneRunning(objs.index.units)
    BY <2>6 DEF Inv, UnitInv
  <2>8. ~unsaved => Truth(objs.index.units)' /\ NoneRunning(objs'.index.units)
    BY <1>1, <2>3, <2>7 DEF Truth
  <2>9. Store(i, objs')
    BY <1>6, <2>1, <2>2
  <2> QED BY <1>1, <1>3, <2>3, <2>4, <2>5, <2>6, <2>8, <2>9, StoreMove
<1> QED BY <1>2, <1>3, <1>4, <1>5, <1>6 DEF Finish

(* Units whose state was not reported. *)
LEMMA DoubtfulFacts ==
    ASSUME NEW units \in UnitFns
    PROVE  /\ Doubtful(units) \in UnitFns /\ NoneRunning(Doubtful(units))
           /\ Truth(units) => Truth(Doubtful(units))
           /\ NoneRunning(units) => Doubtful(units) = units
<1>1. /\ DOMAIN units = Units /\ Doubtful(units) \in UnitFns
      /\ \A u \in Units : Doubtful(units)[u] = IF units[u] = "running" THEN "unknown" ELSE units[u]
  BY DEF Doubtful, UnitFns, UnitStates
<1>2. NoneRunning(units) => Doubtful(units) = units
  BY <1>1 DEF NoneRunning, UnitFns
<1> QED BY <1>1, <1>2 DEF Truth, NoneRunning

(* A worker panics: what was in work is not known. *)
LEMMA PanicInv == ASSUME Inv, NEW i, Panic(i) PROVE Inv'
<1>1. /\ i \in Active
      /\ UNCHANGED <<binding, preview, applied, rows, migration, handlers, tx>>
      /\ unsaved' = (unsaved \/ (workers[i].kind = "recovery" /\ objs.index.status = "running"))
  BY DEF Panic, target
<1>2. PICK w : w = workers[i]
  OBVIOUS
<1>3. w \in Workers /\ unsaved \in BOOLEAN /\ w.kind \in {"ddl", "recovery"} /\ DataTruth
  BY <1>1, <1>2, AtData DEF Inv, ControlInv, Typed, Workers
<1>4. unsaved' \in BOOLEAN /\ (unsaved => unsaved')
  BY <1>1, <1>3
<1>5. CASE Lose(i)
  <2>1. ~unsaved' /\ objs.index.status = "running" => workers[i].kind = "ddl"
    BY <1>1, <1>2, <1>3
  <2> QED BY <1>1, <1>4, <1>5, <2>1, LoseMove
<1>6. CASE /\ w.kind = "ddl"
           /\ Store(i, [objs EXCEPT !.index.status = "unknown", !.index.units = Doubtful(@), !.index.ver = @ + 1])
  <2>1. PICK units \in UnitFns : units = Doubtful(objs.index.units)
    BY RowTypes, DoubtfulFacts
  <2>2. objs' = [objs EXCEPT !.index.units = units, !.index.status = "unknown", !.index.ver = @ + 1]
    BY <1>6, <2>1, RowTypes DEF Store, IndexRows
  <2>3. /\ objs' \in [table : TableRows, index : IndexRows]
        /\ objs'.table = objs.table /\ objs'.index.units = units /\ objs'.index.status = "unknown"
        /\ objs'.index.ver = objs.index.ver + 1
    <3>1. "unknown" \in Statuses
      BY DEF Statuses
    <3>2. PICK s \in Statuses : s = "unknown"
      BY <3>1
    <3>3. PICK o : o = IndexNow(units, s)
      OBVIOUS
    <3>4. /\ o \in [table : TableRows, index : IndexRows]
          /\ o.table = objs.table /\ o.index.units = units /\ o.index.status = s
          /\ o.index.ver = objs.index.ver + 1
      BY <3>3, IndexRow
    <3>5. objs' = o
      BY <2>2, <3>2, <3>3 DEF IndexNow
    <3> QED BY <3>2, <3>4, <3>5
  <2>4. IndexMoves /\ TableMoves
    BY <1>4, <2>3, RowTypes DEF IndexMoves, TableMoves
  <2>5. DataTruth'
    BY <1>1, <1>3, <2>3 DEF DataTruth
  <2>6. ~unsaved => Truth(units) /\ NoneRunning(units)
    BY <2>1, RowTypes, DoubtfulFacts DEF Inv, UnitInv
  <2>7. ~unsaved => Truth(objs.index.units)' /\ NoneRunning(objs'.index.units)
    BY <1>1, <2>3, <2>6 DEF Truth
  <2>8. Store(i, objs')
    BY <1>6 DEF Store
  <2> QED BY <1>1, <1>4, <2>3, <2>4, <2>5, <2>7, <2>8, StoreMove
<1>7. CASE /\ w.kind = "recovery"
           /\ Store(i, [objs EXCEPT !.table.data = IF w.told = "succeeded" THEN @ ELSE "unknown",
                                    !.table.ver = @ + 1])
  <2>1. PICK d \in DataStates : d = IF w.told = "succeeded" THEN objs.table.data ELSE "unknown"
    BY RowTypes DEF DataStates
  <2>2. objs' = [objs EXCEPT !.table.data = d, !.table.ver = @ + 1]
    BY <1>7, <2>1, RowTypes DEF Store, TableRows
  <2>3. /\ objs' \in [table : TableRows, index : IndexRows]
        /\ objs'.index = objs.index /\ objs'.table.data = d
        /\ objs'.table.ver = objs.table.ver + 1
    BY <2>2, TableRow
  <2>4. IndexMoves /\ TableMoves
    BY <1>4, <2>3, RowTypes DEF IndexMoves, TableMoves
  <2>5. DataTruth'
    BY <1>1, <1>3, <2>1, <2>3 DEF DataTruth
  <2>6. ~unsaved' => ~unsaved /\ objs.index.status # "running"
    BY <1>1, <1>2, <1>3, <1>7
  <2>7. ~unsaved' => Truth(objs.index.units) /\ NoneRunning(objs.index.units)
    BY <2>6 DEF Inv, UnitInv
  <2>8. ~unsaved' => Truth(objs.index.units)' /\ NoneRunning(objs'.index.units)
    BY <1>1, <2>3, <2>7 DEF Truth
  <2>9. Store(i, objs')
    BY <1>7 DEF Store
  <2> QED BY <1>1, <1>4, <2>3, <2>4, <2>5, <2>6, <2>8, <2>9, StoreMove
<1> QED BY <1>2, <1>3, <1>5, <1>6, <1>7 DEF Panic

-----------------------------------------------------------------------------
(* Requests. *)

(* The kinds of what a request has in hand. *)
LEMMA HandlerKinds ==
    ASSUME NEW x \in HandlerStates
    PROVE  /\ x.op = "draft" => x \in Drafts
           /\ x.op = "bind" => x \in Binds
           /\ x.op = "preview" => x \in Looks
           /\ x.op = "execute" => x \in Queries
           /\ x.op = "start" => x \in Starts
           /\ x.op = "cancel" => x \in Cancels
BY DEF HandlerStates, Idle, Drafts, Binds, Looks, Queries, DdlQueries, RecQueries, Starts, Cancels

(* A request that neither claims nor cancels: rows change only where no attempt runs. *)
LEMMA HandlerMove ==
    ASSUME Inv, NEW h \in Handlers, NEW x \in HandlerStates, handlers' = [handlers EXCEPT ![h] = x],
           x.op # "start", handlers[h].op \notin {"start", "cancel"}, LoadedHandler(x)',
           objs' \in [table : TableRows, index : IndexRows], objs'.table = objs.table, IndexMoves,
           preview' \in Pres, (preview # NoPreview)' => LoadedPre(preview)',
           Running = {} \/ (objs' = objs /\ binding' = binding), binding' \in Nat,
           objs' = objs \/ (~unsaved => /\ Truth(objs.index.units)' /\ NoneRunning(objs'.index.units)
                                        /\ objs'.index.status # "running"),
           UNCHANGED <<attempts, lock, workers, applied, rows, migration, tx, unsaved>>
    PROVE  Inv'
<1>1. /\ handlers \in [Handlers -> HandlerStates] /\ handlers' \in [Handlers -> HandlerStates]
      /\ handlers'[h] = x /\ \A g \in Handlers : g # h => handlers'[g] = handlers[g]
  BY DEF Inv, ControlInv, Typed
<1>2. Running' = Running /\ Active' = Active
  BY DEF Running, Active
<1>3. \A g \in Handlers : Starting(g)' <=> Starting(g)
  BY <1>1 DEF Starting
<1>4. \A g \in Handlers : Starting(g) => handlers'[g] = handlers[g]
  BY <1>1 DEF Starting
<1>5. Running = {} => Active = {} /\ \A g \in Handlers : ~Starting(g)
  BY Quiet DEF Inv
<1>6. Typed'
  BY <1>1 DEF Inv, ControlInv, Typed
<1>7. LockInv'
  BY <1>2, <1>3, <1>4 DEF Inv, ControlInv, LockInv
<1>8. ReviewInv'
  <2>1. CASE Running = {}
    BY <1>2, <1>3, <1>5, <2>1 DEF ReviewInv
  <2>2. CASE objs' = objs /\ binding' = binding
    <3>1. \A i \in Active : WorkerReviewed(workers[i])'
      BY <2>2 DEF Inv, ControlInv, ReviewInv, WorkerReviewed
    <3>2. \A g \in Handlers : Starting(g) => Confirmed(handlers[g].q)'
      BY <1>4, <2>2 DEF Inv, ControlInv, ReviewInv, Confirmed
    <3> QED BY <1>2, <1>3, <2>2, <3>1, <3>2 DEF Inv, ControlInv, ReviewInv
  <2> QED BY <2>1, <2>2
<1>9. CancelReaches'
  <2>1. \A i \in Active : (\A g \in Handlers : handlers'[g] # [op |-> "cancel", at |-> i]) =>
            \A g \in Handlers : handlers[g] # [op |-> "cancel", at |-> i]
    BY <1>1
  <2> QED BY <1>2, <2>1 DEF Inv, ControlInv, CancelReaches, Cancelled
<1>10. TableMoves
  BY RowTypes DEF TableMoves
<1>11. LoadedInv'
  <2>1. /\ \A p \in Previews : LoadedPre(p) => LoadedPre(p)'
        /\ \A y \in HandlerStates : LoadedHandler(y) => LoadedHandler(y)'
    BY <1>10, LoadedKeeps DEF Inv, ControlInv, Typed
  <2>2. ASSUME NEW g \in Handlers PROVE LoadedHandler(handlers[g])'
    <3>1. CASE g = h
      <4>1. handlers'[g] = x
        BY <1>1, <3>1
      <4> QED BY <4>1 DEF LoadedHandler, LoadedQuery, LoadedPre, LoadedIndex, LoadedTable
    <3>2. CASE g # h
      <4>1. handlers'[g] = handlers[g] /\ LoadedHandler(handlers[g]) /\ handlers[g] \in HandlerStates
        BY <1>1, <3>2 DEF Inv, LoadedInv
      <4>2. PICK y \in HandlerStates : y = handlers[g] /\ y = handlers'[g] /\ LoadedHandler(y)
        BY <4>1
      <4>3. LoadedHandler(y)'
        BY <2>1, <4>2
      <4>4. handlers'[g].op = "draft" => (LoadedIndex(handlers[g].row) /\ Clean(handlers[g].row.units))'
        BY <4>2, <4>3 DEF LoadedHandler, LoadedIndex
      <4>5. handlers'[g].op = "preview" => LoadedPre(handlers[g].pre)'
        BY <4>2, <4>3 DEF LoadedHandler, LoadedPre, LoadedIndex
      <4>6. handlers'[g].op = "execute" => LoadedQuery(handlers[g])'
        <5> SUFFICES ASSUME handlers'[g].op = "execute" PROVE LoadedQuery(handlers[g])'
          OBVIOUS
        <5>1. LoadedQuery(y)'
          BY <4>2, <4>3 DEF LoadedHandler
        <5>2. handlers'[g].kind = "ddl" => (LoadedIndex(handlers[g].row) /\ Clean(handlers[g].row.units))'
          BY <4>2, <5>1 DEF LoadedQuery, LoadedIndex
        <5>3. handlers'[g].kind = "recovery" => LoadedPre(handlers[g].pre)'
          BY <4>2, <5>1 DEF LoadedQuery, LoadedPre, LoadedIndex
        <5>4. handlers'[g].kind = "recovery" => (LoadedTable(handlers[g].row) /\ handlers[g].row.ver = handlers[g].pre.ver)'
          BY <4>2, <5>1 DEF LoadedQuery, LoadedTable
        <5> QED BY <5>2, <5>3, <5>4 DEF LoadedQuery
      <4>7. handlers'[g].op = "start" => LoadedQuery(handlers[g].q)'
        <5> SUFFICES ASSUME handlers'[g].op = "start" PROVE LoadedQuery(handlers[g].q)'
          OBVIOUS
        <5>1. LoadedQuery(y.q)'
          BY <4>2, <4>3 DEF LoadedHandler
        <5>2. handlers'[g].q.kind = "ddl" => (LoadedIndex(handlers[g].q.row) /\ Clean(handlers[g].q.row.units))'
          BY <4>2, <5>1 DEF LoadedQuery, LoadedIndex
        <5>3. handlers'[g].q.kind = "recovery" => LoadedPre(handlers[g].q.pre)'
          BY <4>2, <5>1 DEF LoadedQuery, LoadedPre, LoadedIndex
        <5>4. handlers'[g].q.kind = "recovery" => (LoadedTable(handlers[g].q.row) /\ handlers[g].q.row.ver = handlers[g].q.pre.ver)'
          BY <4>2, <5>1 DEF LoadedQuery, LoadedTable
        <5> QED BY <5>2, <5>3, <5>4 DEF LoadedQuery
      <4> QED BY <4>4, <4>5, <4>6, <4>7 DEF LoadedHandler
    <3> QED BY <3>1, <3>2
  <2>3. ASSUME NEW i \in Active, workers[i].kind = "recovery" PROVE LoadedPre(workers[i].pre)'
    <3>1. PICK p \in Previews : p = workers[i].pre /\ LoadedPre(p)
      BY <2>3, AtData
    <3>2. LoadedPre(p)'
      BY <2>1, <3>1
    <3> QED BY <3>1, <3>2 DEF LoadedPre, LoadedIndex
  <2> QED BY <1>2, <2>2, <2>3 DEF LoadedInv
<1>12. UnitInv'
  <2> SUFFICES ASSUME ~unsaved PROVE UnitInv'
    BY DEF UnitInv
  <2>1. CASE objs' = objs
    <3>1. \A i \in Active : WorkerUnits(workers[i])'
      BY <2>1 DEF Inv, UnitInv, WorkerUnits, Executing, Committed, Decided, Truth
    <3>2. Truth(objs.index.units)'
      BY <2>1 DEF Inv, UnitInv, Truth
    <3>3. \A i \in Running : Changing(i)' <=> Changing(i)
      BY <1>2 DEF Changing
    <3> QED BY <1>2, <1>3, <2>1, <3>1, <3>2, <3>3 DEF Inv, UnitInv
  <2>2. CASE objs' # objs
    BY <1>2, <1>3, <1>5, <2>2 DEF Inv, UnitInv
  <2> QED BY <2>1, <2>2
<1>13. DataInv'
  <2>1. \A i \in Active : WorkerData(workers[i])'
    BY DEF Inv, DataInv, WorkerData, AllOnce, Loaded
  <2> QED BY <1>2, <2>1 DEF Inv, DataInv, DataTruth, AllOnce
<1> QED BY <1>6, <1>7, <1>8, <1>9, <1>11, <1>12, <1>13 DEF Inv, ControlInv

(* A request that is answered has nothing in hand. *)
LEMMA IdleFacts == Idle \in HandlerStates /\ Idle.op = "idle" /\ LoadedHandler(Idle) /\ LoadedHandler(Idle)'
BY DEF Idle, HandlerStates, LoadedHandler

(* A request loads rows. *)
LEMMA ReceiveMove ==
    ASSUME Inv, NEW h \in Handlers, NEW x \in HandlerStates, Receive(h, x),
           x.op # "start", LoadedHandler(x),
           UNCHANGED <<stored, target, migration, workers, tx, unsaved>>
    PROVE  Inv'
<1>1. /\ handlers' = [handlers EXCEPT ![h] = x] /\ handlers[h].op \notin {"start", "cancel"}
      /\ UNCHANGED <<objs, binding, attempts, lock, preview, applied, rows, migration, workers, tx, unsaved>>
  BY IdleFacts DEF Receive, stored, target
<1>2. /\ objs \in [table : TableRows, index : IndexRows] /\ objs.index.ver \in Nat
      /\ preview \in Pres /\ binding \in Nat
  BY RowTypes DEF Inv, ControlInv, Typed
<1>3. IndexMoves
  BY <1>1, <1>2 DEF IndexMoves
<1>4. LoadedHandler(x)'
  BY <1>1 DEF LoadedHandler, LoadedQuery, LoadedPre, LoadedIndex, LoadedTable
<1>5. (preview # NoPreview)' => LoadedPre(preview)'
  BY <1>1 DEF Inv, LoadedInv, LoadedPre, LoadedIndex
<1> QED BY <1>1, <1>2, <1>3, <1>4, <1>5, HandlerMove

(* A row as it is read is a version of the row. *)
LEMMA LoadedNow ==
    ASSUME Inv
    PROVE  /\ LoadedIndex(objs.index) /\ LoadedTable(objs.table)
           /\ ~Uncertain(objs.index) => Clean(objs.index.units)
<1>1. DOMAIN objs.index.units = Units
  BY RowTypes DEF UnitFns
<1> QED BY <1>1, RowTypes DEF LoadedIndex, LoadedTable, Uncertain, Clean

(* A save of a draft loads the object. *)
LEMMA LoadDraftInv == ASSUME Inv, NEW h \in Handlers, LoadDraft(h) PROVE Inv'
<1>1. PICK x : x = [op |-> "draft", row |-> objs.index]
  OBVIOUS
<1>2. x \in HandlerStates /\ x.op = "draft" /\ x.row = objs.index
  BY <1>1, RowTypes DEF HandlerStates, Drafts
<1>3. LoadedHandler(x)
  BY <1>2, LoadedNow DEF LoadedHandler, LoadDraft
<1> QED BY <1>1, <1>2, <1>3, ReceiveMove DEF LoadDraft

(* A save of the connections loads the binding. *)
LEMMA LoadBindingInv == ASSUME Inv, NEW h \in Handlers, LoadBinding(h) PROVE Inv'
<1>1. PICK x : x = [op |-> "bind", bind |-> binding]
  OBVIOUS
<1>2. x \in HandlerStates /\ x.op = "bind"
  BY <1>1 DEF HandlerStates, Binds, Inv, ControlInv, Typed
<1>3. LoadedHandler(x)
  BY <1>2 DEF LoadedHandler
<1> QED BY <1>1, <1>2, <1>3, ReceiveMove DEF LoadBinding

(* PreviewMigrationRecovery sees the rows it shows. *)
LEMMA LoadPreviewInv == ASSUME Inv, NEW h \in Handlers, LoadPreview(h) PROVE Inv'
<1>1. PICK related \in BOOLEAN :
         /\ related => RelatedReady(objs.index)
         /\ Receive(h, [op |-> "preview",
                        pre |-> [ver |-> objs.table.ver, bind |-> binding, related |-> related,
                                 index |-> objs.index, rows |-> Count(rows),
                                 required |-> objs.table.data # "succeeded"]])
  BY DEF LoadPreview
<1>2. PICK p : p = [ver |-> objs.table.ver, bind |-> binding, related |-> related,
                    index |-> objs.index, rows |-> Count(rows),
                    required |-> objs.table.data # "succeeded"]
  OBVIOUS
<1>3. Count(rows) \in Nat
  BY Counting DEF Inv, ControlInv, Typed
<1>4. PICK n \in Nat : n = Count(rows)
  BY <1>3
<1>5. PICK required \in BOOLEAN : required = (objs.table.data # "succeeded")
  OBVIOUS
<1>6. p = [ver |-> objs.table.ver, bind |-> binding, related |-> related,
           index |-> objs.index, rows |-> n, required |-> required]
  BY <1>2, <1>4, <1>5
<1>7. objs.table.ver \in Versions /\ objs.index \in IndexRows /\ binding \in Nat
  BY DEF Inv, ControlInv, Typed, TableRows
<1>8. /\ p \in Previews /\ p.ver = objs.table.ver /\ p.index = objs.index /\ p.related = related
      /\ p.required = required
  BY <1>6, <1>7 DEF Previews
<1>9. LoadedPre(p)
  <2>1. LoadedIndex(p.index)
    BY <1>8, LoadedNow
  <2>2. p.related => Clean(p.index.units)
    BY <1>1, <1>8, LoadedNow DEF RelatedReady
  <2>3. p.required <=> objs.table.data # "succeeded"
    BY Zenon, <1>5, <1>8
  <2> QED BY <1>8, <2>1, <2>2, <2>3, RowTypes DEF LoadedPre
<1>10. PICK x : x = [op |-> "preview", pre |-> p]
  OBVIOUS
<1>11. x \in HandlerStates /\ x.op = "preview" /\ x.pre = p
  BY <1>8, <1>10 DEF HandlerStates, Looks
<1>12. LoadedHandler(x)
  BY <1>9, <1>11 DEF LoadedHandler
<1>13. Receive(h, x)
  BY <1>1, <1>2, <1>10
<1> QED BY <1>11, <1>12, <1>13, ReceiveMove DEF LoadPreview

(* An execute request loads the object and the binding. *)
LEMMA LoadExecuteInv == ASSUME Inv, NEW h \in Handlers, NEW r \in Requests, LoadExecute(h, r) PROVE Inv'
<1>1. PICK x : x = [op |-> "execute", kind |-> "ddl", req |-> r, row |-> objs.index, bind |-> binding,
                    pre |-> NoPreview, truncate |-> FALSE]
  OBVIOUS
<1>2. binding \in Nat
  BY DEF Inv, ControlInv, Typed
<1>3. x \in DdlQueries /\ x.op = "execute" /\ x.kind = "ddl" /\ x.row = objs.index
  BY <1>1, <1>2, RowTypes DEF DdlQueries
<1>4. x \in HandlerStates
  BY <1>3 DEF HandlerStates, Queries
<1>5. LoadedHandler(x)
  BY <1>3, LoadedNow DEF LoadedHandler, LoadedQuery, LoadExecute
<1> QED BY <1>1, <1>3, <1>4, <1>5, ReceiveMove DEF LoadExecute

(* ExecuteMigrationRecovery runs what its preview showed. *)
LEMMA LoadRecoveryInv == ASSUME Inv, NEW h \in Handlers, NEW r \in Requests, LoadRecovery(h, r) PROVE Inv'
<1>1. PICK truncate \in BOOLEAN :
         Receive(h, [op |-> "execute", kind |-> "recovery", req |-> r, row |-> objs.table, bind |-> binding,
                     pre |-> preview, truncate |-> truncate])
  BY DEF LoadRecovery
<1>2. PICK x : x = [op |-> "execute", kind |-> "recovery", req |-> r, row |-> objs.table, bind |-> binding,
                    pre |-> preview, truncate |-> truncate]
  OBVIOUS
<1>3. /\ binding \in Nat /\ preview \in Previews /\ LoadedPre(preview) /\ preview.ver = objs.table.ver
  BY DEF Inv, ControlInv, Typed, Pres, LoadedInv, LoadRecovery
<1>4. /\ x \in RecQueries /\ x.op = "execute" /\ x.kind = "recovery" /\ x.row = objs.table
      /\ x.pre = preview
  BY <1>2, <1>3, RowTypes DEF RecQueries
<1>5. x \in HandlerStates
  BY <1>4 DEF HandlerStates, Queries
<1>6. LoadedHandler(x)
  BY <1>3, <1>4, LoadedNow DEF LoadedHandler, LoadedQuery
<1> QED BY <1>1, <1>2, <1>4, <1>5, <1>6, ReceiveMove DEF LoadRecovery

(* A request ends and at most the preview or the binding changes. *)
LEMMA AnswerMove ==
    ASSUME Inv, NEW h \in Handlers, Answer(h), handlers[h].op \notin {"start", "cancel"},
           preview' = preview \/ (preview' \in Previews /\ LoadedPre(preview')),
           binding' = binding \/ (Running = {} /\ binding' \in Nat),
           UNCHANGED <<objs, attempts, lock, applied, rows, migration, workers, tx, unsaved>>
    PROVE  Inv'
<1>1. /\ objs \in [table : TableRows, index : IndexRows] /\ objs.index.ver \in Nat
      /\ preview \in Pres /\ binding \in Nat
  BY RowTypes DEF Inv, ControlInv, Typed
<1>2. IndexMoves
  BY <1>1 DEF IndexMoves
<1>3. (preview # NoPreview)' => LoadedPre(preview)'
  BY DEF Inv, LoadedInv, LoadedPre, LoadedIndex
<1>4. preview' \in Pres /\ binding' \in Nat
  BY <1>1 DEF Pres
<1> QED BY <1>1, <1>2, <1>3, <1>4, IdleFacts, HandlerMove DEF Answer

(* The connections are saved when no migration runs on them. *)
LEMMA SaveBindingInv == ASSUME Inv, NEW h \in Handlers, SaveBinding(h) PROVE Inv'
<1>1. binding \in Nat
  BY DEF Inv, ControlInv, Typed
<1> QED BY <1>1, AnswerMove DEF SaveBinding, target

(* The preview of a recovery is stored. *)
LEMMA SavePreviewInv == ASSUME Inv, NEW h \in Handlers, SavePreview(h) PROVE Inv'
<1>1. handlers[h].op = "preview"
  BY DEF SavePreview
<1>2. handlers[h].pre \in Previews /\ LoadedPre(handlers[h].pre)
  <2>1. handlers[h] \in HandlerStates /\ LoadedHandler(handlers[h])
    BY DEF Inv, ControlInv, Typed, LoadedInv
  <2>2. handlers[h] \in Looks
    BY <1>1, <2>1, HandlerKinds
  <2> QED BY <1>1, <2>1, <2>2 DEF Looks, LoadedHandler
<1>3. preview' = preview \/ preview' = handlers[h].pre
  BY DEF SavePreview
<1>4. preview' = preview \/ (preview' \in Previews /\ LoadedPre(preview'))
  BY <1>2, <1>3
<1> QED BY <1>1, <1>4, AnswerMove DEF SavePreview, target

(* An object is edited where no attempt runs, and as it was loaded. *)
LEMMA SaveDraftInv == ASSUME Inv, NEW h \in Handlers, SaveDraft(h) PROVE Inv'
<1>1. /\ handlers[h].op = "draft" /\ Answer(h)
      /\ UNCHANGED <<binding, attempts, lock, preview, applied, rows, migration, workers, tx, unsaved>>
  BY DEF SaveDraft, target
<1>2. PICK row : row = handlers[h].row
  OBVIOUS
<1>3. row \in IndexRows /\ LoadedIndex(row) /\ Clean(row.units)
  <2>1. handlers[h] \in HandlerStates /\ LoadedHandler(handlers[h])
    BY DEF Inv, ControlInv, Typed, LoadedInv
  <2>2. handlers[h] \in Drafts
    BY <1>1, <2>1, HandlerKinds
  <2> QED BY <1>1, <1>2, <2>1, <2>2 DEF Drafts, LoadedHandler
<1>4. objs' = objs \/ (Running = {} /\ objs.index.ver = row.ver /\ objs' = [objs EXCEPT !.index = Edited(row)])
  BY <1>2 DEF SaveDraft
<1>5. CASE objs' = objs
  BY <1>1, <1>5, AnswerMove
<1>6. CASE Running = {} /\ objs.index.ver = row.ver /\ objs' = [objs EXCEPT !.index = Edited(row)]
  <2>1. PICK o : o = Edited(row)
    OBVIOUS
  <2>2. PICK s \in Statuses \ {"running"} : s = IF row.status = "succeeded" THEN row.status ELSE "draft"
    BY DEF Statuses
  <2>3. row.ver + 1 \in Versions /\ row.ver \in Nat
    BY <1>3 DEF IndexRows, Versions
  <2>4. o = [row EXCEPT !.ver = row.ver + 1, !.status = s]
    BY <1>3, <2>1, <2>2 DEF Edited, IndexRows
  <2>5. o \in IndexRows /\ o.ver = row.ver + 1 /\ o.status = s /\ o.units = row.units
    BY <1>3, <2>2, <2>3, <2>4 DEF IndexRows
  <2>6. /\ objs' \in [table : TableRows, index : IndexRows] /\ objs'.index = o
        /\ objs'.table = objs.table
    BY <1>6, <2>1, <2>5, RowTypes
  <2>7. IndexMoves /\ TableMoves
    BY <1>1, <1>6, <2>3, <2>5, <2>6, RowTypes DEF IndexMoves, TableMoves
  <2>8. ASSUME ~unsaved PROVE Truth(objs.index.units)' /\ NoneRunning(objs'.index.units)
    <3>1. Truth(objs.index.units) /\ objs.index.status # "running"
      BY <1>6, <2>8 DEF Inv, UnitInv
    <3>2. row.units = objs.index.units
      BY <1>3, <1>6, <2>8, <3>1 DEF LoadedIndex
    <3> QED BY <1>1, <1>3, <2>5, <2>6, <3>1, <3>2 DEF Truth, NoneRunning, Clean
  <2>9. preview \in {NoPreview} \cup Previews /\ binding \in Nat
    BY DEF Inv, ControlInv, Typed, Pres
  <2>10. (preview # NoPreview)' => LoadedPre(preview)'
    <3>1. \A p \in Previews : LoadedPre(p) => LoadedPre(p)'
      BY <1>1, <2>6, <2>7, LoadedKeeps DEF Inv, ControlInv, Typed
    <3> QED BY <1>1, <2>9, <3>1 DEF Inv, LoadedInv
  <2>11. preview' \in Pres /\ binding' \in Nat
    BY <1>1, <2>9 DEF Pres
  <2> QED BY <1>1, <1>6, <2>2, <2>5, <2>6, <2>7, <2>8, <2>10, <2>11, IdleFacts, HandlerMove DEF Answer
<1> QED BY <1>4, <1>5, <1>6

(* A claim is an attempt, the lock of the scope and what was confirmed. *)
LEMMA ClaimInv == ASSUME Inv, NEW h \in Handlers, Claim(h) PROVE Inv'
<1>1. /\ handlers[h].op = "execute"
      /\ UNCHANGED <<objs, binding, preview, applied, rows, migration, tx, unsaved>>
  BY DEF Claim, ClaimWhen, target
<1>2. CASE Answer(h) /\ UNCHANGED <<attempts, workers, lock>>
  BY <1>1, <1>2, AnswerMove
<1>3. PICK q : q = handlers[h]
  OBVIOUS
<1>4. /\ q \in Queries /\ LoadedQuery(q) /\ q.op = "execute" /\ q.bind \in Nat /\ q.req \in Requests
      /\ q.kind \in {"ddl", "recovery"}
  <2>1. handlers[h] \in HandlerStates /\ LoadedHandler(handlers[h])
    BY DEF Inv, ControlInv, Typed, LoadedInv
  <2>2. q \in Queries /\ LoadedQuery(q)
    BY <1>1, <1>3, <2>1, HandlerKinds DEF LoadedHandler
  <2> QED BY <1>1, <1>3, <2>2 DEF Queries, DdlQueries, RecQueries
<1> DEFINE n == Len(attempts) + 1
<1>5. CASE /\ Current(q) /\ Running = {} /\ lock = NoOwner
           /\ attempts' = Append(attempts, [req |-> q.req, kind |-> q.kind, status |-> "running",
                                            cancel |-> FALSE, result |-> "none", bind |-> q.bind])
           /\ workers' = Append(workers, Gone) /\ lock' = n
           /\ handlers' = [handlers EXCEPT ![h] = [op |-> "start", at |-> n, q |-> q]]
  <2>1. PICK a : a = [req |-> q.req, kind |-> q.kind, status |-> "running",
                      cancel |-> FALSE, result |-> "none", bind |-> q.bind]
    OBVIOUS
  <2>2. /\ a \in Attempts /\ a.kind = q.kind /\ a.status = "running" /\ a.cancel = FALSE
        /\ a.result = "none" /\ a.bind = q.bind
    BY <1>4, <2>1 DEF Attempts
  <2>3. /\ workers \in Seq(Workers \cup {Gone, Lost}) /\ attempts \in Seq(Attempts)
        /\ Len(workers) = Len(attempts) /\ DOMAIN workers = 1 .. Len(workers)
        /\ DOMAIN attempts = 1 .. Len(attempts) /\ Len(attempts) \in Nat
    BY DEF Inv, ControlInv, Typed
  <2>4. /\ attempts' \in Seq(Attempts) /\ Len(attempts') = n /\ DOMAIN attempts' = 1 .. n
        /\ attempts'[n] = a /\ \A i \in DOMAIN attempts : attempts'[i] = attempts[i]
    BY <1>5, <2>1, <2>2, <2>3
  <2>5. /\ workers' \in Seq(Workers \cup {Gone, Lost}) /\ Len(workers') = n /\ DOMAIN workers' = 1 .. n
        /\ workers'[n] = Gone /\ \A i \in DOMAIN workers : workers'[i] = workers[i]
    BY <1>5, <2>3
  <2>6. /\ n \in Nat /\ n # NoOwner /\ n # MigrationJob /\ n \notin DOMAIN attempts
        /\ 1 .. n = DOMAIN attempts \cup {n}
    BY <2>3 DEF NoOwner, MigrationJob
  <2> HIDE DEF n
  <2>7. PICK x : x = [op |-> "start", at |-> n, q |-> q]
    OBVIOUS
  <2>8. x \in Starts /\ x.op = "start" /\ x.at = n /\ x.q = q
    BY <1>4, <2>6, <2>7 DEF Starts
  <2>9. x \in HandlerStates
    BY <2>8 DEF HandlerStates
  <2>10. /\ handlers \in [Handlers -> HandlerStates] /\ handlers' \in [Handlers -> HandlerStates]
         /\ handlers'[h] = x /\ \A g \in Handlers : g # h => handlers'[g] = handlers[g]
    BY <1>5, <2>7, <2>9 DEF Inv, ControlInv, Typed
  <2>11. Running' = {n}
    BY <1>5, <2>2, <2>4, <2>6 DEF Running
  <2>12. Active = {} /\ \A g \in Handlers : ~Starting(g)
    BY <1>5, Quiet DEF Inv
  <2>13. Active' = {}
    BY <2>3, <2>5, <2>6, <2>12 DEF Active
  <2>14. \A g \in Handlers : Starting(g)' <=> g = h
    BY <2>8, <2>10, <2>12 DEF Starting
  <2>15. Typed'
    BY <1>1, <1>5, <2>4, <2>5, <2>6, <2>10 DEF Inv, ControlInv, Typed
  <2>16. LockInv'
    <3>1. \A i \in DOMAIN workers' : workers'[i] = Gone
      <4> SUFFICES ASSUME NEW i \in DOMAIN workers, workers[i] # Gone PROVE FALSE
        BY <2>3, <2>5, <2>6
      <4> QED BY <1>5 DEF Inv, ControlInv, LockInv
    <3>2. migration # "running"
      BY <1>5 DEF Inv, ControlInv, LockInv, NoOwner, MigrationJob
    <3>3. \A i \in DOMAIN attempts' : i \in Running' <=> lock' = i
      BY <1>5, <2>11
    <3>4. lock' \in {MigrationJob, NoOwner} \cup DOMAIN attempts'
      BY <1>5, <2>4, <2>6
    <3>5. \A g \in Handlers : Starting(g)' =>
             /\ handlers'[g].at \in Running' /\ workers'[handlers'[g].at] = Gone
             /\ attempts'[handlers'[g].at].kind = handlers'[g].q.kind
      BY <2>2, <2>4, <2>5, <2>8, <2>10, <2>11, <2>14
    <3> QED BY <1>1, <2>2, <2>4, <2>11, <2>13, <2>14, <3>1, <3>2, <3>3, <3>4, <3>5 DEF LockInv
  <2>17. ReviewInv'
    <3>1. Confirmed(q)' /\ binding' = q.bind
      BY <1>1, <1>5 DEF Current, Confirmed
    <3> QED BY <2>2, <2>4, <2>8, <2>10, <2>11, <2>13, <2>14, <3>1 DEF ReviewInv, Confirmed
  <2>18. CancelReaches'
    BY <2>13 DEF CancelReaches
  <2>19. LoadedInv'
    <3>1. IndexMoves /\ TableMoves
      BY <1>1, RowTypes DEF IndexMoves, TableMoves
    <3>2. \A y \in HandlerStates : LoadedHandler(y) => LoadedHandler(y)'
      BY <1>1, <3>1, RowTypes, LoadedKeeps DEF Inv, ControlInv, Typed
    <3>3. ASSUME NEW g \in Handlers PROVE LoadedHandler(handlers[g])'
      <4>1. PICK y \in HandlerStates : y = handlers'[g] /\ LoadedHandler(y)
        BY <1>4, <2>8, <2>9, <2>10 DEF Inv, LoadedInv, LoadedHandler
      <4>2. LoadedHandler(y)'
        BY <3>2, <4>1
      <4> QED BY <4>1, <4>2 DEF LoadedHandler, LoadedQuery, LoadedPre, LoadedIndex, LoadedTable
    <3>4. (preview # NoPreview)' => LoadedPre(preview)'
      BY <1>1 DEF Inv, LoadedInv, LoadedPre, LoadedIndex
    <3> QED BY <2>13, <3>3, <3>4 DEF LoadedInv
  <2>20. UnitInv'
    <3> SUFFICES ASSUME ~unsaved PROVE UnitInv'
      BY <1>1 DEF UnitInv
    <3>1. objs.index.status # "running" /\ Truth(objs.index.units)
      BY <1>5 DEF Inv, UnitInv
    <3>2. Truth(objs.index.units)'
      BY <1>1, <3>1 DEF Truth
    <3> QED BY <1>1, <2>13, <3>1, <3>2 DEF Inv, UnitInv
  <2>21. DataInv'
    BY <1>1, <2>2, <2>4, <2>11, <2>13 DEF Inv, DataInv, DataTruth
  <2> QED BY <2>15, <2>16, <2>17, <2>18, <2>19, <2>20, <2>21 DEF Inv, ControlInv
<1> QED BY <1>2, <1>3, <1>5 DEF Claim, ClaimWhen

(* The worker of a claimed attempt starts with what was confirmed. *)
LEMMA StartWorkerInv == ASSUME Inv, NEW h \in Handlers, StartWorker(h) PROVE Inv'
<1>1. /\ handlers[h].op = "start" /\ Starting(h) /\ Answer(h)
      /\ UNCHANGED <<objs, binding, attempts, lock, preview, applied, rows, migration, tx, unsaved>>
  BY DEF StartWorker, Starting, target, stored
<1>2. PICK q : q = handlers[h].q
  OBVIOUS
<1>3. PICK i : i = handlers[h].at
  OBVIOUS
<1>4. q \in Queries /\ LoadedQuery(q)
  <2>1. handlers[h] \in HandlerStates /\ LoadedHandler(handlers[h])
    BY DEF Inv, ControlInv, Typed, LoadedInv
  <2>2. handlers[h] \in Starts
    BY <1>1, <2>1, HandlerKinds
  <2> QED BY <1>1, <1>2, <2>1, <2>2 DEF Starts, LoadedHandler
<1>5. /\ i \in Running /\ workers[i] = Gone /\ attempts[i].kind = q.kind /\ Confirmed(q)
      /\ \A g \in Handlers : Starting(g) => g = h
      /\ attempts[i].result = "none"
  BY <1>1, <1>2, <1>3 DEF Inv, ControlInv, LockInv, ReviewInv
<1>6. /\ i \in DOMAIN attempts /\ i \in DOMAIN workers
      /\ \A j \in Running : j = i
      /\ \A j \in Active : j = i
      /\ workers \in Seq(Workers \cup {Gone, Lost})
      /\ Len(workers) = Len(attempts) /\ DOMAIN workers = 1 .. Len(workers)
  <2>1. DOMAIN workers = DOMAIN attempts
    BY DEF Inv, ControlInv, Typed
  <2> QED BY <1>5, <2>1, Alone DEF Inv, ControlInv, Typed
<1>7. PICK v : v = [pc |-> "check", ctx |-> "live", kind |-> q.kind, units |-> q.row.units, ver |-> q.row.ver,
                    todo |-> {}, done |-> {}, cur |-> 0, pre |-> q.pre, truncate |-> q.truncate,
                    data |-> q.row.data, res |-> "running", told |-> "none", page |-> 0, open |-> FALSE,
                    why |-> "none"]
  OBVIOUS
<1>8. workers' = [workers EXCEPT ![i] = v]
  BY <1>2, <1>3, <1>7 DEF StartWorker
<1>9. \/ /\ q.kind = "ddl" /\ q.row \in IndexRows /\ q.pre = NoPreview /\ q.truncate \in BOOLEAN
      \/ /\ q.kind = "recovery" /\ q.row \in TableRows /\ q.pre \in Previews /\ q.truncate \in BOOLEAN
  BY <1>4 DEF Queries, DdlQueries, RecQueries
<1>10. /\ q.kind \in {"ddl", "recovery"} /\ q.row.units \in UnitFns \cup {<<>>} /\ q.row.ver \in Versions
       /\ q.pre \in Pres /\ q.truncate \in BOOLEAN /\ q.row.data \in DataStates \cup {"none"}
       /\ q.kind = "ddl" => q.row.units \in UnitFns
       /\ q.kind = "recovery" => q.row.data \in DataStates
  BY <1>9 DEF IndexRows, TableRows, Pres
<1>11. /\ v \in Workers /\ v.pc = "check" /\ v.kind = q.kind /\ v.units = q.row.units /\ v.ver = q.row.ver
       /\ v.pre = q.pre /\ v.truncate = q.truncate /\ v.data = q.row.data /\ v.res = "running" /\ v.page = 0
  <2>1. 0 \in 0 .. NumPages /\ 0 \in Nat /\ {} \in SUBSET Units
    BY RepairAssumption
  <2> QED BY <1>7, <1>10, <2>1 DEF Workers, WorkerPcs
<1>12. v \notin {Gone, Lost}
  BY <1>11, WorkerIsThere
<1>13. /\ workers' \in Seq(Workers \cup {Gone, Lost}) /\ Len(workers') = Len(workers)
       /\ DOMAIN workers' = DOMAIN workers /\ workers'[i] = v
       /\ \A j \in DOMAIN workers : j # i => workers'[j] = workers[j]
  BY <1>6, <1>8, <1>11
<1>14. Running' = Running /\ Active' = {i}
  BY <1>1, <1>6, <1>12, <1>13 DEF Running, Active
<1>15. /\ handlers \in [Handlers -> HandlerStates] /\ handlers' \in [Handlers -> HandlerStates]
       /\ handlers'[h] = Idle /\ \A g \in Handlers : g # h => handlers'[g] = handlers[g]
  BY <1>1, IdleFacts DEF Inv, ControlInv, Typed, Answer
<1>16. \A g \in Handlers : ~Starting(g)'
  BY <1>5, <1>15, IdleFacts DEF Starting
<1>17. Typed'
  BY <1>1, <1>6, <1>13, <1>15 DEF Inv, ControlInv, Typed
<1>18. LockInv'
  BY <1>1, <1>5, <1>6, <1>11, <1>12, <1>13, <1>14, <1>16 DEF Inv, ControlInv, LockInv
<1>19. ReviewInv'
  <2>1. Shaped(v)
    BY <1>10, <1>11 DEF Shaped, UnitPcs
  <2>2. WorkerReviewed(v)'
    BY <1>1, <1>5, <1>9, <1>10, <1>11, <2>1 DEF WorkerReviewed, Confirmed
  <2> QED BY <1>1, <1>13, <1>14, <1>16, <2>2 DEF Inv, ControlInv, ReviewInv, WorkerReviewed, Shaped
<1>20. CancelReaches'
  BY <1>11, <1>13, <1>14 DEF CancelReaches
<1>21. LoadedInv'
  <2>1. IndexMoves /\ TableMoves
    BY <1>1, RowTypes DEF IndexMoves, TableMoves
  <2>2. /\ \A y \in HandlerStates : LoadedHandler(y) => LoadedHandler(y)'
        /\ \A p \in Previews : LoadedPre(p) => LoadedPre(p)'
    BY <1>1, <2>1, RowTypes, LoadedKeeps DEF Inv, ControlInv, Typed
  <2>3. ASSUME NEW g \in Handlers PROVE LoadedHandler(handlers[g])'
    <3>1. PICK y \in HandlerStates : y = handlers'[g] /\ LoadedHandler(y)
      BY <1>15, IdleFacts DEF Inv, LoadedInv
    <3>2. LoadedHandler(y)'
      BY <2>2, <3>1
    <3> QED BY <3>1, <3>2 DEF LoadedHandler, LoadedQuery, LoadedPre, LoadedIndex, LoadedTable
  <2>4. (preview # NoPreview)' => LoadedPre(preview)'
    BY <1>1 DEF Inv, LoadedInv, LoadedPre, LoadedIndex
  <2>5. v.kind = "recovery" => LoadedPre(v.pre)'
    BY <1>4, <1>9, <1>11, <2>2 DEF LoadedQuery
  <2>6. (workers[i].kind = "recovery")' => LoadedPre(workers[i].pre)'
    BY <1>13, <2>5 DEF LoadedPre, LoadedIndex
  <2> QED BY <1>14, <2>3, <2>4, <2>6 DEF LoadedInv
<1>22. UnitInv'
  <2> SUFFICES ASSUME ~unsaved PROVE UnitInv'
    BY <1>1 DEF UnitInv
  <2>1. /\ objs.index.status # "running" /\ Truth(objs.index.units) /\ NoneRunning(objs.index.units)
        /\ \A u \in Units : applied[u] <= 1
    BY <1>1 DEF Inv, UnitInv
  <2>2. q.kind = "ddl" => q.row.units = objs.index.units /\ Clean(q.row.units)
    BY <1>4, <1>5, <2>1 DEF LoadedQuery, LoadedIndex, Confirmed
  <2>3. Truth(objs.index.units)'
    BY <1>1, <2>1 DEF Truth
  <2>4. WorkerUnits(v)'
    BY <1>1, <1>11, <2>1, <2>2 DEF WorkerUnits, UnitPcs
  <2>5. WorkerUnits(workers[i])'
    BY <1>13, <2>4 DEF WorkerUnits, Executing, Committed, Decided, Truth
  <2> QED BY <1>1, <1>14, <1>16, <2>1, <2>3, <2>5 DEF UnitInv
<1>23. DataInv'
  <2>1. q.kind = "recovery" => q.pre.ver = objs.table.ver /\ q.row.data = objs.table.data
    BY <1>4, <1>5 DEF LoadedQuery, LoadedTable, Confirmed
  <2>2. DataTruth
    BY DEF Inv, DataInv
  <2>3. WorkerData(v)'
    BY <1>1, <1>11, <2>1, <2>2 DEF WorkerData, DataTruth, AllOnce, Before
  <2>4. WorkerData(workers[i])'
    BY <1>13, <2>3 DEF WorkerData, AllOnce, Loaded
  <2> QED BY <1>1, <1>5, <1>6, <1>14, <2>2, <2>4 DEF DataInv, DataTruth
<1> QED BY <1>17, <1>18, <1>19, <1>20, <1>21, <1>22, <1>23 DEF Inv, ControlInv

(* The cancel of a running attempt is stored. *)
LEMMA CancelMarkInv == ASSUME Inv, NEW h \in Handlers, NEW i, CancelMark(h, i) PROVE Inv'
<1>1. /\ i \in Running /\ handlers[h] = Idle
      /\ handlers' = [handlers EXCEPT ![h] = [op |-> "cancel", at |-> i]]
      /\ attempts' = [attempts EXCEPT ![i].cancel = TRUE]
      /\ UNCHANGED <<objs, binding, lock, preview, workers, applied, rows, migration, tx, unsaved>>
  BY DEF CancelMark, Receive, target
<1>2. /\ i \in DOMAIN attempts /\ i \in Nat
      /\ \A j \in Running : j = i
      /\ \A j \in Active : j = i
      /\ attempts \in Seq(Attempts) /\ DOMAIN attempts = 1 .. Len(attempts) /\ attempts[i] \in Attempts
  BY <1>1, Alone DEF Inv, ControlInv, Typed
<1>3. PICK a : a = [attempts[i] EXCEPT !.cancel = TRUE]
  OBVIOUS
<1>4. /\ a \in Attempts /\ a.kind = attempts[i].kind /\ a.status = attempts[i].status
      /\ a.result = attempts[i].result /\ a.bind = attempts[i].bind
  BY <1>2, <1>3 DEF Attempts
<1>5. attempts' = [attempts EXCEPT ![i] = a]
  BY <1>1, <1>3
<1>6. /\ attempts' \in Seq(Attempts) /\ Len(attempts') = Len(attempts) /\ DOMAIN attempts' = DOMAIN attempts
      /\ \A j \in DOMAIN attempts :
           /\ attempts'[j].kind = attempts[j].kind /\ attempts'[j].status = attempts[j].status
           /\ attempts'[j].result = attempts[j].result /\ attempts'[j].bind = attempts[j].bind
  BY <1>2, <1>4, <1>5
<1>7. PICK x : x = [op |-> "cancel", at |-> i]
  OBVIOUS
<1>8. x \in HandlerStates /\ x.op = "cancel"
  BY <1>2, <1>7 DEF HandlerStates, Cancels
<1>9. /\ handlers \in [Handlers -> HandlerStates] /\ handlers' \in [Handlers -> HandlerStates]
      /\ handlers'[h] = x /\ \A g \in Handlers : g # h => handlers'[g] = handlers[g]
  BY <1>1, <1>7, <1>8 DEF Inv, ControlInv, Typed
<1>10. Running' = Running /\ Active' = Active
  BY <1>1, <1>6 DEF Running, Active
<1>11. \A g \in Handlers : /\ Starting(g)' <=> Starting(g)
                           /\ Starting(g) => handlers'[g] = handlers[g]
  BY <1>1, <1>8, <1>9, IdleFacts DEF Starting
<1>12. Typed'
  BY <1>1, <1>6, <1>9 DEF Inv, ControlInv, Typed
<1>13. Running \subseteq DOMAIN attempts /\ Active \subseteq DOMAIN attempts
  BY <1>2 DEF Running
<1>14. LockInv'
  <2>1. \A g \in Handlers : Starting(g) => handlers[g].at \in DOMAIN attempts
    BY <1>13 DEF Inv, ControlInv, LockInv
  <2> QED BY <1>1, <1>6, <1>10, <1>11, <1>13, <2>1 DEF Inv, ControlInv, LockInv
<1>15. ReviewInv'
  <2>1. \A j \in Active : WorkerReviewed(workers[j])'
    BY <1>1 DEF Inv, ControlInv, ReviewInv, WorkerReviewed, Shaped
  <2>2. \A g \in Handlers : Starting(g) => Confirmed(handlers[g].q)'
    BY <1>1, <1>11 DEF Inv, ControlInv, ReviewInv, Confirmed
  <2> QED BY <1>1, <1>6, <1>10, <1>11, <1>13, <2>1, <2>2 DEF Inv, ControlInv, ReviewInv
<1>16. CancelReaches'
  BY <1>2, <1>7, <1>9, <1>10 DEF CancelReaches
<1>17. LoadedInv'
  <2>1. IndexMoves /\ TableMoves
    BY <1>1, RowTypes DEF IndexMoves, TableMoves
  <2>2. \A y \in HandlerStates : LoadedHandler(y) => LoadedHandler(y)'
    BY <1>1, <2>1, RowTypes, LoadedKeeps DEF Inv, ControlInv, Typed
  <2>3. ASSUME NEW g \in Handlers PROVE LoadedHandler(handlers[g])'
    <3>1. PICK y \in HandlerStates : y = handlers'[g] /\ LoadedHandler(y)
      BY <1>8, <1>9 DEF Inv, LoadedInv, LoadedHandler
    <3>2. LoadedHandler(y)'
      BY <2>2, <3>1
    <3> QED BY <3>1, <3>2 DEF LoadedHandler, LoadedQuery, LoadedPre, LoadedIndex, LoadedTable
  <2>4. (preview # NoPreview)' => LoadedPre(preview)'
    BY <1>1 DEF Inv, LoadedInv, LoadedPre, LoadedIndex
  <2>5. \A j \in Active : workers[j].kind = "recovery" => LoadedPre(workers[j].pre)'
    BY <1>1 DEF Inv, LoadedInv, LoadedPre, LoadedIndex
  <2> QED BY <1>1, <1>10, <2>3, <2>4, <2>5 DEF LoadedInv
<1>18. UnitInv'
  <2>1. \A j \in Active : WorkerUnits(workers[j]) => WorkerUnits(workers[j])'
    BY <1>1 DEF WorkerUnits, Executing, Committed, Decided, Truth
  <2>2. Truth(objs.index.units)' <=> Truth(objs.index.units)
    BY <1>1 DEF Truth
  <2>3. \A j \in Running : Changing(j)' <=> Changing(j)
    BY <1>1, <1>6, <1>10, <1>13 DEF Changing
  <2> QED BY <1>1, <1>10, <1>11, <2>1, <2>2, <2>3 DEF Inv, UnitInv
<1>19. DataInv'
  <2>1. \A j \in Active : WorkerData(workers[j])'
    BY <1>1 DEF Inv, DataInv, WorkerData, AllOnce, Loaded
  <2> QED BY <1>1, <1>6, <1>10, <1>13, <2>1 DEF Inv, DataInv, DataTruth, AllOnce
<1> QED BY <1>12, <1>14, <1>15, <1>16, <1>17, <1>18, <1>19 DEF Inv, ControlInv

(* The cancel of an attempt reaches its worker, if it has one. *)
LEMMA CancelSignalInv == ASSUME Inv, NEW h \in Handlers, CancelSignal(h) PROVE Inv'
<1>1. /\ handlers[h].op = "cancel" /\ Answer(h)
      /\ UNCHANGED <<objs, binding, attempts, lock, preview, applied, rows, migration, tx, unsaved>>
  BY DEF CancelSignal, target, stored
<1>2. PICK i : i = handlers[h].at
  OBVIOUS
<1>3. handlers[h] = [op |-> "cancel", at |-> i]
  <2>1. handlers[h] \in HandlerStates
    BY DEF Inv, ControlInv, Typed
  <2>2. handlers[h] \in Cancels
    BY <1>1, <2>1, HandlerKinds
  <2> QED BY <1>1, <1>2, <2>2 DEF Cancels
<1>4. /\ handlers \in [Handlers -> HandlerStates] /\ handlers' \in [Handlers -> HandlerStates]
      /\ handlers'[h] = Idle /\ \A g \in Handlers : g # h => handlers'[g] = handlers[g]
  BY <1>1, IdleFacts DEF Inv, ControlInv, Typed, Answer
<1>5. \A g \in Handlers : /\ Starting(g)' <=> Starting(g)
                          /\ Starting(g) => handlers'[g] = handlers[g]
  BY <1>1, <1>4, IdleFacts DEF Starting
<1>6. /\ workers \in Seq(Workers \cup {Gone, Lost}) /\ DOMAIN workers = 1 .. Len(workers)
      /\ DOMAIN workers = DOMAIN attempts
  BY DEF Inv, ControlInv, Typed
<1>7. /\ workers' \in Seq(Workers \cup {Gone, Lost}) /\ Len(workers') = Len(workers)
      /\ DOMAIN workers' = DOMAIN workers
      /\ \A j \in DOMAIN workers : j \notin Active => workers'[j] = workers[j]
      /\ \A j \in Active : workers'[j] = workers[j] \/ SameButCtx(workers[j], workers'[j])
      /\ i \in Active => workers'[i].ctx = "cancelled"
      /\ Active' = Active
  <2>1. CASE i \in Active
    <3>1. PICK w : w = workers[i]
      OBVIOUS
    <3>2. PICK v : v = [w EXCEPT !.ctx = "cancelled"]
      OBVIOUS
    <3>3. w \in Workers /\ i \in DOMAIN workers
      BY <2>1, <3>1, ActiveFacts DEF Inv
    <3>4. SameButCtx(w, v) /\ v \in Workers /\ v.ctx = "cancelled"
      BY <3>2, <3>3 DEF SameButCtx, Workers
    <3>5. workers' = [workers EXCEPT ![i] = v]
      BY <1>2, <2>1, <3>1, <3>2 DEF CancelSignal
    <3>6. /\ workers' \in Seq(Workers \cup {Gone, Lost}) /\ Len(workers') = Len(workers)
          /\ DOMAIN workers' = DOMAIN workers /\ workers'[i] = v
          /\ \A j \in DOMAIN workers : j # i => workers'[j] = workers[j]
      BY <1>6, <3>3, <3>4, <3>5
    <3>7. v \notin {Gone, Lost}
      BY <3>4, WorkerIsThere
    <3>8. Active' = Active
      BY <2>1, <3>6, <3>7 DEF Active
    <3>9. \A j \in Active : j \in DOMAIN workers
      BY DEF Active
    <3> QED BY <2>1, <3>1, <3>4, <3>6, <3>8, <3>9
  <2>2. CASE i \notin Active
    <3>1. workers' = workers
      BY <1>2, <2>2 DEF CancelSignal
    <3> QED BY <1>6, <2>2, <3>1 DEF Active
  <2> QED BY <2>1, <2>2
<1>8. Running' = Running
  BY <1>1 DEF Running
<1>9. ASSUME NEW j \in Active
      PROVE  /\ workers[j] \in Workers /\ workers'[j] \notin {Gone, Lost}
             /\ workers'[j].kind = workers[j].kind /\ workers'[j].pre = workers[j].pre
             /\ workers'[j].pc = workers[j].pc
             /\ workers'[j].ctx = workers[j].ctx \/ workers'[j].ctx = "cancelled"
             /\ WorkerReviewed(workers'[j]) /\ WorkerData(workers'[j])
             /\ ~unsaved => WorkerUnits(workers'[j])
  <2>1. /\ workers[j] \in Workers /\ WorkerReviewed(workers[j]) /\ WorkerData(workers[j])
        /\ ~unsaved => WorkerUnits(workers[j])
    BY AtData DEF Inv, ControlInv, ReviewInv
  <2>2. CASE workers'[j] = workers[j]
    BY <2>1, <2>2, WorkerIsThere
  <2>3. CASE SameButCtx(workers[j], workers'[j])
    <3>1. PICK w, v : w = workers[j] /\ v = workers'[j] /\ SameButCtx(w, v)
      BY <2>3
    <3>2. /\ WorkerUnits(w) => WorkerUnits(v)
          /\ WorkerData(w) => WorkerData(v)
          /\ WorkerReviewed(w) => WorkerReviewed(v)
      BY <3>1, SameWorker
    <3> QED BY <2>1, <3>1, <3>2, WorkerIsThere DEF SameButCtx
  <2> QED BY <1>7, <2>2, <2>3
<1>10. Typed'
  BY <1>1, <1>4, <1>7 DEF Inv, ControlInv, Typed
<1>11. LockInv'
  <2>1. \A j \in DOMAIN workers : workers'[j] # Gone => workers[j] # Gone
    BY <1>7, <1>9 DEF Active
  <2>2. \A j \in DOMAIN workers : workers'[j] = Gone <=> workers[j] = Gone
    BY <1>7, <1>9 DEF Active
  <2>3. Running \subseteq DOMAIN workers
    BY <1>6 DEF Running
  <2> QED BY <1>1, <1>5, <1>7, <1>8, <1>9, <2>1, <2>2, <2>3 DEF Inv, ControlInv, LockInv
<1>12. ReviewInv'
  <2>1. \A j \in Active : WorkerReviewed(workers[j])'
    BY <1>1, <1>9 DEF WorkerReviewed, Shaped
  <2>2. \A g \in Handlers : Starting(g) => Confirmed(handlers[g].q)'
    BY <1>1, <1>5 DEF Inv, ControlInv, ReviewInv, Confirmed
  <2> QED BY <1>1, <1>5, <1>7, <1>8, <2>1, <2>2 DEF Inv, ControlInv, ReviewInv
<1>13. CancelReaches'
  <2> SUFFICES ASSUME NEW j \in Active, attempts[j].cancel, workers[j].pc # "check",
                      \A g \in Handlers : handlers'[g] # [op |-> "cancel", at |-> j]
               PROVE  workers'[j].ctx = "cancelled"
    BY <1>1, <1>7, <1>9 DEF CancelReaches, Cancelled
  <2>1. CASE j = i
    BY <1>7, <2>1
  <2>2. CASE j # i
    <3>1. handlers[h] # [op |-> "cancel", at |-> j]
      BY <1>3, <2>2
    <3>2. \A g \in Handlers : handlers[g] # [op |-> "cancel", at |-> j]
      BY <1>4, <3>1
    <3> QED BY <1>9, <3>2 DEF Inv, ControlInv, CancelReaches, Cancelled
  <2> QED BY <2>1, <2>2
<1>14. LoadedInv'
  <2>1. IndexMoves /\ TableMoves
    BY <1>1, RowTypes DEF IndexMoves, TableMoves
  <2>2. \A y \in HandlerStates : LoadedHandler(y) => LoadedHandler(y)'
    BY <1>1, <2>1, RowTypes, LoadedKeeps DEF Inv, ControlInv, Typed
  <2>3. ASSUME NEW g \in Handlers PROVE LoadedHandler(handlers[g])'
    <3>1. PICK y \in HandlerStates : y = handlers'[g] /\ LoadedHandler(y)
      BY <1>4, IdleFacts DEF Inv, LoadedInv
    <3>2. LoadedHandler(y)'
      BY <2>2, <3>1
    <3> QED BY <3>1, <3>2 DEF LoadedHandler, LoadedQuery, LoadedPre, LoadedIndex, LoadedTable
  <2>4. (preview # NoPreview)' => LoadedPre(preview)'
    BY <1>1 DEF Inv, LoadedInv, LoadedPre, LoadedIndex
  <2>5. \A j \in Active : (workers[j].kind = "recovery")' => LoadedPre(workers[j].pre)'
    BY <1>1, <1>9 DEF Inv, LoadedInv, LoadedPre, LoadedIndex
  <2> QED BY <1>7, <2>3, <2>4, <2>5 DEF LoadedInv
<1>15. UnitInv'
  <2> SUFFICES ASSUME ~unsaved PROVE UnitInv'
    BY <1>1 DEF UnitInv
  <2>1. \A j \in Active : WorkerUnits(workers[j])'
    BY <1>1, <1>9 DEF WorkerUnits, Executing, Committed, Decided, Truth
  <2>2. Truth(objs.index.units)' <=> Truth(objs.index.units)
    BY <1>1 DEF Truth
  <2>3. \A j \in Running : Changing(j) => Changing(j)'
    BY <1>1, <1>6, <1>7, <1>8, <1>9 DEF Changing, Running, Active
  <2> QED BY <1>1, <1>5, <1>7, <1>8, <2>1, <2>2, <2>3 DEF Inv, UnitInv
<1>16. DataInv'
  <2>1. \A j \in Active : WorkerData(workers[j])'
    BY <1>1, <1>9 DEF WorkerData, AllOnce, Loaded
  <2> QED BY <1>1, <1>7, <1>8, <1>9, <2>1 DEF Inv, DataInv, DataTruth, AllOnce
<1> QED BY <1>10, <1>11, <1>12, <1>13, <1>14, <1>15, <1>16 DEF Inv, ControlInv

-----------------------------------------------------------------------------
(* The other migration, and the server. *)

(* The scope's lock passes between nobody and the other migration. *)
LEMMA ScopeMove ==
    ASSUME Inv, lock \in {NoOwner, MigrationJob}, lock' \in {NoOwner, MigrationJob},
           migration' \in {"idle", "running"}, migration' = "running" => lock' = MigrationJob,
           UNCHANGED <<objs, binding, attempts, preview, applied, rows, handlers, workers, tx, unsaved>>
    PROVE  Inv'
<1>1. Running' = Running /\ Active' = Active /\ \A g \in Handlers : Starting(g)' <=> Starting(g)
  BY DEF Running, Active, Starting
<1>2. \A i \in DOMAIN attempts : i \notin {NoOwner, MigrationJob}
  BY DEF Inv, ControlInv, Typed, NoOwner, MigrationJob
<1>3. Running = {}
  BY <1>2 DEF Inv, ControlInv, LockInv, Running
<1>4. Active = {} /\ \A g \in Handlers : ~Starting(g)
  BY <1>3, Quiet DEF Inv
<1>5. Typed'
  BY DEF Inv, ControlInv, Typed, NoOwner, MigrationJob
<1>6. LockInv'
  BY <1>1, <1>2, <1>3, <1>4 DEF Inv, ControlInv, LockInv
<1>7. ReviewInv' /\ CancelReaches'
  BY <1>1, <1>3, <1>4 DEF ReviewInv, CancelReaches
<1>8. LoadedInv'
  BY ZenonT(60), <1>1, <1>4 DEF Inv, LoadedInv, LoadedHandler, LoadedQuery, LoadedPre, LoadedIndex, LoadedTable
<1>9. UnitInv'
  BY <1>1, <1>3, <1>4 DEF Inv, UnitInv, Truth
<1>10. DataInv'
  BY <1>1, <1>3, <1>4 DEF Inv, DataInv, DataTruth
<1> QED BY <1>5, <1>6, <1>7, <1>8, <1>9, <1>10 DEF Inv, ControlInv

(* An ordinary migration takes the scope. *)
LEMMA StartMigrationInv == ASSUME Inv, StartMigration PROVE Inv'
BY ScopeMove DEF StartMigration, target

(* The ordinary migration gives the scope back. *)
LEMMA EndMigrationInv == ASSUME Inv, EndMigration PROVE Inv'
<1>1. lock = MigrationJob
  BY DEF EndMigration, Inv, ControlInv, LockInv
<1> QED BY <1>1, ScopeMove DEF EndMigration, target

(* What a restart makes of the row of the table: it is shown as loaded only where *)
(* the interrupted recovery had stored so.                                        *)
LEMMA MarkedTableFacts ==
    ASSUME Inv
    PROVE  /\ MarkedTable \in TableRows /\ objs.table.ver <= MarkedTable.ver
           /\ MarkedTable.ver = objs.table.ver => MarkedTable.data = objs.table.data
           /\ MarkedTable.data = "succeeded" => AllOnce
<1>1. PICK loaded \in BOOLEAN :
         loaded = (\E i \in Running : attempts[i].kind = "recovery" /\ attempts[i].result = "succeeded")
  OBVIOUS
<1>2. PICK stopped \in BOOLEAN : stopped = Interrupted("recovery")
  BY DEF Interrupted
<1>3. loaded => stopped /\ AllOnce
  BY <1>1, <1>2 DEF Interrupted, Inv, DataInv
<1>4. PICK d : d = IF loaded THEN "succeeded" ELSE IF stopped THEN "unknown" ELSE objs.table.data
  OBVIOUS
<1>5. PICK n : n = objs.table.ver + (IF stopped THEN 1 ELSE 0) + (IF loaded THEN 1 ELSE 0)
  OBVIOUS
<1>6. MarkedTable = [objs.table EXCEPT !.data = d, !.ver = n]
  BY <1>1, <1>2, <1>4, <1>5, RowTypes DEF MarkedTable, TableRows
<1>7. d \in DataStates /\ n \in Versions /\ objs.table.ver <= n
  <2>1. objs.table.ver \in Nat /\ objs.table.ver # 0
    BY RowTypes DEF TableRows, Versions
  <2> QED BY <1>4, <1>5, <2>1, RowTypes DEF DataStates, Versions
<1>8. n = objs.table.ver => ~stopped /\ ~loaded
  BY <1>3, <1>5, RowTypes
<1>9. MarkedTable \in TableRows /\ MarkedTable.data = d /\ MarkedTable.ver = n
  BY <1>6, <1>7, RowTypes DEF TableRows
<1>10. d = "succeeded" => AllOnce
  BY <1>3, <1>4 DEF Inv, DataInv, DataTruth, AllOnce
<1> QED BY <1>4, <1>7, <1>8, <1>9, <1>10

(* What it makes of the object: nothing is running, and what was is not known. *)
LEMMA MarkedIndexFacts ==
    ASSUME Inv
    PROVE  /\ MarkedIndex \in IndexRows /\ objs.index.ver <= MarkedIndex.ver
           /\ MarkedIndex.ver = objs.index.ver =>
                MarkedIndex.units = objs.index.units /\ objs.index.status # "running"
           /\ MarkedIndex.status # "running" /\ NoneRunning(MarkedIndex.units)
           /\ Truth(objs.index.units) => Truth(MarkedIndex.units)
<1>1. PICK stopped \in BOOLEAN : stopped = Interrupted("ddl")
  BY DEF Interrupted
<1>2. PICK s \in Statuses : s = (IF stopped \/ objs.index.status = "running" THEN "unknown" ELSE objs.index.status)
  BY RowTypes DEF Statuses
<1>3. PICK units \in UnitFns :
         /\ units = Doubtful(objs.index.units) /\ NoneRunning(units)
         /\ Truth(objs.index.units) => Truth(units)
  BY RowTypes, DoubtfulFacts
<1>4. PICK o : o = [objs.index EXCEPT !.status = s, !.units = units]
  OBVIOUS
<1>5. o \in IndexRows /\ o.status = s /\ o.units = units /\ o.ver = objs.index.ver
  BY <1>2, <1>3, <1>4, RowTypes DEF IndexRows
<1>6. PICK n : n = objs.index.ver + (IF stopped THEN 1 ELSE 0) + (IF o # objs.index THEN 1 ELSE 0)
  OBVIOUS
<1>7. o = [objs.index EXCEPT !.status = IF Interrupted("ddl") \/ @ = "running" THEN "unknown" ELSE @,
                             !.units = Doubtful(@)]
  BY <1>1, <1>2, <1>3, <1>4, RowTypes DEF IndexRows
<1>8. MarkedIndex = [o EXCEPT !.ver = o.ver + (IF stopped THEN 1 ELSE 0) + (IF o # objs.index THEN 1 ELSE 0)]
  BY <1>1, <1>5, <1>7 DEF MarkedIndex, IndexRows
<1>9. n \in Versions /\ objs.index.ver <= n /\ (n = objs.index.ver => ~stopped /\ o = objs.index)
  <2>1. objs.index.ver \in Nat /\ objs.index.ver # 0
    BY RowTypes DEF IndexRows, Versions
  <2> QED BY <1>6, <2>1 DEF Versions
<1>10. /\ MarkedIndex \in IndexRows /\ MarkedIndex.status = s /\ MarkedIndex.units = units
       /\ MarkedIndex.ver = n
  BY <1>5, <1>6, <1>8, <1>9 DEF IndexRows
<1>11. s # "running"
  BY <1>2
<1> QED BY <1>3, <1>5, <1>9, <1>10, <1>11

(* The server is killed and started. *)
LEMMA CrashInv == ASSUME Inv, Crash PROVE Inv'
<1>1. /\ objs' = [table |-> MarkedTable, index |-> MarkedIndex]
      /\ attempts' = [i \in DOMAIN attempts |-> [attempts[i] EXCEPT !.status = "ended"]]
      /\ lock' = NoOwner /\ migration' = "idle" /\ handlers' = [h \in Handlers |-> Idle]
      /\ workers' = [i \in DOMAIN workers |-> Gone]
      /\ UNCHANGED <<binding, preview, applied, rows, tx, unsaved>>
  BY DEF Crash, target
<1>2. /\ workers \in Seq(Workers \cup {Gone, Lost}) /\ attempts \in Seq(Attempts)
      /\ Len(workers) = Len(attempts) /\ DOMAIN workers = 1 .. Len(workers)
      /\ DOMAIN attempts = 1 .. Len(attempts) /\ Len(attempts) \in Nat
      /\ preview \in {NoPreview} \cup Previews
  BY DEF Inv, ControlInv, Typed, Pres
<1>3. \A i \in DOMAIN attempts : /\ [attempts[i] EXCEPT !.status = "ended"] \in Attempts
                                 /\ [attempts[i] EXCEPT !.status = "ended"].status = "ended"
  <2> TAKE i \in DOMAIN attempts
  <2>1. PICK a \in Attempts : a = attempts[i]
    BY <1>2
  <2>2. [a EXCEPT !.status = "ended"] \in Attempts /\ [a EXCEPT !.status = "ended"].status = "ended"
    BY <2>1 DEF Attempts
  <2> QED BY <2>1, <2>2
<1>4. /\ attempts' \in Seq(Attempts) /\ Len(attempts') = Len(attempts) /\ DOMAIN attempts' = DOMAIN attempts
      /\ \A i \in DOMAIN attempts : attempts'[i].status = "ended"
  <2> DEFINE End(i) == [attempts[i] EXCEPT !.status = "ended"]
  <2>1. \A i \in DOMAIN attempts : End(i) \in Attempts /\ End(i).status = "ended"
    BY <1>3
  <2>2. attempts' = [i \in 1 .. Len(attempts) |-> End(i)]
    BY <1>1, <1>2
  <2> HIDE DEF End
  <2>3. attempts' \in [1 .. Len(attempts) -> Attempts]
    BY <1>2, <2>1, <2>2
  <2>4. attempts' \in Seq(Attempts) /\ Len(attempts') = Len(attempts)
    BY <1>2, <2>3
  <2> QED BY <1>2, <2>1, <2>2, <2>3, <2>4
<1>5. /\ workers' \in Seq(Workers \cup {Gone, Lost}) /\ Len(workers') = Len(workers)
      /\ DOMAIN workers' = DOMAIN workers /\ \A i \in DOMAIN workers : workers'[i] = Gone
  BY <1>1, <1>2
<1>6. Running' = {} /\ Active' = {}
  BY <1>4, <1>5 DEF Running, Active
<1>7. /\ objs' \in [table : TableRows, index : IndexRows]
      /\ objs'.table = MarkedTable /\ objs'.index = MarkedIndex
  BY <1>1, MarkedTableFacts, MarkedIndexFacts
<1>8. /\ handlers' \in [Handlers -> HandlerStates] /\ \A g \in Handlers : handlers'[g] = Idle
  BY <1>1, IdleFacts
<1>9. \A g \in Handlers : ~Starting(g)'
  BY <1>8, IdleFacts DEF Starting
<1>10. Typed'
  <2>1. /\ lock' \in Int /\ preview' \in Pres /\ binding' \in Nat /\ unsaved' \in BOOLEAN
        /\ tx' \in BOOLEAN /\ migration' \in {"idle", "running"}
    BY <1>1 DEF Inv, ControlInv, Typed, NoOwner
  <2>2. applied' \in [Units -> Nat] /\ rows' \in [Pages -> Nat]
    BY <1>1 DEF Inv, ControlInv, Typed
  <2>3. Len(workers') = Len(attempts')
    BY <1>2, <1>4, <1>5
  <2> QED BY <1>4, <1>5, <1>7, <1>8, <2>1, <2>2, <2>3 DEF Typed
<1>11. LockInv'
  <2>1. \A i \in DOMAIN attempts' : i # NoOwner
    BY <1>2, <1>4 DEF NoOwner
  <2> QED BY <1>1, <1>5, <1>6, <1>9, <2>1 DEF LockInv
<1>12. ReviewInv' /\ CancelReaches'
  BY <1>6, <1>9 DEF ReviewInv, CancelReaches
<1>13. LoadedInv'
  <2>1. IndexMoves /\ TableMoves
    BY <1>1, <1>7, MarkedTableFacts, MarkedIndexFacts DEF IndexMoves, TableMoves
  <2>2. \A p \in Previews : LoadedPre(p) => LoadedPre(p)'
    BY <1>1, <1>7, <2>1, LoadedKeeps DEF Inv, ControlInv, Typed
  <2>3. (preview # NoPreview)' => LoadedPre(preview)'
    BY <1>1, <1>2, <2>2 DEF Inv, LoadedInv
  <2>4. \A g \in Handlers : LoadedHandler(handlers[g])'
    BY <1>8 DEF LoadedHandler, Idle
  <2> QED BY <1>6, <2>3, <2>4 DEF LoadedInv
<1>14. UnitInv'
  <2> SUFFICES ASSUME ~unsaved PROVE UnitInv'
    BY <1>1 DEF UnitInv
  <2>1. \A u \in Units : applied[u] <= 1
    BY DEF Inv, UnitInv
  <2>2. Truth(MarkedIndex.units)
    BY MarkedIndexFacts DEF Inv, UnitInv
  <2>3. Truth(objs.index.units)'
    BY <1>1, <1>7, <2>2 DEF Truth
  <2> QED BY <1>1, <1>6, <1>7, <1>9, <2>1, <2>3, MarkedIndexFacts DEF UnitInv
<1>15. DataInv'
  <2>1. DataTruth'
    BY <1>1, <1>7, MarkedTableFacts DEF DataTruth, AllOnce
  <2> QED BY <1>6, <2>1 DEF DataInv
<1> QED BY <1>10, <1>11, <1>12, <1>13, <1>14, <1>15 DEF Inv, ControlInv

-----------------------------------------------------------------------------
(* The theorems. *)

(* A job that failed half way: nothing runs and nothing was loaded. *)
LEMMA InitInv == ASSUME Init PROVE Inv
<1>1. PICK units \in UnitFns : /\ units = [u \in Units |-> IF u = 1 THEN "failed" ELSE "pending"]
                               /\ \A u \in Units : units[u] \in {"failed", "pending"}
  <2>1. PICK f : f = [u \in Units |-> IF u = 1 THEN "failed" ELSE "pending"]
    OBVIOUS
  <2>2. \A u \in Units : f[u] \in {"failed", "pending"}
    BY <2>1
  <2>3. f \in UnitFns
    BY <2>1 DEF UnitFns, UnitStates
  <2> QED BY <2>1, <2>2, <2>3
<1>2. /\ objs = [table |-> [ver |-> 1, status |-> "succeeded", data |-> "failed", units |-> <<>>],
                 index |-> [ver |-> 1, status |-> "failed", data |-> "none", units |-> units]]
      /\ binding = 1 /\ attempts = <<>> /\ lock = NoOwner /\ preview = NoPreview /\ migration = "idle"
      /\ handlers = [h \in Handlers |-> Idle] /\ workers = <<>>
      /\ applied = [u \in Units |-> 0] /\ tx \in BOOLEAN /\ unsaved = FALSE
  BY <1>1 DEF Init
<1>3. objs \in [table : TableRows, index : IndexRows]
  BY <1>2 DEF TableRows, IndexRows, Versions, Statuses, DataStates
<1>4. rows \in [Pages -> Nat]
  BY DEF Init
<1>5. Running = {} /\ Active = {}
  BY <1>2 DEF Running, Active
<1>6. handlers \in [Handlers -> HandlerStates] /\ \A h \in Handlers : handlers[h] = Idle
  BY <1>2, IdleFacts
<1>7. Typed
  <2>1. attempts \in Seq(Attempts) /\ workers \in Seq(Workers \cup {Gone, Lost})
    BY <1>2
  <2>2. Len(workers) = Len(attempts) /\ binding \in Nat /\ lock \in Int /\ preview \in Pres
    BY <1>2 DEF NoOwner, Pres
  <2>3. applied \in [Units -> Nat] /\ unsaved \in BOOLEAN /\ tx \in BOOLEAN
    BY <1>2
  <2>4. migration \in {"idle", "running"}
    BY <1>2
  <2> QED BY <1>3, <1>4, <1>6, <2>1, <2>2, <2>3, <2>4 DEF Typed
<1>8. \A h \in Handlers : ~Starting(h) /\ LoadedHandler(handlers[h])
  BY <1>6, IdleFacts DEF Starting
<1>9. LockInv /\ ReviewInv /\ CancelReaches
  BY <1>2, <1>5, <1>8 DEF LockInv, ReviewInv, CancelReaches
<1>10. LoadedInv
  BY <1>2, <1>5, <1>8 DEF LoadedInv
<1>11. UnitInv
  BY <1>1, <1>2, <1>5, <1>8 DEF UnitInv, Truth, NoneRunning
<1>12. DataInv
  BY <1>2, <1>5 DEF DataInv, DataTruth
<1> QED BY <1>7, <1>9, <1>10, <1>11, <1>12 DEF Inv, ControlInv

(* A step that changes nothing. *)
LEMMA StutterInv == ASSUME Inv, UNCHANGED vars PROVE Inv'
<1>1. UNCHANGED <<objs, binding, attempts, lock, preview, applied, rows, migration, handlers, workers, tx, unsaved>>
  BY DEF vars, stored, target
<1>2. /\ Running' = Running /\ Active' = Active
      /\ \A g \in Handlers : Starting(g)' <=> Starting(g)
  BY <1>1 DEF Running, Active, Starting
<1>3. Typed' /\ LockInv'
  BY <1>1, <1>2 DEF Inv, ControlInv, Typed, LockInv
<1>4. ReviewInv' /\ CancelReaches'
  BY <1>1, <1>2 DEF Inv, ControlInv, ReviewInv, CancelReaches, WorkerReviewed, Shaped, Confirmed, Cancelled
<1>5. LoadedInv'
  BY ZenonT(60), <1>1, <1>2 DEF Inv, LoadedInv, LoadedHandler, LoadedQuery, LoadedPre, LoadedIndex, LoadedTable
<1>6. UnitInv'
  <2>1. \A j \in Active : WorkerUnits(workers[j]) => WorkerUnits(workers[j])'
    BY <1>1 DEF WorkerUnits, Executing, Committed, Decided, Truth
  <2>2. Truth(objs.index.units)' <=> Truth(objs.index.units)
    BY <1>1 DEF Truth
  <2>3. \A j \in Running : Changing(j)' <=> Changing(j)
    BY <1>1, <1>2 DEF Changing
  <2> QED BY <1>1, <1>2, <2>1, <2>2, <2>3 DEF Inv, UnitInv
<1>7. DataInv'
  BY <1>1, <1>2 DEF Inv, DataInv, DataTruth, WorkerData, AllOnce, Loaded
<1> QED BY <1>3, <1>4, <1>5, <1>6, <1>7 DEF Inv, ControlInv

(* Every step of the ledger, its workers and the server keeps the invariant. *)
LEMMA NextInv == ASSUME Inv, Next PROVE Inv'
<1>1. ASSUME NEW h \in Handlers, Request(h) PROVE Inv'
  <2>1. CASE LoadDraft(h) \/ LoadBinding(h) \/ LoadPreview(h)
    BY <2>1, LoadDraftInv, LoadBindingInv, LoadPreviewInv
  <2>2. CASE \E r \in Requests : LoadExecute(h, r) \/ LoadRecovery(h, r)
    BY <2>2, LoadExecuteInv, LoadRecoveryInv
  <2>3. CASE \E i \in Slots : CancelMark(h, i)
    BY <2>3, CancelMarkInv
  <2> QED BY <1>1, <2>1, <2>2, <2>3 DEF Request
<1>2. ASSUME NEW h \in Handlers, Handle(h) PROVE Inv'
  BY <1>2, SaveDraftInv, SaveBindingInv, SavePreviewInv, ClaimInv, StartWorkerInv, CancelSignalInv DEF Handle
<1>3. ASSUME NEW i \in Slots, Work(i) PROVE Inv'
  <2>1. CASE \/ CheckCancel(i) \/ OpenTarget(i)
             \/ NextUnit(i) \/ NextCancelled(i) \/ NextDone(i) \/ Exec(i) \/ ExecFails(i) \/ Saved(i)
             \/ CommitUnits(i) \/ ReportDone(i) \/ Report(i)
    BY <2>1, CheckCancelInv, OpenTargetInv, NextUnitInv, NextCancelledInv, NextDoneInv, ExecInv,
       ExecFailsInv, SavedInv, CommitUnitsInv, ReportDoneInv, ReportInv
  <2>2. CASE \/ Recheck(i) \/ RunRecovery(i) \/ StoreProgress(i) \/ Truncate(i) \/ CopyPage(i) \/ Verify(i)
             \/ StoreResult(i) \/ Publish(i) \/ Related(i) \/ SaveRelated(i)
             \/ Finish(i)
    BY <2>2, RecheckInv, RunRecoveryInv, StoreProgressInv, TruncateInv, CopyPageInv, VerifyInv,
       StoreResultInv, PublishInv, RelatedInv, SaveRelatedInv, FinishInv
  <2> QED BY <1>3, <2>1, <2>2 DEF Work
<1>4. ASSUME NEW i \in Slots, Panic(i) \/ Deadline(i) PROVE Inv'
  BY <1>4, PanicInv, DeadlineInv
<1>5. CASE StartMigration \/ EndMigration \/ Crash
  BY <1>5, StartMigrationInv, EndMigrationInv, CrashInv
<1> QED BY <1>1, <1>2, <1>3, <1>4, <1>5 DEF Next

(* The inductive invariant holds in every state of the repair ledger. *)
THEOREM InvariantHolds == Spec => []Inv
<1>1. Init => Inv
  BY InitInv
<1>2. Inv /\ [Next]_vars => Inv'
  BY NextInv, StutterInv
<1> QED BY <1>1, <1>2, PTL DEF Spec

(* One worker or the other migration writes to the target (ClaimRepairAttempt and *)
(* AcquireMigrationScope), and the lock is that of the attempt that runs.         *)
THEOREM WritesAlone == Spec => []OneWriter
<1>1. ASSUME Inv PROVE OneWriter
  <2>1. \A i \in DOMAIN attempts : i \in Running <=> lock = i
    BY <1>1 DEF Inv, ControlInv, LockInv
  <2>2. CASE Active = {}
    BY <2>1, <2>2, FS_EmptySet DEF OneWriter
  <2>3. CASE Active # {}
    <3>1. PICK i : i \in Active
      BY <2>3
    <3>2. migration = "idle" /\ \A j \in Active : j = i
      BY <1>1, <3>1, ActiveFacts, Alone DEF Inv
    <3>3. Active = {i}
      BY <3>1, <3>2
    <3>4. Cardinality(Active) = 1
      BY <3>3, FS_Singleton
    <3> QED BY <2>1, <3>2, <3>4 DEF OneWriter
  <2> QED BY <2>2, <2>3
<1> QED BY <1>1, InvariantHolds, PTL

(* A DDL unit takes effect at most once, whatever is retried, cancelled or interrupted, *)
(* as long as the outcome of every related object was stored.                           *)
THEOREM UnitsRunOnce == Spec => []AtMostOnce
<1>1. Inv => AtMostOnce
  BY DEF Inv, UnitInv, AtMostOnce
<1> QED BY <1>1, InvariantHolds, PTL

(* What the ledger says of a unit is so when nothing runs. *)
THEOREM LedgerIsTrue == Spec => []LedgerTruth
<1>1. Inv => LedgerTruth
  BY DEF Inv, UnitInv, Truth, LedgerTruth
<1> QED BY <1>1, InvariantHolds, PTL

(* A table shown as loaded has every page exactly once. *)
THEOREM DataIsTrue == Spec => []DataTruth
<1>1. Inv => DataTruth
  BY DEF Inv, DataInv
<1> QED BY <1>1, InvariantHolds, PTL

(* What a worker runs is what the client confirmed. *)
THEOREM RunsWhatWasReviewed == Spec => []Reviewed
<1>1. ASSUME Inv PROVE Reviewed
  <2>1. \A i \in Active : i \in Running
    BY <1>1, ActiveFacts DEF Inv
  <2> QED BY <1>1, <2>1 DEF Inv, ControlInv, ReviewInv, WorkerReviewed, Reviewed
<1> QED BY <1>1, InvariantHolds, PTL

(* An answered cancel reaches the worker. *)
THEOREM CancelsArrive == Spec => []CancelReaches
<1>1. Inv => CancelReaches
  BY DEF Inv, ControlInv
<1> QED BY <1>1, InvariantHolds, PTL

(* Every variable has its type. *)
THEOREM TypeCorrect == Spec => []TypeOK
<1>1. ASSUME Inv PROVE TypeOK
  <2>1. /\ DOMAIN objs = {"table", "index"}
        /\ \A o \in DOMAIN objs : objs[o].ver \in Nat \ {0} /\ objs[o].status \in Statuses
        /\ objs.table.data \in {"succeeded", "failed", "unknown"}
        /\ objs.index.units \in [Units -> UnitStates]
    BY <1>1 DEF Inv, ControlInv, Typed, TableRows, IndexRows, Versions, Statuses, DataStates, UnitFns
  <2>2. \A i \in Active : workers[i].units \in [Units -> UnitStates] \cup {<<>>} /\ workers[i].page \in 0 .. NumPages
    BY <1>1, AtData DEF Workers, UnitFns
  <2> QED BY <1>1, <2>1, <2>2 DEF Inv, ControlInv, Typed, LockInv, TypeOK
<1> QED BY <1>1, InvariantHolds, PTL
=============================================================================
