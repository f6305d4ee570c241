---------------------------- MODULE BridgeServer ----------------------------
(***************************************************************************)
(* The JVM side of the Oscar JDBC bridge (jdbcbridge/java, BridgeMain):     *)
(* one input thread that reads requests and handles cancellations, one      *)
(* worker per request, sessions with a bounded connection pool each, and    *)
(* batches (one transaction on one connection) with spooled LOB files.      *)
(* Rows, SQL and JDBC errors are abstracted to "succeeds" or "fails".       *)
(***************************************************************************)
EXTENDS Integers, Sequences, FiniteSets

CONSTANTS
    Threads,      \* the callers on the other side of the pipe
    MaxOpen,      \* SessionOptions.MaxOpenConns
    MaxIdle,      \* SessionOptions.MaxIdleConns
    MaxFaults     \* bound: crashes, cancelled calls and JDBC errors of a behaviour

ASSUME PoolAssumption == MaxOpen \in Nat \ {0} /\ MaxIdle \in 0 .. MaxOpen

VARIABLES
    gen,          \* Manager.generation: the process started last
    live,         \* generations whose JVM runs
    in,           \* the JVM's standard input: requests not read yet
    out,          \* the JVM's standard output: responses not read yet
    input,        \* the cancellation the input thread is in the middle of
    tasks,        \* requests that were dispatched, and scheduled cleanups
    sessions,     \* Session n is sessions[n]
    batches,      \* Batch n is batches[n]
    db,           \* rows committed by the database
    faults,       \* faults so far
    aliased       \* history: a request used an id that another process gave out

serverVars == <<live, in, out, input, tasks, sessions, batches, db, faults, aliased>>

NoTarget == [t |-> "none", n |-> 0]

Fault == faults < MaxFaults /\ faults' = faults + 1

(* A message: its id, operation and argument; `born` is the generation that
   gave out the argument and `row` what an add carries. *)
Message(id, op, arg, born, row) ==
    [id |-> id, op |-> op, arg |-> arg, born |-> born, row |-> row]

(* A process starts with empty maps and both counters at 1. *)
FreshProcess ==
    /\ in' = <<>> /\ out' = {} /\ input' = NoTarget /\ tasks' = {}
    /\ sessions' = <<>> /\ batches' = <<>>

ServerInit ==
    /\ live = {} /\ in = <<>> /\ out = {} /\ input = NoTarget /\ tasks = {}
    /\ sessions = <<>> /\ batches = <<>> /\ db = {} /\ faults = 0 /\ aliased = FALSE

(***************************************************************************)
(* Tasks.                                                                   *)
(***************************************************************************)
Step(k, k2) == tasks' = (tasks \ {k}) \cup {k2}

Goto(k, pc) == Step(k, [k EXCEPT !.pc = pc])

(* The handler is through, writeSuccess or writeThrowable comes next. *)
Answered(k, ok, val) == [k EXCEPT !.pc = "reply", !.ok = ok, !.val = val]
Answer(k, ok, val) == Step(k, Answered(k, ok, val))

(* The input thread dispatches a request to a worker. *)
Dispatch ==
    /\ gen \in live /\ input = NoTarget /\ in # <<>> /\ Head(in).op # "cancel"
    /\ LET q == Head(in) IN
       /\ tasks' = tasks \cup
            {[id |-> q.id, op |-> q.op, arg |-> q.arg, row |-> q.row, pc |-> "queued",
              cancelled |-> FALSE, todo |-> {}, cur |-> 0, ok |-> FALSE, val |-> 0]}
       /\ aliased' = (aliased \/ (q.born # 0 /\ q.born # gen))
    /\ in' = Tail(in)
    /\ UNCHANGED <<live, out, input, sessions, batches, db, faults>>

(* cancelRequest: first the future. A task that no worker has taken yet never
   runs; one that is running is interrupted and can ask isCancelled. *)
CancelFuture ==
    /\ gen \in live /\ input = NoTarget /\ in # <<>> /\ Head(in).op = "cancel"
    /\ input' = Head(in).id
    /\ in' = Tail(in)
    /\ \E never \in SUBSET {k \in tasks : k.id = Head(in).id /\ k.pc = "queued"} :
         tasks' = {[k EXCEPT !.cancelled = @ \/ k.id = Head(in).id] : k \in tasks \ never}
    /\ UNCHANGED <<live, out, sessions, batches, db, faults, aliased>>

(* The batches that belong to the target: the one it works on, the ones it opened. *)
BatchesOf(id) ==
    {b \in DOMAIN batches :
        /\ batches[b].mapped
        /\ \/ batches[b].opener = id
           \/ \E k \in tasks : k.id = id /\ k.op \in {"lob", "add", "commit"}
                                /\ k.arg = b
                                /\ (k.pc \in {"monitor", "execute"} \/ (k.pc = "reply" /\ k.ok))}

(* cancelRequest: then the batches are marked and their cleanup is scheduled. *)
CancelBatches ==
    /\ gen \in live /\ input # NoTarget
    /\ LET B == BatchesOf(input) IN
       /\ batches' = [b \in DOMAIN batches |->
                        [batches[b] EXCEPT !.closing = @ \/ b \in B]]
       /\ tasks' = tasks \cup
            (IF B = {} THEN {}
             ELSE {[id |-> input, op |-> "cleanup", arg |-> 0, row |-> <<>>, pc |-> "discard",
                    cancelled |-> FALSE, todo |-> B, cur |-> 0, ok |-> TRUE, val |-> 0]})
    /\ input' = NoTarget
    /\ UNCHANGED <<live, in, out, sessions, db, faults, aliased>>

(* The response goes out and the request leaves the maps. *)
Reply(k) ==
    /\ k.pc = "reply"
    /\ out' = out \cup {[id |-> k.id, ok |-> k.ok, val |-> k.val]}
    /\ tasks' = tasks \ {k}
    /\ UNCHANGED <<live, in, input, sessions, batches, db, faults, aliased>>

(***************************************************************************)
(* ConnectionPool.                                                          *)
(***************************************************************************)
(* release: the connection goes back, or is closed in a closed or full pool. *)
Released(p) ==
    IF p.shut \/ p.idle >= MaxIdle THEN [p EXCEPT !.open = @ - 1]
    ELSE [p EXCEPT !.idle = @ + 1]

Discarded(p) == [p EXCEPT !.open = @ - 1]

(* close: idle connections are closed, later releases close theirs. *)
ClosedPool(p) == [p EXCEPT !.shut = TRUE, !.open = @ - p.idle, !.idle = 0]

(* An idle connection is taken, or a new one is made. *)
Taken(p) == IF p.idle > 0 THEN [p EXCEPT !.idle = @ - 1] ELSE [p EXCEPT !.open = @ + 1]

Pooled(k, next) ==
    /\ sessions' = [sessions EXCEPT ![k.arg] = Taken(@)]
    /\ Goto(k, next)

(* acquire: a closed pool refuses, an idle connection is taken, a new one is
   made below the limit; otherwise the worker waits, which an interrupt ends. *)
Acquire(k) ==
    /\ k.pc = "acquire"
    /\ LET p == sessions[k.arg] IN
       \/ /\ p.shut
          /\ Answer(k, FALSE, 0)
          /\ UNCHANGED <<sessions, faults>>
       \/ /\ ~p.shut /\ (p.idle > 0 \/ p.open < MaxOpen)
          /\ Pooled(k, IF k.op = "begin" THEN "prepare" ELSE "using")
          /\ UNCHANGED faults
       \/ /\ ~p.shut /\ p.idle = 0 /\ p.open < MaxOpen
          /\ Fault
          /\ Answer(k, FALSE, 0)
          /\ UNCHANGED sessions
       \/ /\ ~p.shut /\ p.idle = 0 /\ p.open >= MaxOpen /\ k.cancelled
          /\ Answer(k, FALSE, 0)
          /\ UNCHANGED <<sessions, faults>>
    /\ UNCHANGED <<live, in, out, input, batches, db, aliased>>

(* acquire finds an idle connection expired or closed by the database. *)
DropIdle(k) ==
    /\ k.pc = "acquire" /\ ~sessions[k.arg].shut /\ sessions[k.arg].idle > 0
    /\ Fault
    /\ sessions' = [sessions EXCEPT ![k.arg].idle = @ - 1, ![k.arg].open = @ - 1]
    /\ UNCHANGED <<live, in, out, input, tasks, batches, db, aliased>>

(***************************************************************************)
(* Sessions.                                                                *)
(***************************************************************************)
(* The handshake. *)
Hello(k) ==
    /\ k.op = "hello" /\ k.pc = "queued"
    /\ Answer(k, TRUE, 0)
    /\ UNCHANGED <<live, in, out, input, sessions, batches, db, faults, aliased>>

(* The session of an id that the map still holds. *)
Session(id) == {s \in DOMAIN sessions : s = id /\ ~sessions[s].closed}

(* openSession: the pool is tested with one connection, then the session is
   registered, also for a request that was cancelled meanwhile. *)
OpenSession(k) ==
    /\ k.op = "open" /\ k.pc = "queued"
    /\ \/ /\ sessions' = Append(sessions,
                [closed |-> FALSE, shut |-> FALSE,
                 open |-> IF MaxIdle > 0 THEN 1 ELSE 0, idle |-> IF MaxIdle > 0 THEN 1 ELSE 0])
          /\ Answer(k, TRUE, Len(sessions) + 1)
          /\ UNCHANGED faults
       \/ /\ Fault
          /\ sessions' = Append(sessions, [closed |-> TRUE, shut |-> TRUE, open |-> 0, idle |-> 0])
          /\ Answer(k, FALSE, 0)
    /\ UNCHANGED <<live, in, out, input, batches, db, aliased>>

(* ping, listSchemas, execute, queryInt64, describeTable and beginBatch look
   the session up before they ask its pool for a connection. *)
FindSession(k) ==
    /\ k.op \in {"exec", "begin"} /\ k.pc = "queued"
    /\ IF Session(k.arg) = {} THEN Answer(k, FALSE, 0) ELSE Goto(k, "acquire")
    /\ UNCHANGED <<live, in, out, input, sessions, batches, db, faults, aliased>>

(* The statement ends, well or not, and the connection is released. *)
Execute(k) ==
    /\ k.op = "exec" /\ k.pc = "using"
    /\ sessions' = [sessions EXCEPT ![k.arg] = Released(@)]
    /\ \/ Answer(k, TRUE, 0) /\ UNCHANGED faults
       \/ Answer(k, FALSE, 0) /\ Fault
    /\ UNCHANGED <<live, in, out, input, batches, db, aliased>>

(* closeSession: the session is taken out of the map and marked; its batches
   are discarded one after the other, then the pool is closed. *)
CloseSession(k) ==
    /\ k.op = "close" /\ k.pc = "queued"
    /\ IF Session(k.arg) = {}
       THEN Answer(k, TRUE, 0) /\ UNCHANGED sessions
       ELSE /\ sessions' = [sessions EXCEPT ![k.arg].closed = TRUE]
            /\ Step(k, [k EXCEPT !.pc = "scan"])
    /\ UNCHANGED <<live, in, out, input, batches, db, faults, aliased>>

CloseSessionScan(k) ==
    /\ k.pc = "scan"
    /\ Step(k, [k EXCEPT !.pc = "discard",
                         !.todo = {b \in DOMAIN batches : batches[b].mapped /\ batches[b].session = k.arg}])
    /\ UNCHANGED <<live, in, out, input, sessions, batches, db, faults, aliased>>

CloseSessionPool(k) ==
    /\ k.op = "close" /\ k.pc = "discard" /\ k.todo = {} /\ k.cur = 0
    /\ sessions' = [sessions EXCEPT ![k.arg] = ClosedPool(@)]
    /\ Answer(k, TRUE, 0)
    /\ UNCHANGED <<live, in, out, input, batches, db, faults, aliased>>

(***************************************************************************)
(* Batches.                                                                 *)
(***************************************************************************)
Free == [t |-> "free", n |-> 0]

(* beginBatch: the statement is prepared and the batch registered. *)
BeginRegister(k) ==
    /\ k.op = "begin" /\ k.pc = "prepare"
    /\ batches' = Append(batches,
          [session |-> k.arg, opener |-> k.id, mapped |-> TRUE, closing |-> FALSE,
           failed |-> FALSE, disposed |-> FALSE, lobs |-> 0, rows |-> {}, monitor |-> Free])
    /\ Step(k, [k EXCEPT !.pc = "check", !.val = Len(batches) + 1])
    /\ UNCHANGED <<live, in, out, input, sessions, db, faults, aliased>>

(* beginBatch: preparing fails, nothing is registered. *)
BeginFails(k) ==
    /\ k.op = "begin" /\ k.pc = "prepare"
    /\ Fault
    /\ sessions' = [sessions EXCEPT ![k.arg] = Discarded(@)]
    /\ Answer(k, FALSE, 0)
    /\ UNCHANGED <<live, in, out, input, batches, db, aliased>>

\* Variant: a cancellation during beginBatch is not looked at.
BeginUnchecked(k) ==
    /\ k.op = "begin" /\ k.pc = "check"
    /\ Answer(k, TRUE, k.val)
    /\ UNCHANGED <<live, in, out, input, sessions, batches, db, faults, aliased>>

(* beginBatch: registered first, then checked. A cancellation or a closing
   session that came too early to see the batch is seen here. *)
BeginCheck(k) ==
    /\ k.op = "begin" /\ k.pc = "check"
    /\ IF k.cancelled \/ sessions[k.arg].closed
       THEN /\ batches' = [batches EXCEPT ![k.val].closing = TRUE]
            /\ Step(k, [k EXCEPT !.pc = "discard", !.todo = {k.val}])
       ELSE /\ Answer(k, TRUE, k.val)
            /\ UNCHANGED batches
    /\ UNCHANGED <<live, in, out, input, sessions, db, faults, aliased>>

(* requestBatch: look the batch up, enter it as the request's active batch. *)
RequestBatch(k) ==
    /\ k.op \in {"lob", "add", "commit"} /\ k.pc = "queued"
    /\ IF k.arg \in DOMAIN batches /\ batches[k.arg].mapped
       THEN /\ batches' = [batches EXCEPT ![k.arg].closing = @ \/ k.cancelled]
            /\ Goto(k, "monitor")
       ELSE /\ Answer(k, FALSE, 0)
            /\ UNCHANGED batches
    /\ UNCHANGED <<live, in, out, input, sessions, db, faults, aliased>>

(* ensureBatchOpen. *)
BatchOpen(k) ==
    LET b == batches[k.arg]
    IN  ~b.closing /\ ~sessions[b.session].closed /\ ~k.cancelled /\ ~b.failed

(* What ensureBatchOpen leaves of a batch whose request it refuses. *)
Refused(k, b) ==
    [b EXCEPT !.failed = TRUE,
              !.closing = @ \/ k.cancelled \/ sessions[b.session].closed]

AtMonitor(k, op) == k.op = op /\ k.pc = "monitor" /\ batches[k.arg].monitor = Free

(* beginLOB, appendLOB, finishLOB: a spool file is filled and sealed. *)
UploadLOB(k) ==
    /\ AtMonitor(k, "lob")
    /\ \/ /\ BatchOpen(k)
          /\ batches' = [batches EXCEPT ![k.arg].lobs = 1]
          /\ Answer(k, TRUE, 0)
          /\ UNCHANGED faults
       \/ /\ ~BatchOpen(k)
          /\ batches' = [batches EXCEPT ![k.arg] = Refused(k, @)]
          /\ Answer(k, FALSE, 0)
          /\ UNCHANGED faults
       \/ /\ BatchOpen(k)
          /\ Fault
          /\ batches' = [batches EXCEPT ![k.arg].lobs = 1, ![k.arg].failed = TRUE]
          /\ Answer(k, FALSE, 0)
    /\ UNCHANGED <<live, in, out, input, sessions, db, aliased>>

(* addBatch: the rows are bound and executed while the monitor is held. *)
AddBatch(k) ==
    /\ AtMonitor(k, "add")
    /\ IF BatchOpen(k)
       THEN /\ batches' = [batches EXCEPT ![k.arg].monitor = k.id]
            /\ Goto(k, "execute")
       ELSE /\ batches' = [batches EXCEPT ![k.arg] = Refused(k, @)]
            /\ Answer(k, FALSE, 0)
    /\ UNCHANGED <<live, in, out, input, sessions, db, faults, aliased>>

(* addBatch: executed, or not; LOBs that were bound are released either way. *)
AddBatchDone(k) ==
    /\ k.op = "add" /\ k.pc = "execute"
    /\ LET b == [batches[k.arg] EXCEPT !.lobs = 0, !.monitor = Free]
           done == [b EXCEPT !.rows = @ \cup {k.row}]
       IN  \/ /\ BatchOpen(k)
             /\ batches' = [batches EXCEPT ![k.arg] = done]
             /\ Answer(k, TRUE, 0)
             /\ UNCHANGED faults
          \/ /\ ~BatchOpen(k)
             /\ batches' = [batches EXCEPT ![k.arg] = Refused(k, done)]
             /\ Answer(k, FALSE, 0)
             /\ UNCHANGED faults
          \/ /\ Fault
             /\ batches' = [batches EXCEPT ![k.arg] = [b EXCEPT !.failed = TRUE]]
             /\ Answer(k, FALSE, 0)
    /\ UNCHANGED <<live, in, out, input, sessions, db, aliased>>

(* commitBatch: commit and release, all under the monitor. *)
CommitBatch(k) ==
    /\ AtMonitor(k, "commit") /\ BatchOpen(k) /\ batches[k.arg].lobs = 0
    /\ db' = db \cup batches[k.arg].rows
    /\ batches' = [batches EXCEPT ![k.arg].closing = TRUE, ![k.arg].mapped = FALSE, ![k.arg].disposed = TRUE]
    /\ sessions' = [sessions EXCEPT ![batches[k.arg].session] = Released(@)]
    /\ Answer(k, TRUE, 0)
    /\ UNCHANGED <<live, in, out, input, faults, aliased>>

(* commitBatch: refused or failed, rolled back and discarded. An error of commit
   or of what follows it may come after the database has committed. *)
CommitFails(k) ==
    /\ AtMonitor(k, "commit")
    /\ \/ (~BatchOpen(k) \/ batches[k.arg].lobs > 0) /\ UNCHANGED <<faults, db>>
       \/ BatchOpen(k) /\ batches[k.arg].lobs = 0 /\ Fault /\ db' \in {db, db \cup batches[k.arg].rows}
    /\ batches' = [batches EXCEPT ![k.arg] =
                      [@ EXCEPT !.closing = TRUE, !.mapped = FALSE, !.disposed = TRUE, !.lobs = 0, !.rows = {}]]
    /\ sessions' = [sessions EXCEPT ![batches[k.arg].session] = Discarded(@)]
    /\ Answer(k, FALSE, 0)
    /\ UNCHANGED <<live, in, out, input, aliased>>

(* abortBatch: unknown ids are answered with success. *)
AbortBatch(k) ==
    /\ k.op = "abort" /\ k.pc = "queued"
    /\ IF k.arg \in DOMAIN batches /\ batches[k.arg].mapped
       THEN /\ batches' = [batches EXCEPT ![k.arg].mapped = FALSE]
            /\ Step(k, [k EXCEPT !.pc = "discard", !.todo = {k.arg}])
       ELSE /\ Answer(k, TRUE, 0)
            /\ UNCHANGED batches
    /\ UNCHANGED <<live, in, out, input, sessions, db, faults, aliased>>

(* discardBatch: mark and unmap without the monitor, *)
DiscardMark(k) ==
    /\ k.pc = "discard" /\ k.cur = 0
    /\ \E b \in k.todo :
         IF k.op = "close" /\ ~batches[b].mapped
         THEN /\ Step(k, [k EXCEPT !.todo = @ \ {b}])
              /\ UNCHANGED batches
         ELSE /\ batches' = [batches EXCEPT ![b].closing = TRUE, ![b].mapped = FALSE]
              /\ Step(k, [k EXCEPT !.cur = b, !.todo = @ \ {b}])
    /\ UNCHANGED <<live, in, out, input, sessions, db, faults, aliased>>

\* Variant: the connection is given up without looking at `disposed`.
DisposeTwice(k) ==
    /\ k.pc = "discard" /\ k.cur # 0 /\ batches[k.cur].monitor = Free
    /\ batches' = [batches EXCEPT ![k.cur] = [@ EXCEPT !.disposed = TRUE, !.lobs = 0, !.rows = {}]]
    /\ sessions' = [sessions EXCEPT ![batches[k.cur].session] = Discarded(@)]
    /\ Step(k, [k EXCEPT !.cur = 0])
    /\ UNCHANGED <<live, in, out, input, db, faults, aliased>>

\* Variant: auto-commit is switched on again without a rollback, which commits.
DisposeCommits(k) ==
    /\ k.pc = "discard" /\ k.cur # 0 /\ batches[k.cur].monitor = Free
    /\ db' = db \cup batches[k.cur].rows
    /\ batches' = [batches EXCEPT ![k.cur].disposed = TRUE, ![k.cur].lobs = 0]
    /\ sessions' = IF batches[k.cur].disposed THEN sessions
                   ELSE [sessions EXCEPT ![batches[k.cur].session] = Discarded(@)]
    /\ Step(k, [k EXCEPT !.cur = 0])
    /\ UNCHANGED <<live, in, out, input, faults, aliased>>

(* then, under the monitor, roll back and give the connection up, once. *)
DiscardDispose(k) ==
    /\ k.pc = "discard" /\ k.cur # 0 /\ batches[k.cur].monitor = Free
    /\ IF batches[k.cur].disposed
       THEN UNCHANGED <<batches, sessions>>
       ELSE /\ batches' = [batches EXCEPT ![k.cur] =
                             [@ EXCEPT !.disposed = TRUE, !.lobs = 0, !.rows = {}]]
            /\ sessions' = [sessions EXCEPT ![batches[k.cur].session] = Discarded(@)]
    /\ Step(k, [k EXCEPT !.cur = 0])
    /\ UNCHANGED <<live, in, out, input, db, faults, aliased>>

(* The end of abortBatch, of a beginBatch that was refused and of a cleanup. *)
DiscardEnd(k) ==
    /\ k.op # "close" /\ k.pc = "discard" /\ k.todo = {} /\ k.cur = 0
    /\ IF k.op = "cleanup" THEN tasks' = tasks \ {k} ELSE Answer(k, k.op = "abort", 0)
    /\ UNCHANGED <<live, in, out, input, sessions, batches, db, faults, aliased>>

(* The JVM dies: crash, lack of memory, or killed by its manager. Everything in
   it is gone and the database rolls its transactions back; answers that were
   written stay readable. *)
Exit ==
    /\ gen \in live
    /\ live' = live \ {gen}
    /\ in' = <<>> /\ input' = NoTarget /\ tasks' = {} /\ sessions' = <<>> /\ batches' = <<>>
    /\ UNCHANGED <<out, db, aliased>>

Work(k) ==
    \/ Reply(k) \/ Acquire(k) \/ DropIdle(k)
    \/ Hello(k) \/ OpenSession(k) \/ FindSession(k) \/ Execute(k)
    \/ CloseSession(k) \/ CloseSessionScan(k) \/ CloseSessionPool(k)
    \/ BeginRegister(k) \/ BeginFails(k) \/ BeginCheck(k)
    \/ RequestBatch(k) \/ UploadLOB(k) \/ AddBatch(k) \/ AddBatchDone(k)
    \/ CommitBatch(k) \/ CommitFails(k) \/ AbortBatch(k)
    \/ DiscardMark(k) \/ DiscardDispose(k) \/ DiscardEnd(k)

ServerNext == Dispatch \/ CancelFuture \/ CancelBatches \/ \E k \in tasks : Work(k)
=============================================================================
