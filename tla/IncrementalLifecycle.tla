------------------------ MODULE IncrementalLifecycle ------------------------
(***************************************************************************)
(* The life of incremental jobs on ONE target schema: the HTTP handlers of *)
(* api/handler/incremental.go, the runner goroutines they launch, the      *)
(* in-memory registry (datamigrate/cdc/registry.go) and the job rows in    *)
(* SQLite (store/incremental.go).                                          *)
(*                                                                         *)
(* A thread is a request handler or a runner goroutine.  Each access to    *)
(* SQLite, to the registry, to the target checkpoint or to the source head *)
(* is a step of its own: between two steps of one thread the other threads *)
(* run.  A handler that launches a runner ends with it, so the new         *)
(* goroutine takes over its slot.                                          *)
(*                                                                         *)
(* Abstractions.  Positions are numbers: `head` is the source head, `ckpt` *)
(* the target checkpoint of a job (CdcRunner has the details); 0 stands    *)
(* for "no boundary".  ready_with_warnings is merged with ready_to_cutover *)
(* (they differ in the confirmations StopIncremental asks for).  The jobs  *)
(* are past their initial copy.                                            *)
(***************************************************************************)
EXTENDS Integers, FiniteSets

CONSTANTS
    Jobs,        \* job ids, all on the same target connection and schema
    Threads,     \* slots for handlers and runner goroutines
    NoThread,    \* not a slot
    Ops,         \* the operations the users of this instance call
    Outcomes,    \* ways a runner may end besides cutover and cancel
    DDLAt,       \* source positions that are DDL statements
    MaxHead,     \* bound: source positions
    MaxRequests, \* bound: accepted requests
    MaxRestarts  \* bound: restarts of the server

AllOps == {"start", "pause", "prepare", "stop", "cancel", "abort", "resume", "ack"}

ASSUME LifecycleAssumption ==
    /\ Jobs # {} /\ NoThread \notin Threads
    /\ Ops \subseteq AllOps
    /\ Outcomes \subseteq {"conflict", "error"}
    /\ MaxHead \in Nat \ {0} /\ DDLAt \subseteq 2..MaxHead
    /\ MaxRequests \in Nat /\ MaxRestarts \in Nat

VARIABLES
    status,    \* SQLite: status column, "none" before the row exists
    ended,     \* history: the jobs that were terminated once
    cutover,   \* SQLite: cutover_* columns, 0 when empty
    blocking,  \* SQLite: blocking_* columns, 0 when empty
    ckpt,      \* target: checkpoint of each job
    head,      \* source: current position
    reg,       \* registry entry of each job
    th,        \* the threads
    mutex,     \* holder of incrementalStartMu, or NoThread
    requests, restarts  \* counters for the bounds

state == <<status, ended>>
rows  == <<state, cutover, blocking>>
vars  == <<rows, ckpt, head, reg, th, mutex, requests, restarts>>

Terminal  == {"stopped", "aborted"}
Active    == {"initializing", "catching_up", "running", "pausing", "cutting_over", "validating"}
Resumable == {"paused_manual", "paused_restart", "failed", "paused_row_conflict"}
InCutover == {"cutting_over", "ready_to_cutover", "cutover_blocked"}
Statuses  == {"none", "paused_ddl"} \cup Terminal \cup Active \cup Resumable \cup InCutover

NotRegistered == [live |-> FALSE, action |-> "", cutover |-> 0]
Registered    == [live |-> TRUE, action |-> "", cutover |-> 0]

\* st: the status read (handler) or published last (runner); pos: the position
\* read; cut: the boundary in the thread's copy of the row; err: how Run ended.
Thread(pc, j, st, pos, cut) ==
    [pc |-> pc, job |-> j, st |-> st, pos |-> pos, cut |-> cut, err |-> ""]
IdleThread == Thread("idle", CHOOSE j \in Jobs : TRUE, "", 0, 0)

Init ==
    /\ status = [j \in Jobs |-> "none"] /\ ended = {}
    /\ cutover = [j \in Jobs |-> 0] /\ blocking = [j \in Jobs |-> 0]
    /\ ckpt = [j \in Jobs |-> 1] /\ head = 1
    /\ reg = [j \in Jobs |-> NotRegistered]
    /\ th = [t \in Threads |-> IdleThread]
    /\ mutex = NoThread
    /\ requests = 0 /\ restarts = 0
-----------------------------------------------------------------------------
Job(t) == th[t].job
At(t, pc) == th[t].pc = pc

Goto(t, pc) == th' = [th EXCEPT ![t].pc = pc]

\* The thread returns; the deferred Unlock releases the mutex it may hold.
Return(t) ==
    /\ th' = [th EXCEPT ![t] = IdleThread]
    /\ mutex' = IF mutex = t THEN NoThread ELSE mutex

SetStatus(j, s) ==
    /\ status' = [status EXCEPT ![j] = s]
    /\ ended' = IF s \in Terminal THEN ended \cup {j} ELSE ended

\* A request of kind op reaches an idle slot and keeps what it reads.
Accept(t, op, pc, j, st, pos, cut) ==
    /\ op \in Ops /\ requests < MaxRequests
    /\ At(t, "idle")
    /\ th' = [th EXCEPT ![t] = Thread(pc, j, st, pos, cut)]
    /\ requests' = requests + 1
    /\ UNCHANGED restarts

Lock(t) == mutex = NoThread /\ mutex' = t

\* The steps of threads leave the bounds' counters alone.
Counters == <<requests, restarts>>
-----------------------------------------------------------------------------
(* launchIncremental.  `cut` is the cutover boundary in the caller's copy   *)
(* of the row; a job that is already registered makes it return silently.  *)

\* The goroutine starts in the launcher's slot, and the launcher returns.
Spawn(t) ==
    /\ th' = [th EXCEPT ![t] = Thread("begin", Job(t), "", 0, 0)]
    /\ mutex' = IF mutex = t THEN NoThread ELSE mutex

\* Register refuses a job that is registered; a boundary is handed on.
LaunchRegister(t) ==
    /\ At(t, "launch")
    /\ IF reg[Job(t)].live
       THEN Return(t) /\ UNCHANGED reg
       ELSE /\ reg' = [reg EXCEPT ![Job(t)] = Registered]
            /\ IF th[t].cut # 0
               THEN Goto(t, "launch_boundary") /\ UNCHANGED mutex
               ELSE Spawn(t)
    /\ UNCHANGED <<rows, ckpt, head, Counters>>

\* Registry.RequestCutover: refused once an action is set.
WithBoundary(r, p) == IF r.live /\ r.action = "" THEN [r EXCEPT !.cutover = p] ELSE r

LaunchBoundary(t) ==
    /\ At(t, "launch_boundary")
    /\ reg' = [reg EXCEPT ![Job(t)] = WithBoundary(@, th[t].cut)]
    /\ Spawn(t)
    /\ UNCHANGED <<rows, ckpt, head, Counters>>
-----------------------------------------------------------------------------
(* Runner goroutine: Run with the hooks of runCDC, then what follows Run.  *)

\* Run's first act: the Status hook writes "initializing".
RunBegin(t) ==
    /\ At(t, "begin")
    /\ SetStatus(Job(t), "initializing")
    /\ Goto(t, "publish")
    /\ UNCHANGED <<cutover, blocking, ckpt, head, reg, mutex, Counters>>

\* What publish decides from the checkpoint, the head and the boundary.
Reached(j) == reg[j].cutover # 0 /\ ckpt[j] >= reg[j].cutover
Wanted(j) == IF reg[j].cutover # 0 THEN "cutting_over"
             ELSE IF ckpt[j] >= head THEN "running" ELSE "catching_up"

\* After the status is published: back to the events, or ErrCutoverReady.
Published(t, reached) ==
    [th[t] EXCEPT !.pc = IF reached THEN "remove" ELSE "loop",
                  !.err = IF reached THEN "cutover" ELSE ""]

\* publish reads the registry; a status it published already is not repeated.
RunPublish(t) ==
    /\ At(t, "publish")
    /\ LET j == Job(t) IN
       th' = [th EXCEPT ![t] =
                IF th[t].st = Wanted(j) THEN Published(t, Reached(j))
                ELSE [@ EXCEPT !.pc = IF Reached(j) THEN "emit_reached" ELSE "emit",
                               !.st = Wanted(j)]]
    /\ UNCHANGED <<rows, ckpt, head, reg, mutex, Counters>>

\* The Status hook writes unconditionally.
RunEmit(t) ==
    /\ th[t].pc \in {"emit", "emit_reached"}
    /\ SetStatus(Job(t), th[t].st)
    /\ th' = [th EXCEPT ![t] = Published(t, At(t, "emit_reached"))]
    /\ UNCHANGED <<cutover, blocking, ckpt, head, reg, mutex, Counters>>

\* A source transaction is applied with its checkpoint, then publish.
RunApply(t) ==
    /\ At(t, "loop")
    /\ ckpt[Job(t)] < head /\ ckpt[Job(t)] + 1 \notin DDLAt
    /\ ckpt' = [ckpt EXCEPT ![Job(t)] = @ + 1]
    /\ Goto(t, "publish")
    /\ UNCHANGED <<rows, head, reg, mutex, Counters>>

\* A heartbeat or an event of another table: publish has something new to say.
RunHeartbeat(t) ==
    /\ At(t, "loop")
    /\ th[t].st # Wanted(Job(t)) \/ Reached(Job(t))
    /\ Goto(t, "publish")
    /\ UNCHANGED <<rows, ckpt, head, reg, mutex, Counters>>

Ended(t, err) == th' = [th EXCEPT ![t].pc = "remove", ![t].err = err]

\* The DDL hook stores the blocking position; Run returns ErrDDLPause.
RunDDL(t) ==
    /\ At(t, "loop")
    /\ ckpt[Job(t)] < head /\ ckpt[Job(t)] + 1 \in DDLAt
    /\ SetStatus(Job(t), "paused_ddl")
    /\ blocking' = [blocking EXCEPT ![Job(t)] = ckpt[Job(t)] + 1]
    /\ Ended(t, "ddl")
    /\ UNCHANGED <<cutover, ckpt, head, reg, mutex, Counters>>

\* Apply finds a row that cannot be located; the RowConflict hook pauses.
RunConflict(t) ==
    /\ "conflict" \in Outcomes
    /\ At(t, "loop") /\ ckpt[Job(t)] < head
    /\ SetStatus(Job(t), "paused_row_conflict")
    /\ Ended(t, "conflict")
    /\ UNCHANGED <<cutover, blocking, ckpt, head, reg, mutex, Counters>>

\* Run sees its cancelled context.
RunCancelled(t) ==
    /\ th[t].pc \in {"begin", "publish", "loop"}
    /\ reg[Job(t)].action # ""
    /\ Ended(t, "cancelled")
    /\ UNCHANGED <<rows, ckpt, head, reg, mutex, Counters>>

RunError(t) ==
    /\ "error" \in Outcomes
    /\ th[t].pc \in {"publish", "loop"}
    /\ Ended(t, "error")
    /\ UNCHANGED <<rows, ckpt, head, reg, mutex, Counters>>

\* Variant: a runner that reached its boundary just ends.
ForgetCutover(err, action) ==
    CASE err \in {"cutover", "ddl", "conflict"} -> "end"
      [] OTHER -> IF action # "" THEN action ELSE IF err = "error" THEN "failed" ELSE "end"

\* Variant: only a pause is looked at.
ForgetAbort(err, action) ==
    CASE err = "cutover" -> "reload"
      [] err \in {"ddl", "conflict"} -> "end"
      [] OTHER -> IF action = "pause" THEN action ELSE IF err = "error" THEN "failed" ELSE "end"

\* Registry.Remove, and where the goroutine goes from there.
AfterRemove(err, action) ==
    CASE err = "cutover" -> "reload"
      [] err \in {"ddl", "conflict"} -> "end"
      [] OTHER -> IF action # "" THEN action ELSE IF err = "error" THEN "failed" ELSE "end"

RunRemove(t) ==
    /\ At(t, "remove")
    /\ LET action == reg[Job(t)].action
           pc == AfterRemove(th[t].err, action) IN
       th' = [th EXCEPT ![t] = IF pc = "end" THEN IdleThread
                               ELSE [@ EXCEPT !.pc = pc]]
    /\ reg' = [reg EXCEPT ![Job(t)] = NotRegistered]
    /\ UNCHANGED <<rows, ckpt, head, mutex, Counters>>

\* The unconditional last write of a paused, aborted or failed runner.
RunLastWrite(t) ==
    /\ th[t].pc \in {"pause", "abort", "failed"}
    /\ SetStatus(Job(t), CASE At(t, "pause") -> "paused_manual"
                           [] At(t, "abort") -> "aborted"
                           [] OTHER -> "failed")
    /\ Return(t)
    /\ UNCHANGED <<cutover, blocking, ckpt, head, reg, Counters>>

\* ErrCutoverReady: the row is read again; a cancelled cutover is relaunched.
CutoverReload(t) ==
    /\ At(t, "reload")
    /\ th' = [th EXCEPT ![t].cut = cutover[Job(t)],
                        ![t].pc = IF cutover[Job(t)] = 0 THEN "launch" ELSE "claim"]
    /\ UNCHANGED <<rows, ckpt, head, reg, mutex, Counters>>

\* finishIncrementalCutover claims the row with a compare-and-set.
CutoverClaim(t) ==
    /\ At(t, "claim")
    /\ IF status[Job(t)] = "cutting_over"
       THEN SetStatus(Job(t), "validating") /\ Goto(t, "validate")
       ELSE UNCHANGED state /\ Goto(t, "unclaimed")
    /\ UNCHANGED <<cutover, blocking, ckpt, head, reg, mutex, Counters>>

\* Not claimed: a job that is "running" without a runner is launched.
CutoverUnclaimed(t) ==
    /\ At(t, "unclaimed")
    /\ IF status[Job(t)] = "running"
       THEN /\ th' = [th EXCEPT ![t].cut = cutover[Job(t)], ![t].pc = "launch"]
            /\ UNCHANGED mutex
       ELSE Return(t)
    /\ UNCHANGED <<rows, ckpt, head, reg, Counters>>

\* Sequences and row counts are compared; the result is written unconditionally.
CutoverValidate(t) ==
    /\ At(t, "validate")
    /\ \E s \in {"cutover_blocked", "ready_to_cutover"} : SetStatus(Job(t), s)
    /\ Return(t)
    /\ UNCHANGED <<cutover, blocking, ckpt, head, reg, Counters>>
-----------------------------------------------------------------------------
(* createIncrementalAfterPreflight, under the mutex. *)

\* Variant: a failed or paused job does not count as open.
StartBesidePaused(t, j) ==
    /\ status[j] = "none"
    /\ \A k \in Jobs : status[k] \in Terminal \cup Resumable \cup {"none"}
    /\ Lock(t)
    /\ Accept(t, "start", "create", j, "", 0, 0)
    /\ UNCHANGED <<rows, ckpt, head, reg>>

\* HasOpenIncrementalTarget: no unterminated job may exist on the target.
StartCheck(t, j) ==
    /\ status[j] = "none"
    /\ \A k \in Jobs : status[k] \in Terminal \cup {"none"}
    /\ Lock(t)
    /\ Accept(t, "start", "create", j, "", 0, 0)
    /\ UNCHANGED <<rows, ckpt, head, reg>>

StartCreate(t) ==
    /\ At(t, "create")
    /\ SetStatus(Job(t), "initializing")
    /\ Goto(t, "launch")
    /\ UNCHANGED <<cutover, blocking, ckpt, head, reg, mutex, Counters>>
-----------------------------------------------------------------------------
(* PauseIncremental: no mutex; Registry.Cancel, then an unconditional write. *)

\* Variant: the row is looked at instead of the registry.
PauseOfRow(t, j) ==
    /\ status[j] # "none"
    /\ Accept(t, "pause", "pausing", j, "", 0, 0)
    /\ UNCHANGED <<rows, ckpt, head, reg, mutex>>

\* Registry.Cancel refuses a pause once a boundary is set.
PauseCancel(t, j) ==
    /\ reg[j].live /\ reg[j].action = "" /\ reg[j].cutover = 0
    /\ reg' = [reg EXCEPT ![j].action = "pause"]
    /\ Accept(t, "pause", "pausing", j, "", 0, 0)
    /\ UNCHANGED <<rows, ckpt, head, mutex>>

PauseWrite(t) ==
    /\ At(t, "pausing")
    /\ SetStatus(Job(t), "pausing")
    /\ Return(t)
    /\ UNCHANGED <<cutover, blocking, ckpt, head, reg, Counters>>
-----------------------------------------------------------------------------
(* PrepareIncrementalCutover: no mutex. *)

PrepareRead(t, j) ==
    /\ status[j] \in {"running", "catching_up"}
    /\ Accept(t, "prepare", "prepare_head", j, status[j], 0, 0)
    /\ UNCHANGED <<rows, ckpt, head, reg, mutex>>

\* The job must be registered; the boundary is the source head.
PrepareHead(t) ==
    /\ At(t, "prepare_head")
    /\ IF reg[Job(t)].live
       THEN th' = [th EXCEPT ![t].pc = "prepare_swap", ![t].pos = head] /\ UNCHANGED mutex
       ELSE Return(t)
    /\ UNCHANGED <<rows, ckpt, head, reg, Counters>>

PrepareSwap(t) ==
    /\ At(t, "prepare_swap")
    /\ IF status[Job(t)] \in {"running", "catching_up"}
       THEN /\ SetStatus(Job(t), "cutting_over")
            /\ cutover' = [cutover EXCEPT ![Job(t)] = th[t].pos]
            /\ Goto(t, "prepare_request") /\ UNCHANGED mutex
       ELSE Return(t) /\ UNCHANGED <<state, cutover>>
    /\ UNCHANGED <<blocking, ckpt, head, reg, Counters>>

PrepareRequest(t) ==
    /\ At(t, "prepare_request")
    /\ LET r == reg[Job(t)] IN
       IF r.live /\ r.action = ""
       THEN reg' = [reg EXCEPT ![Job(t)] = WithBoundary(r, th[t].pos)] /\ Return(t)
       ELSE Goto(t, "prepare_undo") /\ UNCHANGED <<reg, mutex>>
    /\ UNCHANGED <<rows, ckpt, head, Counters>>

\* The registry refused: the old status comes back if the row is untouched...
PrepareUndo(t) ==
    /\ At(t, "prepare_undo")
    /\ IF status[Job(t)] = "cutting_over"
       THEN /\ SetStatus(Job(t), th[t].st)
            /\ cutover' = [cutover EXCEPT ![Job(t)] = 0]
            /\ Return(t)
       ELSE Goto(t, "prepare_clear") /\ UNCHANGED <<state, cutover, mutex>>
    /\ UNCHANGED <<blocking, ckpt, head, reg, Counters>>

\* ...and otherwise the boundary alone is cleared, unconditionally.
PrepareClear(t) ==
    /\ At(t, "prepare_clear")
    /\ cutover' = [cutover EXCEPT ![Job(t)] = 0]
    /\ Return(t)
    /\ UNCHANGED <<state, blocking, ckpt, head, reg, Counters>>
-----------------------------------------------------------------------------
(* StopIncremental (complete the cutover): no mutex. *)

StopRead(t, j) ==
    /\ status[j] = "ready_to_cutover"
    /\ Accept(t, "stop", "stop_checkpoint", j, status[j], cutover[j], 0)
    /\ UNCHANGED <<rows, ckpt, head, reg, mutex>>

\* Variant: "ready" is trusted, the checkpoint is not looked at.
StopUnchecked(t) ==
    /\ At(t, "stop_checkpoint")
    /\ Goto(t, "stop_head")
    /\ UNCHANGED <<rows, ckpt, head, reg, mutex, Counters>>

\* The target checkpoint must have reached the boundary that was read.
StopCheckpoint(t) ==
    /\ At(t, "stop_checkpoint")
    /\ IF ckpt[Job(t)] >= th[t].pos
       THEN Goto(t, "stop_head") /\ UNCHANGED mutex
       ELSE Return(t)
    /\ UNCHANGED <<rows, ckpt, head, reg, Counters>>

\* PositionEquivalent: nothing may have been written behind the boundary.
StopHead(t) ==
    /\ At(t, "stop_head")
    /\ IF head = th[t].pos
       THEN Goto(t, "stop_swap") /\ UNCHANGED mutex
       ELSE Return(t)
    /\ UNCHANGED <<rows, ckpt, head, reg, Counters>>

StopSwap(t) ==
    /\ At(t, "stop_swap")
    /\ IF status[Job(t)] = th[t].st THEN SetStatus(Job(t), "stopped") ELSE UNCHANGED state
    /\ Return(t)
    /\ UNCHANGED <<cutover, blocking, ckpt, head, reg, Counters>>
-----------------------------------------------------------------------------
(* CancelIncrementalCutover: no mutex. *)

CancelRead(t, j) ==
    /\ status[j] \in InCutover
    /\ Accept(t, "cancel", "cancel_running", j, "", 0, 0)
    /\ UNCHANGED <<rows, ckpt, head, reg, mutex>>

CancelRunning(t) ==
    /\ At(t, "cancel_running")
    /\ Goto(t, IF reg[Job(t)].live THEN "cancel_swap_running" ELSE "cancel_swap")
    /\ UNCHANGED <<rows, ckpt, head, reg, mutex, Counters>>

CancelSwap(t) ==
    /\ th[t].pc \in {"cancel_swap", "cancel_swap_running"}
    /\ IF status[Job(t)] \in InCutover
       THEN /\ SetStatus(Job(t), "running")
            /\ cutover' = [cutover EXCEPT ![Job(t)] = 0]
            /\ Goto(t, IF At(t, "cancel_swap") THEN "cancel_reload" ELSE "cancel_clear")
            /\ UNCHANGED mutex
       ELSE Return(t) /\ UNCHANGED <<state, cutover>>
    /\ UNCHANGED <<blocking, ckpt, head, reg, Counters>>

\* Registry.ClearCutover when a runner was registered a moment ago.
CancelClear(t) ==
    /\ At(t, "cancel_clear")
    /\ reg' = [reg EXCEPT ![Job(t)].cutover = 0]
    /\ Return(t)
    /\ UNCHANGED <<rows, ckpt, head, Counters>>

CancelReload(t) ==
    /\ At(t, "cancel_reload")
    /\ IF status[Job(t)] = "running"
       THEN /\ th' = [th EXCEPT ![t].cut = cutover[Job(t)], ![t].pc = "launch"]
            /\ UNCHANGED mutex
       ELSE Return(t)
    /\ UNCHANGED <<rows, ckpt, head, reg, Counters>>
-----------------------------------------------------------------------------
(* AbortIncremental, under the mutex. *)

AbortRead(t, j) ==
    /\ status[j] \notin Terminal \cup {"none", "validating"}
    /\ Lock(t)
    /\ Accept(t, "abort", "abort_running", j, status[j], 0, 0)
    /\ UNCHANGED <<rows, ckpt, head, reg>>

AbortRunning(t) ==
    /\ At(t, "abort_running")
    /\ Goto(t, IF reg[Job(t)].live THEN "abort_cancel" ELSE "abort_swap")
    /\ UNCHANGED <<rows, ckpt, head, reg, mutex, Counters>>

\* Registry.Cancel: refused when another action is set or the runner is gone.
AbortCancel(t) ==
    /\ At(t, "abort_cancel")
    /\ reg' = [reg EXCEPT ![Job(t)].action = IF reg[Job(t)].live /\ @ = "" THEN "abort" ELSE @]
    /\ Return(t)
    /\ UNCHANGED <<rows, ckpt, head, Counters>>

AbortSwap(t) ==
    /\ At(t, "abort_swap")
    /\ IF status[Job(t)] = th[t].st THEN SetStatus(Job(t), "aborted") ELSE UNCHANGED state
    /\ Return(t)
    /\ UNCHANGED <<cutover, blocking, ckpt, head, reg, Counters>>
-----------------------------------------------------------------------------
(* ResumeIncremental, under the mutex. *)

ResumeRead(t, j) ==
    /\ status[j] \in Resumable
    /\ Lock(t)
    /\ Accept(t, "resume", "resume_running", j, "", 0, cutover[j])
    /\ UNCHANGED <<rows, ckpt, head, reg>>

ResumeRunning(t) ==
    /\ At(t, "resume_running")
    /\ IF reg[Job(t)].live THEN Return(t) ELSE Goto(t, "resume_swap") /\ UNCHANGED mutex
    /\ UNCHANGED <<rows, ckpt, head, reg, Counters>>

ResumeSwap(t) ==
    /\ At(t, "resume_swap")
    /\ IF status[Job(t)] \in Resumable
       THEN SetStatus(Job(t), "initializing") /\ Goto(t, "launch") /\ UNCHANGED mutex
       ELSE UNCHANGED state /\ Return(t)
    /\ UNCHANGED <<cutover, blocking, ckpt, head, reg, Counters>>
-----------------------------------------------------------------------------
(* AckIncrementalDDL: no mutex, and the checkpoint is written first. *)

AckRead(t, j) ==
    /\ status[j] = "paused_ddl"
    /\ Accept(t, "ack", "ack_save", j, "", blocking[j], cutover[j])
    /\ UNCHANGED <<rows, ckpt, head, reg, mutex>>

AckSave(t) ==
    /\ At(t, "ack_save")
    /\ ckpt' = [ckpt EXCEPT ![Job(t)] = th[t].pos]
    /\ Goto(t, "ack_swap")
    /\ UNCHANGED <<rows, head, reg, mutex, Counters>>

AckSwap(t) ==
    /\ At(t, "ack_swap")
    /\ IF status[Job(t)] = "paused_ddl"
       THEN /\ SetStatus(Job(t), "initializing")
            /\ blocking' = [blocking EXCEPT ![Job(t)] = 0]
            /\ Goto(t, "launch") /\ UNCHANGED mutex
       ELSE UNCHANGED <<state, blocking>> /\ Return(t)
    /\ UNCHANGED <<cutover, ckpt, head, reg, Counters>>
-----------------------------------------------------------------------------
\* The source commits a transaction or a DDL statement.
SourceWrite ==
    /\ head < MaxHead /\ head' = head + 1
    /\ UNCHANGED <<rows, ckpt, reg, th, mutex, Counters>>

\* The server dies and starts again: PauseInterruptedIncrementalJobs moves every
\* active job to paused_restart; nothing is relaunched.
Restart ==
    /\ restarts < MaxRestarts /\ restarts' = restarts + 1
    /\ status' = [j \in Jobs |-> IF status[j] \in Active THEN "paused_restart" ELSE status[j]]
    /\ reg' = [j \in Jobs |-> NotRegistered]
    /\ th' = [t \in Threads |-> IdleThread]
    /\ mutex' = NoThread
    /\ UNCHANGED <<ended, cutover, blocking, ckpt, head, requests>>

RunnerStep(t) ==
    \/ LaunchRegister(t) \/ LaunchBoundary(t)
    \/ RunBegin(t) \/ RunPublish(t) \/ RunEmit(t) \/ RunApply(t) \/ RunHeartbeat(t)
    \/ RunDDL(t) \/ RunCancelled(t)
    \/ RunRemove(t) \/ RunLastWrite(t)
    \/ CutoverReload(t) \/ CutoverClaim(t) \/ CutoverUnclaimed(t) \/ CutoverValidate(t)

HandlerStep(t) ==
    \/ StartCreate(t) \/ PauseWrite(t)
    \/ PrepareHead(t) \/ PrepareSwap(t) \/ PrepareRequest(t) \/ PrepareUndo(t) \/ PrepareClear(t)
    \/ StopCheckpoint(t) \/ StopHead(t) \/ StopSwap(t)
    \/ CancelRunning(t) \/ CancelSwap(t) \/ CancelClear(t) \/ CancelReload(t)
    \/ AbortRunning(t) \/ AbortCancel(t) \/ AbortSwap(t)
    \/ ResumeRunning(t) \/ ResumeSwap(t)
    \/ AckSave(t) \/ AckSwap(t)

Request(t, j) ==
    \/ StartCheck(t, j) \/ PauseCancel(t, j) \/ PrepareRead(t, j) \/ StopRead(t, j)
    \/ CancelRead(t, j) \/ AbortRead(t, j) \/ ResumeRead(t, j) \/ AckRead(t, j)

Next ==
    \/ \E t \in Threads : RunnerStep(t) \/ HandlerStep(t) \/ RunConflict(t) \/ RunError(t)
    \/ \E t \in Threads, j \in Jobs : Request(t, j)
    \/ SourceWrite
    \/ Restart

Spec == Init /\ [][Next]_vars

\* Goroutines and handlers that can take a step eventually take it (Go's
\* scheduler); nobody has to call an operation, and no error has to happen.
FairSpec == Spec /\ \A t \in Threads : WF_vars(RunnerStep(t) \/ HandlerStep(t))
-----------------------------------------------------------------------------
Pcs == {"idle", "launch", "launch_boundary", "begin", "publish", "emit", "emit_reached",
        "loop", "remove", "pause", "abort", "failed", "reload", "claim", "unclaimed", "validate",
        "create", "pausing", "prepare_head", "prepare_swap", "prepare_request", "prepare_undo",
        "prepare_clear", "stop_checkpoint", "stop_head", "stop_swap", "cancel_running",
        "cancel_swap", "cancel_swap_running", "cancel_clear", "cancel_reload", "abort_running",
        "abort_cancel", "abort_swap", "resume_running", "resume_swap", "ack_save", "ack_swap"}

TypeOK ==
    /\ status \in [Jobs -> Statuses] /\ ended \subseteq Jobs
    /\ cutover \in [Jobs -> 0..MaxHead] /\ blocking \in [Jobs -> 0..MaxHead]
    /\ ckpt \in [Jobs -> 1..MaxHead] /\ head \in 1..MaxHead
    /\ reg \in [Jobs -> [live : BOOLEAN, action : {"", "pause", "abort"}, cutover : 0..MaxHead]]
    /\ th \in [Threads -> [pc : Pcs, job : Jobs, st : Statuses \cup {""}, pos : 0..MaxHead,
                           cut : 0..MaxHead, err : {"", "cutover", "ddl", "conflict", "cancelled", "error"}]]
    /\ mutex \in Threads \cup {NoThread}
    /\ requests \in 0..MaxRequests /\ restarts \in 0..MaxRestarts

\* The program counters of a goroutine that still replicates.
Replicating == {"begin", "publish", "emit", "emit_reached", "loop", "remove"}

(***************************************************************************)
(* A registry entry stands for exactly one runner goroutine of that job    *)
(* (or for the launch that is about to start it), and no runner works      *)
(* without one: Register, Remove and the relaunches keep them paired.      *)
(***************************************************************************)
OneRunnerPerJob ==
    \A j \in Jobs :
        Cardinality({t \in Threads : Job(t) = j /\ th[t].pc \in Replicating \cup {"launch_boundary"}})
            = (IF reg[j].live THEN 1 ELSE 0)

(***************************************************************************)
(* "The target connection and schema already have an unterminated job      *)
(* [...] avoid concurrent drops and writes" (incremental.go 45): two jobs  *)
(* never replicate into one target.                                        *)
(***************************************************************************)
OneRunnerPerTarget ==
    \A t, u \in Threads : th[t].pc \in Replicating /\ th[u].pc \in Replicating => Job(t) = Job(u)

(***************************************************************************)
(* A job is completed only out of a finished validation, by a request that *)
(* found the boundary it had read to be the source head, and the target    *)
(* has everything up to that boundary when the status is swapped, whatever *)
(* cancelled and repeated cutovers, pauses and restarts raced with the     *)
(* request: StopIncremental checks the checkpoint itself, before it swaps. *)
(***************************************************************************)
CompletedAtBoundary ==
    [][\A j \in Jobs : status[j] # "stopped" /\ status'[j] = "stopped" =>
           /\ status[j] = "ready_to_cutover"
           /\ \E t \in Threads : /\ At(t, "stop_swap") /\ Job(t) = j
                                 /\ ckpt[j] >= th[t].pos /\ head >= th[t].pos]_vars

(***************************************************************************)
(* The same for the boundary in the row when the job is completed: fails,  *)
(* since the swap compares the status alone (incremental.go 1025) and the  *)
(* job may have been cancelled and prepared again since it was read.       *)
(***************************************************************************)
StoppedIsComplete ==
    \A j \in Jobs : status[j] = "stopped" => ckpt[j] >= cutover[j]

(***************************************************************************)
(* A job is offered for completion only when its current boundary is       *)
(* reached: the relaunch "instead of publishing a stale validation result" *)
(* (incremental.go 266-268).                                               *)
(***************************************************************************)
ReadyIsReached ==
    \A j \in Jobs : status[j] = "ready_to_cutover" => ckpt[j] >= cutover[j]

(***************************************************************************)
(* A terminated job stays terminated.                                      *)
(***************************************************************************)
TerminalForever ==
    [][\A j \in Jobs : status[j] \in Terminal => status'[j] = status[j]]_vars

(***************************************************************************)
(* With every operation, whose late writes may open a terminated job again *)
(* (a pause, a runner that fails after the abort was swapped): only those  *)
(* who were at work on the job when it was terminated can do so.  Once     *)
(* nobody is, no request, runner or restart opens it any more.             *)
(***************************************************************************)
Settled(j) ==
    /\ status[j] \in Terminal
    /\ \A t \in Threads : At(t, "idle") \/ Job(t) # j

SettledStays == [][\A j \in Jobs : Settled(j) => Settled(j)']_vars

(***************************************************************************)
(* With every operation, the relaunches outside incrementalStartMu and the *)
(* late writes of handlers and runners too: two jobs replicate into one    *)
(* target only if one of them had been terminated before (and was opened   *)
(* again); the target never has two jobs of which none was ever ended.     *)
(***************************************************************************)
TwoRunnersOneEnded ==
    \A t, u \in Threads :
        /\ th[t].pc \in Replicating /\ th[u].pc \in Replicating
        /\ Job(t) # Job(u)
        => Job(t) \in ended \/ Job(u) \in ended

(***************************************************************************)
(* An abort the registry accepted ends the job, unless its runner comes to *)
(* an end of its own first: the boundary, a DDL statement or a conflict    *)
(* (AbortCancel answers all the same, and the runner drops the abort).     *)
(***************************************************************************)
EndedItself(j) ==
    \E t \in Threads : At(t, "remove") /\ Job(t) = j /\ th[t].err \in {"cutover", "ddl", "conflict"}

AbortTakesEffect ==
    \A j \in Jobs : (reg[j].action = "abort") ~>
                    (status[j] \in {"aborted", "paused_restart"} \/ EndedItself(j))

(***************************************************************************)
(* A cutover that was asked for comes to an end: validated, blocked,       *)
(* cancelled, paused or failed, never stuck on the way.                    *)
(***************************************************************************)
CutoverEnds ==
    \A j \in Jobs : (status[j] \in {"cutting_over", "validating"}) ~>
                    (status[j] \notin {"cutting_over", "validating"})
=============================================================================
