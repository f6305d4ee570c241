---------------------- MODULE IncrementalLifecycleProofs ----------------------
(***************************************************************************)
(* Proofs about IncrementalLifecycle, for any number of jobs, threads and  *)
(* positions and every bound, with every operation and outcome:            *)
(*   - the types, and the pairing of registry entries and goroutines;      *)
(*   - of two jobs on the target one has been terminated;                  *)
(*   - a terminated job that nobody is at work on is terminated for good;  *)
(* and without acknowledgements (a stale one moves the checkpoint back):   *)
(*   - a job is completed at its boundary.                                 *)
(***************************************************************************)
EXTENDS IncrementalLifecycle, FiniteSetTheorems, TLAPS

ThreadType ==
    [pc : Pcs, job : Jobs, st : Statuses \cup {""}, pos : 0..MaxHead,
     cut : 0..MaxHead, err : {"", "cutover", "ddl", "conflict", "cancelled", "error"}]

EntryType == [live : BOOLEAN, action : {"", "pause", "abort"}, cutover : 0..MaxHead]

\* The statuses that publish writes.
Told == {"cutting_over", "running", "catching_up"}

\* What a thread keeps from one step to the next is fit for its use there.
LocalThread(t) ==
    /\ th[t].pc \in {"emit", "emit_reached"} => th[t].st \in Told
    /\ th[t].pc \in {"prepare_head", "prepare_swap", "prepare_request", "prepare_undo"}
          => th[t].st \in {"running", "catching_up"}
    /\ At(t, "ack_save") => th[t].pos # 0

\* A job paused by a DDL statement knows the statement's position.
Blocked(j) == status[j] = "paused_ddl" => blocking[j] # 0

LocalInv == (\A t \in Threads : LocalThread(t)) /\ (\A j \in Jobs : Blocked(j))

Works(t) == th[t].pc \in Replicating \cup {"launch_boundary"}

\* OneRunnerPerJob without the cardinality.
Paired ==
    /\ \A t \in Threads : Works(t) => reg[Job(t)].live
    /\ \A j \in Jobs : reg[j].live => \E t \in Threads : Works(t) /\ Job(t) = j
    /\ \A t, u \in Threads : Works(t) /\ Works(u) /\ Job(t) = Job(u) => t = u

\* The request at its last steps has seen what it needs, and it still holds.
StopThread(t) ==
    /\ th[t].pc \in {"stop_checkpoint", "stop_head", "stop_swap"} => th[t].st = "ready_to_cutover"
    /\ th[t].pc \in {"stop_head", "stop_swap"} => ckpt[Job(t)] >= th[t].pos
    /\ At(t, "stop_swap") => head >= th[t].pos
    /\ ~At(t, "ack_save")

\* An acknowledgement may move the checkpoint back, so it is left out.
StopInv == "ack" \notin Ops => \A t \in Threads : StopThread(t)

\* The columns of the status are written together.
USE DEF state

\* Every position is a number of the bounded range.
LEMMA Constants ==
    /\ NoThread \notin Threads /\ Ops \subseteq AllOps
    /\ MaxHead \in Nat /\ MaxHead >= 1 /\ DDLAt \subseteq 2..MaxHead
    /\ MaxRequests \in Nat /\ MaxRestarts \in Nat
  BY LifecycleAssumption

\* A free slot is a thread.
LEMMA IdleType == IdleThread \in ThreadType /\ IdleThread.pc = "idle" /\ IdleThread.cut = 0
  <1>1. PICK j \in Jobs : j = CHOOSE k \in Jobs : TRUE
    <2>1. \E k \in Jobs : TRUE
      BY LifecycleAssumption
    <2> QED
      BY <2>1
  <1> QED
    BY <1>1, Constants DEF IdleThread, Thread, ThreadType, Pcs

\* The types hold at the start.
LEMMA InitType == Init => TypeOK /\ LocalInv
  <1> SUFFICES ASSUME Init PROVE TypeOK /\ LocalInv
    OBVIOUS
  <1>1. TypeOK
    <2>1. th \in [Threads -> ThreadType]
      BY IdleType DEF Init
    <2>2. NotRegistered \in EntryType
      BY Constants DEF NotRegistered, EntryType
    <2>3. reg \in [Jobs -> EntryType]
      BY <2>2 DEF Init
    <2>4. /\ "none" \in Statuses /\ 0 \in 0..MaxHead /\ 1 \in 1..MaxHead
          /\ 0 \in 0..MaxRequests /\ 0 \in 0..MaxRestarts
      BY Constants DEF Statuses
    <2> QED
      BY <2>1, <2>3, <2>4 DEF Init, TypeOK, ThreadType, EntryType
  <1>2. LocalInv
    BY IdleType DEF Init, LocalInv, LocalThread, Blocked, At
  <1> QED
    BY <1>1, <1>2

\* The program counters and the statuses, one by one.
LEMMA Literals ==
    /\ {"idle", "launch", "launch_boundary", "begin", "publish", "emit", "emit_reached", "loop",
        "remove", "pause", "abort", "failed", "reload", "claim", "unclaimed", "validate", "create",
        "pausing", "prepare_head", "prepare_swap", "prepare_request", "prepare_undo", "prepare_clear",
        "stop_checkpoint", "stop_head", "stop_swap", "cancel_running", "cancel_swap",
        "cancel_swap_running", "cancel_clear", "cancel_reload", "abort_running", "abort_cancel",
        "abort_swap", "resume_running", "resume_swap", "ack_save", "ack_swap"} \subseteq Pcs
    /\ {"none", "paused_ddl", "stopped", "aborted", "initializing", "catching_up", "running",
        "pausing", "cutting_over", "validating", "paused_manual", "paused_restart", "failed",
        "paused_row_conflict", "ready_to_cutover", "cutover_blocked"} \subseteq Statuses
  BY Zenon DEF Pcs, Statuses, Terminal, Active, Resumable, InCutover

\* The types, with names for the records.
LEMMA Types ==
    TypeOK <=>
      /\ status \in [Jobs -> Statuses] /\ ended \subseteq Jobs
      /\ cutover \in [Jobs -> 0..MaxHead] /\ blocking \in [Jobs -> 0..MaxHead]
      /\ ckpt \in [Jobs -> 1..MaxHead] /\ head \in 1..MaxHead
      /\ reg \in [Jobs -> EntryType] /\ th \in [Threads -> ThreadType]
      /\ mutex \in Threads \cup {NoThread}
      /\ requests \in 0..MaxRequests /\ restarts \in 0..MaxRestarts
  BY DEF TypeOK, EntryType, ThreadType

\* The fields of a thread and of an entry.
LEMMA Fields ==
    ASSUME TypeOK
    PROVE  /\ \A t \in Threads :
                 /\ th[t].pc \in Pcs /\ th[t].job \in Jobs /\ th[t].st \in Statuses \cup {""}
                 /\ th[t].pos \in 0..MaxHead /\ th[t].cut \in 0..MaxHead
                 /\ th[t].err \in {"", "cutover", "ddl", "conflict", "cancelled", "error"}
           /\ \A j \in Jobs :
                 /\ reg[j].live \in BOOLEAN /\ reg[j].action \in {"", "pause", "abort"}
                 /\ reg[j].cutover \in 0..MaxHead
  BY DEF TypeOK

\* Positions are numbers.
LEMMA Numbers ==
    ASSUME TypeOK
    PROVE  /\ head \in Int
           /\ \A j \in Jobs : ckpt[j] \in Int /\ ckpt[j] >= 1
           /\ \A t \in Threads : th[t].pos \in Int
  <1>1. \A p \in 0..MaxHead : p \in Int
    BY LifecycleAssumption
  <1>2. \A p \in 1..MaxHead : p \in Int /\ p >= 1
    BY LifecycleAssumption
  <1>3. head \in 1..MaxHead /\ \A j \in Jobs : ckpt[j] \in 1..MaxHead
    BY Types
  <1>4. \A t \in Threads : th[t].pos \in 0..MaxHead
    BY Fields
  <1> QED
    BY <1>1, <1>2, <1>3, <1>4

\* A thread made of typed parts.
LEMMA ThreadParts ==
    ASSUME NEW pc \in Pcs, NEW j \in Jobs, NEW st \in Statuses \cup {""},
           NEW pos \in 0..MaxHead, NEW cut \in 0..MaxHead
    PROVE  Thread(pc, j, st, pos, cut) \in ThreadType
  BY DEF Thread, ThreadType

\* A thread that has published is a thread.
LEMMA PublishedType ==
    ASSUME NEW t \in Threads, th[t] \in ThreadType, NEW b
    PROVE  Published(t, b) \in ThreadType
  <1>1. \A pc \in Pcs, e \in {"", "cutover"} : [th[t] EXCEPT !.pc = pc, !.err = e] \in ThreadType
    BY DEF ThreadType
  <1> QED
    BY <1>1, Literals DEF Published

\* The ways in which a step changes its own thread.
LEMMA Moves ==
    ASSUME TypeOK, NEW t \in Threads
    PROVE  /\ Return(t) => th' \in [Threads -> ThreadType] /\ mutex' \in Threads \cup {NoThread}
           /\ Spawn(t) => th' \in [Threads -> ThreadType] /\ mutex' \in Threads \cup {NoThread}
           /\ \A pc \in Pcs : Goto(t, pc) => th' \in [Threads -> ThreadType]
           /\ \A e \in {"ddl", "conflict", "cancelled", "error"} :
                 Ended(t, e) => th' \in [Threads -> ThreadType]
           /\ \A r \in ThreadType : th' = [th EXCEPT ![t] = r] => th' \in [Threads -> ThreadType]
           /\ \A pc \in Pcs, p \in 0..MaxHead :
                 /\ th' = [th EXCEPT ![t].cut = p, ![t].pc = pc] => th' \in [Threads -> ThreadType]
                 /\ th' = [th EXCEPT ![t].pc = pc, ![t].pos = p] => th' \in [Threads -> ThreadType]
  <1>0. /\ th \in [Threads -> ThreadType] /\ th[t] \in ThreadType
        /\ th[t].job \in Jobs /\ mutex \in Threads \cup {NoThread}
    BY Types, Fields
  <1>1. \A r \in ThreadType : th' = [th EXCEPT ![t] = r] => th' \in [Threads -> ThreadType]
    BY <1>0
  <1>2. Return(t) => th' \in [Threads -> ThreadType] /\ mutex' \in Threads \cup {NoThread}
    BY <1>0, <1>1, IdleType DEF Return
  <1>3. Spawn(t) => th' \in [Threads -> ThreadType] /\ mutex' \in Threads \cup {NoThread}
    <2>1. Thread("begin", Job(t), "", 0, 0) \in ThreadType
      <3>1. "begin" \in Pcs /\ "" \in Statuses \cup {""} /\ 0 \in 0..MaxHead /\ Job(t) \in Jobs
        BY <1>0, Constants DEF Job, Pcs
      <3> QED
        BY <3>1, ThreadParts
    <2> QED
      BY <2>1, <1>0, <1>1 DEF Spawn
  <1>4. \A pc \in Pcs : Goto(t, pc) => th' \in [Threads -> ThreadType]
    <2> TAKE pc \in Pcs
    <2>1. [th[t] EXCEPT !.pc = pc] \in ThreadType
      BY <1>0 DEF ThreadType
    <2>2. Goto(t, pc) => th' = [th EXCEPT ![t] = [th[t] EXCEPT !.pc = pc]]
      BY DEF Goto
    <2> QED
      BY <2>1, <2>2, <1>1
  <1>5. \A e \in {"ddl", "conflict", "cancelled", "error"} :
          Ended(t, e) => th' \in [Threads -> ThreadType]
    <2> TAKE e \in {"ddl", "conflict", "cancelled", "error"}
    <2>1. [th[t] EXCEPT !.pc = "remove", !.err = e] \in ThreadType
      BY <1>0, "remove" \in Pcs DEF ThreadType, Pcs
    <2>2. Ended(t, e) => th' = [th EXCEPT ![t] = [th[t] EXCEPT !.pc = "remove", !.err = e]]
      BY DEF Ended
    <2> QED
      BY <2>1, <2>2, <1>1
  <1>6. \A pc \in Pcs, p \in 0..MaxHead :
           /\ th' = [th EXCEPT ![t].cut = p, ![t].pc = pc] => th' \in [Threads -> ThreadType]
           /\ th' = [th EXCEPT ![t].pc = pc, ![t].pos = p] => th' \in [Threads -> ThreadType]
    <2> TAKE pc \in Pcs, p \in 0..MaxHead
    <2>1. /\ [th[t] EXCEPT !.cut = p, !.pc = pc] \in ThreadType
          /\ [th[t] EXCEPT !.pc = pc, !.pos = p] \in ThreadType
      BY <1>0 DEF ThreadType
    <2>2. /\ [th EXCEPT ![t].cut = p, ![t].pc = pc] = [th EXCEPT ![t] = [th[t] EXCEPT !.cut = p, !.pc = pc]]
          /\ [th EXCEPT ![t].pc = pc, ![t].pos = p] = [th EXCEPT ![t] = [th[t] EXCEPT !.pc = pc, !.pos = p]]
      BY <1>0
    <2> QED
      BY <2>1, <2>2, <1>1
  <1> QED
    BY <1>1, <1>2, <1>3, <1>4, <1>5, <1>6

\* Rows, checkpoints and entries with one of their values replaced.
LEMMA Writes ==
    ASSUME TypeOK, NEW j \in Jobs
    PROVE  /\ \A s \in Statuses : SetStatus(j, s) => status' \in [Jobs -> Statuses] /\ ended' \subseteq Jobs
           /\ \A p \in 0..MaxHead : cutover' = [cutover EXCEPT ![j] = p] => cutover' \in [Jobs -> 0..MaxHead]
           /\ \A p \in 0..MaxHead : blocking' = [blocking EXCEPT ![j] = p] => blocking' \in [Jobs -> 0..MaxHead]
           /\ \A p \in 1..MaxHead : ckpt' = [ckpt EXCEPT ![j] = p] => ckpt' \in [Jobs -> 1..MaxHead]
           /\ \A r \in EntryType : reg' = [reg EXCEPT ![j] = r] => reg' \in [Jobs -> EntryType]
  BY Types DEF SetStatus

\* The entries a step may write.
LEMMA Entries ==
    ASSUME TypeOK, NEW j \in Jobs
    PROVE  /\ NotRegistered \in EntryType /\ Registered \in EntryType /\ reg[j] \in EntryType
           /\ \A p \in 0..MaxHead : WithBoundary(reg[j], p) \in EntryType
           /\ [reg[j] EXCEPT !.cutover = 0] \in EntryType
           /\ \A a \in {"", "pause", "abort"} : [reg[j] EXCEPT !.action = a] \in EntryType
  <1>1. reg[j] \in EntryType
    BY Types
  <1>2. NotRegistered \in EntryType /\ Registered \in EntryType
    BY Constants DEF NotRegistered, Registered, EntryType
  <1>3. \A p \in 0..MaxHead : [reg[j] EXCEPT !.cutover = p] \in EntryType
    BY <1>1 DEF EntryType
  <1>4. \A a \in {"", "pause", "abort"} : [reg[j] EXCEPT !.action = a] \in EntryType
    BY <1>1 DEF EntryType
  <1> QED
    <2>1. 0 \in 0..MaxHead
      BY Constants
    <2>2. \A p \in 0..MaxHead : WithBoundary(reg[j], p) \in {reg[j], [reg[j] EXCEPT !.cutover = p]}
      BY DEF WithBoundary
    <2> QED
      BY <2>1, <2>2, <1>1, <1>2, <1>3, <1>4

\* The types of the next state, part by part.
LEMMA TypesNext ==
    ASSUME status' \in [Jobs -> Statuses], ended' \subseteq Jobs,
           cutover' \in [Jobs -> 0..MaxHead], blocking' \in [Jobs -> 0..MaxHead],
           ckpt' \in [Jobs -> 1..MaxHead], head' \in 1..MaxHead,
           reg' \in [Jobs -> EntryType], th' \in [Threads -> ThreadType],
           mutex' \in Threads \cup {NoThread},
           requests' \in 0..MaxRequests, restarts' \in 0..MaxRestarts
    PROVE  TypeOK'
  BY DEF TypeOK, EntryType, ThreadType

\* Every step of a thread keeps the types.
LEMMA ThreadTypeStep ==
    ASSUME TypeOK, LocalInv, NEW t \in Threads,
           RunnerStep(t) \/ HandlerStep(t) \/ RunConflict(t) \/ RunError(t)
    PROVE  TypeOK'
  <1>0. /\ status \in [Jobs -> Statuses] /\ ended \subseteq Jobs
        /\ cutover \in [Jobs -> 0..MaxHead] /\ blocking \in [Jobs -> 0..MaxHead]
        /\ ckpt \in [Jobs -> 1..MaxHead] /\ head \in 1..MaxHead
        /\ reg \in [Jobs -> EntryType] /\ th \in [Threads -> ThreadType]
        /\ mutex \in Threads \cup {NoThread}
        /\ requests \in 0..MaxRequests /\ restarts \in 0..MaxRestarts
        /\ Job(t) \in Jobs /\ th[t] \in ThreadType
    BY Types, Fields DEF Job
  <1> USE Constants, Literals
  <1>1. CASE LaunchRegister(t)
    <2>1. th' \in [Threads -> ThreadType] /\ mutex' \in Threads \cup {NoThread}
      BY <1>1, <1>0, Moves DEF LaunchRegister
    <2>2. reg' \in [Jobs -> EntryType]
      BY <1>1, <1>0, Writes, Entries DEF LaunchRegister
    <2> QED
      BY <1>1, <1>0, <2>1, <2>2, TypesNext DEF LaunchRegister, rows, Counters
  <1>2. CASE LaunchBoundary(t)
    <2>1. th' \in [Threads -> ThreadType] /\ mutex' \in Threads \cup {NoThread}
      BY <1>2, Moves DEF LaunchBoundary
    <2>2. WithBoundary(reg[Job(t)], th[t].cut) \in EntryType
      BY <1>0, Entries, Fields
    <2>3. reg' \in [Jobs -> EntryType]
      BY <1>2, <1>0, <2>2, Writes DEF LaunchBoundary
    <2> QED
      BY <1>2, <1>0, <2>1, <2>3, TypesNext DEF LaunchBoundary, rows, Counters
  <1>3. CASE RunBegin(t)
    BY <1>3, <1>0, Moves, Writes, TypesNext DEF RunBegin, rows, Counters
  <1>4. CASE RunPublish(t)
    <2> DEFINE r == IF th[t].st = Wanted(Job(t)) THEN Published(t, Reached(Job(t)))
                    ELSE [th[t] EXCEPT !.pc = IF Reached(Job(t)) THEN "emit_reached" ELSE "emit",
                                       !.st = Wanted(Job(t))]
    <2>1. th' = [th EXCEPT ![t] = r]
      BY <1>4, <1>0 DEF RunPublish
    <2>2. Wanted(Job(t)) \in Statuses
      BY DEF Wanted
    <2>3. \A b : Published(t, b) \in ThreadType
      BY <1>0, PublishedType
    <2>4. \A pc \in Pcs, st \in Statuses : [th[t] EXCEPT !.pc = pc, !.st = st] \in ThreadType
      BY <1>0 DEF ThreadType
    <2>5. r \in ThreadType
      BY <2>2, <2>3, <2>4
    <2> HIDE DEF r
    <2>6. th' \in [Threads -> ThreadType]
      BY <2>1, <2>5, Moves
    <2> QED
      BY <1>4, <1>0, <2>6, TypesNext DEF RunPublish, rows, Counters
  <1>5. CASE RunEmit(t)
    <2>1. \A b : Published(t, b) \in ThreadType
      BY <1>0, PublishedType
    <2>2. th' \in [Threads -> ThreadType]
      BY <1>5, <2>1, Moves DEF RunEmit
    <2>3. th[t].st \in Statuses
      BY <1>5 DEF RunEmit, LocalInv, LocalThread, Told
    <2>4. status' \in [Jobs -> Statuses] /\ ended' \subseteq Jobs
      BY <1>5, <1>0, <2>3, Writes DEF RunEmit
    <2> QED
      BY <1>5, <1>0, <2>2, <2>4, TypesNext DEF RunEmit, Counters
  <1>6. CASE RunApply(t)
    BY <1>6, <1>0, Moves, Writes, TypesNext DEF RunApply, rows, Counters
  <1>7. CASE RunHeartbeat(t)
    BY <1>7, <1>0, Moves, Writes, TypesNext DEF RunHeartbeat, rows, Counters
  <1>8. CASE RunDDL(t)
    BY <1>8, <1>0, Moves, Writes, TypesNext DEF RunDDL, rows, Counters
  <1>9. CASE RunCancelled(t)
    BY <1>9, <1>0, Moves, Writes, TypesNext DEF RunCancelled, rows, Counters
  <1>10. CASE RunRemove(t)
    <2> DEFINE pc == AfterRemove(th[t].err, reg[Job(t)].action)
               r == IF pc = "end" THEN IdleThread ELSE [th[t] EXCEPT !.pc = pc]
    <2>1. th' = [th EXCEPT ![t] = r] /\ reg' = [reg EXCEPT ![Job(t)] = NotRegistered]
      BY <1>10, <1>0 DEF RunRemove
    <2>2. pc \in Pcs \cup {"end"}
      BY <1>0, Fields DEF AfterRemove
    <2>3. \A q \in Pcs : [th[t] EXCEPT !.pc = q] \in ThreadType
      BY <1>0 DEF ThreadType
    <2>4. r \in ThreadType
      BY <2>2, <2>3, IdleType
    <2> HIDE DEF r
    <2>5. th' \in [Threads -> ThreadType] /\ reg' \in [Jobs -> EntryType]
      BY <1>0, <2>1, <2>4, Moves, Writes, Entries
    <2> QED
      BY <1>10, <1>0, <2>5, TypesNext DEF RunRemove, rows, Counters
  <1>11. CASE RunLastWrite(t)
    BY <1>11, <1>0, Moves, Writes, TypesNext DEF RunLastWrite, rows, Counters
  <1>12. CASE CutoverReload(t)
    <2>1. PICK q \in Pcs : th' = [th EXCEPT ![t].cut = cutover[Job(t)], ![t].pc = q]
      BY <1>12 DEF CutoverReload
    <2>2. cutover[Job(t)] \in 0..MaxHead
      BY <1>0
    <2>3. th' \in [Threads -> ThreadType]
      BY <2>1, <2>2, Moves
    <2> QED
      BY <1>12, <1>0, <2>3, TypesNext DEF CutoverReload, rows, Counters
  <1>13. CASE CutoverClaim(t)
    BY <1>13, <1>0, Moves, Writes, TypesNext DEF CutoverClaim, rows, Counters
  <1>14. CASE CutoverUnclaimed(t)
    <2>1. cutover[Job(t)] \in 0..MaxHead
      BY <1>0
    <2>2. th' \in [Threads -> ThreadType] /\ mutex' \in Threads \cup {NoThread}
      BY <1>14, <1>0, <2>1, Moves DEF CutoverUnclaimed
    <2> QED
      BY <1>14, <1>0, <2>2, TypesNext DEF CutoverUnclaimed, rows, Counters
  <1>15. CASE CutoverValidate(t)
    BY <1>15, <1>0, Moves, Writes, TypesNext DEF CutoverValidate, rows, Counters
  <1>16. CASE StartCreate(t)
    BY <1>16, <1>0, Moves, Writes, TypesNext DEF StartCreate, rows, Counters
  <1>17. CASE PauseWrite(t)
    BY <1>17, <1>0, Moves, Writes, TypesNext DEF PauseWrite, rows, Counters
  <1>18. CASE PrepareHead(t)
    <2>1. head \in 0..MaxHead
      BY <1>0
    <2>2. th' \in [Threads -> ThreadType] /\ mutex' \in Threads \cup {NoThread}
      BY <1>18, <1>0, <2>1, Moves DEF PrepareHead
    <2> QED
      BY <1>18, <1>0, <2>2, TypesNext DEF PrepareHead, rows, Counters
  <1>19. CASE PrepareSwap(t)
    <2>1. th[t].pos \in 0..MaxHead
      BY Fields
    <2>2. th' \in [Threads -> ThreadType] /\ mutex' \in Threads \cup {NoThread}
      BY <1>19, <1>0, Moves DEF PrepareSwap
    <2>3. status' \in [Jobs -> Statuses] /\ ended' \subseteq Jobs /\ cutover' \in [Jobs -> 0..MaxHead]
      BY <1>19, <1>0, <2>1, Writes DEF PrepareSwap
    <2> QED
      BY <1>19, <1>0, <2>2, <2>3, TypesNext DEF PrepareSwap, Counters
  <1>20. CASE PrepareRequest(t)
    <2>1. WithBoundary(reg[Job(t)], th[t].pos) \in EntryType
      BY <1>0, Entries, Fields
    <2>2. th' \in [Threads -> ThreadType] /\ mutex' \in Threads \cup {NoThread}
      BY <1>20, <1>0, Moves DEF PrepareRequest
    <2>3. reg' \in [Jobs -> EntryType]
      BY <1>20, <1>0, <2>1, Writes DEF PrepareRequest
    <2> QED
      BY <1>20, <1>0, <2>2, <2>3, TypesNext DEF PrepareRequest, rows, Counters
  <1>21. CASE PrepareUndo(t)
    <2>1. th[t].st \in Statuses /\ 0 \in 0..MaxHead
      BY <1>21 DEF PrepareUndo, At, LocalInv, LocalThread
    <2>2. th' \in [Threads -> ThreadType] /\ mutex' \in Threads \cup {NoThread}
      BY <1>21, <1>0, Moves DEF PrepareUndo
    <2>3. status' \in [Jobs -> Statuses] /\ ended' \subseteq Jobs /\ cutover' \in [Jobs -> 0..MaxHead]
      BY <1>21, <1>0, <2>1, Writes DEF PrepareUndo
    <2> QED
      BY <1>21, <1>0, <2>2, <2>3, TypesNext DEF PrepareUndo, Counters
  <1>22. CASE PrepareClear(t)
    BY <1>22, <1>0, Moves, Writes, TypesNext DEF PrepareClear, rows, Counters
  <1>23. CASE StopCheckpoint(t)
    BY <1>23, <1>0, Moves, Writes, TypesNext DEF StopCheckpoint, rows, Counters
  <1>24. CASE StopHead(t)
    BY <1>24, <1>0, Moves, Writes, TypesNext DEF StopHead, rows, Counters
  <1>25. CASE StopSwap(t)
    BY <1>25, <1>0, Moves, Writes, TypesNext DEF StopSwap, rows, Counters
  <1>26. CASE CancelRunning(t)
    BY <1>26, <1>0, Moves, Writes, TypesNext DEF CancelRunning, rows, Counters
  <1>27. CASE CancelSwap(t)
    BY <1>27, <1>0, Moves, Writes, TypesNext DEF CancelSwap, rows, Counters
  <1>28. CASE CancelClear(t)
    <2>1. reg' = [reg EXCEPT ![Job(t)] = [reg[Job(t)] EXCEPT !.cutover = 0]]
      BY <1>28 DEF CancelClear
    <2>2. reg' \in [Jobs -> EntryType]
      BY <1>0, <2>1, Entries, Writes
    <2> QED
      BY <1>28, <1>0, <2>2, Moves, TypesNext DEF CancelClear, rows, Counters
  <1>29. CASE CancelReload(t)
    <2>1. cutover[Job(t)] \in 0..MaxHead
      BY <1>0
    <2>2. th' \in [Threads -> ThreadType] /\ mutex' \in Threads \cup {NoThread}
      BY <1>29, <1>0, <2>1, Moves DEF CancelReload
    <2> QED
      BY <1>29, <1>0, <2>2, TypesNext DEF CancelReload, rows, Counters
  <1>30. CASE AbortRunning(t)
    BY <1>30, <1>0, Moves, Writes, TypesNext DEF AbortRunning, rows, Counters
  <1>31. CASE AbortCancel(t)
    <2>1. PICK a \in {"", "pause", "abort"} :
            reg' = [reg EXCEPT ![Job(t)] = [reg[Job(t)] EXCEPT !.action = a]]
      BY <1>31, <1>0, Fields DEF AbortCancel
    <2>2. reg' \in [Jobs -> EntryType]
      BY <1>0, <2>1, Entries, Writes
    <2> QED
      BY <1>31, <1>0, <2>2, Moves, TypesNext DEF AbortCancel, rows, Counters
  <1>32. CASE AbortSwap(t)
    BY <1>32, <1>0, Moves, Writes, TypesNext DEF AbortSwap, rows, Counters
  <1>33. CASE ResumeRunning(t)
    BY <1>33, <1>0, Moves, Writes, TypesNext DEF ResumeRunning, rows, Counters
  <1>34. CASE ResumeSwap(t)
    BY <1>34, <1>0, Moves, Writes, TypesNext DEF ResumeSwap, rows, Counters
  <1>35. CASE AckSave(t)
    <2>1. th[t].pos \in 1..MaxHead
      <3>1. th[t].pos # 0 /\ th[t].pos \in 0..MaxHead
        BY <1>35, Fields DEF AckSave, At, LocalInv, LocalThread
      <3> QED
        BY <3>1
    <2>2. ckpt' \in [Jobs -> 1..MaxHead]
      BY <1>35, <1>0, <2>1, Writes DEF AckSave
    <2> QED
      BY <1>35, <1>0, <2>2, Moves, TypesNext DEF AckSave, rows, Counters
  <1>36. CASE AckSwap(t)
    BY <1>36, <1>0, Moves, Writes, TypesNext DEF AckSwap, rows, Counters
  <1>37. CASE RunConflict(t)
    BY <1>37, <1>0, Moves, Writes, TypesNext DEF RunConflict, rows, Counters
  <1>38. CASE RunError(t)
    BY <1>38, <1>0, Moves, Writes, TypesNext DEF RunError, rows, Counters
  <1> QED
    BY <1>1, <1>2, <1>3, <1>4, <1>5, <1>6, <1>7, <1>8, <1>9, <1>10, <1>11, <1>12, <1>13, <1>14, <1>15,
       <1>16, <1>17, <1>18, <1>19, <1>20, <1>21, <1>22, <1>23, <1>24, <1>25, <1>26, <1>27, <1>28, <1>29,
       <1>30, <1>31, <1>32, <1>33, <1>34, <1>35, <1>36, <1>37, <1>38
    DEF RunnerStep, HandlerStep

\* The threads other than t stay as they are.
Others(t) == \A u \in Threads : u # t => th'[u] = th[u]

Same(t) == th'[t].job = th[t].job /\ th'[t].st = th[t].st /\ th'[t].pos = th[t].pos

\* The ways in which a step changes its own thread, field by field.
LEMMA Moved ==
    ASSUME TypeOK, NEW t \in Threads
    PROVE  /\ Return(t) => Others(t) /\ th'[t].pc = "idle" /\ th'[t].cut = 0
           /\ Spawn(t) => Others(t) /\ th'[t].pc = "begin" /\ th'[t].job = th[t].job /\ th'[t].cut = 0
           /\ \A pc \in Pcs : Goto(t, pc) =>
                 Others(t) /\ Same(t) /\ th'[t].pc = pc /\ th'[t].cut = th[t].cut /\ th'[t].err = th[t].err
           /\ \A e \in {"ddl", "conflict", "cancelled", "error"} : Ended(t, e) =>
                 Others(t) /\ Same(t) /\ th'[t].pc = "remove" /\ th'[t].cut = th[t].cut /\ th'[t].err = e
           /\ \A pc \in Pcs, p \in 0..MaxHead : th' = [th EXCEPT ![t].cut = p, ![t].pc = pc] =>
                 Others(t) /\ Same(t) /\ th'[t].pc = pc /\ th'[t].cut = p
           /\ \A pc \in Pcs, p \in 0..MaxHead : th' = [th EXCEPT ![t].pc = pc, ![t].pos = p] =>
                 /\ Others(t) /\ th'[t].pc = pc /\ th'[t].pos = p /\ th'[t].cut = th[t].cut
                 /\ th'[t].job = th[t].job /\ th'[t].st = th[t].st
           /\ \A r \in ThreadType : th' = [th EXCEPT ![t] = r] => Others(t) /\ th'[t] = r
  <1>0. th \in [Threads -> ThreadType] /\ th[t] \in ThreadType /\ th[t].job \in Jobs
    BY Types, Fields
  <1>1. \A r \in ThreadType : th' = [th EXCEPT ![t] = r] => Others(t) /\ th'[t] = r
    BY <1>0 DEF Others
  <1>2. Return(t) => Others(t) /\ th'[t].pc = "idle" /\ th'[t].cut = 0
    BY <1>0, <1>1, IdleType DEF Return
  <1>3. Spawn(t) => Others(t) /\ th'[t].pc = "begin" /\ th'[t].job = th[t].job /\ th'[t].cut = 0
    <2> DEFINE r == Thread("begin", Job(t), "", 0, 0)
    <2>1. r.pc = "begin" /\ r.job = th[t].job /\ r.cut = 0
      BY DEF Thread, Job
    <2>2. r \in ThreadType
      <3>1. "begin" \in Pcs /\ "" \in Statuses \cup {""} /\ 0 \in 0..MaxHead /\ Job(t) \in Jobs
        BY <1>0, Constants DEF Job, Pcs
      <3> QED
        BY <3>1, ThreadParts
    <2>3. Spawn(t) => th' = [th EXCEPT ![t] = r]
      BY DEF Spawn
    <2> HIDE DEF r
    <2> QED
      BY <2>1, <2>2, <2>3, <1>1
  <1>4. \A pc \in Pcs : Goto(t, pc) =>
          Others(t) /\ Same(t) /\ th'[t].pc = pc /\ th'[t].cut = th[t].cut /\ th'[t].err = th[t].err
    <2> TAKE pc \in Pcs
    <2> DEFINE r == [th[t] EXCEPT !.pc = pc]
    <2>1. /\ r \in ThreadType /\ r.pc = pc /\ r.job = th[t].job /\ r.st = th[t].st
          /\ r.pos = th[t].pos /\ r.cut = th[t].cut /\ r.err = th[t].err
      BY <1>0 DEF ThreadType
    <2>2. Goto(t, pc) => th' = [th EXCEPT ![t] = r]
      BY DEF Goto
    <2> HIDE DEF r
    <2> QED
      BY <2>1, <2>2, <1>1 DEF Same
  <1>5. \A e \in {"ddl", "conflict", "cancelled", "error"} : Ended(t, e) =>
          Others(t) /\ Same(t) /\ th'[t].pc = "remove" /\ th'[t].cut = th[t].cut /\ th'[t].err = e
    <2> TAKE e \in {"ddl", "conflict", "cancelled", "error"}
    <2> DEFINE r == [th[t] EXCEPT !.pc = "remove", !.err = e]
    <2>1. /\ r \in ThreadType /\ r.pc = "remove" /\ r.job = th[t].job /\ r.st = th[t].st
          /\ r.pos = th[t].pos /\ r.cut = th[t].cut /\ r.err = e
      BY <1>0, "remove" \in Pcs DEF ThreadType, Pcs
    <2>2. Ended(t, e) => th' = [th EXCEPT ![t] = r]
      BY DEF Ended
    <2> HIDE DEF r
    <2> QED
      BY <2>1, <2>2, <1>1 DEF Same
  <1>6. \A pc \in Pcs, p \in 0..MaxHead : th' = [th EXCEPT ![t].cut = p, ![t].pc = pc] =>
          Others(t) /\ Same(t) /\ th'[t].pc = pc /\ th'[t].cut = p
    <2> TAKE pc \in Pcs, p \in 0..MaxHead
    <2> DEFINE r == [th[t] EXCEPT !.cut = p, !.pc = pc]
    <2>1. /\ r \in ThreadType /\ r.pc = pc /\ r.job = th[t].job /\ r.st = th[t].st
          /\ r.pos = th[t].pos /\ r.cut = p
      BY <1>0 DEF ThreadType
    <2>2. [th EXCEPT ![t].cut = p, ![t].pc = pc] = [th EXCEPT ![t] = r]
      BY <1>0
    <2> HIDE DEF r
    <2> QED
      BY <2>1, <2>2, <1>1 DEF Same
  <1>7. \A pc \in Pcs, p \in 0..MaxHead : th' = [th EXCEPT ![t].pc = pc, ![t].pos = p] =>
          /\ Others(t) /\ th'[t].pc = pc /\ th'[t].pos = p /\ th'[t].cut = th[t].cut
          /\ th'[t].job = th[t].job /\ th'[t].st = th[t].st
    <2> TAKE pc \in Pcs, p \in 0..MaxHead
    <2> DEFINE r == [th[t] EXCEPT !.pc = pc, !.pos = p]
    <2>1. /\ r \in ThreadType /\ r.pc = pc /\ r.job = th[t].job /\ r.st = th[t].st
          /\ r.pos = p /\ r.cut = th[t].cut
      BY <1>0 DEF ThreadType
    <2>2. [th EXCEPT ![t].pc = pc, ![t].pos = p] = [th EXCEPT ![t] = r]
      BY <1>0
    <2> HIDE DEF r
    <2> QED
      BY <2>1, <2>2, <1>1
  <1> QED
    BY <1>1, <1>2, <1>3, <1>4, <1>5, <1>6, <1>7

\* A step of t that leaves the pairing of its job alone keeps the invariants, if t and the rows do.
LEMMA Keep ==
    ASSUME TypeOK, LocalInv, Paired, StopInv, NEW t \in Threads,
           Others(t), LocalThread(t)', "ack" \notin Ops => StopThread(t)', \A j \in Jobs : Blocked(j)',
           Works(t)' <=> Works(t), Works(t) => th'[t].job = th[t].job,
           \A j \in Jobs : reg'[j].live <=> reg[j].live,
           "ack" \notin Ops => \A j \in Jobs : ckpt'[j] >= ckpt[j],
           ckpt' \in [Jobs -> 1..MaxHead], head' \in 1..MaxHead, head' >= head
    PROVE  LocalInv' /\ Paired' /\ StopInv'
  <1>1. LocalInv'
    BY DEF Others, LocalInv, LocalThread, At
  <1>2. \A u \in Threads : (Works(u)' <=> Works(u)) /\ (Works(u) => Job(u)' = Job(u))
    BY DEF Others, Works, Job
  <1>3. Paired'
    <2>1. \A u \in Threads : Job(u) \in Jobs
      BY Fields DEF Job
    <2> QED
      BY <1>2, <2>1 DEF Paired
  <1>4. StopInv'
    <2> SUFFICES ASSUME "ack" \notin Ops, NEW u \in Threads, u # t PROVE StopThread(u)'
      BY DEF StopInv
    <2>1. /\ StopThread(u) /\ th'[u] = th[u] /\ ckpt'[Job(u)] >= ckpt[Job(u)]
          /\ ckpt'[Job(u)] \in Int /\ ckpt[Job(u)] \in Int /\ head \in Int /\ head' \in Int /\ th[u].pos \in Int
      <3>1. Job(u) \in Jobs /\ th[u].pos \in Int
        BY Fields, Numbers DEF Job
      <3>2. ckpt'[Job(u)] \in Int /\ ckpt[Job(u)] \in Int /\ head \in Int /\ head' \in Int
        BY <3>1, Types
      <3> QED
        BY <3>1, <3>2 DEF StopInv, Others
    <2>2. head' >= head
      OBVIOUS
    <2> QED
      BY <2>1, <2>2 DEF StopThread, At, Job
  <1> QED
    BY <1>1, <1>3, <1>4

\* The same without the pairing.
LEMMA KeepThreads ==
    ASSUME TypeOK, LocalInv, StopInv, NEW t \in Threads,
           Others(t), LocalThread(t)', "ack" \notin Ops => StopThread(t)', \A j \in Jobs : Blocked(j)',
           ckpt' = ckpt, head' = head
    PROVE  LocalInv' /\ StopInv'
  <1>1. LocalInv'
    BY DEF Others, LocalInv, LocalThread, At
  <1>2. StopInv'
    BY DEF Others, StopInv, StopThread, At, Job
  <1> QED
    BY <1>1, <1>2

\* Rows of which no job becomes blocked.
LEMMA BlockedKeep ==
    ASSUME TypeOK, LocalInv, NEW j \in Jobs
    PROVE  /\ status' = status /\ blocking' = blocking => \A k \in Jobs : Blocked(k)'
           /\ \A s \in Statuses \ {"paused_ddl"} :
                 SetStatus(j, s) /\ blocking' = blocking => \A k \in Jobs : Blocked(k)'
  BY Types DEF LocalInv, Blocked, SetStatus

\* Every step of a thread keeps the invariants.
LEMMA ThreadStep ==
    ASSUME TypeOK, LocalInv, Paired, StopInv, NEW t \in Threads,
           RunnerStep(t) \/ HandlerStep(t) \/ RunConflict(t) \/ RunError(t)
    PROVE  LocalInv' /\ Paired' /\ StopInv'
  <1>0. /\ status \in [Jobs -> Statuses] /\ blocking \in [Jobs -> 0..MaxHead]
        /\ ckpt \in [Jobs -> 1..MaxHead] /\ Job(t) \in Jobs
        /\ reg \in [Jobs -> EntryType]
        /\ cutover[Job(t)] \in 0..MaxHead /\ head \in 0..MaxHead
        /\ th[t].st \in Statuses \cup {""} /\ th[t].pos \in 0..MaxHead /\ LocalThread(t)
        /\ ("ack" \notin Ops => StopThread(t)) /\ th[t] \in ThreadType
    <2>1. status \in [Jobs -> Statuses] /\ ckpt \in [Jobs -> 1..MaxHead] /\ reg \in [Jobs -> EntryType]
      BY Types
    <2>2. blocking \in [Jobs -> 0..MaxHead] /\ cutover \in [Jobs -> 0..MaxHead] /\ head \in 0..MaxHead
      BY Types
    <2>3. /\ Job(t) \in Jobs /\ th[t].st \in Statuses \cup {""} /\ th[t].pos \in 0..MaxHead
          /\ th[t] \in ThreadType
      BY Fields, Types DEF Job
    <2> QED
      BY <2>1, <2>2, <2>3 DEF LocalInv, StopInv
  <1>a. TypeOK'
    BY ThreadTypeStep
  <1>c. /\ ckpt' = ckpt => \A j \in Jobs : ckpt'[j] >= ckpt[j]
        /\ head' = head => head' >= head
        /\ reg' = reg => \A j \in Jobs : reg'[j].live <=> reg[j].live
    <2>1. head \in Int /\ \A j \in Jobs : ckpt[j] \in Int
      BY Numbers
    <2> QED
      BY <2>1
  <1>b. ckpt' \in [Jobs -> 1..MaxHead] /\ head' \in 1..MaxHead
    BY <1>a DEF TypeOK
  <1>1. CASE LaunchRegister(t)
    <2>1. CASE reg[Job(t)].live
      <3>0. Others(t) /\ th'[t].pc = "idle" /\ reg' = reg
        BY <1>1, <2>1, Moved DEF LaunchRegister
      <3>1. LocalThread(t)' /\ ("ack" \notin Ops => StopThread(t)') /\ ~Works(t)' /\ ~Works(t)
        BY <1>1, <3>0 DEF LaunchRegister, LocalThread, StopThread, At, Works, Replicating
      <3>2. status' = status /\ blocking' = blocking /\ ckpt' = ckpt /\ head' = head
        BY <1>1 DEF LaunchRegister, rows
      <3> QED
        BY <1>0, <3>0, <3>1, <3>2, <1>b, <1>c, BlockedKeep, Keep
    <2>2. CASE ~reg[Job(t)].live
      <3>0. /\ Others(t) /\ th'[t].pc \in {"launch_boundary", "begin"} /\ th'[t].job = th[t].job
            /\ reg' = [reg EXCEPT ![Job(t)] = Registered]
        BY <1>1, <2>2, Moved, Literals DEF LaunchRegister, Same
      <3>1. LocalThread(t)' /\ ("ack" \notin Ops => StopThread(t)') /\ Works(t)' /\ ~Works(t) /\ Job(t)' = Job(t)
        BY <1>1, <3>0 DEF LaunchRegister, LocalThread, StopThread, At, Works, Replicating, Job
      <3>2. status' = status /\ blocking' = blocking /\ ckpt' = ckpt /\ head' = head
        BY <1>1 DEF LaunchRegister, rows
      <3>3. reg'[Job(t)].live /\ \A j \in Jobs : j # Job(t) => reg'[j] = reg[j]
        BY <1>0, <3>0 DEF Registered
      <3>4. \A u \in Threads : u # t => (Works(u)' <=> Works(u)) /\ Job(u)' = Job(u) /\ Job(u) \in Jobs
        BY <3>0, Fields DEF Others, Works, Job
      <3>5. Paired'
        <4>1. \A u \in Threads : Works(u) => Job(u) # Job(t)
          BY <2>2 DEF Paired
        <4>2. \A u \in Threads : Works(u)' => reg'[Job(u)'].live
          BY <1>0, <3>1, <3>3, <3>4, <4>1 DEF Paired
        <4>3. \A j \in Jobs : reg'[j].live => \E u \in Threads : Works(u)' /\ Job(u)' = j
          <5> SUFFICES ASSUME NEW j \in Jobs, reg'[j].live, j # Job(t)
                       PROVE  \E u \in Threads : Works(u)' /\ Job(u)' = j
            BY <3>1
          <5>1. PICK u \in Threads : Works(u) /\ Job(u) = j
            BY <3>3 DEF Paired
          <5> QED
            BY <5>1, <3>1, <3>4
        <4>4. \A u, v \in Threads : Works(u)' /\ Works(v)' /\ Job(u)' = Job(v)' => u = v
          BY <3>1, <3>4, <4>1 DEF Paired
        <4> QED
          BY <4>2, <4>3, <4>4 DEF Paired
      <3>6. LocalInv' /\ StopInv'
        BY <1>0, <1>b, <3>0, <3>1, <3>2, BlockedKeep, KeepThreads
      <3> QED
        BY <3>5, <3>6
    <2> QED
      BY <2>1, <2>2
  <1>2. CASE LaunchBoundary(t)
    <2>0. /\ Others(t) /\ th'[t].pc \in {"begin"} /\ th'[t].job = th[t].job
      BY <1>2, <1>0, Moved, Literals DEF LaunchBoundary
    <2>1. LocalThread(t)' /\ ("ack" \notin Ops => StopThread(t)')
      BY <2>0, <1>2, <1>0 DEF LaunchBoundary, LocalThread, StopThread, At, Job, Same
    <2>2. \A j \in Jobs : Blocked(j)'
      BY <1>2, <1>0, BlockedKeep, Literals DEF LaunchBoundary, rows
    <2>3. (Works(t)' <=> Works(t)) /\ (Works(t) => th'[t].job = th[t].job)
      BY <1>2, <2>0 DEF LaunchBoundary, Works, Replicating, At, Same
    <2>4. /\ \A j \in Jobs : reg'[j].live <=> reg[j].live
          /\ "ack" \notin Ops => \A j \in Jobs : ckpt'[j] >= ckpt[j]
          /\ head' >= head
      BY <1>2, <1>0, <1>c DEF LaunchBoundary, WithBoundary, EntryType
    <2> QED
      BY <2>0, <2>1, <2>2, <2>3, <2>4, <1>b, Keep
  <1>3. CASE RunBegin(t)
    <2>0. /\ Others(t) /\ th'[t].pc \in {"publish"} /\ Same(t)
      BY <1>3, <1>0, Moved, Literals DEF RunBegin
    <2>1. LocalThread(t)' /\ ("ack" \notin Ops => StopThread(t)')
      BY <2>0, <1>3, <1>0 DEF RunBegin, LocalThread, StopThread, At, Job, Same
    <2>2. \A j \in Jobs : Blocked(j)'
      BY <1>3, <1>0, BlockedKeep, Literals DEF RunBegin, rows
    <2>3. (Works(t)' <=> Works(t)) /\ (Works(t) => th'[t].job = th[t].job)
      BY <1>3, <2>0 DEF RunBegin, Works, Replicating, At, Same
    <2>4. /\ \A j \in Jobs : reg'[j].live <=> reg[j].live
          /\ "ack" \notin Ops => \A j \in Jobs : ckpt'[j] >= ckpt[j]
          /\ head' >= head
      BY <1>3, <1>0, <1>c DEF RunBegin
    <2> QED
      BY <2>0, <2>1, <2>2, <2>3, <2>4, <1>b, Keep
  <1>4. CASE RunPublish(t)
    <2>0. /\ Others(t) /\ th'[t].pc \in {"remove", "loop", "emit", "emit_reached"} /\ th'[t].job = th[t].job
          /\ (th'[t].pc \in {"emit", "emit_reached"} => th'[t].st \in Told)
      <3> DEFINE r == IF th[t].st = Wanted(Job(t)) THEN Published(t, Reached(Job(t)))
                      ELSE [th[t] EXCEPT !.pc = IF Reached(Job(t)) THEN "emit_reached" ELSE "emit",
                                         !.st = Wanted(Job(t))]
      <3>1. th' = [th EXCEPT ![t] = r]
        BY <1>4, <1>0 DEF RunPublish
      <3>2. Wanted(Job(t)) \in Told
        BY DEF Wanted, Told
      <3>3. \A b : /\ Published(t, b) \in ThreadType /\ Published(t, b).job = th[t].job
                   /\ Published(t, b).pc \in {"remove", "loop"}
        BY <1>0, PublishedType DEF Published, ThreadType
      <3>4. \A q \in {"emit", "emit_reached"}, st \in Told :
               LET e == [th[t] EXCEPT !.pc = q, !.st = st]
               IN  e \in ThreadType /\ e.job = th[t].job /\ e.pc = q /\ e.st = st
        BY <1>0, Literals DEF ThreadType, Told
      <3>5. /\ r \in ThreadType /\ r.job = th[t].job /\ r.pc \in {"remove", "loop", "emit", "emit_reached"}
            /\ (r.pc \in {"emit", "emit_reached"} => r.st \in Told)
        <4>1. CASE th[t].st = Wanted(Job(t))
          <5>1. r = Published(t, Reached(Job(t)))
            BY <4>1
          <5> QED
            BY <5>1, <3>3
        <4>2. CASE th[t].st # Wanted(Job(t))
          <5>1. PICK q \in {"emit", "emit_reached"} : q = IF Reached(Job(t)) THEN "emit_reached" ELSE "emit"
            OBVIOUS
          <5>2. r = [th[t] EXCEPT !.pc = q, !.st = Wanted(Job(t))]
            BY <4>2, <5>1
          <5>3. PICK w \in Told : w = Wanted(Job(t))
            BY <3>2
          <5>4. LET e == [th[t] EXCEPT !.pc = q, !.st = w]
                IN  e \in ThreadType /\ e.job = th[t].job /\ e.pc = q /\ e.st = w
            BY ZenonT(60), <3>4
          <5>5. r = [th[t] EXCEPT !.pc = q, !.st = w]
            BY <5>2, <5>3
          <5> HIDE DEF r
          <5> QED
            BY <5>4, <5>5
        <4> QED
          BY <4>1, <4>2
      <3> HIDE DEF r
      <3> QED
        BY <3>1, <3>5, Moved
    <2>1. LocalThread(t)' /\ ("ack" \notin Ops => StopThread(t)')
      BY <2>0, <1>4, <1>0 DEF RunPublish, LocalThread, StopThread, At, Job, Same
    <2>2. \A j \in Jobs : Blocked(j)'
      BY <1>4, <1>0, BlockedKeep, Literals DEF RunPublish, rows
    <2>3. (Works(t)' <=> Works(t)) /\ (Works(t) => th'[t].job = th[t].job)
      BY <1>4, <2>0 DEF RunPublish, Works, Replicating, At, Same
    <2>4. /\ \A j \in Jobs : reg'[j].live <=> reg[j].live
          /\ "ack" \notin Ops => \A j \in Jobs : ckpt'[j] >= ckpt[j]
          /\ head' >= head
      BY <1>4, <1>0, <1>c DEF RunPublish
    <2> QED
      BY <2>0, <2>1, <2>2, <2>3, <2>4, <1>b, Keep
  <1>5. CASE RunEmit(t)
    <2>0. /\ Others(t) /\ th'[t].pc \in {"remove", "loop"} /\ th'[t].job = th[t].job
      <3>1. \A b : /\ Published(t, b) \in ThreadType /\ Published(t, b).job = th[t].job
                   /\ Published(t, b).pc \in {"remove", "loop"}
        BY <1>0, PublishedType DEF Published, ThreadType
      <3> QED
        <4>1. PICK r : r = Published(t, At(t, "emit_reached"))
          OBVIOUS
        <4>2. r \in ThreadType /\ r.job = th[t].job /\ r.pc \in {"remove", "loop"}
          BY <4>1, <3>1
        <4>3. th' = [th EXCEPT ![t] = r]
          BY <1>5, <4>1 DEF RunEmit
        <4> QED
          BY <4>2, <4>3, Moved
    <2>1. LocalThread(t)' /\ ("ack" \notin Ops => StopThread(t)')
      BY <2>0, <1>5, <1>0 DEF RunEmit, LocalThread, StopThread, At, Job, Same
    <2>2. \A j \in Jobs : Blocked(j)'
      <3>1. th[t].st \in Statuses \ {"paused_ddl"}
        BY <1>5, <1>0 DEF RunEmit, LocalThread, Told
      <3> QED
        BY <1>5, <1>0, <3>1, BlockedKeep DEF RunEmit
    <2>3. (Works(t)' <=> Works(t)) /\ (Works(t) => th'[t].job = th[t].job)
      BY <1>5, <2>0 DEF RunEmit, Works, Replicating, At, Same
    <2>4. /\ \A j \in Jobs : reg'[j].live <=> reg[j].live
          /\ "ack" \notin Ops => \A j \in Jobs : ckpt'[j] >= ckpt[j]
          /\ head' >= head
      BY <1>5, <1>0, <1>c DEF RunEmit
    <2> QED
      BY <2>0, <2>1, <2>2, <2>3, <2>4, <1>b, Keep
  <1>6. CASE RunApply(t)
    <2>0. /\ Others(t) /\ th'[t].pc \in {"publish"} /\ Same(t)
      BY <1>6, <1>0, Moved, Literals DEF RunApply
    <2>1. LocalThread(t)' /\ ("ack" \notin Ops => StopThread(t)')
      BY <2>0, <1>6, <1>0 DEF RunApply, LocalThread, StopThread, At, Job, Same
    <2>2. \A j \in Jobs : Blocked(j)'
      BY <1>6, <1>0, BlockedKeep, Literals DEF RunApply, rows
    <2>3. (Works(t)' <=> Works(t)) /\ (Works(t) => th'[t].job = th[t].job)
      BY <1>6, <2>0 DEF RunApply, Works, Replicating, At, Same
    <2>4. /\ \A j \in Jobs : reg'[j].live <=> reg[j].live
          /\ "ack" \notin Ops => \A j \in Jobs : ckpt'[j] >= ckpt[j]
          /\ head' >= head
      <3>1. \A j \in Jobs : ckpt[j] \in Int
        BY Numbers
      <3>2. ckpt' = [ckpt EXCEPT ![Job(t)] = ckpt[Job(t)] + 1] /\ reg' = reg /\ head' = head
        BY <1>6 DEF RunApply
      <3> QED
        <4>1. \A j \in Jobs : ckpt'[j] >= ckpt[j]
          <5> SUFFICES ASSUME NEW j \in Jobs PROVE ckpt'[j] >= ckpt[j]
            OBVIOUS
          <5>1. ckpt'[j] = ckpt[j] \/ ckpt'[j] = ckpt[j] + 1
            BY <3>2, <1>0
          <5>2. ckpt[j] \in Int
            BY <3>1
          <5> QED
            BY ONLY <5>1, <5>2
        <4> QED
          BY <4>1, <3>2, <1>c
    <2> QED
      BY <2>0, <2>1, <2>2, <2>3, <2>4, <1>b, Keep
  <1>7. CASE RunHeartbeat(t)
    <2>0. /\ Others(t) /\ th'[t].pc \in {"publish"} /\ Same(t)
      BY <1>7, <1>0, Moved, Literals DEF RunHeartbeat
    <2>1. LocalThread(t)' /\ ("ack" \notin Ops => StopThread(t)')
      BY <2>0, <1>7, <1>0 DEF RunHeartbeat, LocalThread, StopThread, At, Job, Same
    <2>2. \A j \in Jobs : Blocked(j)'
      BY <1>7, <1>0, BlockedKeep, Literals DEF RunHeartbeat, rows
    <2>3. (Works(t)' <=> Works(t)) /\ (Works(t) => th'[t].job = th[t].job)
      BY <1>7, <2>0 DEF RunHeartbeat, Works, Replicating, At, Same
    <2>4. /\ \A j \in Jobs : reg'[j].live <=> reg[j].live
          /\ "ack" \notin Ops => \A j \in Jobs : ckpt'[j] >= ckpt[j]
          /\ head' >= head
      BY <1>7, <1>0, <1>c DEF RunHeartbeat
    <2> QED
      BY <2>0, <2>1, <2>2, <2>3, <2>4, <1>b, Keep
  <1>8. CASE RunDDL(t)
    <2>0. /\ Others(t) /\ th'[t].pc \in {"remove"} /\ Same(t)
      BY <1>8, <1>0, Moved, Literals DEF RunDDL
    <2>1. LocalThread(t)' /\ ("ack" \notin Ops => StopThread(t)')
      BY <2>0, <1>8, <1>0 DEF RunDDL, LocalThread, StopThread, At, Job, Same
    <2>2. \A j \in Jobs : Blocked(j)'
      <3>1. ckpt[Job(t)] + 1 # 0
        <4>1. ckpt[Job(t)] \in Int /\ ckpt[Job(t)] >= 1
          BY <1>0, Numbers
        <4> QED
          BY ONLY <4>1
      <3>2. /\ status' = [status EXCEPT ![Job(t)] = "paused_ddl"]
            /\ blocking' = [blocking EXCEPT ![Job(t)] = ckpt[Job(t)] + 1]
        BY <1>8 DEF RunDDL, SetStatus
      <3> QED
        BY <1>0, <3>1, <3>2 DEF Blocked, LocalInv
    <2>3. (Works(t)' <=> Works(t)) /\ (Works(t) => th'[t].job = th[t].job)
      BY <1>8, <2>0 DEF RunDDL, Works, Replicating, At, Same
    <2>4. /\ \A j \in Jobs : reg'[j].live <=> reg[j].live
          /\ "ack" \notin Ops => \A j \in Jobs : ckpt'[j] >= ckpt[j]
          /\ head' >= head
      BY <1>8, <1>0, <1>c DEF RunDDL
    <2> QED
      BY <2>0, <2>1, <2>2, <2>3, <2>4, <1>b, Keep
  <1>9. CASE RunCancelled(t)
    <2>0. /\ Others(t) /\ th'[t].pc \in {"remove"} /\ Same(t)
      BY <1>9, <1>0, Moved, Literals DEF RunCancelled
    <2>1. LocalThread(t)' /\ ("ack" \notin Ops => StopThread(t)')
      BY <2>0, <1>9, <1>0 DEF RunCancelled, LocalThread, StopThread, At, Job, Same
    <2>2. \A j \in Jobs : Blocked(j)'
      BY <1>9, <1>0, BlockedKeep, Literals DEF RunCancelled, rows
    <2>3. (Works(t)' <=> Works(t)) /\ (Works(t) => th'[t].job = th[t].job)
      BY <1>9, <2>0 DEF RunCancelled, Works, Replicating, At, Same
    <2>4. /\ \A j \in Jobs : reg'[j].live <=> reg[j].live
          /\ "ack" \notin Ops => \A j \in Jobs : ckpt'[j] >= ckpt[j]
          /\ head' >= head
      BY <1>9, <1>0, <1>c DEF RunCancelled
    <2> QED
      BY <2>0, <2>1, <2>2, <2>3, <2>4, <1>b, Keep
  <1>10. CASE RunRemove(t)
    <2>0. Others(t) /\ th'[t].pc \in {"idle", "pause", "abort", "failed", "reload"}
      <3> DEFINE pc == AfterRemove(th[t].err, reg[Job(t)].action)
                 r == IF pc = "end" THEN IdleThread ELSE [th[t] EXCEPT !.pc = pc]
      <3>1. pc \in {"end", "pause", "abort", "failed", "reload"}
        BY <1>0, Fields DEF AfterRemove
      <3>2. th' = [th EXCEPT ![t] = r]
        BY <1>10 DEF RunRemove
      <3>3. \A q \in {"pause", "abort", "failed", "reload"} :
               [th[t] EXCEPT !.pc = q] \in ThreadType /\ [th[t] EXCEPT !.pc = q].pc = q
        BY <1>0, Literals DEF ThreadType
      <3>4. r \in ThreadType /\ r.pc \in {"idle", "pause", "abort", "failed", "reload"}
        BY <3>1, <3>3, IdleType
      <3> HIDE DEF r
      <3> QED
        BY <3>2, <3>4, Moved
    <2>1. LocalThread(t)' /\ ("ack" \notin Ops => StopThread(t)') /\ ~Works(t)' /\ Works(t)
      BY <1>10, <2>0 DEF RunRemove, LocalThread, StopThread, At, Works, Replicating
    <2>2. /\ status' = status /\ blocking' = blocking /\ ckpt' = ckpt /\ head' = head
          /\ reg' = [reg EXCEPT ![Job(t)] = NotRegistered]
      BY <1>10 DEF RunRemove, rows
    <2>3. ~reg'[Job(t)].live /\ \A j \in Jobs : j # Job(t) => reg'[j] = reg[j]
      BY <1>0, <2>2 DEF NotRegistered
    <2>4. \A u \in Threads : u # t => (Works(u)' <=> Works(u)) /\ Job(u)' = Job(u) /\ Job(u) \in Jobs
      BY <2>0, Fields DEF Others, Works, Job
    <2>5. Paired'
      BY ZenonT(60), <1>0, <2>1, <2>3, <2>4 DEF Paired
    <2>6. LocalInv' /\ StopInv'
      BY <1>0, <1>b, <2>0, <2>1, <2>2, BlockedKeep, KeepThreads
    <2> QED
      BY <2>5, <2>6
  <1>11. CASE RunLastWrite(t)
    <2>0. /\ Others(t) /\ th'[t].pc \in {"idle"}
      BY <1>11, <1>0, Moved, Literals DEF RunLastWrite
    <2>1. LocalThread(t)' /\ ("ack" \notin Ops => StopThread(t)')
      BY <2>0, <1>11, <1>0 DEF RunLastWrite, LocalThread, StopThread, At, Job, Same
    <2>2. \A j \in Jobs : Blocked(j)'
      BY <1>11, <1>0, BlockedKeep, Literals DEF RunLastWrite, rows
    <2>3. (Works(t)' <=> Works(t)) /\ (Works(t) => th'[t].job = th[t].job)
      BY <1>11, <2>0 DEF RunLastWrite, Works, Replicating, At, Same
    <2>4. /\ \A j \in Jobs : reg'[j].live <=> reg[j].live
          /\ "ack" \notin Ops => \A j \in Jobs : ckpt'[j] >= ckpt[j]
          /\ head' >= head
      BY <1>11, <1>0, <1>c DEF RunLastWrite
    <2> QED
      BY <2>0, <2>1, <2>2, <2>3, <2>4, <1>b, Keep
  <1>12. CASE CutoverReload(t)
    <2>0. /\ Others(t) /\ th'[t].pc \in {"launch", "claim"}
      BY <1>12, <1>0, Moved, Literals DEF CutoverReload
    <2>1. LocalThread(t)' /\ ("ack" \notin Ops => StopThread(t)')
      BY <2>0, <1>12, <1>0 DEF CutoverReload, LocalThread, StopThread, At, Job, Same
    <2>2. \A j \in Jobs : Blocked(j)'
      BY <1>12, <1>0, BlockedKeep, Literals DEF CutoverReload, rows
    <2>3. (Works(t)' <=> Works(t)) /\ (Works(t) => th'[t].job = th[t].job)
      BY <1>12, <2>0 DEF CutoverReload, Works, Replicating, At, Same
    <2>4. /\ \A j \in Jobs : reg'[j].live <=> reg[j].live
          /\ "ack" \notin Ops => \A j \in Jobs : ckpt'[j] >= ckpt[j]
          /\ head' >= head
      BY <1>12, <1>0, <1>c DEF CutoverReload
    <2> QED
      BY <2>0, <2>1, <2>2, <2>3, <2>4, <1>b, Keep
  <1>13. CASE CutoverClaim(t)
    <2>0. /\ Others(t) /\ th'[t].pc \in {"validate", "unclaimed"}
      BY <1>13, <1>0, Moved, Literals DEF CutoverClaim
    <2>1. LocalThread(t)' /\ ("ack" \notin Ops => StopThread(t)')
      BY <2>0, <1>13, <1>0 DEF CutoverClaim, LocalThread, StopThread, At, Job, Same
    <2>2. \A j \in Jobs : Blocked(j)'
      BY <1>13, <1>0, BlockedKeep, Literals DEF CutoverClaim, rows
    <2>3. (Works(t)' <=> Works(t)) /\ (Works(t) => th'[t].job = th[t].job)
      BY <1>13, <2>0 DEF CutoverClaim, Works, Replicating, At, Same
    <2>4. /\ \A j \in Jobs : reg'[j].live <=> reg[j].live
          /\ "ack" \notin Ops => \A j \in Jobs : ckpt'[j] >= ckpt[j]
          /\ head' >= head
      BY <1>13, <1>0, <1>c DEF CutoverClaim
    <2> QED
      BY <2>0, <2>1, <2>2, <2>3, <2>4, <1>b, Keep
  <1>14. CASE CutoverUnclaimed(t)
    <2>0. /\ Others(t) /\ th'[t].pc \in {"launch", "idle"}
      BY <1>14, <1>0, Moved, Literals DEF CutoverUnclaimed
    <2>1. LocalThread(t)' /\ ("ack" \notin Ops => StopThread(t)')
      BY <2>0, <1>14, <1>0 DEF CutoverUnclaimed, LocalThread, StopThread, At, Job, Same
    <2>2. \A j \in Jobs : Blocked(j)'
      BY <1>14, <1>0, BlockedKeep, Literals DEF CutoverUnclaimed, rows
    <2>3. (Works(t)' <=> Works(t)) /\ (Works(t) => th'[t].job = th[t].job)
      BY <1>14, <2>0 DEF CutoverUnclaimed, Works, Replicating, At, Same
    <2>4. /\ \A j \in Jobs : reg'[j].live <=> reg[j].live
          /\ "ack" \notin Ops => \A j \in Jobs : ckpt'[j] >= ckpt[j]
          /\ head' >= head
      BY <1>14, <1>0, <1>c DEF CutoverUnclaimed
    <2> QED
      BY <2>0, <2>1, <2>2, <2>3, <2>4, <1>b, Keep
  <1>15. CASE CutoverValidate(t)
    <2>0. /\ Others(t) /\ th'[t].pc \in {"idle"}
      BY <1>15, <1>0, Moved, Literals DEF CutoverValidate
    <2>1. LocalThread(t)' /\ ("ack" \notin Ops => StopThread(t)')
      BY <2>0, <1>15, <1>0 DEF CutoverValidate, LocalThread, StopThread, At, Job, Same
    <2>2. \A j \in Jobs : Blocked(j)'
      BY <1>15, <1>0, BlockedKeep, Literals DEF CutoverValidate, rows
    <2>3. (Works(t)' <=> Works(t)) /\ (Works(t) => th'[t].job = th[t].job)
      BY <1>15, <2>0 DEF CutoverValidate, Works, Replicating, At, Same
    <2>4. /\ \A j \in Jobs : reg'[j].live <=> reg[j].live
          /\ "ack" \notin Ops => \A j \in Jobs : ckpt'[j] >= ckpt[j]
          /\ head' >= head
      BY <1>15, <1>0, <1>c DEF CutoverValidate
    <2> QED
      BY <2>0, <2>1, <2>2, <2>3, <2>4, <1>b, Keep
  <1>16. CASE StartCreate(t)
    <2>0. /\ Others(t) /\ th'[t].pc \in {"launch"}
      BY <1>16, <1>0, Moved, Literals DEF StartCreate
    <2>1. LocalThread(t)' /\ ("ack" \notin Ops => StopThread(t)')
      BY <2>0, <1>16, <1>0 DEF StartCreate, LocalThread, StopThread, At, Job, Same
    <2>2. \A j \in Jobs : Blocked(j)'
      BY <1>16, <1>0, BlockedKeep, Literals DEF StartCreate, rows
    <2>3. (Works(t)' <=> Works(t)) /\ (Works(t) => th'[t].job = th[t].job)
      BY <1>16, <2>0 DEF StartCreate, Works, Replicating, At, Same
    <2>4. /\ \A j \in Jobs : reg'[j].live <=> reg[j].live
          /\ "ack" \notin Ops => \A j \in Jobs : ckpt'[j] >= ckpt[j]
          /\ head' >= head
      BY <1>16, <1>0, <1>c DEF StartCreate
    <2> QED
      BY <2>0, <2>1, <2>2, <2>3, <2>4, <1>b, Keep
  <1>17. CASE PauseWrite(t)
    <2>0. /\ Others(t) /\ th'[t].pc \in {"idle"}
      BY <1>17, <1>0, Moved, Literals DEF PauseWrite
    <2>1. LocalThread(t)' /\ ("ack" \notin Ops => StopThread(t)')
      BY <2>0, <1>17, <1>0 DEF PauseWrite, LocalThread, StopThread, At, Job, Same
    <2>2. \A j \in Jobs : Blocked(j)'
      BY <1>17, <1>0, BlockedKeep, Literals DEF PauseWrite, rows
    <2>3. (Works(t)' <=> Works(t)) /\ (Works(t) => th'[t].job = th[t].job)
      BY <1>17, <2>0 DEF PauseWrite, Works, Replicating, At, Same
    <2>4. /\ \A j \in Jobs : reg'[j].live <=> reg[j].live
          /\ "ack" \notin Ops => \A j \in Jobs : ckpt'[j] >= ckpt[j]
          /\ head' >= head
      BY <1>17, <1>0, <1>c DEF PauseWrite
    <2> QED
      BY <2>0, <2>1, <2>2, <2>3, <2>4, <1>b, Keep
  <1>18. CASE PrepareHead(t)
    <2>0. /\ Others(t) /\ th'[t].pc \in {"prepare_swap", "idle"} /\ (th'[t].pc # "idle" => th'[t].st = th[t].st)
      <3>1. CASE Return(t)
        BY <3>1, Moved
      <3>2. CASE th' = [th EXCEPT ![t].pc = "prepare_swap", ![t].pos = head]
        BY <3>2, <1>0, Moved, Literals
      <3> QED
        BY <1>18, <3>1, <3>2 DEF PrepareHead
    <2>1. LocalThread(t)' /\ ("ack" \notin Ops => StopThread(t)')
      BY <2>0, <1>18, <1>0 DEF PrepareHead, LocalThread, StopThread, At, Job, Same
    <2>2. \A j \in Jobs : Blocked(j)'
      BY <1>18, <1>0, BlockedKeep, Literals DEF PrepareHead, rows
    <2>3. (Works(t)' <=> Works(t)) /\ (Works(t) => th'[t].job = th[t].job)
      BY <1>18, <2>0 DEF PrepareHead, Works, Replicating, At, Same
    <2>4. /\ \A j \in Jobs : reg'[j].live <=> reg[j].live
          /\ "ack" \notin Ops => \A j \in Jobs : ckpt'[j] >= ckpt[j]
          /\ head' >= head
      BY <1>18, <1>0, <1>c DEF PrepareHead
    <2> QED
      BY <2>0, <2>1, <2>2, <2>3, <2>4, <1>b, Keep
  <1>19. CASE PrepareSwap(t)
    <2>0. /\ Others(t) /\ th'[t].pc \in {"prepare_request", "idle"} /\ (th'[t].pc # "idle" => th'[t].st = th[t].st)
      BY <1>19, <1>0, Moved, Literals DEF PrepareSwap, Same
    <2>1. LocalThread(t)' /\ ("ack" \notin Ops => StopThread(t)')
      BY <2>0, <1>19, <1>0 DEF PrepareSwap, LocalThread, StopThread, At, Job, Same
    <2>2. \A j \in Jobs : Blocked(j)'
      BY <1>19, <1>0, BlockedKeep, Literals DEF PrepareSwap, rows
    <2>3. (Works(t)' <=> Works(t)) /\ (Works(t) => th'[t].job = th[t].job)
      BY <1>19, <2>0 DEF PrepareSwap, Works, Replicating, At, Same
    <2>4. /\ \A j \in Jobs : reg'[j].live <=> reg[j].live
          /\ "ack" \notin Ops => \A j \in Jobs : ckpt'[j] >= ckpt[j]
          /\ head' >= head
      BY <1>19, <1>0, <1>c DEF PrepareSwap
    <2> QED
      BY <2>0, <2>1, <2>2, <2>3, <2>4, <1>b, Keep
  <1>20. CASE PrepareRequest(t)
    <2>0. /\ Others(t) /\ th'[t].pc \in {"prepare_undo", "idle"} /\ (th'[t].pc # "idle" => th'[t].st = th[t].st)
      BY <1>20, <1>0, Moved, Literals DEF PrepareRequest, Same
    <2>1. LocalThread(t)' /\ ("ack" \notin Ops => StopThread(t)')
      BY <2>0, <1>20, <1>0 DEF PrepareRequest, LocalThread, StopThread, At, Job, Same
    <2>2. \A j \in Jobs : Blocked(j)'
      BY <1>20, <1>0, BlockedKeep, Literals DEF PrepareRequest, rows
    <2>3. (Works(t)' <=> Works(t)) /\ (Works(t) => th'[t].job = th[t].job)
      BY <1>20, <2>0 DEF PrepareRequest, Works, Replicating, At, Same
    <2>4. /\ \A j \in Jobs : reg'[j].live <=> reg[j].live
          /\ "ack" \notin Ops => \A j \in Jobs : ckpt'[j] >= ckpt[j]
          /\ head' >= head
      BY <1>20, <1>0, <1>c DEF PrepareRequest, WithBoundary, EntryType
    <2> QED
      BY <2>0, <2>1, <2>2, <2>3, <2>4, <1>b, Keep
  <1>21. CASE PrepareUndo(t)
    <2>0. /\ Others(t) /\ th'[t].pc \in {"prepare_clear", "idle"}
      BY <1>21, <1>0, Moved, Literals DEF PrepareUndo
    <2>1. LocalThread(t)' /\ ("ack" \notin Ops => StopThread(t)')
      BY <2>0, <1>21, <1>0 DEF PrepareUndo, LocalThread, StopThread, At, Job, Same
    <2>2. \A j \in Jobs : Blocked(j)'
      <3>1. th[t].st \in Statuses \ {"paused_ddl"}
        BY <1>21, <1>0, Literals DEF PrepareUndo, LocalThread, At
      <3> QED
        BY <1>21, <1>0, <3>1, BlockedKeep DEF PrepareUndo
    <2>3. (Works(t)' <=> Works(t)) /\ (Works(t) => th'[t].job = th[t].job)
      BY <1>21, <2>0 DEF PrepareUndo, Works, Replicating, At, Same
    <2>4. /\ \A j \in Jobs : reg'[j].live <=> reg[j].live
          /\ "ack" \notin Ops => \A j \in Jobs : ckpt'[j] >= ckpt[j]
          /\ head' >= head
      BY <1>21, <1>0, <1>c DEF PrepareUndo
    <2> QED
      BY <2>0, <2>1, <2>2, <2>3, <2>4, <1>b, Keep
  <1>22. CASE PrepareClear(t)
    <2>0. /\ Others(t) /\ th'[t].pc \in {"idle"}
      BY <1>22, <1>0, Moved, Literals DEF PrepareClear
    <2>1. LocalThread(t)' /\ ("ack" \notin Ops => StopThread(t)')
      BY <2>0, <1>22, <1>0 DEF PrepareClear, LocalThread, StopThread, At, Job, Same
    <2>2. \A j \in Jobs : Blocked(j)'
      BY <1>22, <1>0, BlockedKeep, Literals DEF PrepareClear, rows
    <2>3. (Works(t)' <=> Works(t)) /\ (Works(t) => th'[t].job = th[t].job)
      BY <1>22, <2>0 DEF PrepareClear, Works, Replicating, At, Same
    <2>4. /\ \A j \in Jobs : reg'[j].live <=> reg[j].live
          /\ "ack" \notin Ops => \A j \in Jobs : ckpt'[j] >= ckpt[j]
          /\ head' >= head
      BY <1>22, <1>0, <1>c DEF PrepareClear
    <2> QED
      BY <2>0, <2>1, <2>2, <2>3, <2>4, <1>b, Keep
  <1>23. CASE StopCheckpoint(t)
    <2>0. /\ Others(t) /\ th'[t].pc \in {"stop_head", "idle"} /\ (th'[t].pc # "idle" => Same(t) /\ ckpt[Job(t)] >= th[t].pos)
      BY <1>23, <1>0, Moved, Literals DEF StopCheckpoint
    <2>1. LocalThread(t)' /\ ("ack" \notin Ops => StopThread(t)')
      BY <2>0, <1>23, <1>0 DEF StopCheckpoint, LocalThread, StopThread, At, Job, Same
    <2>2. \A j \in Jobs : Blocked(j)'
      BY <1>23, <1>0, BlockedKeep, Literals DEF StopCheckpoint, rows
    <2>3. (Works(t)' <=> Works(t)) /\ (Works(t) => th'[t].job = th[t].job)
      BY <1>23, <2>0 DEF StopCheckpoint, Works, Replicating, At, Same
    <2>4. /\ \A j \in Jobs : reg'[j].live <=> reg[j].live
          /\ "ack" \notin Ops => \A j \in Jobs : ckpt'[j] >= ckpt[j]
          /\ head' >= head
      BY <1>23, <1>0, <1>c DEF StopCheckpoint
    <2> QED
      BY <2>0, <2>1, <2>2, <2>3, <2>4, <1>b, Keep
  <1>24. CASE StopHead(t)
    <2>0. /\ Others(t) /\ th'[t].pc \in {"stop_swap", "idle"} /\ (th'[t].pc # "idle" => Same(t) /\ head = th[t].pos)
      BY <1>24, <1>0, Moved, Literals DEF StopHead
    <2>1. LocalThread(t)' /\ ("ack" \notin Ops => StopThread(t)')
      <3>1. head' = head /\ ckpt' = ckpt /\ At(t, "stop_head") /\ head >= head
        <4>1. head >= head
          BY Numbers
        <4> QED
          BY <1>24, <4>1 DEF StopHead
      <3> QED
        BY <2>0, <3>1, <1>0 DEF LocalThread, StopThread, At, Job, Same
    <2>2. \A j \in Jobs : Blocked(j)'
      BY <1>24, <1>0, BlockedKeep, Literals DEF StopHead, rows
    <2>3. (Works(t)' <=> Works(t)) /\ (Works(t) => th'[t].job = th[t].job)
      BY <1>24, <2>0 DEF StopHead, Works, Replicating, At, Same
    <2>4. /\ \A j \in Jobs : reg'[j].live <=> reg[j].live
          /\ "ack" \notin Ops => \A j \in Jobs : ckpt'[j] >= ckpt[j]
          /\ head' >= head
      BY <1>24, <1>0, <1>c DEF StopHead
    <2> QED
      BY <2>0, <2>1, <2>2, <2>3, <2>4, <1>b, Keep
  <1>25. CASE StopSwap(t)
    <2>0. /\ Others(t) /\ th'[t].pc \in {"idle"}
      BY <1>25, <1>0, Moved, Literals DEF StopSwap
    <2>1. LocalThread(t)' /\ ("ack" \notin Ops => StopThread(t)')
      BY <2>0, <1>25, <1>0 DEF StopSwap, LocalThread, StopThread, At, Job, Same
    <2>2. \A j \in Jobs : Blocked(j)'
      BY <1>25, <1>0, BlockedKeep, Literals DEF StopSwap, rows
    <2>3. (Works(t)' <=> Works(t)) /\ (Works(t) => th'[t].job = th[t].job)
      BY <1>25, <2>0 DEF StopSwap, Works, Replicating, At, Same
    <2>4. /\ \A j \in Jobs : reg'[j].live <=> reg[j].live
          /\ "ack" \notin Ops => \A j \in Jobs : ckpt'[j] >= ckpt[j]
          /\ head' >= head
      BY <1>25, <1>0, <1>c DEF StopSwap
    <2> QED
      BY <2>0, <2>1, <2>2, <2>3, <2>4, <1>b, Keep
  <1>26. CASE CancelRunning(t)
    <2>0. /\ Others(t) /\ th'[t].pc \in {"cancel_swap", "cancel_swap_running"}
      BY ZenonT(60), <1>26, <1>0, Moved, Literals DEF CancelRunning
    <2>1. LocalThread(t)' /\ ("ack" \notin Ops => StopThread(t)')
      BY <2>0, <1>26, <1>0 DEF CancelRunning, LocalThread, StopThread, At, Job, Same
    <2>2. \A j \in Jobs : Blocked(j)'
      BY <1>26, <1>0, BlockedKeep, Literals DEF CancelRunning, rows
    <2>3. (Works(t)' <=> Works(t)) /\ (Works(t) => th'[t].job = th[t].job)
      BY <1>26, <2>0 DEF CancelRunning, Works, Replicating, At, Same
    <2>4. /\ \A j \in Jobs : reg'[j].live <=> reg[j].live
          /\ "ack" \notin Ops => \A j \in Jobs : ckpt'[j] >= ckpt[j]
          /\ head' >= head
      BY <1>26, <1>0, <1>c DEF CancelRunning
    <2> QED
      BY <2>0, <2>1, <2>2, <2>3, <2>4, <1>b, Keep
  <1>27. CASE CancelSwap(t)
    <2>0. /\ Others(t) /\ th'[t].pc \in {"cancel_reload", "cancel_clear", "idle"}
      BY <1>27, <1>0, Moved, Literals DEF CancelSwap
    <2>1. LocalThread(t)' /\ ("ack" \notin Ops => StopThread(t)')
      BY <2>0, <1>27, <1>0 DEF CancelSwap, LocalThread, StopThread, At, Job, Same
    <2>2. \A j \in Jobs : Blocked(j)'
      BY <1>27, <1>0, BlockedKeep, Literals DEF CancelSwap, rows
    <2>3. (Works(t)' <=> Works(t)) /\ (Works(t) => th'[t].job = th[t].job)
      BY <1>27, <2>0 DEF CancelSwap, Works, Replicating, At, Same
    <2>4. /\ \A j \in Jobs : reg'[j].live <=> reg[j].live
          /\ "ack" \notin Ops => \A j \in Jobs : ckpt'[j] >= ckpt[j]
          /\ head' >= head
      BY <1>27, <1>0, <1>c DEF CancelSwap
    <2> QED
      BY <2>0, <2>1, <2>2, <2>3, <2>4, <1>b, Keep
  <1>28. CASE CancelClear(t)
    <2>0. /\ Others(t) /\ th'[t].pc \in {"idle"}
      BY <1>28, <1>0, Moved, Literals DEF CancelClear
    <2>1. LocalThread(t)' /\ ("ack" \notin Ops => StopThread(t)')
      BY <2>0, <1>28, <1>0 DEF CancelClear, LocalThread, StopThread, At, Job, Same
    <2>2. \A j \in Jobs : Blocked(j)'
      BY <1>28, <1>0, BlockedKeep, Literals DEF CancelClear, rows
    <2>3. (Works(t)' <=> Works(t)) /\ (Works(t) => th'[t].job = th[t].job)
      BY <1>28, <2>0 DEF CancelClear, Works, Replicating, At, Same
    <2>4. /\ \A j \in Jobs : reg'[j].live <=> reg[j].live
          /\ "ack" \notin Ops => \A j \in Jobs : ckpt'[j] >= ckpt[j]
          /\ head' >= head
      BY <1>28, <1>0, <1>c DEF CancelClear, EntryType
    <2> QED
      BY <2>0, <2>1, <2>2, <2>3, <2>4, <1>b, Keep
  <1>29. CASE CancelReload(t)
    <2>0. /\ Others(t) /\ th'[t].pc \in {"launch", "idle"}
      BY <1>29, <1>0, Moved, Literals DEF CancelReload
    <2>1. LocalThread(t)' /\ ("ack" \notin Ops => StopThread(t)')
      BY <2>0, <1>29, <1>0 DEF CancelReload, LocalThread, StopThread, At, Job, Same
    <2>2. \A j \in Jobs : Blocked(j)'
      BY <1>29, <1>0, BlockedKeep, Literals DEF CancelReload, rows
    <2>3. (Works(t)' <=> Works(t)) /\ (Works(t) => th'[t].job = th[t].job)
      BY <1>29, <2>0 DEF CancelReload, Works, Replicating, At, Same
    <2>4. /\ \A j \in Jobs : reg'[j].live <=> reg[j].live
          /\ "ack" \notin Ops => \A j \in Jobs : ckpt'[j] >= ckpt[j]
          /\ head' >= head
      BY <1>29, <1>0, <1>c DEF CancelReload
    <2> QED
      BY <2>0, <2>1, <2>2, <2>3, <2>4, <1>b, Keep
  <1>30. CASE AbortRunning(t)
    <2>0. /\ Others(t) /\ th'[t].pc \in {"abort_cancel", "abort_swap"}
      BY ZenonT(60), <1>30, <1>0, Moved, Literals DEF AbortRunning
    <2>1. LocalThread(t)' /\ ("ack" \notin Ops => StopThread(t)')
      BY <2>0, <1>30, <1>0 DEF AbortRunning, LocalThread, StopThread, At, Job, Same
    <2>2. \A j \in Jobs : Blocked(j)'
      BY <1>30, <1>0, BlockedKeep, Literals DEF AbortRunning, rows
    <2>3. (Works(t)' <=> Works(t)) /\ (Works(t) => th'[t].job = th[t].job)
      BY <1>30, <2>0 DEF AbortRunning, Works, Replicating, At, Same
    <2>4. /\ \A j \in Jobs : reg'[j].live <=> reg[j].live
          /\ "ack" \notin Ops => \A j \in Jobs : ckpt'[j] >= ckpt[j]
          /\ head' >= head
      BY <1>30, <1>0, <1>c DEF AbortRunning
    <2> QED
      BY <2>0, <2>1, <2>2, <2>3, <2>4, <1>b, Keep
  <1>31. CASE AbortCancel(t)
    <2>0. /\ Others(t) /\ th'[t].pc \in {"idle"}
      BY <1>31, <1>0, Moved, Literals DEF AbortCancel
    <2>1. LocalThread(t)' /\ ("ack" \notin Ops => StopThread(t)')
      BY <2>0, <1>31, <1>0 DEF AbortCancel, LocalThread, StopThread, At, Job, Same
    <2>2. \A j \in Jobs : Blocked(j)'
      BY <1>31, <1>0, BlockedKeep, Literals DEF AbortCancel, rows
    <2>3. (Works(t)' <=> Works(t)) /\ (Works(t) => th'[t].job = th[t].job)
      BY <1>31, <2>0 DEF AbortCancel, Works, Replicating, At, Same
    <2>4. /\ \A j \in Jobs : reg'[j].live <=> reg[j].live
          /\ "ack" \notin Ops => \A j \in Jobs : ckpt'[j] >= ckpt[j]
          /\ head' >= head
      BY <1>31, <1>0, <1>c DEF AbortCancel, EntryType
    <2> QED
      BY <2>0, <2>1, <2>2, <2>3, <2>4, <1>b, Keep
  <1>32. CASE AbortSwap(t)
    <2>0. /\ Others(t) /\ th'[t].pc \in {"idle"}
      BY <1>32, <1>0, Moved, Literals DEF AbortSwap
    <2>1. LocalThread(t)' /\ ("ack" \notin Ops => StopThread(t)')
      BY <2>0, <1>32, <1>0 DEF AbortSwap, LocalThread, StopThread, At, Job, Same
    <2>2. \A j \in Jobs : Blocked(j)'
      BY <1>32, <1>0, BlockedKeep, Literals DEF AbortSwap, rows
    <2>3. (Works(t)' <=> Works(t)) /\ (Works(t) => th'[t].job = th[t].job)
      BY <1>32, <2>0 DEF AbortSwap, Works, Replicating, At, Same
    <2>4. /\ \A j \in Jobs : reg'[j].live <=> reg[j].live
          /\ "ack" \notin Ops => \A j \in Jobs : ckpt'[j] >= ckpt[j]
          /\ head' >= head
      BY <1>32, <1>0, <1>c DEF AbortSwap
    <2> QED
      BY <2>0, <2>1, <2>2, <2>3, <2>4, <1>b, Keep
  <1>33. CASE ResumeRunning(t)
    <2>0. /\ Others(t) /\ th'[t].pc \in {"resume_swap", "idle"}
      BY <1>33, <1>0, Moved, Literals DEF ResumeRunning
    <2>1. LocalThread(t)' /\ ("ack" \notin Ops => StopThread(t)')
      BY <2>0, <1>33, <1>0 DEF ResumeRunning, LocalThread, StopThread, At, Job, Same
    <2>2. \A j \in Jobs : Blocked(j)'
      BY <1>33, <1>0, BlockedKeep, Literals DEF ResumeRunning, rows
    <2>3. (Works(t)' <=> Works(t)) /\ (Works(t) => th'[t].job = th[t].job)
      BY <1>33, <2>0 DEF ResumeRunning, Works, Replicating, At, Same
    <2>4. /\ \A j \in Jobs : reg'[j].live <=> reg[j].live
          /\ "ack" \notin Ops => \A j \in Jobs : ckpt'[j] >= ckpt[j]
          /\ head' >= head
      BY <1>33, <1>0, <1>c DEF ResumeRunning
    <2> QED
      BY <2>0, <2>1, <2>2, <2>3, <2>4, <1>b, Keep
  <1>34. CASE ResumeSwap(t)
    <2>0. /\ Others(t) /\ th'[t].pc \in {"launch", "idle"}
      BY <1>34, <1>0, Moved, Literals DEF ResumeSwap
    <2>1. LocalThread(t)' /\ ("ack" \notin Ops => StopThread(t)')
      BY <2>0, <1>34, <1>0 DEF ResumeSwap, LocalThread, StopThread, At, Job, Same
    <2>2. \A j \in Jobs : Blocked(j)'
      BY <1>34, <1>0, BlockedKeep, Literals DEF ResumeSwap, rows
    <2>3. (Works(t)' <=> Works(t)) /\ (Works(t) => th'[t].job = th[t].job)
      BY <1>34, <2>0 DEF ResumeSwap, Works, Replicating, At, Same
    <2>4. /\ \A j \in Jobs : reg'[j].live <=> reg[j].live
          /\ "ack" \notin Ops => \A j \in Jobs : ckpt'[j] >= ckpt[j]
          /\ head' >= head
      BY <1>34, <1>0, <1>c DEF ResumeSwap
    <2> QED
      BY <2>0, <2>1, <2>2, <2>3, <2>4, <1>b, Keep
  <1>35. CASE AckSave(t)
    <2>0. /\ Others(t) /\ th'[t].pc \in {"ack_swap"}
      BY <1>35, <1>0, Moved, Literals DEF AckSave
    <2>1. LocalThread(t)' /\ ("ack" \notin Ops => StopThread(t)')
      BY <2>0, <1>35, <1>0 DEF AckSave, LocalThread, StopThread, At, Job, Same
    <2>2. \A j \in Jobs : Blocked(j)'
      BY <1>35, <1>0, BlockedKeep, Literals DEF AckSave, rows
    <2>3. (Works(t)' <=> Works(t)) /\ (Works(t) => th'[t].job = th[t].job)
      BY <1>35, <2>0 DEF AckSave, Works, Replicating, At, Same
    <2>4. /\ \A j \in Jobs : reg'[j].live <=> reg[j].live
          /\ "ack" \notin Ops => \A j \in Jobs : ckpt'[j] >= ckpt[j]
          /\ head' >= head
      BY <1>35, <1>0, <1>c DEF AckSave, StopThread, At
    <2> QED
      BY <2>0, <2>1, <2>2, <2>3, <2>4, <1>b, Keep
  <1>36. CASE AckSwap(t)
    <2>0. /\ Others(t) /\ th'[t].pc \in {"launch", "idle"}
      BY <1>36, <1>0, Moved, Literals DEF AckSwap
    <2>1. LocalThread(t)' /\ ("ack" \notin Ops => StopThread(t)')
      BY <2>0, <1>36, <1>0 DEF AckSwap, LocalThread, StopThread, At, Job, Same
    <2>2. \A j \in Jobs : Blocked(j)'
      BY <1>36, <1>0, BlockedKeep DEF AckSwap, Blocked, SetStatus, LocalInv
    <2>3. (Works(t)' <=> Works(t)) /\ (Works(t) => th'[t].job = th[t].job)
      BY <1>36, <2>0 DEF AckSwap, Works, Replicating, At, Same
    <2>4. /\ \A j \in Jobs : reg'[j].live <=> reg[j].live
          /\ "ack" \notin Ops => \A j \in Jobs : ckpt'[j] >= ckpt[j]
          /\ head' >= head
      BY <1>36, <1>0, <1>c DEF AckSwap
    <2> QED
      BY <2>0, <2>1, <2>2, <2>3, <2>4, <1>b, Keep
  <1>37. CASE RunConflict(t)
    <2>0. /\ Others(t) /\ th'[t].pc \in {"remove"} /\ Same(t)
      BY <1>37, <1>0, Moved, Literals DEF RunConflict
    <2>1. LocalThread(t)' /\ ("ack" \notin Ops => StopThread(t)')
      BY <2>0, <1>37, <1>0 DEF RunConflict, LocalThread, StopThread, At, Job, Same
    <2>2. \A j \in Jobs : Blocked(j)'
      BY <1>37, <1>0, BlockedKeep, Literals DEF RunConflict, rows
    <2>3. (Works(t)' <=> Works(t)) /\ (Works(t) => th'[t].job = th[t].job)
      BY <1>37, <2>0 DEF RunConflict, Works, Replicating, At, Same
    <2>4. /\ \A j \in Jobs : reg'[j].live <=> reg[j].live
          /\ "ack" \notin Ops => \A j \in Jobs : ckpt'[j] >= ckpt[j]
          /\ head' >= head
      BY <1>37, <1>0, <1>c DEF RunConflict
    <2> QED
      BY <2>0, <2>1, <2>2, <2>3, <2>4, <1>b, Keep
  <1>38. CASE RunError(t)
    <2>0. /\ Others(t) /\ th'[t].pc \in {"remove"} /\ Same(t)
      BY <1>38, <1>0, Moved, Literals DEF RunError
    <2>1. LocalThread(t)' /\ ("ack" \notin Ops => StopThread(t)')
      BY <2>0, <1>38, <1>0 DEF RunError, LocalThread, StopThread, At, Job, Same
    <2>2. \A j \in Jobs : Blocked(j)'
      BY <1>38, <1>0, BlockedKeep, Literals DEF RunError, rows
    <2>3. (Works(t)' <=> Works(t)) /\ (Works(t) => th'[t].job = th[t].job)
      BY <1>38, <2>0 DEF RunError, Works, Replicating, At, Same
    <2>4. /\ \A j \in Jobs : reg'[j].live <=> reg[j].live
          /\ "ack" \notin Ops => \A j \in Jobs : ckpt'[j] >= ckpt[j]
          /\ head' >= head
      BY <1>38, <1>0, <1>c DEF RunError
    <2> QED
      BY <2>0, <2>1, <2>2, <2>3, <2>4, <1>b, Keep
  <1> QED
    BY <1>1, <1>2, <1>3, <1>4, <1>5, <1>6, <1>7, <1>8, <1>9, <1>10, <1>11, <1>12, <1>13, <1>14, <1>15,
       <1>16, <1>17, <1>18, <1>19, <1>20, <1>21, <1>22, <1>23, <1>24, <1>25, <1>26, <1>27, <1>28, <1>29,
       <1>30, <1>31, <1>32, <1>33, <1>34, <1>35, <1>36, <1>37, <1>38
    DEF RunnerStep, HandlerStep

\* A request below the bound can be counted.
LEMMA OneMoreRequest ==
    ASSUME TypeOK, requests < MaxRequests
    PROVE  requests + 1 \in 0..MaxRequests
  <1>1. requests \in 0..MaxRequests /\ MaxRequests \in Nat
    BY LifecycleAssumption DEF TypeOK
  <1> QED
    BY <1>1

\* A request that is accepted takes a free slot and keeps what it read.
LEMMA Accepted ==
    ASSUME TypeOK, NEW t \in Threads, NEW op \in Ops, NEW pc \in Pcs, NEW j \in Jobs,
           NEW st \in Statuses \cup {""}, NEW pos \in 0..MaxHead, NEW cut \in 0..MaxHead,
           Accept(t, op, pc, j, st, pos, cut)
    PROVE  /\ At(t, "idle") /\ Others(t) /\ th' \in [Threads -> ThreadType]
           /\ th'[t].pc = pc /\ th'[t].job = j /\ th'[t].st = st /\ th'[t].pos = pos /\ th'[t].cut = cut
           /\ requests' \in 0..MaxRequests /\ restarts' = restarts
  <1>1. PICK r : r = Thread(pc, j, st, pos, cut)
    OBVIOUS
  <1>2. r \in ThreadType
    BY <1>1, ThreadParts
  <1>3. r.pc = pc /\ r.job = j /\ r.st = st /\ r.pos = pos /\ r.cut = cut
    BY <1>1 DEF Thread
  <1>4. th' = [th EXCEPT ![t] = r] /\ At(t, "idle") /\ restarts' = restarts
    BY <1>1 DEF Accept
  <1>5. requests' \in 0..MaxRequests
    <2>2. requests < MaxRequests /\ requests' = requests + 1
      BY DEF Accept
    <2> QED
      BY <2>2, OneMoreRequest
  <1> QED
    BY <1>2, <1>3, <1>4, <1>5, Moves, Moved

\* A position is not below itself.
LEMMA NotLess ==
    ASSUME TypeOK PROVE head >= head /\ \A j \in Jobs : ckpt[j] >= ckpt[j]
  BY Numbers

\* Every request keeps the invariants.
LEMMA RequestStep ==
    ASSUME TypeOK, LocalInv, Paired, StopInv, NEW t \in Threads, NEW j \in Jobs, Request(t, j)
    PROVE  TypeOK' /\ LocalInv' /\ Paired' /\ StopInv'
  <1>0. /\ status \in [Jobs -> Statuses] /\ ended \subseteq Jobs
        /\ cutover \in [Jobs -> 0..MaxHead] /\ blocking \in [Jobs -> 0..MaxHead]
        /\ ckpt \in [Jobs -> 1..MaxHead] /\ head \in 1..MaxHead
        /\ reg \in [Jobs -> EntryType]
        /\ mutex \in Threads \cup {NoThread} /\ restarts \in 0..MaxRestarts
    BY Types
  <1>1. /\ 0 \in 0..MaxHead /\ cutover[j] \in 0..MaxHead /\ blocking[j] \in 0..MaxHead
        /\ "" \in Statuses \cup {""} /\ status[j] \in Statuses \cup {""}
    <2>1. 0 \in 0..MaxHead
      BY LifecycleAssumption
    <2> QED
      BY <1>0, <2>1
  <1>2. ASSUME NEW op \in Ops, NEW pc \in Pcs, NEW st \in Statuses \cup {""},
               NEW pos \in 0..MaxHead, NEW cut \in 0..MaxHead,
               Accept(t, op, pc, j, st, pos, cut),
               pc \notin Replicating \cup {"launch_boundary", "emit", "emit_reached", "prepare_swap",
                                          "prepare_request", "prepare_undo", "stop_head", "stop_swap"},
               pc = "prepare_head" => st \in {"running", "catching_up"},
               pc = "stop_checkpoint" => st = "ready_to_cutover",
               pc = "ack_save" => pos # 0 /\ op = "ack",
               status' = status, ended' = ended, blocking' = blocking, cutover' = cutover, ckpt' = ckpt, head' = head,
               reg' \in [Jobs -> EntryType], mutex' \in Threads \cup {NoThread},
               \A k \in Jobs : reg'[k].live <=> reg[k].live
        PROVE  TypeOK' /\ LocalInv' /\ Paired' /\ StopInv'
    <2>1. /\ At(t, "idle") /\ Others(t) /\ th' \in [Threads -> ThreadType]
          /\ th'[t].pc = pc /\ th'[t].job = j /\ th'[t].st = st /\ th'[t].pos = pos
          /\ requests' \in 0..MaxRequests /\ restarts' = restarts
      BY <1>2, Accepted
    <2>2. TypeOK'
      BY <1>0, <1>2, <2>1, TypesNext
    <2>3. LocalThread(t)' /\ ("ack" \notin Ops => StopThread(t)')
      BY <1>2, <2>1 DEF LocalThread, StopThread, At
    <2>4. ~Works(t)' /\ ~Works(t)
      BY <1>2, <2>1 DEF Works, At, Replicating
    <2>5. (\A k \in Jobs : ckpt'[k] >= ckpt[k]) /\ head' >= head
      BY <1>2, NotLess
    <2>6. \A k \in Jobs : Blocked(k)'
      BY <1>2, BlockedKeep
    <2>7. ckpt' \in [Jobs -> 1..MaxHead] /\ head' \in 1..MaxHead
      BY <1>0, <1>2
    <2> QED
      BY <1>2, <2>1, <2>2, <2>3, <2>4, <2>5, <2>6, <2>7, Keep
  <1>3. CASE StartCheck(t, j)
    <2>1. Accept(t, "start", "create", j, "", 0, 0) /\ "start" \in Ops /\ "create" \in Pcs
      BY <1>3, Literals DEF StartCheck, Accept
    <2>2. status' = status /\ ended' = ended /\ blocking' = blocking /\ cutover' = cutover /\ ckpt' = ckpt /\ head' = head
      BY <1>3 DEF StartCheck, rows
    <2>3. mutex' \in Threads \cup {NoThread}
      BY <1>3, <1>0 DEF StartCheck, Lock
    <2>4. reg' \in [Jobs -> EntryType] /\ \A k \in Jobs : reg'[k].live <=> reg[k].live
      BY <1>3, <1>0 DEF StartCheck, rows
    <2>5. /\ "create" = "prepare_head" => "" \in {"running", "catching_up"}
          /\ "create" = "stop_checkpoint" => "" = "ready_to_cutover"
          /\ "create" = "ack_save" => 0 # 0 /\ "start" = "ack"
      BY <1>3 DEF StartCheck, LocalInv, Blocked
    <2>6. "create" \notin Replicating \cup {"launch_boundary", "emit", "emit_reached", "prepare_swap",
                                          "prepare_request", "prepare_undo", "stop_head", "stop_swap"}
      BY DEF Replicating
    <2> QED
      BY <1>1, <1>2, <2>1, <2>2, <2>3, <2>4, <2>5, <2>6
  <1>4. CASE PauseCancel(t, j)
    <2>1. Accept(t, "pause", "pausing", j, "", 0, 0) /\ "pause" \in Ops /\ "pausing" \in Pcs
      BY <1>4, Literals DEF PauseCancel, Accept
    <2>2. status' = status /\ ended' = ended /\ blocking' = blocking /\ cutover' = cutover /\ ckpt' = ckpt /\ head' = head
      BY <1>4 DEF PauseCancel, rows
    <2>3. mutex' \in Threads \cup {NoThread}
      BY <1>4, <1>0 DEF PauseCancel
    <2>4. reg' \in [Jobs -> EntryType] /\ \A k \in Jobs : reg'[k].live <=> reg[k].live
      <3>1. PICK r : r = [reg[j] EXCEPT !.action = "pause"]
        OBVIOUS
      <3>2. r \in EntryType /\ r.live = reg[j].live
        BY <3>1, <1>0 DEF EntryType
      <3>3. reg' = [reg EXCEPT ![j] = r]
        BY <1>4, <3>1 DEF PauseCancel
      <3> QED
        BY <1>0, <3>2, <3>3
    <2>5. /\ "pausing" = "prepare_head" => "" \in {"running", "catching_up"}
          /\ "pausing" = "stop_checkpoint" => "" = "ready_to_cutover"
          /\ "pausing" = "ack_save" => 0 # 0 /\ "pause" = "ack"
      BY <1>4 DEF PauseCancel, LocalInv, Blocked
    <2>6. "pausing" \notin Replicating \cup {"launch_boundary", "emit", "emit_reached", "prepare_swap",
                                          "prepare_request", "prepare_undo", "stop_head", "stop_swap"}
      BY DEF Replicating
    <2> QED
      BY <1>1, <1>2, <2>1, <2>2, <2>3, <2>4, <2>5, <2>6
  <1>5. CASE PrepareRead(t, j)
    <2>1. Accept(t, "prepare", "prepare_head", j, status[j], 0, 0) /\ "prepare" \in Ops /\ "prepare_head" \in Pcs
      BY <1>5, Literals DEF PrepareRead, Accept
    <2>2. status' = status /\ ended' = ended /\ blocking' = blocking /\ cutover' = cutover /\ ckpt' = ckpt /\ head' = head
      BY <1>5 DEF PrepareRead, rows
    <2>3. mutex' \in Threads \cup {NoThread}
      BY <1>5, <1>0 DEF PrepareRead
    <2>4. reg' \in [Jobs -> EntryType] /\ \A k \in Jobs : reg'[k].live <=> reg[k].live
      BY <1>5, <1>0 DEF PrepareRead, rows
    <2>5. /\ "prepare_head" = "prepare_head" => status[j] \in {"running", "catching_up"}
          /\ "prepare_head" = "stop_checkpoint" => status[j] = "ready_to_cutover"
          /\ "prepare_head" = "ack_save" => 0 # 0 /\ "prepare" = "ack"
      BY <1>5 DEF PrepareRead, LocalInv, Blocked
    <2>6. "prepare_head" \notin Replicating \cup {"launch_boundary", "emit", "emit_reached", "prepare_swap",
                                          "prepare_request", "prepare_undo", "stop_head", "stop_swap"}
      BY DEF Replicating
    <2> QED
      BY <1>1, <1>2, <2>1, <2>2, <2>3, <2>4, <2>5, <2>6
  <1>6. CASE StopRead(t, j)
    <2>1. Accept(t, "stop", "stop_checkpoint", j, status[j], cutover[j], 0) /\ "stop" \in Ops /\ "stop_checkpoint" \in Pcs
      BY <1>6, Literals DEF StopRead, Accept
    <2>2. status' = status /\ ended' = ended /\ blocking' = blocking /\ cutover' = cutover /\ ckpt' = ckpt /\ head' = head
      BY <1>6 DEF StopRead, rows
    <2>3. mutex' \in Threads \cup {NoThread}
      BY <1>6, <1>0 DEF StopRead
    <2>4. reg' \in [Jobs -> EntryType] /\ \A k \in Jobs : reg'[k].live <=> reg[k].live
      BY <1>6, <1>0 DEF StopRead, rows
    <2>5. /\ "stop_checkpoint" = "prepare_head" => status[j] \in {"running", "catching_up"}
          /\ "stop_checkpoint" = "stop_checkpoint" => status[j] = "ready_to_cutover"
          /\ "stop_checkpoint" = "ack_save" => cutover[j] # 0 /\ "stop" = "ack"
      BY <1>6 DEF StopRead, LocalInv, Blocked
    <2>6. "stop_checkpoint" \notin Replicating \cup {"launch_boundary", "emit", "emit_reached", "prepare_swap",
                                          "prepare_request", "prepare_undo", "stop_head", "stop_swap"}
      BY DEF Replicating
    <2> QED
      BY <1>1, <1>2, <2>1, <2>2, <2>3, <2>4, <2>5, <2>6
  <1>7. CASE CancelRead(t, j)
    <2>1. Accept(t, "cancel", "cancel_running", j, "", 0, 0) /\ "cancel" \in Ops /\ "cancel_running" \in Pcs
      BY <1>7, Literals DEF CancelRead, Accept
    <2>2. status' = status /\ ended' = ended /\ blocking' = blocking /\ cutover' = cutover /\ ckpt' = ckpt /\ head' = head
      BY <1>7 DEF CancelRead, rows
    <2>3. mutex' \in Threads \cup {NoThread}
      BY <1>7, <1>0 DEF CancelRead
    <2>4. reg' \in [Jobs -> EntryType] /\ \A k \in Jobs : reg'[k].live <=> reg[k].live
      BY <1>7, <1>0 DEF CancelRead, rows
    <2>5. /\ "cancel_running" = "prepare_head" => "" \in {"running", "catching_up"}
          /\ "cancel_running" = "stop_checkpoint" => "" = "ready_to_cutover"
          /\ "cancel_running" = "ack_save" => 0 # 0 /\ "cancel" = "ack"
      BY <1>7 DEF CancelRead, LocalInv, Blocked
    <2>6. "cancel_running" \notin Replicating \cup {"launch_boundary", "emit", "emit_reached", "prepare_swap",
                                          "prepare_request", "prepare_undo", "stop_head", "stop_swap"}
      BY DEF Replicating
    <2> QED
      BY <1>1, <1>2, <2>1, <2>2, <2>3, <2>4, <2>5, <2>6
  <1>8. CASE AbortRead(t, j)
    <2>1. Accept(t, "abort", "abort_running", j, status[j], 0, 0) /\ "abort" \in Ops /\ "abort_running" \in Pcs
      BY <1>8, Literals DEF AbortRead, Accept
    <2>2. status' = status /\ ended' = ended /\ blocking' = blocking /\ cutover' = cutover /\ ckpt' = ckpt /\ head' = head
      BY <1>8 DEF AbortRead, rows
    <2>3. mutex' \in Threads \cup {NoThread}
      BY <1>8, <1>0 DEF AbortRead, Lock
    <2>4. reg' \in [Jobs -> EntryType] /\ \A k \in Jobs : reg'[k].live <=> reg[k].live
      BY <1>8, <1>0 DEF AbortRead, rows
    <2>5. /\ "abort_running" = "prepare_head" => status[j] \in {"running", "catching_up"}
          /\ "abort_running" = "stop_checkpoint" => status[j] = "ready_to_cutover"
          /\ "abort_running" = "ack_save" => 0 # 0 /\ "abort" = "ack"
      BY <1>8 DEF AbortRead, LocalInv, Blocked
    <2>6. "abort_running" \notin Replicating \cup {"launch_boundary", "emit", "emit_reached", "prepare_swap",
                                          "prepare_request", "prepare_undo", "stop_head", "stop_swap"}
      BY DEF Replicating
    <2> QED
      BY <1>1, <1>2, <2>1, <2>2, <2>3, <2>4, <2>5, <2>6
  <1>9. CASE ResumeRead(t, j)
    <2>1. Accept(t, "resume", "resume_running", j, "", 0, cutover[j]) /\ "resume" \in Ops /\ "resume_running" \in Pcs
      BY <1>9, Literals DEF ResumeRead, Accept
    <2>2. status' = status /\ ended' = ended /\ blocking' = blocking /\ cutover' = cutover /\ ckpt' = ckpt /\ head' = head
      BY <1>9 DEF ResumeRead, rows
    <2>3. mutex' \in Threads \cup {NoThread}
      BY <1>9, <1>0 DEF ResumeRead, Lock
    <2>4. reg' \in [Jobs -> EntryType] /\ \A k \in Jobs : reg'[k].live <=> reg[k].live
      BY <1>9, <1>0 DEF ResumeRead, rows
    <2>5. /\ "resume_running" = "prepare_head" => "" \in {"running", "catching_up"}
          /\ "resume_running" = "stop_checkpoint" => "" = "ready_to_cutover"
          /\ "resume_running" = "ack_save" => 0 # 0 /\ "resume" = "ack"
      BY <1>9 DEF ResumeRead, LocalInv, Blocked
    <2>6. "resume_running" \notin Replicating \cup {"launch_boundary", "emit", "emit_reached", "prepare_swap",
                                          "prepare_request", "prepare_undo", "stop_head", "stop_swap"}
      BY DEF Replicating
    <2> QED
      BY <1>1, <1>2, <2>1, <2>2, <2>3, <2>4, <2>5, <2>6
  <1>10. CASE AckRead(t, j)
    <2>1. Accept(t, "ack", "ack_save", j, "", blocking[j], cutover[j]) /\ "ack" \in Ops /\ "ack_save" \in Pcs
      BY <1>10, Literals DEF AckRead, Accept
    <2>2. status' = status /\ ended' = ended /\ blocking' = blocking /\ cutover' = cutover /\ ckpt' = ckpt /\ head' = head
      BY <1>10 DEF AckRead, rows
    <2>3. mutex' \in Threads \cup {NoThread}
      BY <1>10, <1>0 DEF AckRead
    <2>4. reg' \in [Jobs -> EntryType] /\ \A k \in Jobs : reg'[k].live <=> reg[k].live
      BY <1>10, <1>0 DEF AckRead, rows
    <2>5. /\ "ack_save" = "prepare_head" => "" \in {"running", "catching_up"}
          /\ "ack_save" = "stop_checkpoint" => "" = "ready_to_cutover"
          /\ "ack_save" = "ack_save" => blocking[j] # 0 /\ "ack" = "ack"
      BY <1>10 DEF AckRead, LocalInv, Blocked
    <2>6. "ack_save" \notin Replicating \cup {"launch_boundary", "emit", "emit_reached", "prepare_swap",
                                          "prepare_request", "prepare_undo", "stop_head", "stop_swap"}
      BY DEF Replicating
    <2> QED
      BY <1>1, <1>2, <2>1, <2>2, <2>3, <2>4, <2>5, <2>6
  <1> QED
    BY <1>3, <1>4, <1>5, <1>6, <1>7, <1>8, <1>9, <1>10 DEF Request

\* A write of the source keeps the invariants.
LEMMA SourceStep ==
    ASSUME TypeOK, LocalInv, Paired, StopInv, SourceWrite
    PROVE  TypeOK' /\ LocalInv' /\ Paired' /\ StopInv'
  <1>1. /\ UNCHANGED <<status, ended, cutover, blocking, ckpt, reg, th, mutex, requests, restarts>>
        /\ head < MaxHead /\ head' = head + 1
    BY DEF SourceWrite, rows, Counters
  <1>2. head' \in 1..MaxHead /\ head' >= head /\ head' \in Int /\ head \in Int
    <2>1. head \in 1..MaxHead /\ MaxHead \in Nat
      BY Types, LifecycleAssumption
    <2> QED
      BY ONLY <2>1, <1>1
  <1>3. TypeOK'
    BY <1>1, <1>2 DEF TypeOK
  <1>4. LocalInv' /\ Paired'
    BY <1>1 DEF LocalInv, LocalThread, Blocked, Paired, Works, Job, At
  <1>5. StopInv'
    <2> SUFFICES ASSUME "ack" \notin Ops, NEW t \in Threads PROVE StopThread(t)'
      BY DEF StopInv
    <2>1. StopThread(t) /\ th[t].pos \in Int
      BY Numbers DEF StopInv
    <2> QED
      BY <1>1, <1>2, <2>1 DEF StopThread, At, Job
  <1> QED
    BY <1>3, <1>4, <1>5

\* A restart keeps the invariants.
LEMMA RestartStep ==
    ASSUME TypeOK, LocalInv, Restart
    PROVE  TypeOK' /\ LocalInv' /\ Paired' /\ StopInv'
  <1>1. /\ restarts < MaxRestarts /\ restarts' = restarts + 1 /\ mutex' = NoThread
        /\ status' = [j \in Jobs |-> IF status[j] \in Active THEN "paused_restart" ELSE status[j]]
        /\ reg' = [j \in Jobs |-> NotRegistered] /\ th' = [t \in Threads |-> IdleThread]
        /\ UNCHANGED <<ended, cutover, blocking, ckpt, head, requests>>
    BY DEF Restart
  <1>2. restarts' \in 0..MaxRestarts
    <2>1. restarts \in 0..MaxRestarts /\ MaxRestarts \in Nat
      BY Types, LifecycleAssumption
    <2> QED
      BY ONLY <2>1, <1>1
  <1>3. TypeOK'
    <2>1. th' \in [Threads -> ThreadType]
      BY <1>1, IdleType
    <2>2. reg' \in [Jobs -> EntryType]
      <3>1. NotRegistered \in EntryType
        BY Constants DEF NotRegistered, EntryType
      <3> QED
        BY <1>1, <3>1
    <2>3. status' \in [Jobs -> Statuses] /\ ended' \subseteq Jobs
      BY <1>1, Types, Literals
    <2>4. /\ cutover' \in [Jobs -> 0..MaxHead] /\ blocking' \in [Jobs -> 0..MaxHead]
          /\ ckpt' \in [Jobs -> 1..MaxHead] /\ head' \in 1..MaxHead
          /\ requests' \in 0..MaxRequests
      BY <1>1, Types
    <2> QED
      BY <1>1, <1>2, <2>1, <2>2, <2>3, <2>4, TypesNext
  <1>4. \A t \in Threads : th'[t].pc = "idle"
    BY <1>1, IdleType
  <1>5. LocalInv'
    BY <1>1, <1>4 DEF LocalInv, LocalThread, Blocked, At
  <1>6. Paired'
    BY <1>1, <1>4 DEF Paired, Works, Replicating, NotRegistered
  <1>7. StopInv'
    BY <1>4 DEF StopInv, StopThread, At
  <1> QED
    BY <1>3, <1>5, <1>6, <1>7

\* The invariants that hold whatever operations are called.
GeneralInv == TypeOK /\ LocalInv /\ Paired /\ StopInv

\* They hold at the start...
LEMMA GeneralInit == Init => GeneralInv
  <1> SUFFICES ASSUME Init PROVE Paired /\ StopInv
    BY InitType DEF GeneralInv
  <1>1. \A t \in Threads : th[t].pc = "idle"
    BY IdleType DEF Init
  <1>2. Paired
    BY <1>1 DEF Init, Paired, Works, Replicating, NotRegistered
  <1>3. StopInv
    BY <1>1 DEF StopInv, StopThread, At
  <1> QED
    BY <1>2, <1>3

\* ...and every step keeps them.
LEMMA GeneralStep == GeneralInv /\ [Next]_vars => GeneralInv'
  <1> SUFFICES ASSUME GeneralInv, [Next]_vars PROVE GeneralInv'
    OBVIOUS
  <1> USE DEF GeneralInv
  <1>1. CASE \E t \in Threads : RunnerStep(t) \/ HandlerStep(t) \/ RunConflict(t) \/ RunError(t)
    BY <1>1, ThreadTypeStep, ThreadStep
  <1>2. CASE \E t \in Threads, j \in Jobs : Request(t, j)
    BY <1>2, RequestStep
  <1>3. CASE SourceWrite
    BY <1>3, SourceStep
  <1>4. CASE Restart
    BY <1>4, RestartStep
  <1>5. CASE UNCHANGED vars
    <2>1. UNCHANGED <<status, ended, cutover, blocking, ckpt, head, reg, th, mutex, requests, restarts>>
      BY <1>5 DEF vars, rows
    <2>2. TypeOK'
      BY <2>1 DEF TypeOK
    <2>3. LocalInv' /\ Paired' /\ StopInv'
      BY <2>1 DEF LocalInv, LocalThread, Blocked, Paired, StopInv, StopThread, Works, Job, At
    <2> QED
      BY <2>2, <2>3
  <1> QED
    BY <1>1, <1>2, <1>3, <1>4, <1>5 DEF Next

(***************************************************************************)
(* The invariant of every operation: types, what the threads rely on, and  *)
(* the pairing of entries and runners.                                     *)
(***************************************************************************)
THEOREM GeneralHolds == Spec => []GeneralInv
  BY GeneralInit, GeneralStep, PTL DEF Spec

(***************************************************************************)
(* Rows, registry, checkpoints and threads keep their types.               *)
(***************************************************************************)
THEOREM TypeCorrect == Spec => []TypeOK
  <1>1. GeneralInv => TypeOK
    BY DEF GeneralInv
  <1> QED
    BY <1>1, GeneralHolds, PTL

(***************************************************************************)
(* Whatever users call in whatever order: an entry of the registry stands  *)
(* for exactly one runner goroutine, and no runner works without one.      *)
(***************************************************************************)
THEOREM EntriesMatchRunners == Spec => []OneRunnerPerJob
  <1>1. GeneralInv => OneRunnerPerJob
    <2> SUFFICES ASSUME TypeOK, Paired, NEW j \in Jobs
                 PROVE  Cardinality({t \in Threads : Job(t) = j /\ th[t].pc \in Replicating \cup {"launch_boundary"}})
                          = (IF reg[j].live THEN 1 ELSE 0)
      BY DEF GeneralInv, OneRunnerPerJob
    <2> DEFINE W == {t \in Threads : Job(t) = j /\ th[t].pc \in Replicating \cup {"launch_boundary"}}
    <2>1. CASE reg[j].live
      <3>1. PICK t \in Threads : Works(t) /\ Job(t) = j
        BY <2>1 DEF Paired
      <3>2. W = {t}
        BY <3>1 DEF Paired, Works
      <3> QED
        BY <2>1, <3>2, FS_Singleton
    <2>2. CASE ~reg[j].live
      <3>1. W = {}
        BY <2>2 DEF Paired, Works
      <3> QED
        BY <2>2, <3>1, FS_EmptySet
    <2> QED
      BY <2>1, <2>2
  <1> QED
    BY <1>1, GeneralHolds, PTL

\* A step that does not write "stopped".
LEMMA NotStopped ==
    ASSUME TypeOK, NEW k \in Jobs
    PROVE  /\ status' = status => \A j \in Jobs : status'[j] = "stopped" => status[j] = "stopped"
           /\ \A s \in Statuses \ {"stopped"} :
                 SetStatus(k, s) => \A j \in Jobs : status'[j] = "stopped" => status[j] = "stopped"
  BY Types DEF SetStatus

\* Only StopIncremental completes a job.
LEMMA OnlyStopCompletes ==
    ASSUME GeneralInv, Next, NEW j \in Jobs, status[j] # "stopped", status'[j] = "stopped"
    PROVE  \E t \in Threads : StopSwap(t)
  <1> USE DEF GeneralInv
  <1>1. CASE \E t \in Threads : RunnerStep(t) \/ HandlerStep(t) \/ RunConflict(t) \/ RunError(t)
    <2>0. PICK t \in Threads : RunnerStep(t) \/ HandlerStep(t) \/ RunConflict(t) \/ RunError(t)
      BY <1>1
    <2>a. Job(t) \in Jobs /\ LocalThread(t)
      BY Fields DEF Job, LocalInv
    <2>1. ~LaunchRegister(t)
      BY <2>a, NotStopped, Literals DEF LaunchRegister, rows
    <2>2. ~LaunchBoundary(t)
      BY <2>a, NotStopped, Literals DEF LaunchBoundary, rows
    <2>3. ~RunBegin(t)
      BY <2>a, NotStopped, Literals DEF RunBegin, rows
    <2>4. ~RunPublish(t)
      BY <2>a, NotStopped, Literals DEF RunPublish, rows
    <2>5. ~RunEmit(t)
      BY <2>a, NotStopped, Literals DEF RunEmit, rows, LocalThread, At, Told
    <2>6. ~RunApply(t)
      BY <2>a, NotStopped, Literals DEF RunApply, rows
    <2>7. ~RunHeartbeat(t)
      BY <2>a, NotStopped, Literals DEF RunHeartbeat, rows
    <2>8. ~RunDDL(t)
      BY <2>a, NotStopped, Literals DEF RunDDL, rows
    <2>9. ~RunCancelled(t)
      BY <2>a, NotStopped, Literals DEF RunCancelled, rows
    <2>10. ~RunRemove(t)
      BY <2>a, NotStopped, Literals DEF RunRemove, rows
    <2>11. ~RunLastWrite(t)
      BY <2>a, NotStopped, Literals DEF RunLastWrite, rows
    <2>12. ~CutoverReload(t)
      BY <2>a, NotStopped, Literals DEF CutoverReload, rows
    <2>13. ~CutoverClaim(t)
      BY <2>a, NotStopped, Literals DEF CutoverClaim, rows
    <2>14. ~CutoverUnclaimed(t)
      BY <2>a, NotStopped, Literals DEF CutoverUnclaimed, rows
    <2>15. ~CutoverValidate(t)
      BY <2>a, NotStopped, Literals DEF CutoverValidate, rows
    <2>16. ~StartCreate(t)
      BY <2>a, NotStopped, Literals DEF StartCreate, rows
    <2>17. ~PauseWrite(t)
      BY <2>a, NotStopped, Literals DEF PauseWrite, rows
    <2>18. ~PrepareHead(t)
      BY <2>a, NotStopped, Literals DEF PrepareHead, rows
    <2>19. ~PrepareSwap(t)
      BY <2>a, NotStopped, Literals DEF PrepareSwap, rows
    <2>20. ~PrepareRequest(t)
      BY <2>a, NotStopped, Literals DEF PrepareRequest, rows
    <2>21. ~PrepareUndo(t)
      BY <2>a, NotStopped, Literals DEF PrepareUndo, rows, LocalThread, At, Told
    <2>22. ~PrepareClear(t)
      BY <2>a, NotStopped, Literals DEF PrepareClear, rows
    <2>23. ~StopCheckpoint(t)
      BY <2>a, NotStopped, Literals DEF StopCheckpoint, rows
    <2>24. ~StopHead(t)
      BY <2>a, NotStopped, Literals DEF StopHead, rows
    <2>25. ~CancelRunning(t)
      BY <2>a, NotStopped, Literals DEF CancelRunning, rows
    <2>26. ~CancelSwap(t)
      BY <2>a, NotStopped, Literals DEF CancelSwap, rows
    <2>27. ~CancelClear(t)
      BY <2>a, NotStopped, Literals DEF CancelClear, rows
    <2>28. ~CancelReload(t)
      BY <2>a, NotStopped, Literals DEF CancelReload, rows
    <2>29. ~AbortRunning(t)
      BY <2>a, NotStopped, Literals DEF AbortRunning, rows
    <2>30. ~AbortCancel(t)
      BY <2>a, NotStopped, Literals DEF AbortCancel, rows
    <2>31. ~AbortSwap(t)
      BY <2>a, NotStopped, Literals DEF AbortSwap, rows
    <2>32. ~ResumeRunning(t)
      BY <2>a, NotStopped, Literals DEF ResumeRunning, rows
    <2>33. ~ResumeSwap(t)
      BY <2>a, NotStopped, Literals DEF ResumeSwap, rows
    <2>34. ~AckSave(t)
      BY <2>a, NotStopped, Literals DEF AckSave, rows
    <2>35. ~AckSwap(t)
      BY <2>a, NotStopped, Literals DEF AckSwap, rows
    <2>36. ~RunConflict(t)
      BY <2>a, NotStopped, Literals DEF RunConflict, rows
    <2>37. ~RunError(t)
      BY <2>a, NotStopped, Literals DEF RunError, rows
    <2> QED
      BY <2>0, <2>1, <2>2, <2>3, <2>4, <2>5, <2>6, <2>7, <2>8, <2>9, <2>10, <2>11, <2>12, <2>13, <2>14,
         <2>15, <2>16, <2>17, <2>18, <2>19, <2>20, <2>21, <2>22, <2>23, <2>24, <2>25, <2>26, <2>27, <2>28,
         <2>29, <2>30, <2>31, <2>32, <2>33, <2>34, <2>35, <2>36, <2>37
      DEF RunnerStep, HandlerStep
  <1>2. CASE \E t \in Threads, k \in Jobs : Request(t, k)
    <2>1. status' = status
      BY <1>2 DEF Request, StartCheck, PauseCancel, PrepareRead, StopRead, CancelRead, AbortRead,
                  ResumeRead, AckRead, rows
    <2> QED
      BY <2>1
  <1>3. CASE SourceWrite \/ Restart
    <2>1. status' = status \/ status' = [k \in Jobs |-> IF status[k] \in Active THEN "paused_restart" ELSE status[k]]
      BY <1>3 DEF SourceWrite, Restart, rows
    <2> QED
      BY <2>1
  <1> QED
    BY <1>1, <1>2, <1>3 DEF Next

(***************************************************************************)
(* Without acknowledgements: StopIncremental completes a job only when the *)
(* target has everything up to the boundary it checked.                    *)
(***************************************************************************)
THEOREM CompletionAtBoundary ==
    ASSUME "ack" \notin Ops
    PROVE  Spec => CompletedAtBoundary
  <1> DEFINE Good == \A j \in Jobs : status[j] # "stopped" /\ status'[j] = "stopped" =>
                        /\ status[j] = "ready_to_cutover"
                        /\ \E t \in Threads : /\ At(t, "stop_swap") /\ Job(t) = j
                                              /\ ckpt[j] >= th[t].pos /\ head >= th[t].pos
  <1>1. GeneralInv /\ [Next]_vars => [Good]_vars
    <2> SUFFICES ASSUME GeneralInv, Next, NEW j \in Jobs, status[j] # "stopped", status'[j] = "stopped"
                 PROVE  /\ status[j] = "ready_to_cutover"
                        /\ \E t \in Threads : /\ At(t, "stop_swap") /\ Job(t) = j
                                              /\ ckpt[j] >= th[t].pos /\ head >= th[t].pos
      OBVIOUS
    <2>1. PICK t \in Threads : StopSwap(t)
      BY OnlyStopCompletes
    <2>2. At(t, "stop_swap") /\ StopThread(t)
      BY <2>1 DEF StopSwap, GeneralInv, StopInv
    <2>3. Job(t) = j /\ status[j] = th[t].st
      BY <2>1, Types DEF StopSwap, SetStatus, GeneralInv
    <2> QED
      BY <2>2, <2>3 DEF StopThread, At
  <1> QED
    BY <1>1, GeneralHolds, PTL DEF Spec, CompletedAtBoundary
-----------------------------------------------------------------------------
(* Two jobs of the target, and jobs that were terminated.                  *)

\* What a step of a thread may do beside its own checks: its slot becomes idle or
\* goes on with the job, it lets go of the mutex only if it holds it, and it writes
\* the status of no other job.
Effect(t) ==
    /\ Others(t)
    /\ \/ th'[t].pc = "idle"
       \/ th'[t].pc \notin {"idle", "create"} /\ th'[t].job = th[t].job
    /\ mutex' = mutex \/ (mutex = t /\ mutex' = NoThread)
    /\ UNCHANGED state \/ \E s \in Statuses \ {"none"} : SetStatus(Job(t), s)

\* The slot's part of it, for every way in which a thread moves.
SlotEffect(t) ==
    /\ Others(t)
    /\ \/ th'[t].pc = "idle"
       \/ th'[t].pc \notin {"idle", "create"} /\ th'[t].job = th[t].job

\* The ways in which a thread moves, and what each leaves of its slot.
LEMMA SlotMoves ==
    ASSUME TypeOK, NEW t \in Threads
    PROVE  /\ Return(t) => SlotEffect(t) /\ (mutex' = mutex \/ (mutex = t /\ mutex' = NoThread))
           /\ Spawn(t) => SlotEffect(t) /\ (mutex' = mutex \/ (mutex = t /\ mutex' = NoThread))
           /\ \A pc \in Pcs \ {"idle", "create"} : Goto(t, pc) => SlotEffect(t)
           /\ \A e \in {"ddl", "conflict", "cancelled", "error"} : Ended(t, e) => SlotEffect(t)
           /\ \A pc \in Pcs \ {"idle", "create"}, p \in 0..MaxHead :
                 /\ th' = [th EXCEPT ![t].cut = p, ![t].pc = pc] => SlotEffect(t)
                 /\ th' = [th EXCEPT ![t].pc = pc, ![t].pos = p] => SlotEffect(t)
  <1>1. /\ Return(t) => SlotEffect(t)
        /\ Spawn(t) => SlotEffect(t)
    BY Moved DEF SlotEffect
  <1>2. /\ \A pc \in Pcs \ {"idle", "create"} : Goto(t, pc) => SlotEffect(t)
        /\ \A e \in {"ddl", "conflict", "cancelled", "error"} : Ended(t, e) => SlotEffect(t)
    BY Moved DEF SlotEffect, Same
  <1>3. \A pc \in Pcs \ {"idle", "create"}, p \in 0..MaxHead :
           /\ th' = [th EXCEPT ![t].cut = p, ![t].pc = pc] => SlotEffect(t)
           /\ th' = [th EXCEPT ![t].pc = pc, ![t].pos = p] => SlotEffect(t)
    BY Moved DEF SlotEffect, Same
  <1>4. /\ Return(t) => mutex' = mutex \/ (mutex = t /\ mutex' = NoThread)
        /\ Spawn(t) => mutex' = mutex \/ (mutex = t /\ mutex' = NoThread)
    BY DEF Return, Spawn
  <1> QED
    BY <1>1, <1>2, <1>3, <1>4

\* A published status: the thread keeps its job.
LEMMA PublishedEffect ==
    ASSUME TypeOK, NEW t \in Threads, NEW r,
           \/ \E b \in BOOLEAN : r = Published(t, b)
           \/ \E pc \in {"emit", "emit_reached"}, s \in Statuses : r = [th[t] EXCEPT !.pc = pc, !.st = s],
           th' = [th EXCEPT ![t] = r]
    PROVE  SlotEffect(t)
  <1>0. th \in [Threads -> ThreadType] /\ th[t] \in ThreadType
    BY Types
  <1>1. ASSUME NEW q \in Pcs, NEW e \in {"", "cutover"}, r = [th[t] EXCEPT !.pc = q, !.err = e]
        PROVE  r.pc = q /\ r.job = th[t].job
    BY <1>0, <1>1 DEF ThreadType
  <1>2. ASSUME NEW q \in Pcs, NEW s \in Statuses, r = [th[t] EXCEPT !.pc = q, !.st = s]
        PROVE  r.pc = q /\ r.job = th[t].job
    BY <1>0, <1>2 DEF ThreadType
  <1>3. r.pc \in {"remove", "loop", "emit", "emit_reached"} /\ r.job = th[t].job
    <2>1. CASE \E b \in BOOLEAN : r = Published(t, b)
      <3>1. \/ r = [th[t] EXCEPT !.pc = "remove", !.err = "cutover"]
            \/ r = [th[t] EXCEPT !.pc = "loop", !.err = ""]
        BY <2>1 DEF Published
      <3> QED
        BY <3>1, <1>1, Literals
    <2>2. CASE \E pc \in {"emit", "emit_reached"}, s \in Statuses : r = [th[t] EXCEPT !.pc = pc, !.st = s]
      BY <2>2, <1>2, Literals
    <2> QED
      BY <2>1, <2>2
  <1>4. th'[t] = r /\ Others(t)
    BY <1>0 DEF Others
  <1> QED
    BY <1>3, <1>4 DEF SlotEffect

\* Every step of a thread has such an effect, and an idle slot takes none.
LEMMA ThreadEffect ==
    ASSUME TypeOK, LocalInv, NEW t \in Threads,
           RunnerStep(t) \/ HandlerStep(t) \/ RunConflict(t) \/ RunError(t)
    PROVE  ~At(t, "idle") /\ Effect(t)
  <1>0. /\ Job(t) \in Jobs /\ th[t] \in ThreadType /\ th[t].pc \in Pcs /\ LocalThread(t)
        /\ cutover[Job(t)] \in 0..MaxHead /\ head \in 0..MaxHead
    <2>1. Job(t) \in Jobs /\ th[t] \in ThreadType /\ th[t].pc \in Pcs
      BY Types, Fields DEF Job
    <2> QED
      BY <2>1, Types DEF LocalInv
  <1>p. /\ {"launch", "launch_boundary", "begin", "publish", "emit", "emit_reached", "loop", "remove",
            "pause", "abort", "failed", "reload", "claim", "unclaimed", "validate", "pausing",
            "prepare_head", "prepare_swap", "prepare_request", "prepare_undo", "prepare_clear",
            "stop_checkpoint", "stop_head", "stop_swap", "cancel_running", "cancel_swap",
            "cancel_swap_running", "cancel_clear", "cancel_reload", "abort_running", "abort_cancel",
            "abort_swap", "resume_running", "resume_swap", "ack_save", "ack_swap"}
              \subseteq Pcs \ {"idle", "create"}
    BY Literals
  <1>1. CASE LaunchRegister(t)
    BY <1>1, <1>0, <1>p, SlotMoves, Literals DEF LaunchRegister, rows, Effect, SlotEffect, At, LocalThread
  <1>2. CASE LaunchBoundary(t)
    BY <1>2, <1>0, <1>p, SlotMoves, Literals DEF LaunchBoundary, rows, Effect, SlotEffect, At, LocalThread
  <1>3. CASE RunBegin(t)
    BY <1>3, <1>0, <1>p, SlotMoves, Literals DEF RunBegin, rows, Effect, SlotEffect, At, LocalThread
  <1>4. CASE RunPublish(t)
    <2>1. PICK r : /\ th' = [th EXCEPT ![t] = r]
                   /\ r = IF th[t].st = Wanted(Job(t)) THEN Published(t, Reached(Job(t)))
                          ELSE [th[t] EXCEPT !.pc = IF Reached(Job(t)) THEN "emit_reached" ELSE "emit",
                                             !.st = Wanted(Job(t))]
      BY <1>4, Types DEF RunPublish
    <2>2. Wanted(Job(t)) \in Statuses /\ Reached(Job(t)) \in BOOLEAN
      BY Literals DEF Wanted, Reached
    <2>3. SlotEffect(t)
      BY <2>1, <2>2, PublishedEffect
    <2> QED
      BY <1>4, <2>3 DEF RunPublish, rows, Effect, SlotEffect, At
  <1>5. CASE RunEmit(t)
    <2>1. SlotEffect(t)
      <3>1. At(t, "emit_reached") \in BOOLEAN
        BY DEF At
      <3> QED
        BY <1>5, <3>1, PublishedEffect DEF RunEmit
    <2>2. th[t].st \in Statuses \ {"none"}
      BY <1>5, <1>0, Literals DEF RunEmit, LocalThread, Told
    <2> QED
      BY <1>5, <2>1, <2>2 DEF RunEmit, Effect, SlotEffect, At
  <1>6. CASE RunApply(t)
    BY <1>6, <1>0, <1>p, SlotMoves, Literals DEF RunApply, rows, Effect, SlotEffect, At, LocalThread
  <1>7. CASE RunHeartbeat(t)
    BY <1>7, <1>0, <1>p, SlotMoves, Literals DEF RunHeartbeat, rows, Effect, SlotEffect, At, LocalThread
  <1>8. CASE RunDDL(t)
    BY <1>8, <1>0, <1>p, SlotMoves, Literals DEF RunDDL, rows, Effect, SlotEffect, At, LocalThread
  <1>9. CASE RunCancelled(t)
    BY <1>9, <1>0, <1>p, SlotMoves, Literals DEF RunCancelled, rows, Effect, SlotEffect, At, LocalThread
  <1>10. CASE RunRemove(t)
    <2>0. PICK q : q = AfterRemove(th[t].err, reg[Job(t)].action)
      OBVIOUS
    <2>a. q \in {"end", "reload", "failed", "pause", "abort"}
      BY <1>0, <2>0, Fields DEF AfterRemove
    <2>b. /\ q = "end" => th' = [th EXCEPT ![t] = IdleThread]
          /\ q # "end" => Goto(t, q)
      <3>1. th' = [th EXCEPT ![t] = IF q = "end" THEN IdleThread ELSE [th[t] EXCEPT !.pc = q]]
        BY <1>10, <2>0, Types DEF RunRemove
      <3> QED
        BY <3>1 DEF Goto
    <2>1. \E pc \in Pcs \ {"idle", "create"} : th' = [th EXCEPT ![t] = IdleThread] \/ Goto(t, pc)
      BY <1>p, <2>a, <2>b
    <2>2. SlotEffect(t)
      BY <2>1, SlotMoves, Moved, IdleType DEF SlotEffect
    <2> QED
      BY <1>10, <2>2 DEF RunRemove, rows, Effect, SlotEffect, At
  <1>11. CASE RunLastWrite(t)
    BY <1>11, <1>0, <1>p, SlotMoves, Literals DEF RunLastWrite, rows, Effect, SlotEffect, At, LocalThread
  <1>12. CASE CutoverReload(t)
    BY <1>12, <1>0, <1>p, SlotMoves, Literals DEF CutoverReload, rows, Effect, SlotEffect, At, LocalThread
  <1>13. CASE CutoverClaim(t)
    BY <1>13, <1>0, <1>p, SlotMoves, Literals DEF CutoverClaim, rows, Effect, SlotEffect, At, LocalThread
  <1>14. CASE CutoverUnclaimed(t)
    BY <1>14, <1>0, <1>p, SlotMoves, Literals DEF CutoverUnclaimed, rows, Effect, SlotEffect, At, LocalThread
  <1>15. CASE CutoverValidate(t)
    BY <1>15, <1>0, <1>p, SlotMoves, Literals DEF CutoverValidate, rows, Effect, SlotEffect, At, LocalThread
  <1>16. CASE StartCreate(t)
    BY <1>16, <1>0, <1>p, SlotMoves, Literals DEF StartCreate, rows, Effect, SlotEffect, At, LocalThread
  <1>17. CASE PauseWrite(t)
    BY <1>17, <1>0, <1>p, SlotMoves, Literals DEF PauseWrite, rows, Effect, SlotEffect, At, LocalThread
  <1>18. CASE PrepareHead(t)
    BY <1>18, <1>0, <1>p, SlotMoves, Literals DEF PrepareHead, rows, Effect, SlotEffect, At, LocalThread
  <1>19. CASE PrepareSwap(t)
    BY <1>19, <1>0, <1>p, SlotMoves, Literals DEF PrepareSwap, rows, Effect, SlotEffect, At, LocalThread
  <1>20. CASE PrepareRequest(t)
    BY <1>20, <1>0, <1>p, SlotMoves, Literals DEF PrepareRequest, rows, Effect, SlotEffect, At, LocalThread
  <1>21. CASE PrepareUndo(t)
    BY <1>21, <1>0, <1>p, SlotMoves, Literals DEF PrepareUndo, rows, Effect, SlotEffect, At, LocalThread
  <1>22. CASE PrepareClear(t)
    BY <1>22, <1>0, <1>p, SlotMoves, Literals DEF PrepareClear, rows, Effect, SlotEffect, At, LocalThread
  <1>23. CASE StopCheckpoint(t)
    BY <1>23, <1>0, <1>p, SlotMoves, Literals DEF StopCheckpoint, rows, Effect, SlotEffect, At, LocalThread
  <1>24. CASE StopHead(t)
    BY <1>24, <1>0, <1>p, SlotMoves, Literals DEF StopHead, rows, Effect, SlotEffect, At, LocalThread
  <1>25. CASE StopSwap(t)
    BY <1>25, <1>0, <1>p, SlotMoves, Literals DEF StopSwap, rows, Effect, SlotEffect, At, LocalThread
  <1>26. CASE CancelRunning(t)
    BY <1>26, <1>0, <1>p, SlotMoves, Literals DEF CancelRunning, rows, Effect, SlotEffect, At, LocalThread
  <1>27. CASE CancelSwap(t)
    BY <1>27, <1>0, <1>p, SlotMoves, Literals DEF CancelSwap, rows, Effect, SlotEffect, At, LocalThread
  <1>28. CASE CancelClear(t)
    BY <1>28, <1>0, <1>p, SlotMoves, Literals DEF CancelClear, rows, Effect, SlotEffect, At, LocalThread
  <1>29. CASE CancelReload(t)
    BY <1>29, <1>0, <1>p, SlotMoves, Literals DEF CancelReload, rows, Effect, SlotEffect, At, LocalThread
  <1>30. CASE AbortRunning(t)
    BY <1>30, <1>0, <1>p, SlotMoves, Literals DEF AbortRunning, rows, Effect, SlotEffect, At, LocalThread
  <1>31. CASE AbortCancel(t)
    BY <1>31, <1>0, <1>p, SlotMoves, Literals DEF AbortCancel, rows, Effect, SlotEffect, At, LocalThread
  <1>32. CASE AbortSwap(t)
    BY <1>32, <1>0, <1>p, SlotMoves, Literals DEF AbortSwap, rows, Effect, SlotEffect, At, LocalThread
  <1>33. CASE ResumeRunning(t)
    BY <1>33, <1>0, <1>p, SlotMoves, Literals DEF ResumeRunning, rows, Effect, SlotEffect, At, LocalThread
  <1>34. CASE ResumeSwap(t)
    BY <1>34, <1>0, <1>p, SlotMoves, Literals DEF ResumeSwap, rows, Effect, SlotEffect, At, LocalThread
  <1>35. CASE AckSave(t)
    BY <1>35, <1>0, <1>p, SlotMoves, Literals DEF AckSave, rows, Effect, SlotEffect, At, LocalThread
  <1>36. CASE AckSwap(t)
    BY <1>36, <1>0, <1>p, SlotMoves, Literals DEF AckSwap, rows, Effect, SlotEffect, At, LocalThread
  <1>37. CASE RunConflict(t)
    BY <1>37, <1>0, <1>p, SlotMoves, Literals DEF RunConflict, rows, Effect, SlotEffect, At, LocalThread
  <1>38. CASE RunError(t)
    BY <1>38, <1>0, <1>p, SlotMoves, Literals DEF RunError, rows, Effect, SlotEffect, At, LocalThread
  <1> QED
    BY <1>1, <1>2, <1>3, <1>4, <1>5, <1>6, <1>7, <1>8, <1>9, <1>10, <1>11, <1>12, <1>13, <1>14, <1>15, <1>16, <1>17, <1>18, <1>19, <1>20, <1>21, <1>22, <1>23, <1>24, <1>25, <1>26, <1>27, <1>28, <1>29, <1>30, <1>31, <1>32, <1>33, <1>34, <1>35, <1>36, <1>37, <1>38
    DEF RunnerStep, HandlerStep

\* A thread that is to create the row of a job does that first.
LEMMA CreateFirst ==
    ASSUME NEW t \in Threads, At(t, "create"),
           RunnerStep(t) \/ HandlerStep(t) \/ RunConflict(t) \/ RunError(t)
    PROVE  StartCreate(t)
  <1>1. ~(RunnerStep(t) \/ RunConflict(t) \/ RunError(t))
    BY DEF RunnerStep, RunConflict, RunError, At, LaunchRegister, LaunchBoundary, RunBegin, RunPublish,
           RunEmit, RunApply, RunHeartbeat, RunDDL, RunCancelled, RunRemove, RunLastWrite, CutoverReload,
           CutoverClaim, CutoverUnclaimed, CutoverValidate
  <1> QED
    BY <1>1 DEF HandlerStep, At, PauseWrite, PrepareHead, PrepareSwap, PrepareRequest, PrepareUndo,
                PrepareClear, StopCheckpoint, StopHead, StopSwap, CancelRunning, CancelSwap, CancelClear,
                CancelReload, AbortRunning, AbortCancel, AbortSwap, ResumeRunning, ResumeSwap, AckSave, AckSwap

\* A request takes an idle slot for a job that exists and is open or has a runner;
\* a start takes the mutex for one that does not exist, beside no open job.
Starts(t, j) ==
    /\ th'[t].pc = "create" /\ mutex = NoThread /\ mutex' = t /\ status[j] = "none"
    /\ \A k \in Jobs : status[k] \in Terminal \cup {"none"}
Reaches(t, j) ==
    /\ th'[t].pc \notin {"idle", "create"}
    /\ status[j] \notin Terminal \cup {"none"} \/ reg[j].live
    /\ mutex' = mutex \/ (mutex = NoThread /\ mutex' = t)

\* The requests, one by one.
LEMMA RequestEffect ==
    ASSUME TypeOK, NEW t \in Threads, NEW j \in Jobs, Request(t, j)
    PROVE  /\ At(t, "idle") /\ Others(t) /\ th'[t].job = j /\ UNCHANGED state
           /\ Starts(t, j) \/ Reaches(t, j)
  <1>0. /\ 0 \in 0..MaxHead /\ cutover[j] \in 0..MaxHead /\ blocking[j] \in 0..MaxHead
        /\ "" \in Statuses \cup {""} /\ status[j] \in Statuses \cup {""}
    <2>1. 0 \in 0..MaxHead
      BY LifecycleAssumption
    <2>2. /\ cutover \in [Jobs -> 0..MaxHead] /\ blocking \in [Jobs -> 0..MaxHead]
          /\ status \in [Jobs -> Statuses]
      BY Types
    <2> QED
      BY <2>1, <2>2
  <1>1. ASSUME NEW op, NEW pc \in Pcs, NEW st \in Statuses \cup {""}, NEW pos \in 0..MaxHead,
               NEW cut \in 0..MaxHead, Accept(t, op, pc, j, st, pos, cut)
        PROVE  At(t, "idle") /\ Others(t) /\ th'[t].job = j /\ th'[t].pc = pc
    <2>1. op \in Ops
      BY <1>1 DEF Accept
    <2> QED
      BY <1>1, <2>1, Accepted
  <1>2. CASE StartCheck(t, j)
    BY <1>0, <1>1, <1>2, Literals DEF StartCheck, Lock, Starts, rows
  <1>3. CASE PauseCancel(t, j)
    <2>1. /\ reg[j].live /\ Accept(t, "pause", "pausing", j, "", 0, 0)
          /\ mutex' = mutex /\ UNCHANGED state
      BY <1>3 DEF PauseCancel, rows
    <2>2. /\ At(t, "idle") /\ Others(t) /\ th'[t].job = j /\ th'[t].pc = "pausing"
      BY <1>0, <1>1, <2>1, Literals
    <2>3. Reaches(t, j)
      BY <2>1, <2>2 DEF Reaches
    <2> QED
      BY <2>1, <2>2, <2>3
  <1>4. CASE PrepareRead(t, j)
    BY <1>0, <1>1, <1>4, Literals DEF PrepareRead, Reaches, rows, Terminal
  <1>5. CASE StopRead(t, j)
    BY <1>0, <1>1, <1>5, Literals DEF StopRead, Reaches, rows, Terminal
  <1>6. CASE CancelRead(t, j)
    BY <1>0, <1>1, <1>6, Literals DEF CancelRead, Reaches, rows, Terminal, InCutover
  <1>7. CASE AbortRead(t, j)
    BY <1>0, <1>1, <1>7, Literals DEF AbortRead, Lock, Reaches, rows, Terminal
  <1>8. CASE ResumeRead(t, j)
    BY <1>0, <1>1, <1>8, Literals DEF ResumeRead, Lock, Reaches, rows, Terminal, Resumable
  <1>9. CASE AckRead(t, j)
    BY <1>0, <1>1, <1>9, Literals DEF AckRead, Reaches, rows, Terminal
  <1> QED
    BY <1>2, <1>3, <1>4, <1>5, <1>6, <1>7, <1>8, <1>9 DEF Request

\* A restart empties the slots and leaves what is terminated or does not exist.
LEMMA RestartEffect ==
    ASSUME TypeOK, Restart
    PROVE  /\ \A t \in Threads : th'[t].pc = "idle"
           /\ ended' = ended
           /\ \A j \in Jobs : /\ status'[j] = "none" <=> status[j] = "none"
                              /\ status'[j] \in Terminal <=> status[j] \in Terminal
                              /\ status[j] \in Terminal => status'[j] = status[j]
  <1>1. /\ status' = [j \in Jobs |-> IF status[j] \in Active THEN "paused_restart" ELSE status[j]]
        /\ th' = [t \in Threads |-> IdleThread] /\ ended' = ended
    BY DEF Restart
  <1>2. \A j \in Jobs : status'[j] = IF status[j] \in Active THEN "paused_restart" ELSE status[j]
    BY <1>1
  <1>3. "none" \notin Active /\ Active \cap Terminal = {} /\ "paused_restart" \notin Terminal
    BY DEF Active, Terminal
  <1> QED
    BY <1>1, <1>2, <1>3, IdleType

\* The status of one job is written.
LEMMA Written ==
    ASSUME TypeOK, NEW j \in Jobs, NEW s \in Statuses \ {"none"}, SetStatus(j, s)
    PROVE  /\ status'[j] = s /\ \A k \in Jobs : k # j => status'[k] = status[k]
           /\ ended \subseteq ended' /\ (s \in Terminal => j \in ended')
  BY Types DEF SetStatus

Begun(j) == status[j] # "none"

\* Of two jobs that exist one has been terminated.  The row is created under the
\* mutex under which the others were found terminated; what is terminated may be
\* opened again by a late write, but it has been terminated.
EndedInv ==
    /\ \A j \in Jobs : status[j] \in Terminal => j \in ended
    /\ \A j, k \in Jobs : Begun(j) /\ Begun(k) /\ j # k => j \in ended \/ k \in ended
    /\ \A t \in Threads : At(t, "create") =>
          /\ mutex = t /\ ~Begun(Job(t))
          /\ \A k \in Jobs : Begun(k) => k \in ended
    /\ \A t \in Threads : th[t].pc \notin {"idle", "create"} => Begun(Job(t))

\* It holds at the start...
LEMMA EndedInit == Init => EndedInv
  <1> SUFFICES ASSUME Init PROVE EndedInv
    OBVIOUS
  <1>1. \A t \in Threads : th[t].pc = "idle"
    BY IdleType DEF Init
  <1>2. \A j \in Jobs : status[j] = "none"
    BY DEF Init
  <1> QED
    BY <1>1, <1>2 DEF EndedInv, Begun, At, Terminal

\* ...a thread keeps it...
LEMMA EndedThread ==
    ASSUME TypeOK, LocalInv, EndedInv, NEW t \in Threads,
           RunnerStep(t) \/ HandlerStep(t) \/ RunConflict(t) \/ RunError(t)
    PROVE  EndedInv'
  <1>0. ~At(t, "idle") /\ Effect(t) /\ Job(t) \in Jobs /\ NoThread \notin Threads
    BY ThreadEffect, Fields, Constants DEF Job
  <1>1. /\ ended \subseteq ended'
        /\ \A k \in Jobs : k # Job(t) => status'[k] = status[k]
        /\ status[Job(t)] # "none" => status'[Job(t)] # "none"
        /\ \A k \in Jobs : status'[k] \in Terminal => k \in ended'
    <2>1. CASE UNCHANGED state
      BY <2>1 DEF EndedInv
    <2>2. CASE \E s \in Statuses \ {"none"} : SetStatus(Job(t), s)
      <3>1. PICK s \in Statuses \ {"none"} : SetStatus(Job(t), s)
        BY <2>2
      <3>2. /\ status'[Job(t)] = s /\ \A k \in Jobs : k # Job(t) => status'[k] = status[k]
            /\ ended \subseteq ended' /\ (s \in Terminal => Job(t) \in ended')
        BY <1>0, <3>1, Written
      <3> QED
        BY <1>0, <3>2 DEF EndedInv
    <2> QED
      BY <1>0, <2>1, <2>2 DEF Effect
  <1>t. \A u \in Threads : u # t => th'[u] = th[u]
    BY <1>0 DEF Effect, Others
  <1>2. CASE At(t, "create")
    <2>1. PICK s \in Statuses \ {"none"} : SetStatus(Job(t), s)
      BY <1>2, CreateFirst, Literals DEF StartCreate
    <2>2. status'[Job(t)] # "none" /\ mutex = t /\ \A k \in Jobs : status[k] # "none" => k \in ended
      BY <1>0, <1>2, <2>1, Written DEF EndedInv, Begun
    <2>3. \A j, k \in Jobs : status'[j] # "none" /\ status'[k] # "none" /\ j # k => j \in ended' \/ k \in ended'
      BY <1>1, <2>2
    <2>4. \A u \in Threads : u # t => th[u].pc # "create"
      BY <2>2 DEF EndedInv, At
    <2>5. th'[t].pc # "create" /\ (th'[t].pc # "idle" => th'[t].job = Job(t))
      BY <1>0 DEF Effect, Job
    <2>6. \A u \in Threads : u # t /\ th[u].pc \notin {"idle", "create"} => status[th[u].job] # "none"
      BY DEF EndedInv, Begun, Job
    <2>7. \A u \in Threads : th'[u].pc \notin {"idle", "create"} => status'[th'[u].job] # "none"
      BY <1>1, <1>t, <2>2, <2>5, <2>6, Fields
    <2> QED
      BY <1>1, <1>t, <2>3, <2>4, <2>5, <2>7 DEF EndedInv, Begun, At, Job
  <1>3. CASE ~At(t, "create")
    <2>1. status[Job(t)] # "none"
      BY <1>0, <1>3 DEF EndedInv, Begun, At
    <2>2. \A k \in Jobs : status'[k] # "none" <=> status[k] # "none"
      BY <1>1, <2>1
    <2>3. \A j, k \in Jobs : status'[j] # "none" /\ status'[k] # "none" /\ j # k => j \in ended' \/ k \in ended'
      BY <1>1, <2>2 DEF EndedInv, Begun
    <2>4. th'[t].pc # "create" /\ (th'[t].pc # "idle" => th'[t].job = Job(t))
      BY <1>0 DEF Effect, Job
    <2>5. \A u \in Threads : th'[u].pc \notin {"idle", "create"} => status'[th'[u].job] # "none"
      <3>1. \A u \in Threads : u # t /\ th[u].pc \notin {"idle", "create"} => status[th[u].job] # "none"
        BY DEF EndedInv, Begun, Job
      <3> QED
        BY <1>0, <1>t, <2>1, <2>2, <2>4, <3>1, Fields
    <2>6. ASSUME NEW u \in Threads, th'[u].pc = "create"
          PROVE  /\ mutex' = u /\ status'[th'[u].job] = "none"
                 /\ \A k \in Jobs : status'[k] # "none" => k \in ended'
      <3>1. u # t /\ th[u].pc = "create" /\ th'[u].job = th[u].job /\ th[u].job \in Jobs
        BY <1>t, <2>4, <2>6, Fields
      <3>2. mutex = u /\ status[th[u].job] = "none" /\ \A k \in Jobs : status[k] # "none" => k \in ended
        BY <3>1 DEF EndedInv, Begun, At, Job
      <3>3. mutex' = mutex
        BY <1>0, <3>1, <3>2 DEF Effect
      <3> QED
        BY <1>1, <2>2, <3>1, <3>2, <3>3
    <2> QED
      BY <1>1, <2>3, <2>5, <2>6 DEF EndedInv, Begun, At, Job
  <1> QED
    BY <1>2, <1>3

\* A registered job exists: its runner is at work.
LEMMA LiveBegun ==
    ASSUME TypeOK, Paired, EndedInv, NEW j \in Jobs, reg[j].live
    PROVE  Begun(j) /\ \E t \in Threads : ~At(t, "idle") /\ Job(t) = j
  <1>1. PICK t \in Threads : Works(t) /\ Job(t) = j
    BY DEF Paired
  <1>2. th[t].pc \notin {"idle", "create"}
    BY <1>1 DEF Works, Replicating
  <1> QED
    BY <1>1, <1>2 DEF EndedInv, At

\* ...and so do requests...
LEMMA EndedRequest ==
    ASSUME TypeOK, Paired, EndedInv, NEW t \in Threads, NEW j \in Jobs, Request(t, j)
    PROVE  EndedInv'
  <1>0. /\ At(t, "idle") /\ Others(t) /\ th'[t].job = j /\ status' = status /\ ended' = ended
        /\ Starts(t, j) \/ Reaches(t, j)
    BY RequestEffect
  <1>n. NoThread \notin Threads
    BY Constants
  <1>t. \A u \in Threads : u # t => th'[u] = th[u]
    BY <1>0 DEF Others
  <1>1. \A j1 \in Jobs : status'[j1] \in Terminal => j1 \in ended'
    BY <1>0 DEF EndedInv
  <1>2. \A j1, k \in Jobs : status'[j1] # "none" /\ status'[k] # "none" /\ j1 # k => j1 \in ended' \/ k \in ended'
    BY <1>0 DEF EndedInv, Begun
  <1>3. CASE Starts(t, j)
    <2>1. \A u \in Threads : th[u].pc # "create"
      BY <1>3, <1>n DEF Starts, EndedInv, At
    <2>2. \A k \in Jobs : status[k] # "none" => k \in ended
      BY <1>3 DEF Starts, EndedInv
    <2>3. \A u \in Threads : th[u].pc \notin {"idle", "create"} => status[th[u].job] # "none"
      BY DEF EndedInv, Begun, Job
    <2>4. \A u \in Threads : th'[u].pc \notin {"idle", "create"} => status'[th'[u].job] # "none"
      BY <1>0, <1>t, <1>3, <2>3 DEF Starts
    <2>5. \A u \in Threads : th'[u].pc = "create" => u = t
      BY <1>t, <2>1
    <2>6. mutex' = t /\ status'[th'[t].job] = "none"
      BY <1>0, <1>3 DEF Starts
    <2> QED
      BY <1>0, <1>1, <1>2, <2>2, <2>4, <2>5, <2>6 DEF EndedInv, Begun, At, Job
  <1>4. CASE Reaches(t, j)
    <2>1. status[j] # "none"
      BY <1>4, LiveBegun DEF Reaches, Begun
    <2>2. \A u \in Threads : th[u].pc \notin {"idle", "create"} => status[th[u].job] # "none"
      BY DEF EndedInv, Begun, Job
    <2>3. \A u \in Threads : th'[u].pc \notin {"idle", "create"} => status'[th'[u].job] # "none"
      BY <1>0, <1>t, <2>1, <2>2
    <2>4. ASSUME NEW u \in Threads, th'[u].pc = "create"
          PROVE  /\ mutex' = u /\ status'[th'[u].job] = "none"
                 /\ \A k \in Jobs : status'[k] # "none" => k \in ended'
      <3>1. u # t /\ th[u].pc = "create" /\ th'[u] = th[u]
        BY <1>t, <1>4, <2>4 DEF Reaches
      <3>2. mutex = u /\ status[th[u].job] = "none" /\ \A k \in Jobs : status[k] # "none" => k \in ended
        BY <3>1 DEF EndedInv, Begun, At, Job
      <3>3. mutex' = mutex
        BY <1>4, <1>n, <3>1, <3>2 DEF Reaches
      <3> QED
        BY <1>0, <3>1, <3>2, <3>3
    <2> QED
      BY <1>1, <1>2, <2>3, <2>4 DEF EndedInv, Begun, At, Job
  <1> QED
    BY <1>0, <1>3, <1>4

\* ...and every other step.
LEMMA EndedStep == GeneralInv /\ EndedInv /\ [Next]_vars => EndedInv'
  <1> SUFFICES ASSUME GeneralInv, EndedInv, [Next]_vars PROVE EndedInv'
    OBVIOUS
  <1> USE DEF GeneralInv
  <1>1. CASE \E t \in Threads : RunnerStep(t) \/ HandlerStep(t) \/ RunConflict(t) \/ RunError(t)
    BY <1>1, EndedThread
  <1>2. CASE \E t \in Threads, j \in Jobs : Request(t, j)
    BY <1>2, EndedRequest
  <1>3. CASE SourceWrite \/ UNCHANGED vars
    <2>1. UNCHANGED <<status, ended, th, mutex>>
      BY <1>3 DEF SourceWrite, vars, rows
    <2> QED
      BY <2>1 DEF EndedInv, Begun, At, Job
  <1>4. CASE Restart
    <2>1. /\ \A t \in Threads : th'[t].pc = "idle"
          /\ ended' = ended
          /\ \A j \in Jobs : /\ status'[j] = "none" <=> status[j] = "none"
                             /\ status'[j] \in Terminal <=> status[j] \in Terminal
      BY <1>4, RestartEffect
    <2> QED
      BY <2>1 DEF EndedInv, Begun, At, Job
  <1> QED
    BY <1>1, <1>2, <1>3, <1>4 DEF Next

(***************************************************************************)
(* Whatever users call in whatever order: two jobs replicate into the      *)
(* target only if one of them had been terminated before.                  *)
(***************************************************************************)
THEOREM TwoRunners == Spec => []TwoRunnersOneEnded
  <1>1. GeneralInv /\ EndedInv => TwoRunnersOneEnded
    <2> SUFFICES ASSUME GeneralInv, EndedInv, NEW t \in Threads, NEW u \in Threads,
                        th[t].pc \in Replicating, th[u].pc \in Replicating, Job(t) # Job(u)
                 PROVE  Job(t) \in ended \/ Job(u) \in ended
      BY DEF TwoRunnersOneEnded
    <2>1. th[t].pc \notin {"idle", "create"} /\ th[u].pc \notin {"idle", "create"}
      BY DEF Replicating
    <2>2. Job(t) \in Jobs /\ Job(u) \in Jobs
      BY Fields DEF GeneralInv, Job
    <2> QED
      BY <2>1, <2>2 DEF EndedInv
  <1>2. Spec => []EndedInv
    BY EndedInit, EndedStep, GeneralHolds, PTL DEF Spec
  <1> QED
    BY <1>1, <1>2, GeneralHolds, PTL

\* A thread at work on another job, or idle, does not touch a settled one.
LEMMA SettledStep ==
    ASSUME GeneralInv, EndedInv, Next, NEW j \in Jobs, Settled(j)
    PROVE  Settled(j)'
  <1> USE DEF GeneralInv
  <1>0. status[j] \in Terminal /\ \A t \in Threads : th[t].pc = "idle" \/ th[t].job # j
    BY DEF Settled, At, Job
  <1>1. CASE \E t \in Threads : RunnerStep(t) \/ HandlerStep(t) \/ RunConflict(t) \/ RunError(t)
    <2>1. PICK t \in Threads : ~At(t, "idle") /\ Effect(t) /\ Job(t) \in Jobs
      BY <1>1, ThreadEffect, Fields DEF Job
    <2>2. Job(t) # j /\ th[t].job = Job(t)
      BY <1>0, <2>1 DEF At, Job
    <2>3. status'[j] = status[j]
      BY <2>1, <2>2, Written DEF Effect
    <2>4. \A u \in Threads : th'[u].pc = "idle" \/ th'[u].job # j
      BY <1>0, <2>1, <2>2 DEF Effect, Others
    <2> QED
      BY <1>0, <2>3, <2>4 DEF Settled, At, Job
  <1>2. CASE \E t \in Threads, k \in Jobs : Request(t, k)
    <2>1. PICK t \in Threads, k \in Jobs : Request(t, k)
      BY <1>2
    <2>2. /\ Others(t) /\ th'[t].job = k /\ status' = status
          /\ Starts(t, k) \/ Reaches(t, k)
      BY <2>1, RequestEffect
    <2>3. k # j
      BY <1>0, <2>2, LiveBegun DEF Starts, Reaches, Terminal, At, Job
    <2>4. \A u \in Threads : th'[u].pc = "idle" \/ th'[u].job # j
      BY <1>0, <2>2, <2>3 DEF Others
    <2> QED
      BY <1>0, <2>2, <2>4 DEF Settled, At, Job
  <1>3. CASE SourceWrite
    BY <1>0, <1>3 DEF SourceWrite, rows, Settled, At, Job
  <1>4. CASE Restart
    BY <1>0, <1>4, RestartEffect DEF Settled, At
  <1> QED
    BY <1>1, <1>2, <1>3, <1>4 DEF Next

(***************************************************************************)
(* Whatever users call in whatever order: a terminated job on which nobody *)
(* is at work any more stays terminated.                                   *)
(***************************************************************************)
THEOREM TerminatedStays == Spec => SettledStays
  <1> DEFINE Stays == \A j \in Jobs : Settled(j) => Settled(j)'
  <1>1. GeneralInv /\ EndedInv /\ [Next]_vars => [Stays]_vars
    BY SettledStep
  <1>2. Spec => []EndedInv
    BY EndedInit, EndedStep, GeneralHolds, PTL DEF Spec
  <1> QED
    BY <1>1, <1>2, GeneralHolds, PTL DEF Spec, SettledStays
=============================================================================
