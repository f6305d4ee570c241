------------------------- MODULE BridgeBatchProofs -------------------------
(***************************************************************************)
(* Proofs about JdbcBridge: no batch is left that nobody knows, no          *)
(* connection of a pool is lost and, while commits are not cancelled, none  *)
(* is given back twice.                                                     *)
(***************************************************************************)
EXTENDS JdbcBridgeProofs

-----------------------------------------------------------------------------
(* Known batches. What a step of task k does to the task: nothing, it ends it, or  *)
(* it goes on; a batch it was to discard stays one or is unmapped, and a batch that *)
(* a beginBatch registered is answered or discarded.                               *)
Early == {"queued", "acquire", "prepare", "check"}

Follows(k, x) ==
    /\ Kept(k, x) /\ x.cancelled = k.cancelled /\ k.pc # "reply"
    /\ \A b \in k.todo : b \in x.todo \/ ~batches'[b].mapped
    /\ k.op = "begin" /\ x.pc \in Early => k.pc \in Early
    /\ k.op = "begin" /\ k.pc = "check" => (x.pc = "reply" /\ x.ok /\ x.val = k.val /\ ~k.cancelled) \/ k.val \in x.todo
    /\ \A b \in DOMAIN batches' \ DOMAIN batches : x.pc = "check" /\ x.val = b

TaskShape(k) ==
    \/ tasks' = tasks /\ out' = out /\ batches' = batches
    \/ /\ tasks' = tasks \ {k} /\ k.todo = {} /\ batches' = batches
       /\ (k.pc = "reply" /\ out' = out \cup {Response(k)}) \/ (k.op = "cleanup" /\ out' = out)
    \/ \E x : Follows(k, x) /\ tasks' = (tasks \ {k}) \cup {x} /\ out' = out

(* A request that has nothing to discard and no batch of its own yet goes on. *)
LEMMA StepShape ==
    ASSUME NEW k, BatchEffect(k), k.pc # "reply", k.todo = {}, out' = out,
           k.op # "begin" \/ (k.pc \in Early \ {"check"} /\ batches' = batches),
           NEW x, Kept(k, x), x.cancelled = k.cancelled, Step(k, x)
    PROVE  TaskShape(k)
<1>1. \A b \in DOMAIN batches' \ DOMAIN batches : FALSE
  BY DEF BatchEffect
<1>2. Follows(k, x)
  BY <1>1 DEF Follows, Early
<1> QED BY <1>2 DEF TaskShape, Step

(* It is answered, *)
LEMMA AnswerShape ==
    ASSUME NEW k \in Tasks, BatchEffect(k), k.pc # "reply", k.todo = {}, out' = out,
           k.op # "begin" \/ (k.pc \in Early \ {"check"} /\ batches' = batches),
           NEW val \in Nat, Answer(k, TRUE, val) \/ Answer(k, FALSE, val)
    PROVE  TaskShape(k)
<1>1. \A ok \in BOOLEAN : LET x == Answered(k, ok, val) IN Kept(k, x) /\ x.cancelled = k.cancelled
  BY AnsweredTask
<1>2. TRUE \in BOOLEAN /\ FALSE \in BOOLEAN
  OBVIOUS
<1>3. PICK x : Kept(k, x) /\ x.cancelled = k.cancelled /\ Step(k, x)
  BY <1>1, <1>2, Zenon DEF Answer
<1> QED BY <1>3, StepShape

(* goes to another step, *)
LEMMA GotoShape ==
    ASSUME NEW k \in Tasks, BatchEffect(k), k.pc # "reply", k.todo = {}, out' = out,
           k.op # "begin" \/ (k.pc \in Early \ {"check"} /\ batches' = batches),
           NEW pc \in TaskPcs, Goto(k, pc)
    PROVE  TaskShape(k)
<1>1. PICK x : x = [k EXCEPT !.pc = pc]
  OBVIOUS
<1>2. Kept(k, x) /\ x.cancelled = k.cancelled /\ Step(k, x)
  BY <1>1, GotoTask DEF Goto
<1> QED BY <1>2, StepShape

(* or has batches to discard. *)
LEMMA ScanShape ==
    ASSUME NEW k \in Tasks, BatchEffect(k), k.pc # "reply", k.todo = {}, out' = out, k.op # "begin",
           NEW B \in SUBSET Int, Step(k, [k EXCEPT !.pc = "discard", !.todo = B])
    PROVE  TaskShape(k)
<1>1. PICK x : x = [k EXCEPT !.pc = "discard", !.todo = B]
  OBVIOUS
<1>2. Kept(k, x) /\ x.cancelled = k.cancelled /\ Step(k, x)
  BY <1>1, ScanTask
<1> QED BY <1>2, StepShape

(* Requests other than beginBatch, until they discard. *)
LEMMA PlainShape ==
    ASSUME Types, ServerOk, NEW k \in tasks, BatchEffect(k), k.op # "begin",
           \/ Acquire(k) \/ Hello(k) \/ OpenSession(k) \/ FindSession(k) \/ Execute(k) \/ CloseSession(k) \/ CloseSessionScan(k)
           \/ RequestBatch(k) \/ UploadLOB(k) \/ AddBatch(k) \/ AddBatchDone(k) \/ CommitBatch(k) \/ CommitFails(k) \/ AbortBatch(k)
    PROVE  TaskShape(k)
<1>1. k.pc \notin {"reply", "discard"} /\ out' = out /\ k \in Tasks
  BY
  DEF Acquire, Hello, OpenSession, FindSession, Execute, CloseSession, CloseSessionScan, RequestBatch,
      UploadLOB, AddBatch,
         AddBatchDone, CommitBatch, CommitFails, AbortBatch, AtMonitor, Types, ServerTypes
<1>2. k.todo = {}
  BY <1>1, QueuedTask
<1>3. 0 \in Nat /\ "acquire" \in TaskPcs /\ "scan" \in TaskPcs /\ "monitor" \in TaskPcs /\ "execute" \in TaskPcs
      /\ "prepare" \in TaskPcs /\ "using" \in TaskPcs
  BY DEF TaskPcs
<1>4. CASE Acquire(k)
  <2>1. Answer(k, FALSE, 0) \/ (\E pc \in TaskPcs : Goto(k, pc))
    BY <1>3, <1>4 DEF Acquire, Pooled
  <2> QED BY <1>1, <1>2, <1>3, <2>1, AnswerShape, GotoShape
<1>5. CASE Hello(k) \/ Execute(k) \/ UploadLOB(k) \/ AddBatchDone(k) \/ CommitBatch(k) \/ CommitFails(k)
  <2>1. Answer(k, TRUE, 0) \/ Answer(k, FALSE, 0)
    BY <1>5, Zenon DEF Hello, Execute, UploadLOB, AddBatchDone, CommitBatch, CommitFails
  <2> QED BY <1>1, <1>2, <1>3, <2>1, AnswerShape
<1>6. CASE OpenSession(k)
  <2>1. PICK n \in Nat : n = Len(sessions) + 1
    BY DEF Types, ServerTypes
  <2>2. Answer(k, TRUE, n) \/ Answer(k, FALSE, 0)
    BY <1>6, <2>1 DEF OpenSession
  <2> QED BY <1>1, <1>2, <1>3, <2>2, AnswerShape
<1>7. CASE FindSession(k) \/ RequestBatch(k) \/ AddBatch(k)
  <2>1. Answer(k, FALSE, 0) \/ Goto(k, "acquire") \/ Goto(k, "monitor") \/ Goto(k, "execute")
    BY <1>7 DEF FindSession, RequestBatch, AddBatch
  <2> QED BY <1>1, <1>2, <1>3, <2>1, AnswerShape, GotoShape
<1>8. CASE CloseSession(k)
  <2>1. Answer(k, TRUE, 0) \/ Goto(k, "scan")
    BY <1>8 DEF CloseSession, Goto
  <2> QED BY <1>1, <1>2, <1>3, <2>1, AnswerShape, GotoShape
<1>9. CASE CloseSessionScan(k)
  <2>1. PICK B \in SUBSET DOMAIN batches : Step(k, [k EXCEPT !.pc = "discard", !.todo = B])
    BY <1>9 DEF CloseSessionScan
  <2>2. B \in SUBSET Int
    BY BatchDomain
  <2> QED BY <1>1, <1>2, <2>1, <2>2, ScanShape
<1>10. CASE AbortBatch(k)
  <2>1. CASE k.arg \in DOMAIN batches /\ batches[k.arg].mapped
    <3>1. {k.arg} \in SUBSET Int
      BY <1>1 DEF Tasks
    <3> QED BY <1>1, <1>2, <1>10, <2>1, <3>1, ScanShape DEF AbortBatch
  <2>2. CASE ~(k.arg \in DOMAIN batches /\ batches[k.arg].mapped)
    <3>1. Answer(k, TRUE, 0)
      BY <1>10, <2>2 DEF AbortBatch
    <3> QED BY <1>1, <1>2, <1>3, <3>1, AnswerShape
  <2> QED BY <2>1, <2>2
<1> QED BY <1>4, <1>5, <1>6, <1>7, <1>8, <1>9, <1>10

(* beginBatch, up to its check. *)
LEMMA BeginShape ==
    ASSUME Types, ServerOk, NEW k \in tasks, BatchEffect(k), k.op = "begin",
           Acquire(k) \/ FindSession(k) \/ BeginRegister(k) \/ BeginFails(k) \/ BeginCheck(k)
    PROVE  TaskShape(k)
<1>1. k.pc \in Early /\ out' = out /\ k \in Tasks /\ k.pc \notin {"reply", "discard"}
  BY DEF Acquire, FindSession, BeginRegister, BeginFails, BeginCheck, Early, Types, ServerTypes
<1>2. k.todo = {}
  BY <1>1, QueuedTask
<1>3. 0 \in Nat /\ "acquire" \in TaskPcs /\ "prepare" \in TaskPcs /\ "using" \in TaskPcs
  BY DEF TaskPcs
<1>4. CASE Acquire(k) \/ FindSession(k) \/ BeginFails(k)
  <2>1. k.pc \in Early \ {"check"} /\ batches' = batches
    BY <1>4 DEF Acquire, FindSession, BeginFails, Early
  <2>2. Answer(k, FALSE, 0) \/ (\E pc \in TaskPcs : Goto(k, pc))
    BY <1>3, <1>4 DEF Acquire, Pooled, FindSession, BeginFails
  <2> QED BY <1>1, <1>2, <1>3, <2>1, <2>2, AnswerShape, GotoShape
<1>5. CASE BeginRegister(k)
  <2>1. PICK n \in Nat : n = Len(batches) + 1
    BY DEF Types, ServerTypes
  <2>2. PICK x : x = [k EXCEPT !.pc = "check", !.val = n]
    OBVIOUS
  <2>3. Kept(k, x) /\ x.pc = "check" /\ x.val = n /\ x.cancelled = k.cancelled
    BY <1>1, <2>2 DEF Tasks, Kept, TaskPcs
  <2>4. PICK v : batches' = Append(batches, v)
    BY <1>5 DEF BeginRegister
  <2>5. \A b \in DOMAIN batches' \ DOMAIN batches : b = n
    BY <2>1, <2>4 DEF Types, ServerTypes
  <2>6. Follows(k, x)
    BY <1>1, <1>2, <1>5, <2>3, <2>5 DEF Follows, BeginRegister
  <2>7. tasks' = (tasks \ {k}) \cup {x}
    BY <1>5, <2>1, <2>2 DEF BeginRegister, Step
  <2> QED BY <1>1, <2>6, <2>7 DEF TaskShape
<1>6. CASE BeginCheck(k)
  <2>0. k.val \in DOMAIN batches /\ k.val \in Nat /\ k.pc = "check"
    BY <1>1, <1>6 DEF BeginCheck, ServerOk, TaskOk, Tasks
  <2>1. CASE k.cancelled \/ sessions[k.arg].closed
    <3>1. PICK x : x = [k EXCEPT !.pc = "discard", !.todo = {k.val}]
      OBVIOUS
    <3>2. {k.val} \in SUBSET Int
      BY <2>0
    <3>3. Kept(k, x) /\ x.cancelled = k.cancelled /\ x.todo = {k.val} /\ x.pc = "discard"
      BY <1>1, <3>1, <3>2, ScanTask
    <3>4. DOMAIN batches' = DOMAIN batches
      BY <1>6, <2>1 DEF BeginCheck
    <3>5. Follows(k, x)
      BY <1>1, <1>2, <3>3, <3>4 DEF Follows, Early
    <3>6. tasks' = (tasks \ {k}) \cup {x}
      BY <1>6, <2>1, <3>1 DEF BeginCheck, Step
    <3> QED BY <1>1, <3>5, <3>6 DEF TaskShape
  <2>2. CASE ~(k.cancelled \/ sessions[k.arg].closed)
    <3>1. PICK x : x = Answered(k, TRUE, k.val)
      OBVIOUS
    <3>2. \A ok \in BOOLEAN : LET y == Answered(k, ok, k.val) IN
            Kept(k, y) /\ y.pc = "reply" /\ y.cancelled = k.cancelled /\ y.ok = ok /\ y.val = k.val
      BY <1>1, <2>0, AnsweredTask
    <3>3. TRUE \in BOOLEAN
      OBVIOUS
    <3>4. Kept(k, x) /\ x.pc = "reply" /\ x.cancelled = k.cancelled /\ x.ok /\ x.val = k.val
      BY <3>1, <3>2, <3>3, Zenon
    <3>5. batches' = batches
      BY <1>6, <2>2 DEF BeginCheck
    <3>6. Follows(k, x)
      BY <1>1, <1>2, <2>2, <3>4, <3>5 DEF Follows, Early
    <3>7. tasks' = (tasks \ {k}) \cup {x}
      BY <1>6, <2>2, <3>1 DEF BeginCheck, Answer, Step
    <3> QED BY <1>1, <3>6, <3>7 DEF TaskShape
  <2> QED BY <2>1, <2>2
<1> QED BY <1>4, <1>5, <1>6

(* A task goes on discarding. *)
LEMMA DiscardTask ==
    ASSUME NEW k \in Tasks, k.pc = "discard", NEW b \in Int, NEW B \in SUBSET Int
    PROVE  /\ LET x == [k EXCEPT !.todo = B] IN Kept(k, x) /\ x.cancelled = k.cancelled /\ x.todo = B /\ x.pc = "discard"
           /\ LET x == [k EXCEPT !.cur = b] IN Kept(k, x) /\ x.cancelled = k.cancelled /\ x.todo = k.todo /\ x.pc = "discard"
BY DEF Tasks, Kept

(* The steps that discard: no batch appears, and a batch that leaves a list is *)
(* unmapped.                                                                   *)
LEMMA DiscardShape ==
    ASSUME Types, ServerOk, NEW k \in tasks, BatchEffect(k),
           DiscardMark(k) \/ DiscardDispose(k) \/ DiscardEnd(k) \/ CloseSessionPool(k)
    PROVE  TaskShape(k)
<1>1. k.pc = "discard" /\ out' = out /\ k \in Tasks /\ TaskOk(k)
  BY DEF DiscardMark, DiscardDispose, DiscardEnd, CloseSessionPool, Types, ServerTypes, ServerOk
<1>0. k.todo \in SUBSET Int /\ 0 \in Int /\ 0 \in Nat
  BY <1>1 DEF Tasks
<1>2. CASE DiscardMark(k)
  <2>1. PICK b \in k.todo :
          IF k.op = "close" /\ ~batches[b].mapped
          THEN Step(k, [k EXCEPT !.todo = @ \ {b}]) /\ batches' = batches
          ELSE /\ batches' = [batches EXCEPT ![b].closing = TRUE, ![b].mapped = FALSE]
               /\ Step(k, [k EXCEPT !.cur = b, !.todo = @ \ {b}])
    BY <1>2 DEF DiscardMark
  <2>2. PICK B \in SUBSET Int : B = k.todo \ {b}
    BY <1>0
  <2>3. b \in Int /\ b \in DOMAIN batches
    BY <1>0, <1>1 DEF TaskOk
  <2>4. CASE k.op = "close" /\ ~batches[b].mapped
    <3>1. PICK x : x = [k EXCEPT !.todo = B]
      OBVIOUS
    <3>2. Kept(k, x) /\ x.cancelled = k.cancelled /\ x.todo = B /\ x.pc = "discard"
      <4>1. LET y == [k EXCEPT !.todo = B] IN Kept(k, y) /\ y.cancelled = k.cancelled /\ y.todo = B /\ y.pc = "discard"
        BY <1>1, <2>3, DiscardTask
      <4> QED BY <3>1, <4>1
    <3>3. Follows(k, x)
      BY <1>1, <2>1, <2>2, <2>4, <3>2 DEF Follows, Early
    <3>4. tasks' = (tasks \ {k}) \cup {x}
      BY <2>1, <2>2, <2>4, <3>1 DEF Step
    <3> QED BY <1>1, <3>3, <3>4 DEF TaskShape
  <2>5. CASE ~(k.op = "close" /\ ~batches[b].mapped)
    <3>1. PICK x : x = [k EXCEPT !.cur = b, !.todo = B]
      OBVIOUS
    <3>2. Kept(k, x) /\ x.cancelled = k.cancelled /\ x.todo = B /\ x.pc = "discard"
      <4>1. \A c \in Int, C \in SUBSET Int : LET y == [k EXCEPT !.cur = c, !.todo = C] IN
              Kept(k, y) /\ y.cancelled = k.cancelled /\ y.todo = C /\ y.pc = "discard"
        BY <1>1 DEF Tasks, Kept
      <4> QED BY <2>3, <3>1, <4>1
    <3>3. batches' = [batches EXCEPT ![b] = [batches[b] EXCEPT !.closing = TRUE, !.mapped = FALSE]]
      BY <2>1, <2>3, <2>5, BatchDomain DEF Batches
    <3>4. batches[b] \in Batches /\ DOMAIN batches' = DOMAIN batches
      BY <2>3, <3>3, BatchDomain
    <3>5. ~[batches[b] EXCEPT !.closing = TRUE, !.mapped = FALSE].mapped
      BY <3>4 DEF Batches
    <3>6. ~batches'[b].mapped
      BY <2>3, <3>3, <3>5
    <3>7. Follows(k, x)
      BY <1>1, <2>2, <3>2, <3>4, <3>6 DEF Follows, Early
    <3>8. tasks' = (tasks \ {k}) \cup {x}
      BY <2>1, <2>2, <2>5, <3>1 DEF Step
    <3> QED BY <1>1, <3>7, <3>8 DEF TaskShape
  <2> QED BY <2>4, <2>5
<1>3. CASE DiscardDispose(k)
  <2>1. PICK x : x = [k EXCEPT !.cur = 0]
    OBVIOUS
  <2>2. Kept(k, x) /\ x.cancelled = k.cancelled /\ x.todo = k.todo /\ x.pc = "discard"
    BY <1>0, <1>1, <2>1, DiscardTask
  <2>3. DOMAIN batches' = DOMAIN batches
    BY <1>3 DEF DiscardDispose
  <2>4. Follows(k, x)
    BY <1>1, <2>2, <2>3 DEF Follows, Early
  <2>5. tasks' = (tasks \ {k}) \cup {x}
    BY <1>3, <2>1 DEF DiscardDispose, Step
  <2> QED BY <1>1, <2>4, <2>5 DEF TaskShape
<1>4. CASE (DiscardEnd(k) /\ k.op # "cleanup") \/ CloseSessionPool(k)
  <2>0. k.todo = {} /\ batches' = batches
    BY <1>4 DEF DiscardEnd, CloseSessionPool
  <2>1. PICK ok \in BOOLEAN : Answer(k, ok, 0)
    <3>1. (k.op = "abort") \in BOOLEAN /\ TRUE \in BOOLEAN
      OBVIOUS
    <3> QED BY <1>4, <3>1, Zenon DEF DiscardEnd, CloseSessionPool
  <2>2. PICK x : x = Answered(k, ok, 0)
    OBVIOUS
  <2>3. Kept(k, x) /\ x.pc = "reply" /\ x.cancelled = k.cancelled
    BY <1>0, <1>1, <2>2, AnsweredTask
  <2>4. Follows(k, x)
    BY <1>1, <2>0, <2>3 DEF Follows, Early
  <2>5. tasks' = (tasks \ {k}) \cup {x}
    BY <2>1, <2>2 DEF Answer, Step
  <2> QED BY <1>1, <2>4, <2>5 DEF TaskShape
<1>5. CASE DiscardEnd(k) /\ k.op = "cleanup"
  BY <1>5 DEF DiscardEnd, TaskShape
<1> QED BY <1>2, <1>3, <1>4, <1>5

(* Every step of a task replaces it by at most one that follows from it. *)
LEMMA WorkShape == ASSUME Types, ServerOk, NEW k \in tasks, Work(k) PROVE TaskShape(k)
<1>1. BatchEffect(k)
  BY WorkEffects DEF WorkEffect
<1>2. CASE Reply(k)
  <2>1. k.todo = {}
    BY <1>2, QueuedTask DEF Reply
  <2> QED BY <1>2, <2>1 DEF Reply, TaskShape, Response
<1>3. CASE DropIdle(k)
  BY <1>3 DEF DropIdle, TaskShape
<1>4. CASE k.op # "begin" /\ ~Reply(k) /\ ~DropIdle(k)
  <2>1. ~BeginRegister(k) /\ ~BeginFails(k) /\ ~BeginCheck(k)
    BY <1>4 DEF BeginRegister, BeginFails, BeginCheck
  <2> QED BY <1>1, <1>4, <2>1, PlainShape, DiscardShape, Zenon DEF Work
<1>5. CASE k.op = "begin" /\ ~Reply(k) /\ ~DropIdle(k)
  <2>1. /\ ~Hello(k) /\ ~OpenSession(k) /\ ~Execute(k) /\ ~CloseSession(k) /\ ~RequestBatch(k)
        /\ ~UploadLOB(k) /\ ~AddBatch(k) /\ ~AddBatchDone(k) /\ ~CommitBatch(k) /\ ~CommitFails(k) /\ ~AbortBatch(k)
    BY <1>5
    DEF Hello, OpenSession, Execute, CloseSession, RequestBatch, UploadLOB, AddBatch, AddBatchDone,
        CommitBatch,
                CommitFails, AbortBatch, AtMonitor
  <2>2. ~CloseSessionScan(k)
    BY <1>5 DEF CloseSessionScan, ServerOk, TaskOk
  <2> QED BY <1>1, <1>5, <2>1, <2>2, BeginShape, DiscardShape, Zenon DEF Work
<1> QED BY <1>2, <1>3, <1>4, <1>5

-----------------------------------------------------------------------------
(* What a step of the threads is to somebody who follows the calls: a thread does  *)
(* not move,                                                                       *)
Still(x) ==
    /\ call'[x] = call[x] /\ phase'[x] = phase[x] /\ handle'[x] = handle[x] /\ answer'[x] = answer[x]
    /\ Id(x) \in pending => Id(x) \in pending'

(* or waits for nothing, before and after, *)
Off(x) ==
    /\ call[x].pc \notin {"await", "cancel"} /\ call'[x].pc \notin Flying \cup {"cancel"} /\ call'[x].n = call[x].n
    /\ handle'[x] = handle[x]

(* or registers a new call, takes the pipe, writes the request, *)
Registers(x) ==
    /\ call[x].pc = "register" /\ call'[x].pc = "capture" /\ call'[x].n = call[x].n + 1 /\ answer'[x] = Empty
    /\ [t |-> x, n |-> call'[x].n] \in pending' /\ phase'[x] = phase[x] /\ handle'[x] = handle[x]

Captures(x) ==
    /\ call[x].pc = "capture" /\ call'[x].pc = "write" /\ call'[x].n = call[x].n
    /\ phase'[x] = phase[x] /\ handle'[x] = handle[x] /\ answer'[x] = answer[x] /\ pending' = pending

Writes(x) ==
    /\ call[x].pc = "write" /\ call'[x].pc = "await" /\ call'[x].n = call[x].n /\ call'[x].w = call[x].w
    /\ call[x].w \in live /\ in' = Append(in, Request(x))
    /\ phase'[x] = phase[x] /\ handle'[x] = handle[x] /\ answer'[x] = answer[x] /\ pending' = pending

(* or to a JVM that was given up, *)
Misses(x) ==
    /\ call[x].pc = "write" /\ call'[x].pc = "await" /\ call'[x].n = call[x].n /\ call'[x].w = call[x].w
    /\ phase'[x] = phase[x] /\ handle'[x] = handle[x] /\ answer'[x] = answer[x] /\ pending' = pending

(* takes its answer, gives up, or has said so. *)
Ends(x) ==
    /\ call[x].pc = "await" /\ answer[x] # Empty /\ call'[x].pc \notin Flying \cup {"cancel"} /\ call'[x].n = call[x].n
    /\ handle'[x] = handle[x] \/ handle[x].born = 0
    /\ phase[x] = "begin" /\ answer[x].ok => handle'[x] = [id |-> answer[x].val, born |-> call[x].w]

Cancels(x) ==
    /\ call[x].pc = "await" /\ call'[x].pc = "cancel" /\ call'[x].n = call[x].n
    /\ phase'[x] = phase[x] /\ handle'[x] = handle[x] /\ answer'[x] = answer[x]

Sends(x) ==
    /\ call[x].pc = "cancel" /\ call'[x].pc \notin Flying \cup {"cancel"} /\ call'[x].n = call[x].n /\ handle'[x] = handle[x]
    /\ in' = IF cmd \in live THEN Append(in, Cancellation(x)) ELSE in

Kind(x) ==
    Still(x) \/ Off(x) \/ Registers(x) \/ Captures(x) \/ Writes(x) \/ Misses(x) \/ Ends(x) \/ Cancels(x) \/ Sends(x)

ThreadEffect ==
    /\ UNCHANGED <<gen, live, out, input, tasks, batches, cmd, aliased>>
    /\ \A x \in Threads : Kind(x)
    /\ in' = in \/ \E x \in Threads : Writes(x) \/ Sends(x)

(* Ids of different threads differ. *)
LEMMA OtherIds == ASSUME NEW t, NEW x, x # t PROVE Id(x) # Id(t)
BY DEF Id

(* A call returns an error. *)
LEMMA ReturnKind ==
    ASSUME BaseInv, NEW t \in Threads, Return(t, Error), phase[t] \in Busy, answer' = answer, pending' \in {pending, pending \ {Id(t)}}
    PROVE  /\ \A x \in Threads \ {t} : Still(x)
           /\ call'[t].pc = "rest" /\ call'[t].n = call[t].n /\ handle'[t] = handle[t]
<1>1. Alone(t) /\ call'[t].pc = "rest" /\ call'[t].n = call[t].n /\ handle'[t] = handle[t]
  BY Base, ReturnFacts, ErrorVal
<1>2. \A x \in Threads \ {t} : Id(x) \in pending => Id(x) \in pending'
  BY OtherIds
<1> QED BY <1>1, <1>2 DEF Still, Alone

(* A call ends, with an answer or without. *)
LEMMA FinishKind ==
    ASSUME BaseInv, NEW t \in Threads, NEW r, r.val \in Int, Finish(t, r), call[t].pc \in StartPcs,
           answer' = answer, pending' \in {pending, pending \ {Id(t)}}
    PROVE  /\ \A x \in Threads \ {t} : Still(x) \/ Off(x)
           /\ call'[t].pc \notin Flying \cup {"cancel"} /\ call'[t].n = call[t].n
           /\ handle'[t] = handle[t] \/ (handle[t].born = 0 /\ r.ok)
           /\ phase[t] = "begin" /\ r.ok => handle'[t] = [id |-> r.val, born |-> call[t].w]
<1>1. phase[t] \in Busy /\ CallOk(t) /\ call[t] \in Calls
  BY Base, BusyThread, CallTypeFacts DEF StartPcs, CallInv
<1>2. call'[t].pc \notin Flying \cup {"cancel"} /\ call'[t].n = call[t].n
  BY FinishPc DEF Flying
<1>3. \A x \in Threads \ {t} : Id(x) \in pending => Id(x) \in pending'
  BY OtherIds
<1>4. CASE call[t].op # "hello"
  <2>1. /\ Alone(t) /\ handle'[t] = IF r.ok /\ phase[t] \in {"open", "begin"} THEN [id |-> r.val, born |-> call[t].w] ELSE handle[t]
    BY <1>1, <1>4, Base, ReturnFacts DEF Finish
  <2>2. phase[t] \in {"open", "begin"} => handle[t].born = 0
    BY <1>1 DEF CallOk, NoHandle
  <2> QED BY <1>2, <1>3, <2>1, <2>2 DEF Still, Alone
<1>5. CASE call[t].op = "hello"
  <2>0. phase[t] = "open"
    BY <1>1, <1>5 DEF CallOk, OpOf, Busy, BatchPhases
  <2>1. UNCHANGED <<phase, handle>>
    BY <1>5 DEF Finish
  <2>2. \A x \in Threads \ {t} :
          \/ call'[x] = call[x]
          \/ call[x].pc = "join" /\ call'[x].pc \in {"register", "failed"} /\ call'[x].n = call[x].n
    <3>1. CASE r.ok
      <4>1. Joined(t, r)
        BY <1>5, <3>1 DEF Finish
      <4> QED BY <2>0, <4>1, JoinedFacts
    <3>2. CASE ~r.ok
      BY <1>5, <3>2, Base DEF Finish, ManagerInv, StarterInv
    <3> QED BY <3>1, <3>2
  <2> QED BY <1>2, <1>3, <2>0, <2>1, <2>2 DEF Still, Off, Flying
<1> QED BY <1>4, <1>5

(* The call of one thread moves. *)
LEMMA MoveKind ==
    ASSUME BaseInv, NEW t \in Threads, NEW c, call' = [call EXCEPT ![t] = c], UNCHANGED <<phase, handle>>,
           \A x \in Threads \ {t} : answer'[x] = answer[x],
           \A x \in Threads \ {t} : Id(x) \in pending => Id(x) \in pending'
    PROVE  /\ call'[t] = c /\ phase'[t] = phase[t] /\ handle'[t] = handle[t]
           /\ \A x \in Threads \ {t} : Still(x)
<1>1. call'[t] = c /\ \A x \in Threads \ {t} : call'[x] = call[x]
  BY Base, CallTypeFacts
<1> QED BY <1>1 DEF Still

(* Steps of a thread that waits for nothing. *)
LEMMA OffKind ==
    ASSUME BaseInv, NEW t \in Threads,
           \/ StartWork(t) \/ StartClose(t) \/ Begin(t) \/ EnsureJoin(t) \/ EnsureFails(t) \/ CheckRunning(t)
           \/ StartupFails(t) \/ StartFailed(t) \/ JoinDone(t) \/ (Capture(t) /\ cmd = 0) \/ (Write(t) /\ call[t].w \notin live \cup adrift)
    PROVE  ThreadEffect
<1>1. UNCHANGED <<gen, live, in, out, input, tasks, batches, cmd, aliased, answer>>
  BY
  DEF StartWork, StartClose, Begin, EnsureJoin, EnsureFails, CheckRunning, StartupFails, StartFailed,
      JoinDone, Capture, Write,
         serverVars
<1> SUFFICES \A x \in Threads : Still(x) \/ Off(x)
  BY <1>1 DEF ThreadEffect, Kind
<1>2. call[t] \in Calls /\ call \in [Threads -> Calls]
  BY Base, CallTypeFacts
<1>3. CASE StartWork(t) \/ StartClose(t)
  <2>1. phase[t] \notin Busy
    BY <1>3 DEF StartWork, StartClose, Busy, BatchPhases
  <2>2. call[t].pc = "rest"
    BY <2>1, Base, BusyThread
  <2>3. UNCHANGED <<call, handle, answer, pending>>
    BY <1>3 DEF StartWork, StartClose
  <2>4. \A x \in Threads \ {t} : phase'[x] = phase[x]
    BY <1>3, Base DEF StartWork, StartClose, Types, GoTypes
  <2>5. Off(t)
    BY <2>2, <2>3 DEF Off, Flying
  <2>6. \A x \in Threads \ {t} : Still(x)
    BY <2>3, <2>4 DEF Still
  <2> QED BY <2>5, <2>6
<1>4. CASE Begin(t) \/ EnsureJoin(t) \/ EnsureFails(t) \/ (CheckRunning(t) /\ cmd # 0)
  <2>1. UNCHANGED <<phase, handle, answer, pending>> /\ call[t].pc \in {"rest", "ensure"}
    BY <1>4 DEF Begin, EnsureJoin, EnsureFails, CheckRunning
  <2>2. PICK c : /\ call' = [call EXCEPT ![t] = c] /\ c.n = call[t].n
                 /\ c.pc \in {"ensure", "join", "register", "nostart"}
    <3>1. CASE Begin(t)
      <4>1. PICK c : c = [call[t] EXCEPT !.op = "open", !.pc = "ensure"]
        OBVIOUS
      <4>2. c.pc = "ensure" /\ c.n = call[t].n
        BY <1>2, <4>1 DEF Calls
      <4> QED BY <3>1, <4>1, <4>2 DEF Begin
    <3>2. CASE EnsureJoin(t) \/ EnsureFails(t)
      <4>1. PICK pc \in {"join", "register", "nostart"} : call' = [call EXCEPT ![t].pc = pc]
        BY <3>2 DEF EnsureJoin, EnsureFails
      <4>2. PICK c : c = [call[t] EXCEPT !.pc = pc]
        OBVIOUS
      <4>3. c.pc = pc /\ c.n = call[t].n
        BY <1>2, <4>2 DEF Calls
      <4> QED BY <4>1, <4>2, <4>3
    <3>3. CASE CheckRunning(t) /\ cmd # 0
      <4>1. PICK op : op = OpOf(phase[t])
        OBVIOUS
      <4>2. PICK c : c = [call[t] EXCEPT !.op = op, !.pc = "register"]
        OBVIOUS
      <4>3. c.pc = "register" /\ c.n = call[t].n
        BY <1>2, <4>2 DEF Calls
      <4> QED BY <3>3, <4>1, <4>2, <4>3 DEF CheckRunning
    <3> QED BY <1>4, <3>1, <3>2, <3>3
  <2>3. call'[t] = c /\ handle'[t] = handle[t] /\ \A x \in Threads \ {t} : Still(x)
    BY <2>1, <2>2, MoveKind
  <2>4. Off(t)
    BY <2>1, <2>2, <2>3 DEF Off, Flying
  <2> QED BY <2>3, <2>4
<1>5. CASE StartFailed(t) \/ JoinDone(t) \/ (CheckRunning(t) /\ cmd = 0)
  <2>1. Return(t, Error) /\ pending' = pending /\ call[t].pc \in {"failed", "join", "rest"}
    BY <1>5 DEF StartFailed, JoinDone, CheckRunning
  <2>2. phase[t] \in Busy
    BY <1>5, Base, BusyThread DEF StartFailed, JoinDone, CheckRunning, Busy, BatchPhases
  <2>3. /\ \A x \in Threads \ {t} : Still(x)
        /\ call'[t].pc = "rest" /\ call'[t].n = call[t].n /\ handle'[t] = handle[t]
    BY <1>1, <2>1, <2>2, ReturnKind
  <2>4. Off(t)
    BY <2>1, <2>3 DEF Off, Flying
  <2> QED BY <2>3, <2>4
<1>6. CASE StartupFails(t)
  <2>1. /\ Joined(t, Error) /\ phase[t] = "open" /\ UNCHANGED <<phase, handle, answer, pending>>
        /\ call[t].pc \in {"nostart", "reaped"}
    BY <1>6, Base DEF StartupFails, CallInv, CallOk, StartPcs, serverVars
  <2>2. \A x \in Threads : \/ call'[x] = call[x]
                           \/ /\ x = t \/ call[x].pc = "join"
                              /\ call'[x].pc \in {"register", "failed"} /\ call'[x].n = call[x].n
    BY <2>1, JoinedFacts
  <2>3. \A x \in Threads : call'[x] = call[x] => Still(x)
    BY <2>1 DEF Still
  <2>4. \A x \in Threads : call'[x] # call[x] => Off(x)
    BY <2>1, <2>2 DEF Off, Flying
  <2> QED BY <2>3, <2>4
<1>7. CASE (Capture(t) /\ cmd = 0) \/ (Write(t) /\ call[t].w \notin live \cup adrift)
  <2>1. call[t].pc \in {"capture", "write"} /\ Finish(t, Error) /\ pending' = pending \ {Id(t)}
    BY <1>7 DEF Capture, Write
  <2>2. /\ \A x \in Threads \ {t} : Still(x) \/ Off(x)
        /\ call'[t].pc \notin Flying \cup {"cancel"} /\ call'[t].n = call[t].n
        /\ handle'[t] = handle[t] \/ (handle[t].born = 0 /\ Error.ok)
    BY <1>1, <2>1, ErrorVal, FinishKind DEF StartPcs
  <2>3. Off(t)
    BY <2>1, <2>2, ErrorVal DEF Off
  <2> QED BY <2>2, <2>3
<1> QED BY <1>3, <1>4, <1>5, <1>6, <1>7

(* Steps of a thread that registers, writes or gives up a request. *)
LEMMA CallKind ==
    ASSUME BaseInv, NEW t \in Threads,
           Register(t) \/ (Capture(t) /\ cmd # 0) \/ (Write(t) /\ call[t].w \in live \cup adrift) \/ CtxDone(t)
    PROVE  ThreadEffect
<1>1. UNCHANGED <<gen, live, out, input, tasks, batches, cmd, aliased, phase, handle>>
  BY DEF Register, Capture, Write, CtxDone, serverVars
<1>2. call[t] \in Calls /\ call \in [Threads -> Calls] /\ call[t].n \in Nat
  BY Base, CallTypeFacts
<1>3. CASE Register(t)
  <2>1. PICK n : n = call[t].n + 1
    OBVIOUS
  <2>2. PICK c : c = [call[t] EXCEPT !.n = n, !.pc = "capture"]
    OBVIOUS
  <2>3. c.pc = "capture" /\ c.n = n
    BY <1>2, <2>2 DEF Calls
  <2>4. call' = [call EXCEPT ![t] = c]
    BY <1>2, <1>3, <2>1, <2>2 DEF Register
  <2>5. \A x \in Threads : answer'[x] = IF x = t THEN Empty ELSE answer[x]
    BY <1>3, Base DEF Register, Types, GoTypes
  <2>6. pending \subseteq pending' /\ [t |-> t, n |-> n] \in pending' /\ in' = in /\ call[t].pc = "register"
    BY <1>3, <2>1 DEF Register, serverVars
  <2>7. call'[t] = c /\ phase'[t] = phase[t] /\ handle'[t] = handle[t] /\ \A x \in Threads \ {t} : Still(x)
    BY <1>1, <2>4, <2>5, <2>6, MoveKind
  <2>8. Registers(t)
    BY <2>1, <2>3, <2>5, <2>6, <2>7 DEF Registers
  <2> QED BY <1>1, <2>6, <2>7, <2>8 DEF ThreadEffect, Kind
<1>4. CASE Capture(t) /\ cmd # 0
  <2>1. PICK c : c = [call[t] EXCEPT !.pc = "write", !.w = cmd]
    OBVIOUS
  <2>2. c.pc = "write" /\ c.n = call[t].n
    BY <1>2, <2>1 DEF Calls
  <2>3. call' = [call EXCEPT ![t] = c] /\ UNCHANGED <<in, answer, pending>> /\ call[t].pc = "capture"
    BY <1>4, <2>1 DEF Capture, serverVars
  <2>4. call'[t] = c /\ phase'[t] = phase[t] /\ handle'[t] = handle[t] /\ \A x \in Threads \ {t} : Still(x)
    BY <1>1, <2>3, MoveKind
  <2>5. Captures(t)
    BY <2>2, <2>3, <2>4 DEF Captures
  <2> QED BY <1>1, <2>3, <2>4, <2>5 DEF ThreadEffect, Kind
<1>5. CASE Write(t) /\ call[t].w \in live \cup adrift
  <2>1. PICK c : c = [call[t] EXCEPT !.pc = "await"]
    OBVIOUS
  <2>2. c.pc = "await" /\ c.n = call[t].n /\ c.w = call[t].w
    BY <1>2, <2>1 DEF Calls
  <2>3. /\ call' = [call EXCEPT ![t] = c] /\ UNCHANGED <<answer, pending>> /\ call[t].pc = "write"
        /\ in' = IF call[t].w \in live THEN Append(in, Request(t)) ELSE in
    BY <1>2, <1>5, <2>1 DEF Write
  <2>4. call'[t] = c /\ phase'[t] = phase[t] /\ handle'[t] = handle[t] /\ \A x \in Threads \ {t} : Still(x)
    BY <1>1, <2>3, MoveKind
  <2>5. CASE call[t].w \in live
    <3>1. Writes(t)
      BY <2>2, <2>3, <2>4, <2>5 DEF Writes
    <3> QED BY <1>1, <2>4, <3>1 DEF ThreadEffect, Kind
  <2>6. CASE call[t].w \notin live
    <3>1. Misses(t) /\ in' = in
      BY <2>2, <2>3, <2>4, <2>6 DEF Misses
    <3> QED BY <1>1, <2>4, <3>1 DEF ThreadEffect, Kind
  <2> QED BY <2>5, <2>6
<1>6. CASE CtxDone(t)
  <2>1. PICK c : c = [call[t] EXCEPT !.pc = "cancel"]
    OBVIOUS
  <2>2. c.pc = "cancel" /\ c.n = call[t].n
    BY <1>2, <2>1 DEF Calls
  <2>3. /\ call' = [call EXCEPT ![t] = c] /\ UNCHANGED <<answer, in>> /\ call[t].pc = "await"
        /\ pending' = pending \ {Id(t)}
    BY <1>2, <1>6, <2>1 DEF CtxDone
  <2>4. \A x \in Threads \ {t} : Id(x) \in pending => Id(x) \in pending'
    BY <2>3, OtherIds
  <2>5. call'[t] = c /\ phase'[t] = phase[t] /\ handle'[t] = handle[t] /\ \A x \in Threads \ {t} : Still(x)
    BY <1>1, <2>3, <2>4, MoveKind
  <2>6. Cancels(t)
    BY <2>2, <2>3, <2>5 DEF Cancels
  <2> QED BY <1>1, <2>3, <2>5, <2>6 DEF ThreadEffect, Kind
<1> QED BY <1>3, <1>4, <1>5, <1>6

(* Steps that end a request. *)
LEMMA EndKind == ASSUME BaseInv, NEW t \in Threads, Receive(t) \/ SendCancel(t) PROVE ThreadEffect
<1>1. UNCHANGED <<gen, live, out, input, tasks, batches, cmd, aliased, answer, pending>>
  BY DEF Receive, SendCancel, serverVars
<1>2. CASE Receive(t)
  <2>1. call[t].pc = "await" /\ answer[t] # Empty /\ Finish(t, answer[t]) /\ in' = in /\ answer[t].val \in Int
    BY <1>2, Base, CallTypeFacts DEF Receive, serverVars
  <2>2. /\ \A x \in Threads \ {t} : Still(x) \/ Off(x)
        /\ call'[t].pc \notin Flying \cup {"cancel"} /\ call'[t].n = call[t].n
        /\ handle'[t] = handle[t] \/ (handle[t].born = 0 /\ answer[t].ok)
        /\ phase[t] = "begin" /\ answer[t].ok => handle'[t] = [id |-> answer[t].val, born |-> call[t].w]
    BY <1>1, <2>1, FinishKind DEF StartPcs
  <2>3. Ends(t)
    BY <2>1, <2>2 DEF Ends
  <2> QED BY <1>1, <2>1, <2>2, <2>3 DEF ThreadEffect, Kind
<1>3. CASE SendCancel(t)
  <2>1. /\ call[t].pc = "cancel" /\ Finish(t, Error)
        /\ in' = IF cmd \in live THEN Append(in, Cancellation(t)) ELSE in
    BY <1>3 DEF SendCancel, Cancellation
  <2>2. /\ \A x \in Threads \ {t} : Still(x) \/ Off(x)
        /\ call'[t].pc \notin Flying \cup {"cancel"} /\ call'[t].n = call[t].n
        /\ handle'[t] = handle[t] \/ (handle[t].born = 0 /\ Error.ok)
    BY <1>1, <2>1, ErrorVal, FinishKind DEF StartPcs
  <2>3. Sends(t)
    BY <2>1, <2>2, ErrorVal DEF Sends
  <2> QED BY <1>1, <2>2, <2>3 DEF ThreadEffect, Kind
<1> QED BY <1>2, <1>3

(* Every step of the threads, but for the start and the death of a process. *)
LEMMA ThreadKinds ==
    ASSUME BaseInv, NEW t \in Threads, ThreadStep(t) \/ EnsureFails(t) \/ CtxDone(t) \/ JoinDone(t)
    PROVE  ThreadEffect \/ EnsureStart(t) \/ HelloKill(t)
BY OffKind, CallKind, EndKind, Zenon DEF ThreadStep

-----------------------------------------------------------------------------
(* Every request is in one place: in the pipe, at work, or answered. *)
UniqueInv ==
    /\ \A i, j \in DOMAIN in : in[i].op # "cancel" /\ in[j].op # "cancel" /\ in[i].id = in[j].id => i = j
    /\ \A i \in DOMAIN in, k \in tasks : in[i].op # "cancel" /\ k.op # "cleanup" => in[i].id # k.id
    /\ \A k, l \in tasks : k.op # "cleanup" /\ l.op # "cleanup" /\ k.id = l.id => k = l
    /\ \A r \in out, i \in DOMAIN in : in[i].op # "cancel" => in[i].id # r.id
    /\ \A r \in out, k \in tasks : k.op # "cleanup" => k.id # r.id
    /\ \A r, s \in out : r.id = s.id => r = s

(* A call without an answer is registered. *)
PendInv == \A t \in Threads : call[t].pc \in Flying /\ answer[t] = Empty => Id(t) \in pending

(* Thread t has session s of this process. *)
Has(t, s) == handle[t].id = s /\ handle[t].born = gen /\ gen > 0

(* A beginBatch is asked by a worker whose writer has the session, a closeSession *)
(* by the writer; a batch is one of the session of its worker's writer.           *)
ForSession(q) ==
    /\ q.op = "begin" => q.id.t \in Workers /\ Has(WriterOf[q.id.t], q.arg)
    /\ q.op = "close" => q.id.t \in Writers /\ Has(q.id.t, q.arg)

OfSession(b) == batches[b].opener.t \in Workers /\ Has(WriterOf[batches[b].opener.t], batches[b].session)

SessionInv ==
    ~aliased => /\ \A i \in DOMAIN in : in[i].born \in {0, gen} => ForSession(in[i])
                /\ \A k \in tasks : ForSession(k)
                /\ \A b \in DOMAIN batches : OfSession(b)

(* A request that is nowhere any more. *)
Quiet(id) ==
    /\ \A i \in DOMAIN in : in[i].op # "cancel" => in[i].id # id
    /\ \A k \in tasks : k.op # "cleanup" => k.id # id
    /\ \A r \in out : r.id # id

(* A request that has its answer is nowhere else: one of a worker whose writer has *)
(* a session, as long as the process is registered, and one that succeeded.        *)
Told(t) ==
    handle[WriterOf[t]].born = gen /\ call[t].pc \in Flying /\ cmd # 0 /\ answer[t] # Empty =>
        call[t].pc = "await" /\ Quiet(Id(t))

Succeeded(t) == call[t].pc = "await" /\ answer[t].ok => Quiet(Id(t))

ToldInv == (\A t \in Workers : Told(t)) /\ (\A t \in Threads : Succeeded(t))

LinkInv == UniqueInv /\ PendInv /\ SessionInv /\ ToldInv /\ 0 \notin live

(* A step of a worker leaves every request in one place. *)
LEMMA WorkUnique == ASSUME UniqueInv, ServerOk, NEW k \in tasks, TaskShape(k), in' = in PROVE UniqueInv'
<1>1. CASE tasks' = tasks /\ out' = out
  BY <1>1 DEF UniqueInv
<1>2. CASE tasks' = tasks \ {k} /\ out' = out
  BY <1>2 DEF UniqueInv
<1>3. CASE tasks' = tasks \ {k} /\ k.pc = "reply" /\ out' = out \cup {Response(k)}
  <2>1. k.op # "cleanup"
    BY <1>3 DEF ServerOk, TaskOk
  <2>2. PICK r : r = Response(k)
    OBVIOUS
  <2>3. r.id = k.id /\ out' = out \cup {r}
    BY <1>3, <2>2 DEF Response
  <2> QED BY <1>3, <2>1, <2>3 DEF UniqueInv
<1>4. ASSUME NEW x, Follows(k, x), tasks' = (tasks \ {k}) \cup {x}, out' = out PROVE UniqueInv'
  <2>1. x.id = k.id /\ x.op = k.op
    BY <1>4 DEF Follows, Kept
  <2> QED BY <1>4, <2>1 DEF UniqueInv
<1> QED BY <1>1, <1>2, <1>3, <1>4 DEF TaskShape

(* A step of a worker brings no request back. *)
LEMMA WorkQuiet ==
    ASSUME ServerOk, NEW k \in tasks, TaskShape(k), in' = in, NEW id, Quiet(id)
    PROVE  /\ \A i \in DOMAIN in' : in'[i].op # "cancel" => in'[i].id # id
           /\ \A l \in tasks' : l.op # "cleanup" => l.id # id
           /\ \A r \in out' : r.id # id
<1>1. CASE tasks' = tasks /\ out' = out
  BY <1>1 DEF Quiet
<1>2. CASE tasks' = tasks \ {k} /\ out' = out
  BY <1>2 DEF Quiet
<1>3. CASE tasks' = tasks \ {k} /\ k.pc = "reply" /\ out' = out \cup {Response(k)}
  <2>1. k.op # "cleanup"
    BY <1>3 DEF ServerOk, TaskOk
  <2>2. PICK r : r = Response(k)
    OBVIOUS
  <2>3. r.id = k.id /\ out' = out \cup {r}
    BY <1>3, <2>2 DEF Response
  <2> QED BY <1>3, <2>1, <2>3 DEF Quiet
<1>4. ASSUME NEW x, Follows(k, x), tasks' = (tasks \ {k}) \cup {x}, out' = out PROVE \A l \in tasks' : l.op # "cleanup" => l.id # id
  <2>1. x.id = k.id /\ x.op = k.op
    BY <1>4 DEF Follows, Kept
  <2> QED BY <1>4, <2>1 DEF Quiet
<1> QED BY <1>1, <1>2, <1>3, <1>4 DEF TaskShape, Quiet

(* The input thread takes the first request: the others move up. *)
LEMMA TailIndex ==
    ASSUME NEW S, NEW s \in Seq(S), s # <<>>
    PROVE  \A j \in DOMAIN s : j > 1 => j - 1 \in DOMAIN Tail(s) /\ Tail(s)[j - 1] = s[j]
OBVIOUS

(* When a message leaves the pipe the others move up by one. *)
LEMMA MovesUp ==
    ASSUME Types, Dispatch \/ CancelFuture
    PROVE  /\ \A j \in DOMAIN in' : j \in Int /\ j + 1 \in DOMAIN in /\ in'[j] = in[j + 1]
           /\ \A j \in DOMAIN in : j \in Int /\ j >= 1 /\ (j > 1 => j - 1 \in DOMAIN in' /\ in'[j - 1] = in[j])
           /\ 1 \in DOMAIN in /\ Head(in) = in[1] /\ in[1] \in Messages
<1>1. in \in Seq(Messages) /\ in # <<>> /\ in' = Tail(in)
  BY DEF Types, ServerTypes, Dispatch, CancelFuture
<1>2. DOMAIN in \subseteq Int /\ DOMAIN Tail(in) \subseteq Int /\ \A j \in DOMAIN in : j >= 1
  BY <1>1
<1> QED BY <1>1, <1>2, SeqTail, TailIndex

(* cancelRequest takes away only what no worker has begun. *)
LEMMA CancelFutureBack ==
    ASSUME Types, ServerOk, UniqueInv, CancelFuture
    PROVE  /\ \A k \in tasks : k.pc # "queued" => \E x \in tasks' : Same(k, x)
           /\ \A x, y \in tasks' : x.op # "cleanup" /\ y.op # "cleanup" /\ x.id = y.id => x = y
<1> DEFINE M(k) == [k EXCEPT !.cancelled = @ \/ k.id = Head(in).id]
<1>1. ASSUME NEW k \in tasks PROVE Same(k, M(k))
  <2>1. PICK c \in BOOLEAN : c = (k.cancelled \/ k.id = Head(in).id)
    OBVIOUS
  <2>2. k.cancelled => c
    BY <2>1
  <2>3. k \in Tasks
    BY DEF Types, ServerTypes
  <2>4. PICK x : x = [k EXCEPT !.cancelled = c]
    OBVIOUS
  <2>5. Same(k, x)
    BY <2>2, <2>3, <2>4 DEF Tasks, Same, Kept
  <2> QED BY <2>1, <2>4, <2>5
<1>2. PICK never : tasks' = {M(k) : k \in tasks \ never} /\ \A k \in never : k.pc = "queued"
  BY DEF CancelFuture
<1> HIDE DEF M
<1>3. ASSUME NEW k \in tasks, k.pc # "queued" PROVE \E x \in tasks' : Same(k, x)
  BY <1>1, <1>2, <1>3
<1>4. ASSUME NEW x \in tasks', NEW y \in tasks', x.op # "cleanup", y.op # "cleanup", x.id = y.id PROVE x = y
  <2>1. PICK k \in tasks : x = M(k)
    BY <1>2
  <2>2. PICK l \in tasks : y = M(l)
    BY <1>2
  <2>3. x.id = k.id /\ x.op = k.op /\ y.id = l.id /\ y.op = l.op
    BY <1>1, <2>1, <2>2 DEF Same, Kept
  <2>4. k = l
    BY ZenonT(60), <1>4, <2>3 DEF UniqueInv
  <2> QED BY <2>1, <2>2, <2>4
<1> QED BY <1>3, <1>4

(* What the steps of the server have to keep. *)
LEMMA ServerLinks ==
    ASSUME LinkInv, UNCHANGED <<gen, live, goVars>>, UniqueInv', SessionInv', \A t \in Threads : Quiet(Id(t)) => Quiet(Id(t))'
    PROVE  LinkInv'
<1>1. UNCHANGED <<cmd, call, phase, handle, answer, pending>>
  BY DEF goVars
<1>2. PendInv'
  BY <1>1 DEF LinkInv, PendInv, Id
<1>3. ToldInv'
  <2>1. ASSUME NEW t \in Threads, call[t].pc = "await", Quiet(Id(t)) PROVE Quiet(Id(t))'
    BY <2>1
  <2>2. ASSUME NEW t \in Workers PROVE Told(t)'
    <3>1. Told(t) /\ t \in Threads
      BY ThreadsAssumption DEF LinkInv, ToldInv
    <3> QED BY <1>1, <2>1, <3>1 DEF Told
  <2>3. ASSUME NEW t \in Threads PROVE Succeeded(t)'
    <3>1. Succeeded(t)
      BY DEF LinkInv, ToldInv
    <3> QED BY <1>1, <2>1, <3>1 DEF Succeeded
  <2> QED BY <2>2, <2>3 DEF ToldInv
<1> QED BY <1>2, <1>3 DEF LinkInv

(* A step of a task keeps every request linked to its call. *)
LEMMA WorkLinks ==
    ASSUME BaseInv, LinkInv, NEW k \in tasks, Work(k), UNCHANGED <<gen, goVars>> PROVE LinkInv'
<1>1. TaskShape(k) /\ WorkEffect(k)
  BY Base, WorkShape, WorkEffects
<1>2. UNCHANGED <<live, in, input, aliased>>
  BY <1>1 DEF WorkEffect
<1>3. UniqueInv'
  BY <1>1, <1>2, Base, WorkUnique DEF LinkInv
<1>4. UNCHANGED <<call, handle>>
  BY DEF goVars
<1>5. ASSUME NEW t \in Threads, Quiet(Id(t)) PROVE Quiet(Id(t))'
  <2>1. PICK id : id = Id(t)
    OBVIOUS
  <2>2. Id(t)' = id
    BY <1>4, <2>1 DEF Id
  <2> QED BY <1>1, <1>2, <1>5, <2>1, <2>2, Base, WorkQuiet DEF Quiet
<1>6. SessionInv'
  <2> SUFFICES ASSUME ~aliased
               PROVE  /\ (\A i \in DOMAIN in : in[i].born \in {0, gen} => ForSession(in[i]))'
                      /\ (\A l \in tasks : ForSession(l))'
                      /\ \A b \in DOMAIN batches' : OfSession(b)'
    BY <1>2 DEF SessionInv
  <2>1. /\ \A i \in DOMAIN in : in[i].born \in {0, gen} => ForSession(in[i])
        /\ \A l \in tasks : ForSession(l)
        /\ \A b \in DOMAIN batches : OfSession(b)
    BY DEF LinkInv, SessionInv
  <2>2. (\A i \in DOMAIN in : in[i].born \in {0, gen} => ForSession(in[i]))'
    BY <1>2, <1>4, <2>1 DEF ForSession, Has
  <2>3. ASSUME NEW x \in tasks' PROVE ForSession(x)'
    <3>1. \E l \in tasks : x.id = l.id /\ x.op = l.op /\ x.arg = l.arg
      BY <1>1 DEF WorkEffect, TaskEffect, Kept
    <3> QED BY <1>4, <2>1, <3>1 DEF ForSession, Has
  <2>4. ASSUME NEW b \in DOMAIN batches' PROVE OfSession(b)'
    <3>1. CASE b \in DOMAIN batches
      <4>1. batches'[b].opener = batches[b].opener /\ batches'[b].session = batches[b].session /\ OfSession(b)
        BY <1>1, <2>1, <3>1 DEF WorkEffect, BatchEffect, Grown
      <4> QED BY <1>4, <4>1 DEF OfSession, Has
    <3>2. CASE b \notin DOMAIN batches
      <4>1. batches'[b].opener = k.id /\ batches'[b].session = k.arg /\ k.op = "begin" /\ ForSession(k)
        BY <1>1, <2>1, <3>2 DEF WorkEffect, BatchEffect
      <4> QED BY <1>4, <4>1 DEF OfSession, ForSession, Has
    <3> QED BY <3>1, <3>2
  <2> QED BY <2>2, <2>3, <2>4
<1> QED BY <1>2, <1>3, <1>5, <1>6, ServerLinks

(* So does a request that becomes a task, *)
LEMMA DispatchLinks == ASSUME BaseInv, LinkInv, Dispatch, UNCHANGED <<gen, goVars>> PROVE LinkInv'
<1>1. /\ \A j \in DOMAIN in' : j \in Int /\ j + 1 \in DOMAIN in /\ in'[j] = in[j + 1]
      /\ 1 \in DOMAIN in /\ Head(in) = in[1] /\ in[1] \in Messages
  BY Base, MovesUp
<1>2. UNCHANGED <<live, out, batches, call, handle>> /\ in[1].op # "cancel" /\ (~aliased' => ~aliased /\ in[1].born \in {0, gen})
  BY <1>1 DEF Dispatch, goVars
<1>3. PICK x : x = NewTask(in[1])
  OBVIOUS
<1>4. x.id = in[1].id /\ x.op = in[1].op /\ x.arg = in[1].arg /\ tasks' = tasks \cup {x}
  BY <1>1, <1>2, <1>3, NewTaskOk, DispatchKeeps, Base
<1>5. \A j \in DOMAIN in' : j + 1 # 1
  <2>1. DOMAIN in' \subseteq Nat \ {0}
    BY Base DEF Dispatch, Types, ServerTypes
  <2> QED BY <2>1
<1>6. UniqueInv'
  <2>1. UniqueInv
    BY DEF LinkInv
  <2>2. \A i, j \in DOMAIN in' : in'[i].op # "cancel" /\ in'[j].op # "cancel" /\ in'[i].id = in'[j].id => i = j
    <3> SUFFICES ASSUME NEW i \in DOMAIN in', NEW j \in DOMAIN in', in'[i].op # "cancel", in'[j].op # "cancel", in'[i].id = in'[j].id
                 PROVE  i = j
      OBVIOUS
    <3>1. i + 1 = j + 1
      BY <1>1, <2>1 DEF UniqueInv
    <3> QED BY <1>1, <3>1
  <2>3. \A i \in DOMAIN in', k \in tasks' : in'[i].op # "cancel" /\ k.op # "cleanup" => in'[i].id # k.id
    <3> SUFFICES ASSUME NEW i \in DOMAIN in', NEW k \in tasks', in'[i].op # "cancel", k.op # "cleanup" PROVE in'[i].id # k.id
      OBVIOUS
    <3>1. i + 1 \in DOMAIN in /\ in'[i] = in[i + 1] /\ i + 1 # 1
      BY <1>1, <1>5
    <3> QED BY <1>1, <1>2, <1>4, <2>1, <3>1 DEF UniqueInv
  <2>4. \A k, l \in tasks' : k.op # "cleanup" /\ l.op # "cleanup" /\ k.id = l.id => k = l
    BY <1>1, <1>2, <1>4, <2>1 DEF UniqueInv
  <2>5. /\ \A r \in out', i \in DOMAIN in' : in'[i].op # "cancel" => in'[i].id # r.id
        /\ \A r \in out', k \in tasks' : k.op # "cleanup" => k.id # r.id
        /\ \A r, s \in out' : r.id = s.id => r = s
    BY <1>1, <1>2, <1>4, <2>1 DEF UniqueInv
  <2> QED BY <2>2, <2>3, <2>4, <2>5 DEF UniqueInv
<1>7. ASSUME NEW t \in Threads, Quiet(Id(t)) PROVE Quiet(Id(t))'
  <2>1. PICK id : id = Id(t)
    OBVIOUS
  <2>2. Id(t)' = id
    BY <1>2, <2>1 DEF Id
  <2> QED BY <1>1, <1>2, <1>4, <1>7, <2>1, <2>2 DEF Quiet
<1>8. SessionInv'
  <2> SUFFICES ASSUME ~aliased'
               PROVE  /\ (\A i \in DOMAIN in : in[i].born \in {0, gen} => ForSession(in[i]))'
                      /\ (\A l \in tasks : ForSession(l))'
                      /\ \A b \in DOMAIN batches' : OfSession(b)'
    BY DEF SessionInv
  <2>1. /\ \A i \in DOMAIN in : in[i].born \in {0, gen} => ForSession(in[i])
        /\ \A l \in tasks : ForSession(l)
        /\ \A b \in DOMAIN batches : OfSession(b)
    BY <1>2 DEF LinkInv, SessionInv
  <2>2. ASSUME NEW i \in DOMAIN in', in'[i].born \in {0, gen} PROVE (ForSession(in[i]))'
    <3>1. ForSession(in[i + 1]) /\ in'[i] = in[i + 1]
      BY <1>1, <2>1, <2>2
    <3> QED BY <1>2, <3>1 DEF ForSession, Has
  <2>3. ForSession(in[1])
    BY <1>1, <1>2, <2>1
  <2>4. ASSUME NEW l \in tasks' PROVE ForSession(l)'
    BY <1>2, <1>4, <2>1, <2>3 DEF ForSession, Has
  <2> QED BY <1>2, <2>1, <2>2, <2>4 DEF OfSession, Has
<1> QED BY <1>2, <1>6, <1>7, <1>8, ServerLinks

(* a cancellation that marks tasks, *)
LEMMA CancelFutureLinks == ASSUME BaseInv, LinkInv, CancelFuture, UNCHANGED <<gen, goVars>> PROVE LinkInv'
<1>1. \A j \in DOMAIN in' : j \in Int /\ j + 1 \in DOMAIN in /\ in'[j] = in[j + 1]
  BY Base, MovesUp
<1>2. UNCHANGED <<live, out, batches, call, handle, aliased>>
  BY DEF CancelFuture, goVars
<1>3. ASSUME NEW x \in tasks' PROVE \E k \in tasks : x.id = k.id /\ x.op = k.op /\ x.arg = k.arg
  BY Base, CancelFutureTasks DEF Same, Kept
<1>4. \A x, y \in tasks' : x.op # "cleanup" /\ y.op # "cleanup" /\ x.id = y.id => x = y
  BY Base, CancelFutureBack DEF LinkInv
<1>5. UniqueInv'
  <2>1. UniqueInv
    BY DEF LinkInv
  <2>2. \A i, j \in DOMAIN in' : in'[i].op # "cancel" /\ in'[j].op # "cancel" /\ in'[i].id = in'[j].id => i = j
    <3> SUFFICES ASSUME NEW i \in DOMAIN in', NEW j \in DOMAIN in', in'[i].op # "cancel", in'[j].op # "cancel", in'[i].id = in'[j].id
                 PROVE  i = j
      OBVIOUS
    <3>1. i + 1 = j + 1
      BY <1>1, <2>1 DEF UniqueInv
    <3> QED BY <1>1, <3>1
  <2>3. \A i \in DOMAIN in', k \in tasks' : in'[i].op # "cancel" /\ k.op # "cleanup" => in'[i].id # k.id
    BY <1>1, <1>3, <2>1 DEF UniqueInv
  <2>4. /\ \A r \in out', i \in DOMAIN in' : in'[i].op # "cancel" => in'[i].id # r.id
        /\ \A r \in out', k \in tasks' : k.op # "cleanup" => k.id # r.id
        /\ \A r, s \in out' : r.id = s.id => r = s
    BY <1>1, <1>2, <1>3, <2>1 DEF UniqueInv
  <2> QED BY <1>4, <2>2, <2>3, <2>4 DEF UniqueInv
<1>6. ASSUME NEW t \in Threads, Quiet(Id(t)) PROVE Quiet(Id(t))'
  <2>1. PICK id : id = Id(t)
    OBVIOUS
  <2>2. Id(t)' = id
    BY <1>2, <2>1 DEF Id
  <2> QED BY <1>1, <1>2, <1>3, <1>6, <2>1, <2>2 DEF Quiet
<1>7. SessionInv'
  <2> SUFFICES ASSUME ~aliased
               PROVE  /\ (\A i \in DOMAIN in : in[i].born \in {0, gen} => ForSession(in[i]))'
                      /\ (\A l \in tasks : ForSession(l))'
    BY <1>2 DEF SessionInv, LinkInv, OfSession, Has
  <2>1. /\ \A i \in DOMAIN in : in[i].born \in {0, gen} => ForSession(in[i])
        /\ \A l \in tasks : ForSession(l)
    BY DEF LinkInv, SessionInv
  <2>2. ASSUME NEW i \in DOMAIN in', in'[i].born \in {0, gen} PROVE (ForSession(in[i]))'
    <3>1. ForSession(in[i + 1]) /\ in'[i] = in[i + 1]
      BY <1>1, <2>1, <2>2
    <3> QED BY <1>2, <3>1 DEF ForSession, Has
  <2>3. ASSUME NEW l \in tasks' PROVE ForSession(l)'
    BY <1>2, <1>3, <2>1 DEF ForSession, Has
  <2> QED BY <2>2, <2>3
<1> QED BY <1>2, <1>5, <1>6, <1>7, ServerLinks

(* its scan, *)
LEMMA CancelBatchesLinks == ASSUME BaseInv, LinkInv, CancelBatches, UNCHANGED <<gen, goVars>> PROVE LinkInv'
<1>1. /\ DOMAIN batches' = DOMAIN batches
      /\ \A b \in DOMAIN batches : batches'[b].opener = batches[b].opener /\ batches'[b].session = batches[b].session
      /\ \A x \in tasks' : x \in tasks \/ x.op = "cleanup"
  BY Base, CancelBatchesFacts DEF Twin
<1>2. UNCHANGED <<live, in, out, aliased, call, handle>>
  BY DEF CancelBatches, goVars
<1>3. UniqueInv'
  BY <1>1, <1>2 DEF LinkInv, UniqueInv
<1>4. ASSUME NEW t \in Threads, Quiet(Id(t)) PROVE Quiet(Id(t))'
  <2>1. PICK id : id = Id(t)
    OBVIOUS
  <2>2. Id(t)' = id
    BY <1>2, <2>1 DEF Id
  <2> QED BY <1>1, <1>2, <1>4, <2>1, <2>2 DEF Quiet
<1>5. SessionInv'
  BY <1>1, <1>2 DEF LinkInv, SessionInv, ForSession, OfSession, Has
<1> QED BY <1>2, <1>3, <1>4, <1>5, ServerLinks

(* and so every step of the JVM. *)
LEMMA ServerLink == ASSUME BaseInv, LinkInv, ServerStep PROVE LinkInv'
BY WorkLinks, DispatchLinks, CancelFutureLinks, CancelBatchesLinks DEF ServerStep, ServerNext

(* What the threads put into the pipe: a request that is new to everybody, or a    *)
(* cancellation.                                                                   *)
NewInput(x, m) ==
    /\ m \in Messages /\ m.id = Id(x) /\ in' = Append(in, m)
    /\ \/ m.op = "cancel" /\ Sends(x) /\ cmd \in live
       \/ m.op # "cancel" /\ Writes(x) /\ m.op = call[x].op /\ m.born = Target(x).born /\ m.arg = Target(x).id

(* A step of a thread puts at most one such message into the pipe. *)
LEMMA ThreadInput == ASSUME BaseInv, ThreadEffect PROVE in' = in \/ \E x \in Threads : \E m : NewInput(x, m)
<1>1. ASSUME NEW x \in Threads, Writes(x) PROVE \E m : NewInput(x, m)
  <2>1. PICK m : m = Request(x)
    OBVIOUS
  <2>2. /\ m \in Messages /\ m.id = Id(x) /\ m.op = call[x].op /\ m.born = Target(x).born /\ m.arg = Target(x).id
        /\ call[x].op \in Ops \cup {"hello"}
    BY <1>1, <2>1, RequestType, TargetTypes DEF Writes, StartPcs
  <2>3. m.op # "cancel"
    BY <2>2 DEF Ops
  <2> QED BY <1>1, <2>1, <2>2, <2>3 DEF NewInput, Writes
<1>2. ASSUME NEW x \in Threads, Sends(x), in' # in PROVE \E m : NewInput(x, m)
  <2>1. PICK m : m = Cancellation(x)
    OBVIOUS
  <2>2. m \in Messages /\ m.id = Id(x) /\ m.op = "cancel"
    BY <2>1, CancellationType
  <2>3. cmd \in live /\ in' = Append(in, m)
    BY <1>2, <2>1 DEF Sends
  <2> QED BY <1>2, <2>2, <2>3 DEF NewInput
<1> QED BY <1>1, <1>2 DEF ThreadEffect

(* The pipe has one message more, at its end. *)
LEMMA InputGrows ==
    ASSUME Types, NEW x, NEW m, NewInput(x, m)
    PROVE  /\ DOMAIN in \subseteq Int /\ Len(in) + 1 \in Int /\ \A i \in DOMAIN in : i < Len(in) + 1
           /\ DOMAIN in' = DOMAIN in \cup {Len(in) + 1} /\ Len(in) + 1 \notin DOMAIN in
           /\ \A i \in DOMAIN in : in'[i] = in[i]
           /\ in'[Len(in) + 1] = m
<1>1. in \in Seq(Messages) /\ m \in Messages /\ in' = Append(in, m)
  BY DEF Types, ServerTypes, NewInput
<1>2. DOMAIN in = 1 .. Len(in) /\ Len(in) \in Nat
  BY <1>1
<1> QED BY <1>1, <1>2, SeqAppend

(* An id that is about to be written is nowhere. *)
LEMMA FreshId == ASSUME BaseInv, NEW x \in Threads, call[x].pc = "write" PROVE
    /\ \A i \in DOMAIN in : in[i].id # Id(x)
    /\ \A k \in tasks : k.id # Id(x)
    /\ \A r \in out : r.id # Id(x)
<1>1. Id(x).t = x /\ Id(x).n = call[x].n
  BY DEF Id
<1>2. ~UsedId(Id(x))
  BY <1>1 DEF UsedId
<1> QED BY <1>2, Base DEF IdInv

(* A session or batch that a thread has stays the same. *)
LEMMA HandleStable == ASSUME ThreadEffect, NEW x \in Threads, handle[x].born # 0 PROVE handle'[x] = handle[x]
BY DEF ThreadEffect, Kind, Still, Off, Registers, Captures, Writes, Misses, Ends, Cancels, Sends

(* No two requests get the same id: the one written is that of a call that had *)
(* written none.                                                               *)
LEMMA ThreadUnique == ASSUME BaseInv, UniqueInv, ThreadEffect PROVE UniqueInv'
<1>1. UNCHANGED <<tasks, out>>
  BY DEF ThreadEffect
<1>2. CASE in' = in
  BY <1>1, <1>2 DEF UniqueInv
<1>3. ASSUME NEW x \in Threads, NEW m, NewInput(x, m) PROVE UniqueInv'
  <2>1. /\ DOMAIN in' = DOMAIN in \cup {Len(in) + 1} /\ Len(in) + 1 \notin DOMAIN in
        /\ \A i \in DOMAIN in : in'[i] = in[i]
        /\ in'[Len(in) + 1] = m
    BY <1>3, Base, InputGrows
  <2>2. CASE m.op = "cancel"
    BY <1>1, <2>1, <2>2 DEF UniqueInv
  <2>3. CASE m.op # "cancel"
    <3>1. /\ \A i \in DOMAIN in : in[i].id # m.id
          /\ \A k \in tasks : k.id # m.id
          /\ \A r \in out : r.id # m.id
      BY <1>3, <2>3, FreshId DEF NewInput, Writes
    <3>2. PICK n : n = Len(in) + 1
      OBVIOUS
    <3> HIDE <1>3
    <3> QED BY <1>1, <2>1, <3>1, <3>2 DEF UniqueInv
  <2> QED BY <2>2, <2>3
<1> QED BY <1>2, <1>3, ThreadInput

(* A call that waits stays registered while the threads move. *)
LEMMA ThreadPend == ASSUME BaseInv, PendInv, ThreadEffect PROVE PendInv'
<1> SUFFICES ASSUME NEW t \in Threads, call'[t].pc \in Flying, answer'[t] = Empty PROVE Id(t)' \in pending'
  BY DEF PendInv
<1>1. Kind(t)
  BY DEF ThreadEffect
<1>2. CASE Still(t)
  <2>1. Id(t)' = Id(t) /\ Id(t) \in pending
    BY <1>2 DEF Still, Id, PendInv
  <2> QED BY <1>2, <2>1 DEF Still
<1>3. CASE Registers(t)
  BY <1>3 DEF Registers, Id
<1>4. CASE Captures(t) \/ Writes(t) \/ Misses(t)
  <2>1. Id(t)' = Id(t) /\ Id(t) \in pending
    BY <1>4 DEF Captures, Writes, Misses, Id, PendInv, Flying
  <2> QED BY <1>4, <2>1 DEF Captures, Writes, Misses
<1>5. CASE Off(t) \/ Ends(t) \/ Cancels(t) \/ Sends(t)
  BY <1>5 DEF Off, Ends, Cancels, Sends, Flying
<1> QED BY <1>1, <1>2, <1>3, <1>4, <1>5 DEF Kind

(* Requests and batches are still those of the sessions that writers have. *)
LEMMA ThreadSessions == ASSUME BaseInv, SessionInv, ThreadEffect PROVE SessionInv'
<1>1. UNCHANGED <<gen, tasks, out, batches, aliased>> /\ gen \in Nat
  BY Base DEF ThreadEffect, ManagerInv, ProcessInv
<1> SUFFICES ASSUME ~aliased
             PROVE  /\ (\A i \in DOMAIN in : in[i].born \in {0, gen} => ForSession(in[i]))'
                    /\ (\A l \in tasks : ForSession(l))'
                    /\ \A b \in DOMAIN batches : OfSession(b)'
  BY <1>1 DEF SessionInv
<1>2. /\ \A i \in DOMAIN in : in[i].born \in {0, gen} => ForSession(in[i])
      /\ \A l \in tasks : ForSession(l)
      /\ \A b \in DOMAIN batches : OfSession(b)
  BY DEF SessionInv
<1>0. ASSUME NEW x \in Threads, NEW s, Has(x, s) PROVE Has(x, s)'
  BY <1>0, <1>1, HandleStable DEF Has
<1>3. ASSUME NEW q, ForSession(q) PROVE ForSession(q)'
  <2>1. /\ q.op = "begin" => WriterOf[q.id.t] \in Threads
        /\ q.op = "close" => q.id.t \in Threads
    BY <1>3, ThreadsAssumption DEF ForSession
  <2> QED BY <1>0, <1>3, <2>1 DEF ForSession
<1>7. ASSUME NEW b \in DOMAIN batches PROVE OfSession(b)'
  <2>1. OfSession(b) /\ WriterOf[batches[b].opener.t] \in Threads
    BY <1>2, ThreadsAssumption DEF OfSession
  <2> QED BY <1>0, <1>1, <2>1 DEF OfSession
<1>4. (\A l \in tasks : ForSession(l))'
  BY <1>1, <1>2, <1>3
<1>5. CASE in' = in
  <2>1. ASSUME NEW i \in DOMAIN in', in'[i].born \in {0, gen} PROVE (ForSession(in[i]))'
    <3>1. PICK q : q = in[i]
      OBVIOUS
    <3>2. ForSession(q)'
      BY <1>2, <1>3, <1>5, <2>1, <3>1
    <3> QED BY <1>5, <3>1, <3>2
  <2> QED BY <1>1, <1>4, <1>7, <2>1
<1>6. ASSUME NEW x \in Threads, NEW m, NewInput(x, m) PROVE (\A i \in DOMAIN in : in[i].born \in {0, gen} => ForSession(in[i]))'
  <2>1. /\ DOMAIN in' = DOMAIN in \cup {Len(in) + 1}
        /\ \A i \in DOMAIN in : in'[i] = in[i]
        /\ in'[Len(in) + 1] = m
    BY <1>6, Base, InputGrows
  <2>2. ASSUME m.born \in {0, gen}, m.op = "begin" PROVE ForSession(m)
    <3>1. call[x].pc = "write" /\ call[x].op = "begin" /\ m.id = Id(x) /\ m.born = Target(x).born /\ m.arg = Target(x).id
      BY <1>6, <2>2 DEF NewInput, Writes
    <3>2. x \in Workers /\ WriterOf[x] \in Writers /\ Target(x) = handle[WriterOf[x]]
      BY <3>1, TargetTypes DEF StartPcs
    <3>3. phase[x] = "begin"
      <4>1. phase[x] \in Busy /\ CallOk(x)
        BY <3>1, Base, BusyThread DEF CallInv
      <4> QED BY <3>1, <4>1 DEF CallOk, OpOf, StartPcs, Busy, BatchPhases
    <3>4. phase[WriterOf[x]] = "copy"
      BY <3>2, <3>3, Base DEF CallInv, PairOk
    <3>5. handle[WriterOf[x]].born > 0
      BY <3>2, <3>4, Base, ThreadsAssumption DEF CallInv, CallOk
    <3>6. m.id.t = x
      BY <3>1 DEF Id
    <3> QED BY <1>1, <2>2, <3>1, <3>2, <3>5, <3>6 DEF ForSession, Has
  <2>6. ASSUME m.born \in {0, gen}, m.op = "close" PROVE ForSession(m)
    <3>1. call[x].pc = "write" /\ call[x].op = "close" /\ m.id = Id(x) /\ m.born = Target(x).born /\ m.arg = Target(x).id
      BY <1>6, <2>6 DEF NewInput, Writes
    <3>2. x \in Writers /\ Target(x) = handle[x]
      BY <3>1, TargetTypes DEF StartPcs
    <3>3. phase[x] \in Busy /\ CallOk(x)
      BY <3>1, Base, BusyThread DEF CallInv
    <3>4. phase[x] = "close"
      BY <3>1, <3>3 DEF CallOk, OpOf, StartPcs, Busy, BatchPhases
    <3>5. handle[x].born > 0 /\ m.id.t = x
      BY <3>1, <3>3, <3>4 DEF CallOk, Id
    <3> QED BY <1>1, <2>6, <3>1, <3>2, <3>5 DEF ForSession, Has
  <2>3. m.born \in {0, gen} => ForSession(m)'
    BY <1>3, <2>2, <2>6 DEF ForSession
  <2> SUFFICES ASSUME NEW i \in DOMAIN in', in'[i].born \in {0, gen'} PROVE (ForSession(in[i]))'
    OBVIOUS
  <2>4. PICK q : q = in'[i]
    OBVIOUS
  <2>5. ForSession(q)'
    <3>1. CASE i \in DOMAIN in
      BY <1>1, <1>2, <1>3, <2>1, <2>4, <3>1
    <3>2. CASE i = Len(in) + 1
      BY <1>1, <2>1, <2>3, <2>4, <3>2
    <3> QED BY <2>1, <3>1, <3>2
  <2> QED BY <2>4, <2>5
<1> QED BY <1>4, <1>5, <1>6, <1>7, ThreadInput

(* A call that waits for nothing more and does not move stays quiet. *)
LEMMA ThreadQuiet ==
    ASSUME BaseInv, ThreadEffect, NEW t \in Threads, call[t].pc = "await", Quiet(Id(t)), Still(t)
    PROVE  Quiet(Id(t))'
<1>1. UNCHANGED <<tasks, out>> /\ Id(t)' = Id(t)
  BY DEF ThreadEffect, Still, Id
<1>2. CASE in' = in
  BY <1>1, <1>2 DEF Quiet
<1>3. ASSUME NEW x \in Threads, NEW m, NewInput(x, m) PROVE Quiet(Id(t))'
  <2>1. /\ DOMAIN in' = DOMAIN in \cup {Len(in) + 1}
        /\ \A i \in DOMAIN in : in'[i] = in[i]
        /\ in'[Len(in) + 1] = m
    BY <1>3, Base, InputGrows
  <2>2. m.op # "cancel" => m.id # Id(t)
    <3>1. m.op # "cancel" => x # t
      BY <1>3 DEF NewInput, Writes
    <3> QED BY <1>3, <3>1, OtherIds DEF NewInput
  <2> QED BY <1>1, <2>1, <2>2 DEF Quiet
<1> QED BY <1>2, <1>3, ThreadInput

(* A request that was answered stays nowhere else. *)
LEMMA ThreadTold == ASSUME BaseInv, LinkInv, ThreadEffect PROVE ToldInv'
<1>1. UNCHANGED <<gen, cmd>> /\ \A x \in Threads : Kind(x)
  BY DEF ThreadEffect
<1>2. ASSUME NEW t \in Workers PROVE Told(t)'
  <2> SUFFICES ASSUME handle'[WriterOf[t]].born = gen', call'[t].pc \in Flying, cmd' # 0, answer'[t] # Empty
               PROVE  call'[t].pc = "await" /\ Quiet(Id(t))'
    BY DEF Told
  <2>1. t \in Threads /\ WriterOf[t] \in Writers /\ WriterOf[t] \in Threads /\ Kind(t) /\ t \notin Writers
    BY <1>1, ThreadsAssumption
  <2>2. Still(t) \/ Captures(t) \/ Writes(t) \/ Misses(t)
    BY <2>1 DEF Kind, Off, Registers, Ends, Cancels, Sends, Flying
  <2>3. answer[t] # Empty /\ call[t].pc \in Flying
    BY <2>2 DEF Still, Captures, Writes, Misses, Flying
  <2>4. handle[WriterOf[t]].born = gen
    <3>1. phase[t] \in Busy /\ CallOk(t)
      BY <2>1, <2>3, Base, BusyThread DEF CallInv, Flying
    <3>2. phase[t] \in {"begin", "exec"} \cup BatchPhases
      BY <3>1 DEF CallOk, Busy, WorkerPhases, BatchPhases
    <3>3. phase[WriterOf[t]] = "copy"
      BY <3>2, Base DEF CallInv, PairOk
    <3>4. handle[WriterOf[t]].born # 0
      BY <2>1, <3>3, Base DEF CallInv, CallOk
    <3> QED BY <1>1, <2>1, <3>4, HandleStable
  <2>5. call[t].pc = "await" /\ Quiet(Id(t))
    BY <1>1, <2>3, <2>4 DEF LinkInv, ToldInv, Told
  <2>6. Still(t)
    BY <2>2, <2>5 DEF Captures, Writes, Misses
  <2>7. call'[t].pc = "await"
    BY <2>5, <2>6 DEF Still
  <2> QED BY <2>1, <2>5, <2>6, <2>7, ThreadQuiet
<1>3. ASSUME NEW t \in Threads PROVE Succeeded(t)'
  <2> SUFFICES ASSUME call'[t].pc = "await", answer'[t].ok PROVE Quiet(Id(t))'
    BY DEF Succeeded
  <2>1. Still(t) \/ Writes(t) \/ Misses(t)
    BY <1>1 DEF Kind, Off, Registers, Captures, Ends, Cancels, Sends, Flying
  <2>2. ~Writes(t) /\ ~Misses(t)
    BY Base DEF Writes, Misses, IdInv
  <2>3. call[t].pc = "await" /\ answer[t].ok
    BY <2>1, <2>2 DEF Still
  <2>4. Quiet(Id(t))
    BY <2>3 DEF LinkInv, ToldInv, Succeeded
  <2> QED BY <2>1, <2>2, <2>3, <2>4, ThreadQuiet
<1> QED BY <1>2, <1>3 DEF ToldInv

(* A step of a thread keeps every request linked to its call. *)
LEMMA ThreadLinks == ASSUME BaseInv, LinkInv, ThreadEffect PROVE LinkInv'
BY ThreadUnique, ThreadPend, ThreadSessions, ThreadTold DEF LinkInv, ThreadEffect

(* A process is started, or dies. *)
LEMMA EnsureStartLinks == ASSUME BaseInv, BaseInv', LinkInv, NEW t \in Threads, EnsureStart(t) PROVE LinkInv'
<1>1. /\ UNCHANGED <<phase, handle, answer, pending>> /\ gen' = gen + 1 /\ gen \in Nat
      /\ in' = <<>> /\ out' = {} /\ tasks' = {} /\ batches' = <<>> /\ live' = {gen + 1}
  BY Base DEF EnsureStart, FreshProcess, ManagerInv, ProcessInv
<1>2. \A x \in Threads : call'[x] = call[x] \/ call'[x].pc = "register"
  <2>1. call[t] \in Calls /\ call \in [Threads -> Calls]
    BY Base, CallTypeFacts
  <2>2. [call[t] EXCEPT !.op = "hello", !.pc = "register"].pc = "register"
    BY <2>1 DEF Calls
  <2> QED BY <2>1, <2>2 DEF EnsureStart
<1>3. UniqueInv' /\ SessionInv'
  BY <1>1 DEF UniqueInv, SessionInv
<1>4. PendInv'
  BY <1>1, <1>2 DEF LinkInv, PendInv, Id, Flying
<1>5. ToldInv'
  <2>1. \A x \in Threads : handle[x].born # gen + 1
    BY <1>1, Base DEF CallInv, CallOk
  <2>2. \A x \in Workers : WriterOf[x] \in Threads
    BY ThreadsAssumption
  <2>3. \A x \in Threads : Succeeded(x)'
    BY <1>1, <1>2 DEF Succeeded, Quiet
  <2> QED BY <1>1, <2>1, <2>2, <2>3 DEF ToldInv, Told
<1>6. 0 \notin live'
  BY <1>1 DEF LinkInv
<1> QED BY <1>3, <1>4, <1>5, <1>6 DEF LinkInv

(* The manager hears of the end of a process, or had heard of it. *)
Ended ==
    /\ UNCHANGED <<gen, live, in, out, input, tasks, batches, aliased, phase, handle>>
    /\ \/ UNCHANGED <<cmd, pending, answer, call>>
       \/ /\ cmd' = 0 /\ pending' \in {{}, pending}
          /\ \A x \in Threads : call'[x] = call[x] \/ call'[x].pc = "reaped"
          /\ \A x \in Threads : (answer'[x] = answer[x] /\ (Id(x) \in pending => Id(x) \in pending')) \/ answer'[x] = Error

(* When the manager learns that a process died, or gives it up, calls only end. *)
LEMMA DiedEnded ==
    ASSUME BaseInv, NEW t, ((t \in Threads /\ HelloKill(t)) \/ (\E g : ReadEOF(g) \/ Reap(g)) \/ BadFrame)
    PROVE  Ended
<1>1. UNCHANGED <<gen, live, in, out, input, tasks, batches, aliased, phase, handle>>
  BY DEF HelloKill, ReadEOF, Reap, BadFrame, serverVars
<1>2. PICK g : ProcessDied(g)
  BY DEF HelloKill, ReadEOF, Reap, BadFrame
<1>3. \/ UNCHANGED <<cmd, pending, answer>>
      \/ /\ cmd' = 0 /\ pending' = {}
         /\ \A x \in Threads : answer'[x] = IF Id(x) \in pending THEN Error ELSE answer[x]
  BY <1>2 DEF ProcessDied
<1>4. CASE (\E h : ReadEOF(h) \/ Reap(h)) \/ BadFrame
  <2>1. call' = call
    BY <1>4 DEF ReadEOF, Reap, BadFrame
  <2> QED BY <1>1, <1>3, <2>1 DEF Ended
<1>5. CASE t \in Threads /\ HelloKill(t)
  <2>1. call[t] \in Calls /\ call \in [Threads -> Calls]
    BY <1>5, Base, CallTypeFacts
  <2>2. [call[t] EXCEPT !.pc = "reaped"].pc = "reaped"
    BY <2>1 DEF Calls
  <2>3. \A x \in Threads : call'[x] = call[x] \/ call'[x].pc = "reaped"
    BY <1>5, <2>1, <2>2 DEF HelloKill
  <2>4. ProcessDied(gen)
    BY <1>5 DEF HelloKill
  <2>5. \/ cmd' = 0 /\ UNCHANGED <<pending, answer>>
        \/ /\ cmd' = 0 /\ pending' = {}
           /\ \A x \in Threads : answer'[x] = IF Id(x) \in pending THEN Error ELSE answer[x]
    BY <2>4 DEF ProcessDied
  <2> QED BY <1>1, <2>3, <2>5 DEF Ended
<1> QED BY <1>4, <1>5

(* What a JVM that was given up does is not heard. *)
LEMMA DriftEnded ==
    ASSUME BaseInv, BadFrame \/ LateCommit \/ \E g \in adrift : AdriftExits(g)
    PROVE  Ended /\ UNCHANGED <<sessions, call>>
<1>1. CASE BadFrame
  BY <1>1, DiedEnded DEF BadFrame
<1>2. CASE LateCommit \/ \E g \in adrift : AdriftExits(g)
  BY <1>2 DEF LateCommit, AdriftExits, Ended
<1> QED BY <1>1, <1>2

(* Calls that end break no link. *)
LEMMA EndedLinks == ASSUME BaseInv, LinkInv, Ended PROVE LinkInv'
<1>1. UNCHANGED <<gen, live, in, out, tasks, batches, aliased, phase, handle>>
  BY DEF Ended
<1>2. UniqueInv' /\ SessionInv'
  BY <1>1 DEF LinkInv, UniqueInv, SessionInv, ForSession, OfSession, Has
<1>3. CASE UNCHANGED <<cmd, pending, answer, call>>
  BY <1>1, <1>2, <1>3 DEF LinkInv, PendInv, ToldInv, Told, Succeeded, Quiet, Id
<1>4. CASE /\ cmd' = 0
           /\ \A x \in Threads : call'[x] = call[x] \/ call'[x].pc = "reaped"
           /\ \A x \in Threads : (answer'[x] = answer[x] /\ (Id(x) \in pending => Id(x) \in pending')) \/ answer'[x] = Error
  <2>1. ToldInv'
    <3>1. \A x \in Workers : Told(x)'
      BY <1>4 DEF Told
    <3>2. ASSUME NEW x \in Threads, call'[x].pc = "await", answer'[x].ok PROVE Quiet(Id(x))'
      <4>1. call'[x] = call[x] /\ answer'[x] = answer[x]
        BY <1>4, <3>2, ErrorVal
      <4>2. Quiet(Id(x)) /\ Id(x)' = Id(x)
        BY <3>2, <4>1 DEF LinkInv, ToldInv, Succeeded, Id
      <4> QED BY <1>1, <4>2 DEF Quiet
    <3> QED BY <3>1, <3>2 DEF ToldInv, Succeeded
  <2>2. PendInv'
    <3> SUFFICES ASSUME NEW x \in Threads, call'[x].pc \in Flying, answer'[x] = Empty PROVE Id(x)' \in pending'
      BY DEF PendInv
    <3>1. Error # Empty
      BY DEF Error, Empty
    <3>2. call'[x] = call[x] /\ answer[x] = Empty /\ (Id(x) \in pending => Id(x) \in pending')
      BY <1>4, <3>1 DEF Flying
    <3> QED BY <3>2 DEF LinkInv, PendInv, Id
  <2> QED BY <1>1, <1>2, <2>1, <2>2 DEF LinkInv
<1> QED BY <1>3, <1>4 DEF Ended

(* A response that is delivered ends the request of its id. *)
LEMMA ReadResponseLinks == ASSUME BaseInv, LinkInv, NEW r \in out, ReadResponse(r) PROVE LinkInv'
<1>1. /\ UNCHANGED <<gen, live, in, tasks, batches, aliased, cmd, call, phase, handle>>
      /\ out' = out \ {r} /\ pending' = pending \ {r.id}
  BY DEF ReadResponse
<1>2. r \in Responses /\ UsedId(r.id) /\ r.id.t \in Threads
  BY Base DEF Types, ServerTypes, IdInv, Responses, Ids
<1>3. PICK a : a = [ok |-> r.ok, val |-> r.val]
  OBVIOUS
<1>4. a # Empty
  <2>1. a.val = r.val /\ r.val \in Nat /\ Empty.val = -1
    BY <1>2, <1>3 DEF Responses, Empty
  <2> QED BY <2>1
<1>5. \A t \in Threads : answer'[t] = IF r.id \in pending /\ t = r.id.t THEN a ELSE answer[t]
  BY <1>2, <1>3, Base DEF ReadResponse, Types, GoTypes
<1>6. UniqueInv' /\ SessionInv'
  BY <1>1 DEF LinkInv, UniqueInv, SessionInv, ForSession, OfSession, Has
<1>7. PendInv'
  <2> SUFFICES ASSUME NEW t \in Threads, call'[t].pc \in Flying, answer'[t] = Empty PROVE Id(t)' \in pending'
    BY DEF PendInv
  <2>1. ~(r.id \in pending /\ t = r.id.t) /\ answer[t] = Empty
    BY <1>4, <1>5
  <2>2. Id(t) \in pending /\ Id(t).t = t /\ Id(t)' = Id(t)
    BY <1>1, <2>1 DEF LinkInv, PendInv, Id
  <2> QED BY <1>1, <2>1, <2>2
<1>8. ToldInv'
  <2>1. \A t \in Threads : Id(t)' = Id(t)
    BY <1>1 DEF Id
  <2>2. ASSUME NEW t \in Threads, Quiet(Id(t)) PROVE Quiet(Id(t))'
    BY <1>1, <2>1, <2>2 DEF Quiet
  <2>3. ASSUME NEW t \in Threads, answer'[t] # answer[t], call[t].pc \in Flying PROVE call[t].pc = "await" /\ Quiet(Id(t))'
    <3>1. r.id \in pending /\ t = r.id.t
      BY <1>5, <2>3
    <3>2. r.id.n = call[t].n /\ r.id \in Ids
      BY <1>2, <3>1, Base DEF IdInv, Responses
    <3>3. r.id = Id(t)
      BY <3>1, <3>2 DEF Id, Ids
    <3>4. call[t].pc = "await"
      BY <1>2, <2>3, <3>1, <3>2 DEF UsedId, Flying
    <3>5. Quiet(Id(t))'
      BY <1>1, <2>1, <3>3 DEF Quiet, LinkInv, UniqueInv
    <3> QED BY <3>4, <3>5
  <2>4. ASSUME NEW t \in Workers PROVE Told(t)'
    <3>1. Told(t) /\ t \in Threads
      BY ThreadsAssumption DEF LinkInv, ToldInv
    <3> QED BY <1>1, <2>2, <2>3, <3>1 DEF Told
  <2>5. ASSUME NEW t \in Threads PROVE Succeeded(t)'
    <3>1. Succeeded(t)
      BY DEF LinkInv, ToldInv
    <3> QED BY <1>1, <2>2, <2>3, <3>1 DEF Succeeded, Flying
  <2> QED BY <2>4, <2>5 DEF ToldInv
<1> QED BY <1>1, <1>6, <1>7, <1>8 DEF LinkInv

(* The end of a process takes its requests with it. *)
LEMMA ExitLinks == ASSUME BaseInv, LinkInv, Killed \/ Crash PROVE LinkInv'
<1>1. /\ UNCHANGED <<gen, out, aliased, cmd, call, phase, handle, answer, pending>>
      /\ live' \subseteq live /\ in' = <<>> /\ tasks' = {} /\ batches' = <<>>
  BY DEF Killed, Crash, Exit, goVars
<1>2. UniqueInv' /\ SessionInv' /\ PendInv'
  BY <1>1 DEF LinkInv, UniqueInv, SessionInv, PendInv, Id
<1>3. ToldInv'
  BY <1>1 DEF LinkInv, ToldInv, Told, Succeeded, Quiet, Id
<1> QED BY <1>1, <1>2, <1>3 DEF LinkInv

(* Every request is in one place, and a call that was answered is nowhere else. *)
THEOREM LinksHold == Spec => []LinkInv
<1>1. Init => LinkInv
  <2> SUFFICES ASSUME Init PROVE LinkInv
    OBVIOUS
  <2>1. /\ in = <<>> /\ tasks = {} /\ batches = <<>> /\ out = {} /\ live = {} /\ \A t \in Threads : call[t] = Resting
    BY DEF Init, ServerInit
  <2>2. \A t \in Threads : call[t].pc \notin Flying
    BY <2>1 DEF Resting, Flying
  <2>3. "await" \in Flying
    BY DEF Flying
  <2> QED BY <2>1, <2>2, <2>3, ThreadsAssumption DEF LinkInv, UniqueInv, PendInv, SessionInv, ToldInv, Told, Succeeded
<1>2. BaseInv /\ BaseInv' /\ LinkInv /\ [Next]_vars => LinkInv'
  <2> SUFFICES ASSUME BaseInv, BaseInv', LinkInv, [Next]_vars PROVE LinkInv'
    OBVIOUS
  <2>1. ASSUME NEW t \in Threads, ThreadStep(t) \/ EnsureFails(t) \/ CtxDone(t) \/ JoinDone(t) PROVE LinkInv'
    <3>1. ThreadEffect \/ EnsureStart(t) \/ HelloKill(t)
      BY <2>1, ThreadKinds
    <3> QED BY <3>1, ThreadLinks, EnsureStartLinks, DiedEnded, EndedLinks
  <2>2. CASE UNCHANGED vars
    <3>1. UNCHANGED <<gen, live, in, out, input, tasks, batches, aliased, cmd, pending, answer, call, phase, handle>>
      BY <2>2 DEF vars, serverVars, goVars
    <3>2. Ended
      BY <3>1 DEF Ended
    <3> QED BY <3>2, EndedLinks
  <2>3. CASE ReaderStep
    <3>1. (\E r \in out : ReadResponse(r)) \/ Ended
      BY <2>3, DiedEnded DEF ReaderStep
    <3> QED BY <3>1, ReadResponseLinks, EndedLinks
  <2> QED BY <2>1, <2>2, <2>3, ServerLink, ExitLinks, DriftEnded, EndedLinks DEF Next
<1> QED BY <1>1, <1>2, BaseHolds, PTL DEF Spec

-----------------------------------------------------------------------------
(* The cancellation of a request is to come, or is in the pipe. *)
CancelSent(id) ==
    \/ call[id.t].pc = "cancel" /\ id.n = call[id.t].n
    \/ \E i \in DOMAIN in : in[i].op = "cancel" /\ in[i].id = id

(* A beginBatch in the pipe is waited for, or its cancellation comes after it. *)
AskOk(i) ==
    \/ Heard(in[i].id)
    \/ call[in[i].id.t].pc = "cancel" /\ in[i].id.n = call[in[i].id.t].n
    \/ \E j \in DOMAIN in : i < j /\ in[j].op = "cancel" /\ in[j].id = in[i].id

AskInv == \A i \in DOMAIN in : in[i].op = "begin" /\ in[i].born \in {0, gen} => AskOk(i)

(* A beginBatch that has not been checked is waited for, or it will see that it is not. *)
EarlyInv ==
    \A k \in tasks : k.op = "begin" /\ k.pc \in Early => Heard(k.id) \/ k.cancelled \/ CancelSent(k.id)

(* Somebody waits for the id of batch b, and it is on its way to him. *)
Coming(id, b) ==
    /\ Heard(id) /\ phase[id.t] = "begin" /\ handle[WriterOf[id.t]].born = gen /\ call[id.t].w = gen
    /\ \/ \E k \in tasks : k.id = id /\ k.op = "begin" /\ k.pc = "reply" /\ k.ok /\ k.val = b
       \/ \E r \in out : r.id = id /\ r.ok /\ r.val = b
       \/ answer[id.t].ok /\ answer[id.t].val = b

(* Batch b that request id opened: a worker has it, will have it, or it will be discarded. *)
Owned(id, b) ==
    \/ handle[id.t] = [id |-> b, born |-> gen]
    \/ CancelSent(id)
    \/ input = id
    \/ \E k \in tasks : b \in k.todo
    \/ \E k \in tasks : k.id = id /\ k.op = "begin" /\ k.pc = "check" /\ k.val = b
    \/ Coming(id, b)

OwnedInv == \A b \in DOMAIN batches : batches[b].mapped => Owned(batches[b].opener, b)

KnownInv == ~aliased /\ cmd \in live => AskInv /\ EarlyInv /\ OwnedInv

(* A beginBatch that is waited for: who waits, and for which process. *)
LEMMA HeardBegin ==
    ASSUME BaseInv, SessionInv, ~aliased, NEW q, Fits(q), ForSession(q), q.op = "begin", q.id \in Ids, Heard(q.id)
    PROVE  /\ phase[q.id.t] = "begin" /\ handle[WriterOf[q.id.t]].born = gen /\ call[q.id.t].w = gen
           /\ q.id.t \in Workers /\ q.id = Id(q.id.t)
<1>1. q.id.t \in Threads /\ q.id = Id(q.id.t)
  BY DEF Ids, Heard, Id
<1>2. call[q.id.t].op = "begin" /\ call[q.id.t].w = gen /\ call[q.id.t].pc = "await"
  BY DEF Fits, Heard
<1>3. phase[q.id.t] \in Busy /\ CallOk(q.id.t)
  BY <1>1, <1>2, Base, BusyThread DEF CallInv
<1>4. phase[q.id.t] = "begin"
  BY <1>2, <1>3 DEF CallOk, OpOf, StartPcs, Busy, BatchPhases
<1> QED BY <1>1, <1>2, <1>4 DEF ForSession, Has

(* The opener of a batch is the id of a request of a thread. *)
LEMMA BatchOpener == ASSUME BaseInv, NEW b \in DOMAIN batches PROVE batches[b].opener \in Ids /\ batches[b].opener.t \in Threads
BY Base, BatchDomain DEF Batches, Ids

(* A step of a worker. *)
LEMMA WorkKnown ==
    ASSUME BaseInv, PageInv, LinkInv, AskInv, EarlyInv, OwnedInv, ~aliased, NEW k \in tasks, Work(k), UNCHANGED <<gen, goVars>>
    PROVE  AskInv' /\ EarlyInv' /\ OwnedInv'
<1>1. TaskShape(k) /\ WorkEffect(k)
  BY Base, WorkShape, WorkEffects
<1>2. UNCHANGED <<gen, live, in, input, aliased, call, phase, handle, answer>>
  BY <1>1 DEF WorkEffect, goVars
<1>3. \A id : (Heard(id) => Heard(id)') /\ (CancelSent(id) => CancelSent(id)')
  BY <1>2 DEF Heard, CancelSent
<1>4. AskInv'
  BY <1>2 DEF AskInv, AskOk, Heard
<1>5. EarlyInv'
  <2> SUFFICES ASSUME NEW x \in tasks', x.op = "begin", x.pc \in Early PROVE Heard(x.id)' \/ x.cancelled \/ CancelSent(x.id)'
    BY DEF EarlyInv
  <2>1. CASE x \in tasks
    BY <1>3, <2>1 DEF EarlyInv
  <2>2. CASE x \notin tasks
    <3>1. Follows(k, x)
      BY <1>1, <2>2 DEF TaskShape
    <3>2. k.op = "begin" /\ k.pc \in Early /\ x.cancelled = k.cancelled /\ x.id = k.id
      BY <3>1 DEF Follows, Kept
    <3> QED BY <1>3, <3>2 DEF EarlyInv
  <2> QED BY <2>1, <2>2
<1>6. OwnedInv'
  <2> SUFFICES ASSUME NEW b \in DOMAIN batches', batches'[b].mapped PROVE (Owned(batches[b].opener, b))'
    BY DEF OwnedInv
  <2>1. CASE b \notin DOMAIN batches
    <3>1. batches'[b].opener = k.id /\ k.op = "begin"
      BY <1>1, <2>1 DEF WorkEffect, BatchEffect
    <3>2. PICK x \in tasks' : Follows(k, x)
      BY <1>1, <2>1 DEF TaskShape
    <3>3. x.id = k.id /\ x.op = "begin" /\ x.pc = "check" /\ x.val = b
      BY <2>1, <3>1, <3>2 DEF Follows, Kept
    <3> QED BY <3>1, <3>3 DEF Owned
  <2>2. CASE b \in DOMAIN batches
    <3>1. PICK id : id = batches[b].opener
      OBVIOUS
    <3>2. batches'[b].opener = id /\ Owned(id, b)
      BY <1>1, <2>2, <3>1 DEF WorkEffect, BatchEffect, Grown, OwnedInv
    <3> SUFFICES Owned(id, b)'
      BY <3>2
    <3>3. CASE handle[id.t] = [id |-> b, born |-> gen] \/ CancelSent(id) \/ input = id
      BY <1>2, <1>3, <3>3 DEF Owned
    <3>4. ASSUME NEW l \in tasks, b \in l.todo PROVE Owned(id, b)'
      <4>1. CASE l \in tasks'
        BY <3>4, <4>1 DEF Owned
      <4>2. CASE l \notin tasks'
        <5>1. PICK x \in tasks' : Follows(l, x)
          BY <1>1, <3>4, <4>2 DEF TaskShape
        <5>2. b \in x.todo
          BY <3>4, <5>1 DEF Follows
        <5> QED BY <5>2 DEF Owned
      <4> QED BY <4>1, <4>2
    <3>5. ASSUME NEW l \in tasks, l.id = id, l.op = "begin", l.pc = "check", l.val = b PROVE Owned(id, b)'
      <4>1. CASE l \in tasks'
        BY <3>5, <4>1 DEF Owned
      <4>2. CASE l \notin tasks'
        <5>1. PICK x \in tasks' : Follows(l, x)
          BY <1>1, <3>5, <4>2 DEF TaskShape
        <5>2. CASE b \in x.todo
          BY <5>2 DEF Owned
        <5>3. CASE b \notin x.todo
          <6>1. x.pc = "reply" /\ x.ok /\ x.val = b /\ ~l.cancelled /\ x.id = id /\ x.op = "begin"
            BY <3>5, <5>1, <5>3 DEF Follows, Kept
          <6>2. Heard(id) \/ CancelSent(id)
            BY <3>5, <6>1 DEF EarlyInv, Early
          <6>3. CASE CancelSent(id)
            BY <1>3, <6>3 DEF Owned
          <6>4. CASE Heard(id)
            <7>1. Fits(l) /\ ForSession(l) /\ l.id \in Ids
              BY <3>5, Base DEF PageInv, FitsInv, LinkInv, SessionInv, Types, ServerTypes, Tasks
            <7>2. phase[id.t] = "begin" /\ handle[WriterOf[id.t]].born = gen /\ call[id.t].w = gen
              BY <3>5, <6>4, <7>1, HeardBegin DEF LinkInv
            <7>3. Coming(id, b)'
              BY <1>2, <1>3, <6>1, <6>4, <7>2 DEF Coming
            <7> QED BY <7>3 DEF Owned
          <6> QED BY <6>2, <6>3, <6>4
        <5> QED BY <5>2, <5>3
      <4> QED BY <4>1, <4>2
    <3>6. CASE Coming(id, b)
      <4>1. Heard(id)' /\ phase'[id.t] = "begin" /\ handle'[WriterOf[id.t]].born = gen' /\ call'[id.t].w = gen'
        BY <1>2, <1>3, <3>6 DEF Coming
      <4>2. ASSUME NEW l \in tasks, l.id = id, l.op = "begin", l.pc = "reply", l.ok, l.val = b PROVE Coming(id, b)'
        <5>1. CASE l \in tasks'
          BY <4>1, <4>2, <5>1 DEF Coming
        <5>2. CASE l \notin tasks'
          <6>1. out' = out \cup {Response(l)}
            BY <1>1, <4>2, <5>2 DEF TaskShape, Follows
          <6>2. PICK r : r = Response(l)
            OBVIOUS
          <6>3. r \in out' /\ r.id = id /\ r.ok /\ r.val = b
            BY <4>2, <6>1, <6>2 DEF Response
          <6> QED BY <4>1, <6>3 DEF Coming
        <5> QED BY <5>1, <5>2
      <4>3. out \subseteq out'
        BY <1>1 DEF WorkEffect
      <4>4. Coming(id, b)'
        BY <1>2, <3>6, <4>1, <4>2, <4>3 DEF Coming
      <4> QED BY <4>4 DEF Owned
    <3> QED BY <3>2, <3>3, <3>4, <3>5, <3>6 DEF Owned
  <2> QED BY <2>1, <2>2
<1> QED BY <1>4, <1>5, <1>6

(* The input thread takes a request from the pipe: cancellations behind it stay. *)
LEMMA TakenKnown ==
    ASSUME BaseInv, AskInv, Dispatch \/ CancelFuture, UNCHANGED <<gen, goVars>>
    PROVE  /\ AskInv' /\ \A id : Heard(id) => Heard(id)'
           /\ \A id : CancelSent(id) => CancelSent(id)' \/ (in[1].op = "cancel" /\ in[1].id = id)
<1>1. /\ \A j \in DOMAIN in' : j \in Int /\ j + 1 \in DOMAIN in /\ in'[j] = in[j + 1]
      /\ \A j \in DOMAIN in : j \in Int /\ j >= 1 /\ (j > 1 => j - 1 \in DOMAIN in' /\ in'[j - 1] = in[j])
  BY Base, MovesUp
<1>2. UNCHANGED <<gen, call>>
  BY DEF goVars
<1>3. \A id : Heard(id) => Heard(id)'
  BY <1>2 DEF Heard
<1>4. \A id : CancelSent(id) => CancelSent(id)' \/ (in[1].op = "cancel" /\ in[1].id = id)
  <2> SUFFICES ASSUME NEW id, CancelSent(id), ~(in[1].op = "cancel" /\ in[1].id = id) PROVE CancelSent(id)'
    OBVIOUS
  <2>1. CASE call[id.t].pc = "cancel" /\ id.n = call[id.t].n
    BY <1>2, <2>1 DEF CancelSent
  <2>2. ASSUME NEW i \in DOMAIN in, in[i].op = "cancel", in[i].id = id PROVE CancelSent(id)'
    <3>1. i # 1
      BY <2>2
    <3>2. i > 1
      BY <1>1, <3>1
    <3>3. i - 1 \in DOMAIN in' /\ in'[i - 1] = in[i]
      BY <1>1, <3>2
    <3> QED BY <2>2, <3>3 DEF CancelSent
  <2> QED BY <2>1, <2>2 DEF CancelSent
<1>5. AskInv'
  <2> SUFFICES ASSUME NEW i \in DOMAIN in', in'[i].op = "begin", in'[i].born \in {0, gen} PROVE AskOk(i)'
    BY <1>2 DEF AskInv
  <2>1. i + 1 \in DOMAIN in /\ in'[i] = in[i + 1] /\ i \in Int
    BY <1>1
  <2>2. PICK id : id = in[i + 1].id
    OBVIOUS
  <2>3. AskOk(i + 1)
    BY <2>1 DEF AskInv
  <2>4. CASE Heard(id) \/ (call[id.t].pc = "cancel" /\ id.n = call[id.t].n)
    BY <1>2, <2>1, <2>2, <2>4 DEF AskOk, Heard
  <2>5. ASSUME NEW j \in DOMAIN in, i + 1 < j, in[j].op = "cancel", in[j].id = id PROVE AskOk(i)'
    <3>1. j \in Int /\ i + 1 >= 1
      BY <1>1, <2>1
    <3>2. j > 1 /\ i < j - 1
      BY <2>1, <2>5, <3>1
    <3>3. j - 1 \in DOMAIN in' /\ in'[j - 1] = in[j]
      BY <1>1, <3>2
    <3> QED BY <2>1, <2>2, <2>5, <3>2, <3>3 DEF AskOk
  <2> QED BY <2>2, <2>3, <2>4, <2>5 DEF AskOk
<1> QED BY <1>3, <1>4, <1>5

(* A beginBatch that is dispatched is still waited for or cancelled. *)
LEMMA DispatchKnown ==
    ASSUME BaseInv, AskInv, EarlyInv, OwnedInv, ~aliased', Dispatch, UNCHANGED <<gen, goVars>>
    PROVE  AskInv' /\ EarlyInv' /\ OwnedInv'
<1>1. 1 \in DOMAIN in /\ Head(in) = in[1] /\ in[1] \in Messages
  BY Base, MovesUp
<1>2. /\ UNCHANGED <<input, out, batches, call, phase, handle, answer>> /\ in[1].op # "cancel" /\ in[1].born \in {0, gen}
  BY <1>1 DEF Dispatch, goVars
<1>3. PICK x : x = NewTask(in[1])
  OBVIOUS
<1>4. x.id = in[1].id /\ x.op = in[1].op /\ tasks' = tasks \cup {x}
  BY <1>1, <1>2, <1>3, NewTaskOk, DispatchKeeps, Base
<1>5. AskInv' /\ \A id : (Heard(id) => Heard(id)') /\ (CancelSent(id) => CancelSent(id)')
  BY <1>2, TakenKnown
<1>6. x.op = "begin" => Heard(x.id)' \/ CancelSent(x.id)'
  <2> SUFFICES ASSUME x.op = "begin" PROVE Heard(x.id) \/ CancelSent(x.id)
    BY <1>5
  <2>1. AskOk(1)
    BY <1>1, <1>2, <1>4 DEF AskInv
  <2> QED BY <1>4, <2>1 DEF AskOk, CancelSent
<1>7. EarlyInv'
  BY <1>4, <1>5, <1>6 DEF EarlyInv
<1>8. OwnedInv'
  <2> SUFFICES ASSUME NEW b \in DOMAIN batches, batches[b].mapped PROVE (Owned(batches[b].opener, b))'
    BY <1>2 DEF OwnedInv
  <2>1. PICK id : id = batches[b].opener
    OBVIOUS
  <2>2. Owned(id, b)
    BY <2>1 DEF OwnedInv
  <2>3. Owned(id, b)'
    <3>1. Coming(id, b) => Coming(id, b)'
      BY <1>2, <1>4, <1>5 DEF Coming
    <3>2. tasks \subseteq tasks' /\ gen' = gen
      BY <1>4
    <3> QED BY <1>2, <1>5, <2>2, <3>1, <3>2 DEF Owned
  <2> QED BY <1>2, <2>1, <2>3
<1> QED BY <1>5, <1>7, <1>8

(* A cancellation that is read marks the request, or is about to scan for its *)
(* batches.                                                                   *)
LEMMA CancelFutureKnown ==
    ASSUME BaseInv, LinkInv, AskInv, EarlyInv, OwnedInv, CancelFuture, UNCHANGED <<gen, goVars>>
    PROVE  AskInv' /\ EarlyInv' /\ OwnedInv'
<1>1. Head(in) = in[1]
  BY Base, MovesUp
<1>2. /\ UNCHANGED <<gen, out, batches, call, phase, handle, answer>> /\ input' = in[1].id /\ input = NoTarget
  BY <1>1 DEF CancelFuture, goVars
<1>3. /\ AskInv' /\ \A id : Heard(id) => Heard(id)'
      /\ \A id : CancelSent(id) => CancelSent(id)' \/ input' = id
  BY <1>2, TakenKnown
<1>4. EarlyInv'
  <2> SUFFICES ASSUME NEW x \in tasks', x.op = "begin", x.pc \in Early PROVE Heard(x.id)' \/ x.cancelled \/ CancelSent(x.id)'
    BY DEF EarlyInv
  <2>1. PICK k \in tasks : Same(k, x) /\ (k.id = in[1].id => x.cancelled)
    BY <1>1, Base, CancelFutureTasks
  <2>2. k.id = x.id /\ k.op = x.op /\ k.pc = x.pc /\ (k.cancelled => x.cancelled)
    BY <2>1 DEF Same, Kept
  <2> QED BY <1>2, <1>3, <2>1, <2>2 DEF EarlyInv
<1>5. OwnedInv'
  <2> SUFFICES ASSUME NEW b \in DOMAIN batches, batches[b].mapped PROVE (Owned(batches[b].opener, b))'
    BY <1>2 DEF OwnedInv
  <2>1. PICK id : id = batches[b].opener
    OBVIOUS
  <2>2. Owned(id, b) /\ id.t \in Threads
    BY <2>1, BatchOpener DEF OwnedInv
  <2> SUFFICES Owned(id, b)'
    BY <1>2, <2>1
  <2>3. input # id
    BY <1>2, <2>2, ThreadsAssumption DEF NoTarget
  <2>4. ASSUME NEW k \in tasks, k.pc # "queued"
        PROVE  \E x \in tasks' : x.id = k.id /\ x.op = k.op /\ x.pc = k.pc /\ x.ok = k.ok /\ x.val = k.val /\ x.todo = k.todo
    <3>1. PICK x \in tasks' : Same(k, x)
      BY <2>4, Base, CancelFutureBack DEF LinkInv
    <3> QED BY <3>1 DEF Same, Kept
  <2>5. CASE handle[id.t] = [id |-> b, born |-> gen] \/ CancelSent(id)
    BY <1>2, <1>3, <2>5 DEF Owned
  <2>6. ASSUME NEW k \in tasks, b \in k.todo PROVE Owned(id, b)'
    <3>1. k.pc # "queued"
      BY <2>6, Base, QueuedTask
    <3>2. \E x \in tasks' : b \in x.todo
      BY <2>4, <2>6, <3>1
    <3> QED BY <3>2 DEF Owned
  <2>7. ASSUME NEW k \in tasks, k.id = id, k.op = "begin", k.pc = "check", k.val = b PROVE Owned(id, b)'
    <3>1. \E x \in tasks' : x.id = id /\ x.op = "begin" /\ x.pc = "check" /\ x.val = b
      BY <2>4, <2>7
    <3> QED BY <3>1 DEF Owned
  <2>8. CASE Coming(id, b)
    <3>1. ASSUME NEW k \in tasks, k.id = id, k.op = "begin", k.pc = "reply", k.ok, k.val = b
          PROVE  \E x \in tasks' : x.id = id /\ x.op = "begin" /\ x.pc = "reply" /\ x.ok /\ x.val = b
      BY <2>4, <3>1
    <3>2. Coming(id, b)'
      BY <1>2, <1>3, <2>8, <3>1 DEF Coming
    <3> QED BY <3>2 DEF Owned
  <2> QED BY <2>2, <2>3, <2>5, <2>6, <2>7, <2>8 DEF Owned
<1> QED BY <1>3, <1>4, <1>5

(* The scan puts the batches of the request on the list of a task. *)
LEMMA CancelBatchesKnown ==
    ASSUME BaseInv, AskInv, EarlyInv, OwnedInv, CancelBatches, UNCHANGED <<gen, goVars>>
    PROVE  AskInv' /\ EarlyInv' /\ OwnedInv'
<1>1. /\ DOMAIN batches' = DOMAIN batches /\ tasks \subseteq tasks'
      /\ \A b \in DOMAIN batches : batches'[b].opener = batches[b].opener /\ batches'[b].mapped = batches[b].mapped
      /\ \A x \in tasks' : x \in tasks \/ x.op = "cleanup"
  BY Base, CancelBatchesFacts DEF Twin
<1>2. UNCHANGED <<gen, in, out, call, phase, handle, answer>>
  BY DEF CancelBatches, goVars
<1>3. \A id : (Heard(id) => Heard(id)') /\ (CancelSent(id) => CancelSent(id)')
  BY <1>2 DEF Heard, CancelSent
<1>4. AskInv'
  BY <1>2 DEF AskInv, AskOk, Heard
<1>5. EarlyInv'
  BY <1>1, <1>3 DEF EarlyInv
<1>6. OwnedInv'
  <2> SUFFICES ASSUME NEW b \in DOMAIN batches, batches[b].mapped PROVE (Owned(batches[b].opener, b))'
    BY <1>1 DEF OwnedInv
  <2>1. PICK id : id = batches[b].opener
    OBVIOUS
  <2>2. Owned(id, b)
    BY <2>1 DEF OwnedInv
  <2>3. CASE input = id
    <3>1. PICK B : B = BatchesOf(input)
      OBVIOUS
    <3>2. b \in B
      BY <2>1, <2>3, <3>1 DEF BatchesOf
    <3>3. PICK x : x = Cleanup(B)
      OBVIOUS
    <3>4. x \in tasks'
      BY <3>1, <3>2, <3>3 DEF CancelBatches, Cleanup
    <3>5. b \in x.todo
      BY <3>2, <3>3 DEF Cleanup
    <3> QED BY <1>1, <2>1, <3>4, <3>5 DEF Owned
  <2>4. CASE input # id
    <3>1. Coming(id, b) => Coming(id, b)'
      BY <1>1, <1>2, <1>3 DEF Coming
    <3>2. Owned(id, b)'
      BY <1>1, <1>2, <1>3, <2>2, <2>4, <3>1 DEF Owned
    <3> QED BY <1>1, <2>1, <3>2
  <2> QED BY <2>3, <2>4
<1> QED BY <1>4, <1>5, <1>6

(* No step of the JVM leaves a batch that nobody will discard. *)
LEMMA ServerKnown == ASSUME BaseInv, PageInv, LinkInv, KnownInv, ServerStep PROVE KnownInv'
<1> SUFFICES ASSUME ~aliased', cmd' \in live' PROVE AskInv' /\ EarlyInv' /\ OwnedInv'
  BY DEF KnownInv
<1>1. UNCHANGED <<gen, goVars>>
  BY DEF ServerStep
<1>2. ~aliased /\ live' = live /\ cmd' = cmd
  BY Base, WorkEffects DEF ServerStep, ServerNext, Dispatch, CancelFuture, CancelBatches, WorkEffect, goVars
<1> QED BY <1>1, <1>2, WorkKnown, DispatchKnown, CancelFutureKnown, CancelBatchesKnown
    DEF ServerStep, ServerNext, KnownInv

(* An answered beginBatch is in no place where KnownInv would look for it. *)
LEMMA AnsweredQuiet ==
    ASSUME LinkInv, cmd # 0, NEW t \in Workers, phase[t] = "begin", handle[WriterOf[t]].born = gen, call[t].pc = "await",
           answer[t] # Empty
    PROVE  Quiet(Id(t))
BY DEF LinkInv, ToldInv, Told, Flying

(* What a step of the threads does to a request that is waited for, *)
LEMMA HeardOn ==
    ASSUME ThreadEffect, NEW id \in Ids, Heard(id)
    PROVE  Still(id.t) \/ Ends(id.t) \/ (call'[id.t].pc = "cancel" /\ id.n = call'[id.t].n)
<1>1. Kind(id.t) /\ call[id.t].pc = "await" /\ id.n = call[id.t].n
  BY DEF ThreadEffect, Heard, Ids
<1>2. CASE Cancels(id.t)
  BY <1>1, <1>2 DEF Cancels
<1> QED BY <1>1, <1>2 DEF Kind, Off, Registers, Captures, Writes, Misses, Sends

(* and to one that is given up. *)
LEMMA CancelOn ==
    ASSUME BaseInv, ThreadEffect, cmd \in live, NEW id \in Ids, call[id.t].pc = "cancel", id.n = call[id.t].n
    PROVE  \/ call'[id.t].pc = "cancel" /\ id.n = call'[id.t].n
           \/ \E m : NewInput(id.t, m) /\ m.op = "cancel" /\ m.id = id
<1>1. Kind(id.t) /\ id = Id(id.t) /\ id.t \in Threads
  BY DEF ThreadEffect, Ids, Id
<1>2. Still(id.t) \/ Sends(id.t)
  BY <1>1 DEF Kind, Off, Registers, Captures, Writes, Misses, Ends, Cancels
<1>3. CASE Still(id.t)
  BY <1>3 DEF Still
<1>4. CASE Sends(id.t)
  <2>1. PICK m : m = Cancellation(id.t)
    OBVIOUS
  <2>2. m \in Messages /\ m.id = Id(id.t) /\ m.op = "cancel"
    BY <1>1, <2>1, CancellationType
  <2>3. in' = Append(in, m)
    BY <1>4, <2>1 DEF Sends
  <2> QED BY <1>1, <1>4, <2>2, <2>3 DEF NewInput
<1> QED BY <1>2, <1>3, <1>4

(* The pipe keeps what is in it. *)
LEMMA InputKept ==
    ASSUME BaseInv, ThreadEffect
    PROVE  /\ \A i \in DOMAIN in : i \in Int /\ i \in DOMAIN in' /\ in'[i] = in[i]
           /\ \A x, m : NewInput(x, m) => \E j \in DOMAIN in' : in'[j] = m /\ \A i \in DOMAIN in : i < j
           /\ \A j \in DOMAIN in' \ DOMAIN in : \E x \in Threads : NewInput(x, in'[j])
<1>1. ASSUME NEW x, NEW m, NewInput(x, m)
      PROVE  /\ \A i \in DOMAIN in : i \in Int /\ i \in DOMAIN in' /\ in'[i] = in[i]
             /\ \E j \in DOMAIN in' : in'[j] = m /\ \A i \in DOMAIN in : i < j
             /\ \A j \in DOMAIN in' \ DOMAIN in : in'[j] = m
  BY <1>1, Base, InputGrows
<1>2. DOMAIN in \subseteq Int
  BY Base DEF Types, ServerTypes
<1> QED BY <1>1, <1>2, ThreadInput

(* A cancellation that is to come is written. *)
LEMMA CancelKept == ASSUME BaseInv, ThreadEffect, cmd \in live, NEW id \in Ids, CancelSent(id) PROVE CancelSent(id)'
<1>1. CASE call[id.t].pc = "cancel" /\ id.n = call[id.t].n
  BY <1>1, CancelOn, InputKept DEF CancelSent
<1>2. CASE \E i \in DOMAIN in : in[i].op = "cancel" /\ in[i].id = id
  BY <1>2, InputKept DEF CancelSent
<1> QED BY <1>1, <1>2 DEF CancelSent

(* A beginBatch that somebody waits for and that is in the pipe or at work: he goes *)
(* on to wait, or has given up.                                                     *)
LEMMA AskedOn ==
    ASSUME BaseInv, LinkInv, ThreadEffect, ~aliased, cmd # 0, NEW q, Fits(q), ForSession(q), q.op = "begin", q.id \in Ids,
           Heard(q.id), ~Quiet(q.id)
    PROVE  Still(q.id.t) \/ (call'[q.id.t].pc = "cancel" /\ q.id.n = call'[q.id.t].n)
<1>1. /\ phase[q.id.t] = "begin" /\ handle[WriterOf[q.id.t]].born = gen
      /\ q.id.t \in Workers /\ q.id = Id(q.id.t)
  BY HeardBegin DEF LinkInv
<1>2. ~Ends(q.id.t)
  BY <1>1, AnsweredQuiet DEF Ends
<1> QED BY <1>2, HeardOn

(* No thread leaves a batch behind: it has the id, or it sends the *)
(* cancellation.                                                   *)
LEMMA ThreadKnown == ASSUME BaseInv, PageInv, LinkInv, KnownInv, ThreadEffect PROVE KnownInv'
<1>1. UNCHANGED <<gen, live, out, input, tasks, batches, cmd, aliased>>
  BY DEF ThreadEffect
<1> SUFFICES ASSUME ~aliased, cmd \in live PROVE AskInv' /\ EarlyInv' /\ OwnedInv'
  BY <1>1 DEF KnownInv
<1>2. AskInv /\ EarlyInv /\ OwnedInv /\ cmd # 0 /\ SessionInv /\ FitsInv /\ gen # 0
  BY Base DEF KnownInv, LinkInv, PageInv, ManagerInv, ProcessInv
<1>3. \A id \in Ids : CancelSent(id) => CancelSent(id)'
  BY CancelKept
<1>4. AskInv'
  <2> SUFFICES ASSUME NEW i \in DOMAIN in', in'[i].op = "begin", in'[i].born \in {0, gen} PROVE AskOk(i)'
    BY <1>1 DEF AskInv
  <2>1. CASE i \in DOMAIN in
    <3>1. PICK q : q = in[i]
      OBVIOUS
    <3>2. in'[i] = q /\ q \in Messages /\ q.op = "begin" /\ q.id \in Ids /\ AskOk(i) /\ i \in Int
      <4>1. in'[i] = q /\ i \in Int
        BY <2>1, <3>1, InputKept
      <4>2. q \in Messages
        BY <2>1, <3>1, Base DEF Types, ServerTypes
      <4>3. AskOk(i)
        BY <1>2, <2>1, <3>1, <4>1 DEF AskInv
      <4> QED BY <4>1, <4>2, <4>3 DEF Messages
    <3>3. Fits(q) /\ ForSession(q) /\ ~Quiet(q.id)
      BY <1>2, <2>1, <3>1, <3>2 DEF FitsInv, SessionInv, Quiet
    <3>4. CASE Heard(q.id)
      <4>1. Still(q.id.t) \/ (call'[q.id.t].pc = "cancel" /\ q.id.n = call'[q.id.t].n)
        BY <1>2, <3>2, <3>3, <3>4, AskedOn
      <4> QED BY <3>2, <3>4, <4>1 DEF AskOk, Heard, Still
    <3>5. CASE call[q.id.t].pc = "cancel" /\ q.id.n = call[q.id.t].n
      <4>1. \/ call'[q.id.t].pc = "cancel" /\ q.id.n = call'[q.id.t].n
            \/ \E j \in DOMAIN in' : i < j /\ in'[j].op = "cancel" /\ in'[j].id = q.id
        BY <2>1, <3>2, <3>5, CancelOn, InputKept
      <4> QED BY <3>2, <4>1 DEF AskOk
    <3>6. ASSUME NEW j \in DOMAIN in, i < j, in[j].op = "cancel", in[j].id = q.id PROVE AskOk(i)'
      <4>1. j \in DOMAIN in' /\ in'[j] = in[j]
        BY InputKept
      <4> QED BY <3>2, <3>6, <4>1 DEF AskOk
    <3> QED BY <3>1, <3>2, <3>4, <3>5, <3>6 DEF AskOk
  <2>2. CASE i \notin DOMAIN in
    <3>1. PICK x \in Threads : NewInput(x, in'[i])
      BY <2>2, InputKept
    <3>2. Writes(x) /\ in'[i].id = Id(x)
      BY <3>1 DEF NewInput
    <3>3. in'[i].id.t = x /\ in'[i].id.n = call[x].n
      BY <3>2 DEF Id
    <3> QED BY <3>2, <3>3 DEF AskOk, Heard, Writes
  <2> QED BY <2>1, <2>2
<1>5. EarlyInv'
  <2> SUFFICES ASSUME NEW k \in tasks, k.op = "begin", k.pc \in Early PROVE Heard(k.id)' \/ k.cancelled \/ CancelSent(k.id)'
    BY <1>1 DEF EarlyInv
  <2>1. k.id \in Ids /\ Fits(k) /\ ForSession(k) /\ ~Quiet(k.id)
    BY <1>2, Base DEF FitsInv, SessionInv, Quiet, Types, ServerTypes, Tasks
  <2>2. CASE Heard(k.id)
    <3>1. Still(k.id.t) \/ (call'[k.id.t].pc = "cancel" /\ k.id.n = call'[k.id.t].n)
      BY <1>2, <2>1, <2>2, AskedOn
    <3> QED BY <2>2, <3>1 DEF Heard, Still, CancelSent
  <2>3. CASE CancelSent(k.id)
    BY <1>3, <2>1, <2>3
  <2> QED BY <1>2, <2>2, <2>3 DEF EarlyInv
<1>6. OwnedInv'
  <2> SUFFICES ASSUME NEW b \in DOMAIN batches, batches[b].mapped PROVE (Owned(batches[b].opener, b))'
    BY <1>1 DEF OwnedInv
  <2>1. PICK id : id = batches[b].opener
    OBVIOUS
  <2>2. Owned(id, b) /\ id \in Ids /\ id.t \in Workers /\ id.t \in Threads
    BY <1>2, <2>1, BatchOpener DEF OwnedInv, SessionInv, OfSession
  <2> SUFFICES Owned(id, b)'
    BY <1>1, <2>1
  <2>3. CASE handle[id.t] = [id |-> b, born |-> gen]
    <3>1. handle'[id.t] = handle[id.t]
      BY <1>2, <2>2, <2>3, HandleStable
    <3> QED BY <1>1, <2>3, <3>1 DEF Owned
  <2>4. CASE CancelSent(id)
    BY <1>3, <2>2, <2>4 DEF Owned
  <2>5. CASE \/ input = id \/ (\E k \in tasks : b \in k.todo)
             \/ \E k \in tasks : k.id = id /\ k.op = "begin" /\ k.pc = "check" /\ k.val = b
    BY <1>1, <2>5 DEF Owned
  <2>6. CASE Coming(id, b)
    <3>1. /\ Heard(id) /\ phase[id.t] = "begin" /\ handle[WriterOf[id.t]].born = gen /\ call[id.t].w = gen
          /\ call[id.t].pc = "await" /\ id = Id(id.t)
      BY <2>2, <2>6 DEF Coming, Heard, Id, Ids
    <3>2. CASE Still(id.t)
      <4>1. handle'[WriterOf[id.t]] = handle[WriterOf[id.t]]
        BY <1>2, <2>2, <3>1, HandleStable, ThreadsAssumption
      <4>2. Coming(id, b)'
        BY <1>1, <2>6, <3>1, <3>2, <4>1 DEF Coming, Heard, Still
      <4> QED BY <4>2 DEF Owned
    <3>3. CASE Ends(id.t)
      <4>1. Quiet(id)
        BY <1>2, <2>2, <3>1, <3>3, AnsweredQuiet DEF Ends
      <4>2. answer[id.t].ok /\ answer[id.t].val = b
        BY <2>6, <4>1 DEF Coming, Quiet
      <4>3. handle'[id.t] = [id |-> b, born |-> gen]
        BY <3>1, <3>3, <4>2 DEF Ends
      <4> QED BY <1>1, <4>3 DEF Owned
    <3>4. CASE call'[id.t].pc = "cancel" /\ id.n = call'[id.t].n
      BY <3>4 DEF Owned, CancelSent
    <3> QED BY <2>2, <3>1, <3>2, <3>3, <3>4, HeardOn
  <2> QED BY <2>2, <2>3, <2>4, <2>5, <2>6 DEF Owned
<1> QED BY <1>4, <1>5, <1>6

(* A response brings the id of a batch to the worker that waits, or finds its *)
(* cancellation sent.                                                         *)
LEMMA ReadResponseKnown == ASSUME BaseInv, LinkInv, KnownInv, NEW r \in out, ReadResponse(r) PROVE KnownInv'
<1>1. /\ UNCHANGED <<gen, live, in, input, tasks, batches, aliased, cmd, call, phase, handle>> /\ out' = out \ {r}
  BY DEF ReadResponse
<1> SUFFICES ASSUME ~aliased, cmd \in live PROVE AskInv' /\ EarlyInv' /\ OwnedInv'
  BY <1>1 DEF KnownInv
<1>2. AskInv /\ EarlyInv /\ OwnedInv /\ cmd # 0 /\ SessionInv
  BY DEF KnownInv, LinkInv
<1>3. AskInv' /\ EarlyInv'
  BY <1>1, <1>2 DEF AskInv, AskOk, Heard, EarlyInv, CancelSent
<1>4. OwnedInv'
  <2> SUFFICES ASSUME NEW b \in DOMAIN batches, batches[b].mapped PROVE (Owned(batches[b].opener, b))'
    BY <1>1 DEF OwnedInv
  <2>1. PICK id : id = batches[b].opener
    OBVIOUS
  <2>2. Owned(id, b) /\ id \in Ids /\ id.t \in Workers /\ id.t \in Threads
    BY <1>2, <2>1, BatchOpener DEF OwnedInv, SessionInv, OfSession
  <2> SUFFICES Owned(id, b)'
    BY <1>1, <2>1
  <2>3. CASE ~Coming(id, b)
    BY <1>1, <2>2, <2>3 DEF Owned, CancelSent
  <2>4. CASE Coming(id, b)
    <3>1. /\ Heard(id) /\ phase[id.t] = "begin" /\ handle[WriterOf[id.t]].born = gen /\ call[id.t].w = gen
          /\ call[id.t].pc = "await" /\ id = Id(id.t)
      BY <2>2, <2>4 DEF Coming, Heard, Id, Ids
    <3>2. answer' = IF r.id \in pending THEN [answer EXCEPT ![r.id.t] = [ok |-> r.ok, val |-> r.val]] ELSE answer
      BY DEF ReadResponse
    <3>3. answer \in [Threads -> [ok : BOOLEAN, val : Int]]
      BY Base DEF Types, GoTypes
    <3>4. Heard(id)' /\ phase'[id.t] = "begin" /\ handle'[WriterOf[id.t]].born = gen' /\ call'[id.t].w = gen'
      BY <1>1, <3>1 DEF Heard
    <3>5. CASE r.id = id
      <4>1. CASE r.id \in pending
        <5>1. answer[id.t] = Empty
          BY <3>5, <4>1, Base DEF IdInv
        <5>2. ~answer[id.t].ok
          BY <5>1 DEF Empty
        <5>3. (\E k \in tasks : k.id = id /\ k.op = "begin" /\ k.pc = "reply" /\ k.ok /\ k.val = b) \/ (r.ok /\ r.val = b)
          BY <2>4, <3>5, <5>2 DEF Coming, LinkInv, UniqueInv
        <5>4. PICK a : a = [ok |-> r.ok, val |-> r.val]
          OBVIOUS
        <5>5. a.ok = r.ok /\ a.val = r.val /\ answer'[id.t] = a
          BY <2>2, <3>2, <3>3, <3>5, <4>1, <5>4
        <5>6. Coming(id, b)'
          BY <1>1, <3>4, <5>3, <5>5 DEF Coming
        <5> QED BY <5>6 DEF Owned
      <4>2. CASE r.id \notin pending
        <5>1. answer[id.t] # Empty
          BY <2>2, <3>1, <3>5, <4>2 DEF LinkInv, PendInv, Flying
        <5>2. Quiet(id)
          BY <1>2, <2>2, <3>1, <5>1, AnsweredQuiet
        <5> QED BY <3>5, <5>2 DEF Quiet
      <4> QED BY <4>1, <4>2
    <3>6. CASE r.id # id
      <4>1. answer'[id.t] = answer[id.t]
        <5>1. CASE r.id \in pending /\ r.id.t = id.t
          <6>1. r.id.n = call[r.id.t].n /\ r.id \in Ids
            BY <5>1, Base DEF IdInv, Types, GoTypes
          <6>2. r.id = Id(id.t)
            BY <5>1, <6>1 DEF Id, Ids
          <6> QED BY <3>1, <3>6, <6>2
        <5>2. CASE ~(r.id \in pending /\ r.id.t = id.t)
          BY <2>2, <3>2, <3>3, <5>2
        <5> QED BY <5>1, <5>2
      <4>2. Coming(id, b)'
        BY <1>1, <2>4, <3>4, <3>6, <4>1 DEF Coming
      <4> QED BY <4>2 DEF Owned
    <3> QED BY <3>5, <3>6
  <2> QED BY <2>3, <2>4
<1> QED BY <1>3, <1>4

(* When the process is not the current one any more, nothing is owed. *)
LEMMA EndedKnown == ASSUME LinkInv, KnownInv, Ended PROVE KnownInv'
<1>1. UNCHANGED <<gen, live, in, out, input, tasks, batches, aliased, phase, handle>>
  BY DEF Ended
<1>2. CASE cmd' = 0
  BY <1>1, <1>2 DEF LinkInv, KnownInv
<1>3. CASE UNCHANGED <<cmd, pending, answer, call>>
  <2>1. \A id : Heard(id)' = Heard(id) /\ CancelSent(id)' = CancelSent(id)
    BY <1>1, <1>3 DEF Heard, CancelSent
  <2>2. AskInv => AskInv'
    BY <1>1, <1>3 DEF AskInv, AskOk, Heard
  <2>3. EarlyInv => EarlyInv'
    BY <1>1, <2>1 DEF EarlyInv
  <2>4. OwnedInv => OwnedInv'
    BY <1>1, <1>3, <2>1 DEF OwnedInv, Owned, Coming
  <2> QED BY <1>1, <1>3, <2>2, <2>3, <2>4 DEF KnownInv
<1> QED BY <1>2, <1>3 DEF Ended

(* While a JVM is in use, every batch in its map is known to a worker, on its way   *)
(* to one, or going to be discarded.                                               *)
THEOREM KnownHolds == Spec => []KnownInv
<1>1. Init => KnownInv
  BY DEF Init, ServerInit, KnownInv
<1>2. BaseInv /\ BaseInv' /\ PageInv /\ LinkInv /\ KnownInv /\ [Next]_vars => KnownInv'
  <2> SUFFICES ASSUME BaseInv, BaseInv', PageInv, LinkInv, KnownInv, [Next]_vars PROVE KnownInv'
    OBVIOUS
  <2>1. ASSUME NEW t \in Threads, ThreadStep(t) \/ EnsureFails(t) \/ CtxDone(t) \/ JoinDone(t) PROVE KnownInv'
    <3>1. ThreadEffect \/ EnsureStart(t) \/ HelloKill(t)
      BY <2>1, ThreadKinds
    <3>2. CASE EnsureStart(t)
      <4>1. in' = <<>> /\ tasks' = {} /\ batches' = <<>>
        BY <3>2 DEF EnsureStart, FreshProcess
      <4> QED BY <4>1 DEF KnownInv, AskInv, EarlyInv, OwnedInv
    <3> QED BY <3>1, <3>2, ThreadKnown, DiedEnded, EndedKnown
  <2>2. CASE UNCHANGED vars
    <3>1. UNCHANGED <<gen, live, in, out, input, tasks, batches, aliased, cmd, pending, answer, call, phase, handle>>
      BY <2>2 DEF vars, serverVars, goVars
    <3>2. Ended
      BY <3>1 DEF Ended
    <3> QED BY <3>2, EndedKnown
  <2>3. CASE ReaderStep
    <3>1. (\E r \in out : ReadResponse(r)) \/ Ended
      BY <2>3, DiedEnded DEF ReaderStep
    <3> QED BY <3>1, ReadResponseKnown, EndedKnown
  <2>4. CASE Killed \/ Crash
    <3>1. in' = <<>> /\ tasks' = {} /\ batches' = <<>>
      BY <2>4 DEF Killed, Crash, Exit
    <3> QED BY <3>1 DEF KnownInv, AskInv, EarlyInv, OwnedInv
  <2> QED BY <2>1, <2>2, <2>3, <2>4, ServerKnown, DriftEnded, EndedKnown DEF Next
<1> QED BY <1>1, <1>2, BaseHolds, PagesHold, LinksHold, PTL DEF Spec

(* A batch whose beginBatch was cancelled or failed is discarded: when the JVM has  *)
(* nothing left to do, every batch in its map is one that a worker was given.       *)
THEOREM NoBatchUnknown == Spec => []NoUnknownBatch
<1>1. BaseInv /\ LinkInv /\ KnownInv => NoUnknownBatch
  <2> SUFFICES ASSUME BaseInv, LinkInv, KnownInv, ~aliased, cmd \in live, in = <<>>, input = NoTarget, tasks = {}, out = {},
                      \A t \in Threads : call[t].pc # "cancel" /\ (call[t].pc = "await" => answer[t] = Empty),
                      NEW b \in DOMAIN batches, batches[b].mapped
               PROVE  \E t \in Workers : handle[t] = [id |-> b, born |-> gen]
    BY DEF NoUnknownBatch
  <2>1. PICK id : id = batches[b].opener
    OBVIOUS
  <2>2. Owned(id, b) /\ id.t \in Workers /\ id.t \in Threads
    BY <2>1, BatchOpener DEF KnownInv, OwnedInv, LinkInv, SessionInv, OfSession
  <2>3. ~CancelSent(id) /\ input # id
    BY <2>2, ThreadsAssumption DEF CancelSent, NoTarget
  <2>4. ~Coming(id, b)
    <3>1. ~Empty.ok
      BY DEF Empty
    <3> QED BY <2>2, <3>1 DEF Coming, Heard
  <2> QED BY <2>2, <2>3, <2>4 DEF Owned
<1> QED BY <1>1, BaseHolds, LinksHold, KnownHolds, PTL

-----------------------------------------------------------------------------
(* Connections. A session's pool is within its bounds, *)
Ready(p) == p.open \in Int /\ p.open <= MaxOpen /\ p.idle \in 0 .. MaxIdle

(* and this is how many connections its counter takes to be in use. *)
Away(s) == sessions[s].open - sessions[s].idle

(* A commit that has the monitor finds its batch undisposed (commitBatch does not *)
(* ask).                                                                          *)
Careful == \A k \in tasks : k.op = "commit" /\ k.pc = "monitor" => ~batches[k.arg].disposed

(* The connections of a session are finitely many, before a step and after it. *)
LEMMA HeldFinite ==
    ASSUME Types, IsFiniteSet(tasks), NEW s
    PROVE  IsFiniteSet(InBatches(s)) /\ IsFiniteSet(InUse(s))
<1>1. InBatches(s) \subseteq 1 .. Len(batches) /\ Len(batches) \in Int
  BY DEF Types, ServerTypes, InBatches
<1>2. IsFiniteSet(1 .. Len(batches))
  BY <1>1, FS_Interval
<1>3. InUse(s) \subseteq tasks
  BY DEF InUse
<1> QED BY <1>1, <1>2, <1>3, FS_Subset

(* (the same after the step) *)
LEMMA HeldFiniteNext ==
    ASSUME Types', IsFiniteSet(tasks'), NEW s
    PROVE  IsFiniteSet(InBatches(s)') /\ IsFiniteSet(InUse(s)')
<1>1. InBatches(s)' \subseteq 1 .. Len(batches') /\ Len(batches') \in Int
  BY DEF Types, ServerTypes, InBatches
<1>2. IsFiniteSet(1 .. Len(batches'))
  BY <1>1, FS_Interval
<1>3. InUse(s)' \subseteq tasks'
  BY DEF InUse
<1> QED BY <1>1, <1>2, <1>3, FS_Subset

(* What a step does to the connections of session s: nothing, or a request takes   *)
(* one; a request gives one back, or a batch does, which had it if commits are     *)
(* careful; or a request hands it to a batch.                                      *)
Keeps(s) == Away(s)' = Away(s) /\ InBatches(s)' = InBatches(s) /\ InUse(s)' = InUse(s)

Takes(s) ==
    /\ Away(s)' = Away(s) + 1 /\ InBatches(s)' = InBatches(s)
    /\ \E x : x \notin InUse(s) /\ InUse(s)' = InUse(s) \cup {x}

Returns(s) ==
    /\ Away(s)' = Away(s) - 1
    /\ \/ InBatches(s)' = InBatches(s) /\ \E k \in InUse(s) : InUse(s)' = InUse(s) \ {k}
       \/ /\ InUse(s)' = InUse(s)
          /\ \E b : InBatches(s)' = InBatches(s) \ {b} /\ (Careful => b \in InBatches(s))

Hands(s) ==
    /\ Away(s)' = Away(s)
    /\ \E b : b \notin InBatches(s) /\ InBatches(s)' = InBatches(s) \cup {b}
    /\ \E k \in InUse(s) : InUse(s)' = InUse(s) \ {k}

CountEffect ==
    /\ \A s \in DOMAIN sessions : Ready(sessions'[s]) /\ (Keeps(s) \/ Takes(s) \/ Returns(s) \/ Hands(s))
    /\ \A s \in DOMAIN sessions' \ DOMAIN sessions :
         Ready(sessions'[s]) /\ sessions'[s].open = sessions'[s].idle /\ InBatches(s)' = {} /\ InUse(s)' = {}

(* Every connection that is counted is idle or held; a JVM has finitely many tasks. *)
CountInv == IsFiniteSet(tasks) /\ NoConnectionLost

(* Every connection that is held is counted. *)
Counted == \A s \in DOMAIN sessions : sessions[s].open >= sessions[s].idle + Held(s)

(* The sizes of what is held. *)
LEMMA HeldSizes ==
    ASSUME Types, Types', IsFiniteSet(tasks), IsFiniteSet(tasks'), NEW s
    PROVE  /\ IsFiniteSet(InBatches(s)) /\ IsFiniteSet(InUse(s))
           /\ Cardinality(InBatches(s)) \in Nat /\ Cardinality(InUse(s)) \in Nat
           /\ Cardinality(InBatches(s)') \in Nat /\ Cardinality(InUse(s)') \in Nat
           /\ Held(s) = Cardinality(InBatches(s)) + Cardinality(InUse(s))
           /\ Held(s)' = Cardinality(InBatches(s)') + Cardinality(InUse(s)')
BY HeldFinite, HeldFiniteNext, FS_CardinalityType DEF Held

(* Counter and connections go together, but for a batch that has none to give back. *)
LEMMA CountMoves ==
    ASSUME Types, Types', IsFiniteSet(tasks), IsFiniteSet(tasks'), NEW s, Away(s) \in Int,
           Keeps(s) \/ Takes(s) \/ Returns(s) \/ Hands(s)
    PROVE  /\ Held(s) \in Nat /\ Held(s)' \in Nat /\ Away(s)' \in Int
           /\ Away(s)' - Held(s)' <= Away(s) - Held(s)
           /\ Careful => Away(s)' - Held(s)' = Away(s) - Held(s)
<1>1. /\ IsFiniteSet(InBatches(s)) /\ IsFiniteSet(InUse(s))
      /\ Cardinality(InBatches(s)) \in Nat /\ Cardinality(InUse(s)) \in Nat
      /\ Cardinality(InBatches(s)') \in Nat /\ Cardinality(InUse(s)') \in Nat
      /\ Held(s) = Cardinality(InBatches(s)) + Cardinality(InUse(s))
      /\ Held(s)' = Cardinality(InBatches(s)') + Cardinality(InUse(s)')
  BY HeldSizes
<1>2. CASE Keeps(s)
  BY <1>1, <1>2 DEF Keeps
<1>3. CASE Takes(s)
  <2>1. Cardinality(InUse(s)') = Cardinality(InUse(s)) + 1
    <3>1. PICK x : x \notin InUse(s) /\ InUse(s)' = InUse(s) \cup {x}
      BY <1>3 DEF Takes
    <3> QED BY <1>1, <3>1, FS_AddElement
  <2> QED BY <1>1, <1>3, <2>1 DEF Takes
<1>4. ASSUME NEW k \in InUse(s), InUse(s)' = InUse(s) \ {k} PROVE Cardinality(InUse(s)') = Cardinality(InUse(s)) - 1
  BY <1>1, <1>4, FS_RemoveElement
<1>5. CASE Returns(s)
  <2>1. CASE InBatches(s)' = InBatches(s) /\ \E k \in InUse(s) : InUse(s)' = InUse(s) \ {k}
    <3>1. Cardinality(InUse(s)') = Cardinality(InUse(s)) - 1
      BY <1>4, <2>1, Zenon
    <3> QED BY <1>1, <1>5, <2>1, <3>1 DEF Returns
  <2>2. ASSUME InUse(s)' = InUse(s), NEW b, InBatches(s)' = InBatches(s) \ {b}, Careful => b \in InBatches(s)
        PROVE  /\ Cardinality(InUse(s)') = Cardinality(InUse(s))
               /\ Cardinality(InBatches(s)') >= Cardinality(InBatches(s)) - 1
               /\ Careful => Cardinality(InBatches(s)') = Cardinality(InBatches(s)) - 1
    <3>1. Cardinality(InBatches(s)') = IF b \in InBatches(s) THEN Cardinality(InBatches(s)) - 1 ELSE Cardinality(InBatches(s))
      BY <1>1, <2>2, FS_RemoveElement, Zenon
    <3> QED BY <1>1, <2>2, <3>1
  <2>3. CASE InUse(s)' = InUse(s) /\ \E b : InBatches(s)' = InBatches(s) \ {b} /\ (Careful => b \in InBatches(s))
    <3>1. /\ Cardinality(InUse(s)') = Cardinality(InUse(s))
          /\ Cardinality(InBatches(s)') >= Cardinality(InBatches(s)) - 1
          /\ Careful => Cardinality(InBatches(s)') = Cardinality(InBatches(s)) - 1
      BY <2>2, <2>3, Zenon
    <3> QED BY <1>1, <1>5, <3>1 DEF Returns
  <2> QED BY <1>5, <2>1, <2>3 DEF Returns
<1>6. CASE Hands(s)
  <2>1. Cardinality(InBatches(s)') = Cardinality(InBatches(s)) + 1
    <3>1. PICK b : b \notin InBatches(s) /\ InBatches(s)' = InBatches(s) \cup {b}
      BY <1>6 DEF Hands
    <3> QED BY <1>1, <3>1, FS_AddElement
  <2>2. Cardinality(InUse(s)') = Cardinality(InUse(s)) - 1
    BY <1>4, <1>6 DEF Hands
  <2> QED BY <1>1, <1>6, <2>1, <2>2 DEF Hands
<1> QED BY <1>2, <1>3, <1>5, <1>6

(* The sessions before the step. *)
LEMMA ReadySessions ==
    ASSUME Types, CountInv
    PROVE  \A s \in DOMAIN sessions : sessions[s] \in Sessions /\ Ready(sessions[s]) /\ Away(s) \in Int
BY SessionTypes DEF CountInv, NoConnectionLost, Ready, Sessions, Away

(* Whichever it does, none is lost; and none is given back twice, if commits are *)
(* careful.                                                                      *)
LEMMA NoneLost ==
    ASSUME Types, Types', CountInv, IsFiniteSet(tasks'), CountEffect
    PROVE  CountInv' /\ (Careful /\ Counted => Counted')
<1> SUFFICES ASSUME NEW s \in DOMAIN sessions'
             PROVE  /\ sessions'[s].open <= sessions'[s].idle + Held(s)' /\ Ready(sessions'[s])
                    /\ Careful /\ Counted => sessions'[s].open >= sessions'[s].idle + Held(s)'
  BY DEF CountInv, NoConnectionLost, Ready, Counted
<1>0. IsFiniteSet(tasks)
  BY DEF CountInv
<1>1. CASE s \notin DOMAIN sessions
  <2>1. Ready(sessions'[s]) /\ sessions'[s].open = sessions'[s].idle /\ InBatches(s)' = {} /\ InUse(s)' = {}
    BY <1>1 DEF CountEffect
  <2>2. Held(s)' = 0
    BY <2>1, FS_EmptySet DEF Held
  <2> QED BY <2>1, <2>2 DEF Ready
<1>2. CASE s \in DOMAIN sessions
  <2>1. Ready(sessions'[s]) /\ (Keeps(s) \/ Takes(s) \/ Returns(s) \/ Hands(s)) /\ Ready(sessions[s]) /\ Away(s) \in Int
    BY <1>2, ReadySessions DEF CountEffect
  <2>2. /\ Held(s) \in Nat /\ Held(s)' \in Nat /\ Away(s)' \in Int
        /\ Away(s)' - Held(s)' <= Away(s) - Held(s)
        /\ Careful => Away(s)' - Held(s)' = Away(s) - Held(s)
    BY <1>0, <2>1, CountMoves
  <2>3. /\ sessions[s].open \in Int /\ sessions[s].idle \in Int /\ sessions'[s].open \in Int /\ sessions'[s].idle \in Int
        /\ Away(s) = sessions[s].open - sessions[s].idle /\ Away(s)' = sessions'[s].open - sessions'[s].idle
    BY <2>1 DEF Ready, Away
  <2>4. sessions[s].open <= sessions[s].idle + Held(s) /\ (Counted => sessions[s].open >= sessions[s].idle + Held(s))
    BY <1>2 DEF CountInv, NoConnectionLost, Counted
  <2> QED BY <2>1, <2>2, <2>3, <2>4
<1> QED BY <1>1, <1>2

-----------------------------------------------------------------------------
(* Tasks at work. What a step of task k does to those that hold a connection: only *)
(* acquire makes one of it, and one that goes on holds it no more.                 *)
UseEffect(k) ==
    /\ tasks \ {k} \subseteq tasks'
    /\ \A x \in tasks' : x \in tasks \/ (x.arg = k.arg /\ (x.pc \in {"using", "prepare"} => k.pc = "acquire"))
    /\ k.pc \in {"using", "prepare"} => k \notin tasks'

(* The task is gone, or goes on without a connection. *)
Lets(k) == \A x \in tasks' : x \in tasks \ {k} \/ x.pc \notin {"using", "prepare"}

(* A task is answered, *)
LEMMA AnswerLets == ASSUME NEW k \in Tasks, NEW ok, NEW val, Answer(k, ok, val) PROVE Lets(k)
<1>1. Answered(k, ok, val).pc = "reply"
  BY DEF Answered, Tasks
<1> QED BY <1>1 DEF Lets, Answer, Step

(* goes to another step, *)
LEMMA GotoLets == ASSUME NEW k \in Tasks, NEW pc, pc \notin {"using", "prepare"}, Goto(k, pc) PROVE Lets(k)
<1>1. [k EXCEPT !.pc = pc].pc = pc
  BY DEF Tasks
<1> QED BY <1>1 DEF Lets, Goto, Step

(* or has batches to discard. *)
LEMMA ScanLets == ASSUME NEW k \in Tasks, NEW B, Step(k, [k EXCEPT !.pc = "discard", !.todo = B]) PROVE Lets(k)
<1>1. [k EXCEPT !.pc = "discard", !.todo = B].pc = "discard"
  BY DEF Tasks
<1> QED BY <1>1 DEF Lets, Step

(* Every step but acquire lets go. *)
LEMMA WorkLets ==
    ASSUME Types, NEW k \in tasks, Work(k), ~Acquire(k), ~DropIdle(k) PROVE Lets(k)
<1>1. k \in Tasks
  BY DEF Types, ServerTypes
<1>2. CASE Reply(k)
  BY <1>2 DEF Reply, Lets
<1>3. CASE Hello(k) \/ OpenSession(k) \/ FindSession(k) \/ Execute(k) \/ CloseSession(k) \/ CloseSessionPool(k) \/ BeginFails(k) \/ RequestBatch(k)
  <2>1. (\E ok, val : Answer(k, ok, val)) \/ Goto(k, "acquire") \/ Goto(k, "scan") \/ Goto(k, "monitor")
    BY <1>3 DEF Hello, OpenSession, FindSession, Execute, CloseSession, CloseSessionPool, BeginFails, RequestBatch, Goto
  <2> QED BY <1>1, <2>1, AnswerLets, GotoLets
<1>4. CASE UploadLOB(k) \/ AddBatch(k) \/ AddBatchDone(k) \/ CommitBatch(k) \/ CommitFails(k)
  <2>1. (\E ok, val : Answer(k, ok, val)) \/ Goto(k, "execute")
    BY <1>4 DEF UploadLOB, AddBatch, AddBatchDone, CommitBatch, CommitFails
  <2> QED BY <1>1, <2>1, AnswerLets, GotoLets
<1>5. CASE BeginRegister(k)
  <2>1. PICK n : Step(k, [k EXCEPT !.pc = "check", !.val = n])
    BY <1>5 DEF BeginRegister
  <2>2. [k EXCEPT !.pc = "check", !.val = n].pc = "check"
    BY <1>1 DEF Tasks
  <2> QED BY <2>1, <2>2 DEF Step, Lets
<1>6. CASE CloseSessionScan(k) \/ BeginCheck(k) \/ AbortBatch(k)
  <2>1. (\E ok, val : Answer(k, ok, val)) \/ \E B : Step(k, [k EXCEPT !.pc = "discard", !.todo = B])
    BY <1>6, Zenon DEF CloseSessionScan, BeginCheck, AbortBatch
  <2> QED BY <1>1, <2>1, AnswerLets, ScanLets
<1>7. CASE DiscardMark(k)
  <2>1. PICK b : Step(k, [k EXCEPT !.todo = @ \ {b}]) \/ Step(k, [k EXCEPT !.cur = b, !.todo = @ \ {b}])
    BY <1>7 DEF DiscardMark
  <2>2. [k EXCEPT !.todo = @ \ {b}].pc = k.pc /\ [k EXCEPT !.cur = b, !.todo = @ \ {b}].pc = k.pc /\ k.pc = "discard"
    BY <1>1, <1>7 DEF Tasks, DiscardMark
  <2> QED BY <2>1, <2>2 DEF Step, Lets
<1>8. CASE DiscardDispose(k)
  <2>1. [k EXCEPT !.cur = 0].pc = k.pc /\ k.pc = "discard"
    BY <1>1, <1>8 DEF Tasks, DiscardDispose
  <2> QED BY <1>8, <2>1 DEF DiscardDispose, Step, Lets
<1>9. CASE DiscardEnd(k)
  <2>1. tasks' = tasks \ {k} \/ \E ok, val : Answer(k, ok, val)
    BY <1>9 DEF DiscardEnd
  <2>2. tasks' = tasks \ {k} => Lets(k)
    BY DEF Lets
  <2> QED BY <1>1, <2>1, <2>2, AnswerLets
<1> QED BY <1>2, <1>3, <1>4, <1>5, <1>6, <1>7, <1>8, <1>9 DEF Work

(* Every step of a task. *)
LEMMA WorkUse == ASSUME Types, ServerOk, NEW k \in tasks, Work(k) PROVE UseEffect(k)
<1>1. TaskEffect(k) /\ tasks \ {k} \subseteq tasks'
  BY WorkEffects, WorkShape DEF WorkEffect, TaskShape
<1>2. \A x \in tasks' : x \in tasks \/ x.arg = k.arg
  BY <1>1 DEF TaskEffect, Kept
<1>3. CASE Acquire(k) \/ DropIdle(k)
  BY <1>1, <1>2, <1>3 DEF UseEffect, Acquire, DropIdle
<1>4. CASE ~Acquire(k) /\ ~DropIdle(k)
  <2>1. Lets(k)
    BY <1>4, WorkLets
  <2> QED BY <1>1, <1>2, <2>1 DEF UseEffect, Lets
<1> QED BY <1>3, <1>4

(* A task that neither takes nor gives back a connection, or does so elsewhere. *)
LEMMA UseStays ==
    ASSUME NEW k \in tasks, UseEffect(k), NEW s
    PROVE  /\ k.pc \notin {"using", "prepare", "acquire"} \/ k.arg # s => InUse(s)' = InUse(s)
           /\ k.pc \in {"using", "prepare"} /\ k.arg = s => k \in InUse(s) /\ InUse(s)' = InUse(s) \ {k}
<1>1. CASE k.pc \notin {"using", "prepare", "acquire"} \/ k.arg # s
  <2>1. k \notin InUse(s)
    BY <1>1 DEF InUse
  <2>2. InUse(s) \subseteq InUse(s)'
    BY <2>1 DEF InUse, UseEffect
  <2>3. InUse(s)' \subseteq InUse(s)
    BY <1>1 DEF InUse, UseEffect
  <2> QED BY <1>1, <2>2, <2>3
<1>2. CASE k.pc \in {"using", "prepare"} /\ k.arg = s
  <2>1. k \in InUse(s)
    BY <1>2 DEF InUse
  <2>2. InUse(s) \ {k} \subseteq InUse(s)'
    BY DEF InUse, UseEffect
  <2>3. InUse(s)' \subseteq InUse(s) \ {k}
    BY <1>2 DEF InUse, UseEffect
  <2> QED BY <1>2, <2>1, <2>2, <2>3
<1> QED BY <1>1, <1>2

(* A batch keeps its connection but when a task disposes of it. *)
LEMMA BatchesStay ==
    ASSUME NEW k, BatchEffect(k), k.pc # "prepare" \/ DOMAIN batches' = DOMAIN batches, NEW s
    PROVE  /\ (\A b \in DOMAIN batches : Disposes(k, b) => batches[b].disposed) => InBatches(s)' = InBatches(s)
           /\ \A c \in DOMAIN batches :
                (\A b \in DOMAIN batches : Disposes(k, b) => b = c) /\ batches'[c].disposed => InBatches(s)' = InBatches(s) \ {c}
<1>1. DOMAIN batches' = DOMAIN batches
  BY DEF BatchEffect
<1>2. \A b \in DOMAIN batches : /\ batches'[b].session = batches[b].session
                                /\ batches'[b].disposed => batches[b].disposed \/ Disposes(k, b)
                                /\ batches[b].disposed => batches'[b].disposed
  BY DEF BatchEffect, Grown
<1>3. InBatches(s) \subseteq DOMAIN batches /\ InBatches(s)' \subseteq DOMAIN batches
  BY <1>1 DEF InBatches
<1>4. ASSUME NEW b \in DOMAIN batches, batches'[b].disposed => batches[b].disposed
      PROVE  b \in InBatches(s) <=> b \in InBatches(s)'
  <2>1. (batches'[b].session = s /\ ~batches'[b].disposed) <=> (batches[b].session = s /\ ~batches[b].disposed)
    BY <1>2, <1>4
  <2> QED BY <1>1, <2>1 DEF InBatches
<1>5. ASSUME \A b \in DOMAIN batches : Disposes(k, b) => batches[b].disposed PROVE InBatches(s)' = InBatches(s)
  <2>1. \A b \in DOMAIN batches : b \in InBatches(s) <=> b \in InBatches(s)'
    BY <1>2, <1>4, <1>5
  <2> QED BY <1>3, <2>1
<1>6. ASSUME NEW c \in DOMAIN batches, \A b \in DOMAIN batches : Disposes(k, b) => b = c, batches'[c].disposed
      PROVE  InBatches(s)' = InBatches(s) \ {c}
  <2>1. c \notin InBatches(s)'
    BY <1>6 DEF InBatches
  <2>2. \A b \in DOMAIN batches : b # c => (b \in InBatches(s) <=> b \in InBatches(s)')
    BY <1>2, <1>4, <1>6
  <2> QED BY <1>3, <2>1, <2>2
<1> QED BY <1>5, <1>6

(* A pool gives a connection back or drops it, *)
LEMMA PoolCounts ==
    ASSUME NEW p \in Sessions, Ready(p)
    PROVE  /\ Ready(Released(p)) /\ Released(p).open - Released(p).idle = p.open - p.idle - 1
           /\ Ready(Discarded(p)) /\ Discarded(p).open - Discarded(p).idle = p.open - p.idle - 1
           /\ Ready(ClosedPool(p)) /\ ClosedPool(p).open - ClosedPool(p).idle = p.open - p.idle
           /\ p.idle > 0 \/ p.open < MaxOpen => Ready(Taken(p)) /\ Taken(p).open - Taken(p).idle = p.open - p.idle + 1
<1>1. p.open \in Int /\ p.idle \in Int /\ MaxIdle \in Int /\ MaxOpen \in Int
  BY PoolAssumption DEF Sessions
<1>2. Ready(Released(p)) /\ Released(p).open - Released(p).idle = p.open - p.idle - 1
  <2>1. CASE p.shut \/ p.idle >= MaxIdle
    <3>1. Released(p).open = p.open - 1 /\ Released(p).idle = p.idle
      BY <2>1 DEF Released, Sessions
    <3> QED BY <1>1, <3>1 DEF Ready
  <2>2. CASE ~(p.shut \/ p.idle >= MaxIdle)
    <3>1. Released(p).open = p.open /\ Released(p).idle = p.idle + 1
      BY <2>2 DEF Released, Sessions
    <3> QED BY <1>1, <2>2, <3>1 DEF Ready
  <2> QED BY <2>1, <2>2
<1>3. Ready(Discarded(p)) /\ Discarded(p).open - Discarded(p).idle = p.open - p.idle - 1
  <2>1. Discarded(p).open = p.open - 1 /\ Discarded(p).idle = p.idle
    BY DEF Discarded, Sessions
  <2> QED BY <1>1, <2>1 DEF Ready
<1>4. Ready(ClosedPool(p)) /\ ClosedPool(p).open - ClosedPool(p).idle = p.open - p.idle
  <2>1. ClosedPool(p).open = p.open - p.idle /\ ClosedPool(p).idle = 0
    BY DEF ClosedPool, Sessions
  <2> QED BY <1>1, <2>1 DEF Ready
<1>5. ASSUME p.idle > 0 \/ p.open < MaxOpen PROVE Ready(Taken(p)) /\ Taken(p).open - Taken(p).idle = p.open - p.idle + 1
  <2>1. CASE p.idle > 0
    <3>1. Taken(p).open = p.open /\ Taken(p).idle = p.idle - 1
      BY <2>1 DEF Taken, Sessions
    <3> QED BY <1>1, <2>1, <3>1 DEF Ready
  <2>2. CASE ~(p.idle > 0)
    <3>1. Taken(p).open = p.open + 1 /\ Taken(p).idle = p.idle
      BY <2>2 DEF Taken, Sessions
    <3> QED BY <1>1, <1>5, <2>2, <3>1 DEF Ready
  <2> QED BY <2>1, <2>2
<1> QED BY <1>2, <1>3, <1>4, <1>5

(* One pool changes, the other sessions stay as they are. *)
LEMMA OnePool ==
    ASSUME Types, CountInv, NEW s0 \in DOMAIN sessions, NEW p \in Sessions, sessions' = [sessions EXCEPT ![s0] = p]
    PROVE  /\ DOMAIN sessions' = DOMAIN sessions /\ sessions'[s0] = p
           /\ Away(s0)' = p.open - p.idle /\ Away(s0) = sessions[s0].open - sessions[s0].idle
           /\ \A s \in DOMAIN sessions : s # s0 => Ready(sessions'[s]) /\ Away(s)' = Away(s) /\ Away(s) \in Int
<1>1. DOMAIN sessions' = DOMAIN sessions /\ sessions'[s0] = p /\ \A s \in DOMAIN sessions : s # s0 => sessions'[s] = sessions[s]
  BY SeqReplace DEF Types, ServerTypes
<1> QED BY <1>1, ReadySessions DEF Away, Sessions

(* What a task works on. *)
LEMMA TaskFacts ==
    ASSUME Types, ServerOk, NEW k \in tasks
    PROVE  /\ k.pc # "discard" /\ k.pc # "monitor" => \A b \in DOMAIN batches : ~Disposes(k, b)
           /\ k.cur = 0 /\ k.op # "commit" => \A b \in DOMAIN batches : ~Disposes(k, b)
           /\ k.pc \in {"acquire", "using", "prepare", "check"} => k.arg \in DOMAIN sessions
<1>1. 0 \notin DOMAIN batches
  BY DEF Types, ServerTypes
<1> QED BY <1>1 DEF ServerOk, TaskOk, Disposes

(* Nobody takes or gives a connection, and no pool changes. *)
LEMMA IdleCounts ==
    ASSUME Types, CountInv, NEW k \in tasks, BatchEffect(k), k.pc # "prepare", sessions' = sessions,
           \A s \in DOMAIN sessions : InUse(s)' = InUse(s), \A b \in DOMAIN batches : Disposes(k, b) => batches[b].disposed
    PROVE  CountEffect
<1> SUFFICES ASSUME NEW s \in DOMAIN sessions PROVE Ready(sessions'[s]) /\ Keeps(s)
  BY DEF CountEffect
<1>1. InBatches(s)' = InBatches(s)
  BY BatchesStay
<1> QED BY <1>1, ReadySessions DEF Keeps, Away

(* One pool changes, and nobody takes or gives a connection. *)
LEMMA PoolStays ==
    ASSUME Types, CountInv, NEW k \in tasks, BatchEffect(k), k.pc # "prepare",
           \A s \in DOMAIN sessions : InUse(s)' = InUse(s), \A b \in DOMAIN batches : ~Disposes(k, b),
           NEW s0 \in DOMAIN sessions, NEW p \in Sessions, sessions' = [sessions EXCEPT ![s0] = p],
           Ready(p), p.open - p.idle = sessions[s0].open - sessions[s0].idle
    PROVE  CountEffect
<1> SUFFICES ASSUME NEW s \in DOMAIN sessions PROVE Ready(sessions'[s]) /\ Keeps(s)
  BY OnePool DEF CountEffect
<1>1. InBatches(s)' = InBatches(s)
  BY BatchesStay
<1>2. Ready(sessions'[s]) /\ Away(s)' = Away(s)
  BY OnePool
<1> QED BY <1>1, <1>2 DEF Keeps

(* A request gives its connection back. *)
LEMMA RequestGives ==
    ASSUME Types, CountInv, NEW k \in tasks, BatchEffect(k), UseEffect(k), k.pc \in {"using", "prepare"}, batches' = batches,
           \A b \in DOMAIN batches : ~Disposes(k, b),
           k.arg \in DOMAIN sessions, NEW p \in Sessions, sessions' = [sessions EXCEPT ![k.arg] = p],
           Ready(p), p.open - p.idle = sessions[k.arg].open - sessions[k.arg].idle - 1
    PROVE  CountEffect
<1> SUFFICES ASSUME NEW s \in DOMAIN sessions PROVE Ready(sessions'[s]) /\ (Keeps(s) \/ Returns(s))
  BY OnePool DEF CountEffect
<1>1. InBatches(s)' = InBatches(s)
  BY BatchesStay
<1>2. CASE s = k.arg
  <2>1. k \in InUse(s) /\ InUse(s)' = InUse(s) \ {k}
    BY <1>2, UseStays
  <2>2. Ready(sessions'[s]) /\ Away(s)' = Away(s) - 1
    BY <1>2, OnePool
  <2> QED BY <1>1, <2>1, <2>2 DEF Returns
<1>3. CASE s # k.arg
  <2>1. InUse(s)' = InUse(s)
    BY <1>3, UseStays
  <2>2. Ready(sessions'[s]) /\ Away(s)' = Away(s)
    BY <1>3, OnePool
  <2> QED BY <1>1, <2>1, <2>2 DEF Keeps
<1> QED BY <1>2, <1>3

(* A batch gives its connection back; it had one, if commits are careful. *)
LEMMA BatchGives ==
    ASSUME Types, CountInv, NEW k \in tasks, BatchEffect(k), k.pc # "prepare", \A s \in DOMAIN sessions : InUse(s)' = InUse(s),
           NEW c \in DOMAIN batches, \A b \in DOMAIN batches : Disposes(k, b) => b = c, batches'[c].disposed,
           Careful => ~batches[c].disposed,
           NEW s0 \in DOMAIN sessions, s0 = batches[c].session,
           NEW p \in Sessions, sessions' = [sessions EXCEPT ![s0] = p],
           Ready(p), p.open - p.idle = sessions[s0].open - sessions[s0].idle - 1
    PROVE  CountEffect
<1> SUFFICES ASSUME NEW s \in DOMAIN sessions PROVE Ready(sessions'[s]) /\ (Keeps(s) \/ Returns(s))
  BY OnePool DEF CountEffect
<1>1. InBatches(s)' = InBatches(s) \ {c}
  BY BatchesStay
<1>2. CASE s = s0
  <2>1. Careful => c \in InBatches(s)
    BY <1>2 DEF InBatches
  <2>2. Ready(sessions'[s]) /\ Away(s)' = Away(s) - 1
    BY <1>2, OnePool
  <2> QED BY <1>1, <2>1, <2>2 DEF Returns
<1>3. CASE s # s0
  <2>1. c \notin InBatches(s)
    BY <1>3 DEF InBatches
  <2>2. Ready(sessions'[s]) /\ Away(s)' = Away(s)
    BY <1>3, OnePool
  <2> QED BY <1>1, <2>1, <2>2 DEF Keeps
<1> QED BY <1>2, <1>3

(* The requests that neither take a connection nor give one back. *)
LEMMA IdleSteps ==
    ASSUME Types, ServerOk, CountInv, NEW k \in tasks, BatchEffect(k), UseEffect(k),
           \/ Reply(k) \/ Hello(k) \/ FindSession(k) \/ CloseSessionScan(k) \/ BeginCheck(k) \/ RequestBatch(k)
           \/ UploadLOB(k) \/ AddBatch(k) \/ AddBatchDone(k) \/ AbortBatch(k) \/ DiscardMark(k) \/ DiscardEnd(k)
           \/ (DiscardDispose(k) /\ batches[k.cur].disposed)
    PROVE  CountEffect
<1>1. sessions' = sessions
  BY DEF Reply, Hello, FindSession, CloseSessionScan, BeginCheck, RequestBatch, UploadLOB, AddBatch, AddBatchDone,
     AbortBatch, DiscardMark, DiscardEnd, DiscardDispose
<1>2. k.pc \notin {"using", "prepare", "acquire"}
  BY DEF Reply, Hello, FindSession, CloseSessionScan, BeginCheck, RequestBatch, UploadLOB, AddBatch, AddBatchDone,
     AbortBatch, DiscardMark, DiscardEnd, DiscardDispose, AtMonitor
<1>3. \/ k.pc # "discard" /\ k.pc # "monitor"
      \/ k.pc = "monitor" /\ k.op # "commit"
      \/ k.pc = "discard" /\ k.cur = 0
      \/ k.pc = "discard" /\ batches[k.cur].disposed
  BY DEF Reply, Hello, FindSession, CloseSessionScan, BeginCheck, RequestBatch, UploadLOB, AddBatch, AddBatchDone,
     AbortBatch, DiscardMark, DiscardEnd, DiscardDispose, AtMonitor
<1>4. \A b \in DOMAIN batches : Disposes(k, b) => batches[b].disposed
  <2>1. CASE k.pc = "monitor" /\ k.op # "commit"
    <3>1. k.cur = 0
      BY <2>1, QueuedTask
    <3> QED BY <2>1, <3>1, TaskFacts
  <2>2. CASE k.pc = "discard"
    <3>1. 0 \notin DOMAIN batches
      BY DEF Types, ServerTypes
    <3> QED BY <1>3, <2>2, <3>1 DEF Disposes
  <2> QED BY <1>3, <2>1, <2>2, TaskFacts
<1>5. \A s \in DOMAIN sessions : InUse(s)' = InUse(s)
  BY <1>2, UseStays
<1> QED BY <1>1, <1>2, <1>4, <1>5, IdleCounts

(* acquire: a connection is taken out of the pool, by a task that is new in its place. *)
LEMMA AcquireCounts ==
    ASSUME Types, ServerOk, CountInv, UniqueInv, NEW k \in tasks, BatchEffect(k), UseEffect(k), Acquire(k)
    PROVE  CountEffect
<1>1. k.pc = "acquire" /\ k.arg \in DOMAIN sessions /\ k \in Tasks /\ k.op # "cleanup"
  BY TaskFacts, QueuedTask DEF Acquire, Types, ServerTypes
<1>2. \A b \in DOMAIN batches : ~Disposes(k, b)
  BY <1>1, TaskFacts
<1>3. CASE Answer(k, FALSE, 0) /\ sessions' = sessions
  <2>1. Lets(k)
    BY <1>1, <1>3, AnswerLets
  <2>2. \A s \in DOMAIN sessions : InUse(s)' \subseteq InUse(s) /\ InUse(s) \subseteq InUse(s)'
    BY <1>1, <2>1 DEF InUse, Lets, UseEffect
  <2> QED BY <1>1, <1>2, <1>3, <2>2, IdleCounts
<1>4. CASE ~(Answer(k, FALSE, 0) /\ sessions' = sessions)
  <2>1. PICK p : p = sessions[k.arg]
    OBVIOUS
  <2>2. p \in Sessions /\ Ready(p)
    BY <1>1, <2>1, ReadySessions
  <2>3. p.idle > 0 \/ p.open < MaxOpen
    BY <1>4, <2>1 DEF Acquire
  <2>4. PICK pc \in {"prepare", "using"} : Goto(k, pc)
    BY <1>4 DEF Acquire, Pooled
  <2>5. PICK x : x = [k EXCEPT !.pc = pc]
    OBVIOUS
  <2>6. x.pc = pc /\ x.id = k.id /\ x.op = k.op /\ x.arg = k.arg
    BY <1>1, <2>5 DEF Tasks
  <2>7. tasks' = (tasks \ {k}) \cup {x} /\ x \notin tasks
    <3>1. x # k
      BY <1>1, <2>6
    <3> QED BY <1>1, <2>4, <2>5, <2>6, <3>1 DEF Goto, Step, UniqueInv
  <2>8. PICK r : r = Taken(p)
    OBVIOUS
  <2>9. r \in Sessions /\ Ready(r) /\ r.open - r.idle = p.open - p.idle + 1 /\ sessions' = [sessions EXCEPT ![k.arg] = r]
    <3>1. sessions' = [sessions EXCEPT ![k.arg] = Taken(sessions[k.arg])]
      BY <1>4 DEF Acquire, Pooled
    <3>2. Taken(p) \in Sessions
      BY <2>2, PoolTypes
    <3>3. Ready(Taken(p)) /\ Taken(p).open - Taken(p).idle = p.open - p.idle + 1
      BY <2>2, <2>3, PoolCounts
    <3> QED BY <2>1, <2>8, <3>1, <3>2, <3>3
  <2> SUFFICES ASSUME NEW s \in DOMAIN sessions PROVE Ready(sessions'[s]) /\ (Keeps(s) \/ Takes(s))
    BY <1>1, <2>9, OnePool DEF CountEffect
  <2>10. InBatches(s)' = InBatches(s)
    BY <1>1, <1>2, BatchesStay
  <2>11. CASE s = k.arg
    <3>1. Ready(sessions'[s]) /\ Away(s)' = Away(s) + 1
      <4>1. sessions'[k.arg] = r /\ Away(k.arg)' = r.open - r.idle /\ Away(k.arg) = p.open - p.idle
        BY <1>1, <2>1, <2>9, OnePool
      <4> QED BY <2>9, <2>11, <4>1
    <3>2. k \notin InUse(s) /\ x \notin InUse(s)
      BY <1>1, <2>7 DEF InUse
    <3>3. InUse(s) \cup {x} \subseteq InUse(s)'
      BY <2>4, <2>6, <2>7, <2>11, <3>2 DEF InUse
    <3>4. InUse(s)' \subseteq InUse(s) \cup {x}
      BY <2>7 DEF InUse
    <3> QED BY <2>10, <3>1, <3>2, <3>3, <3>4 DEF Takes
  <2>12. CASE s # k.arg
    <3>1. Ready(sessions'[s]) /\ Away(s)' = Away(s)
      BY <1>1, <2>9, <2>12, OnePool
    <3>2. InUse(s)' = InUse(s)
      BY <2>12, UseStays
    <3> QED BY <2>10, <3>1, <3>2 DEF Keeps
  <2> QED BY <2>11, <2>12
<1> QED BY <1>3, <1>4

(* A statement ends, or a beginBatch fails: the request gives its connection back. *)
LEMMA RequestReturns ==
    ASSUME Types, ServerOk, CountInv, NEW k \in tasks, BatchEffect(k), UseEffect(k), Execute(k) \/ BeginFails(k)
    PROVE  CountEffect
<1>1. k.pc \in {"using", "prepare"} /\ k.arg \in DOMAIN sessions /\ batches' = batches
  BY TaskFacts DEF Execute, BeginFails
<1>2. \A b \in DOMAIN batches : ~Disposes(k, b)
  BY <1>1, TaskFacts
<1>3. PICK p : p = sessions[k.arg]
  OBVIOUS
<1>4. p \in Sessions /\ Ready(p)
  BY <1>1, <1>3, ReadySessions
<1>5. PICK r \in {Released(p), Discarded(p)} : sessions' = [sessions EXCEPT ![k.arg] = r]
  BY <1>3 DEF Execute, BeginFails
<1>6. r \in Sessions /\ Ready(r) /\ r.open - r.idle = p.open - p.idle - 1
  BY <1>4, <1>5, PoolTypes, PoolCounts
<1> QED BY <1>1, <1>2, <1>3, <1>5, <1>6, RequestGives

(* A batch is committed, rolled back or discarded: its connection is given back. *)
LEMMA BatchReturns ==
    ASSUME Types, ServerOk, CountInv, NEW k \in tasks, BatchEffect(k), UseEffect(k),
           CommitBatch(k) \/ CommitFails(k) \/ (DiscardDispose(k) /\ ~batches[k.cur].disposed)
    PROVE  CountEffect
<1>1. k.pc \notin {"using", "prepare", "acquire"}
  BY DEF CommitBatch, CommitFails, DiscardDispose, AtMonitor
<1>2. PICK c \in DOMAIN batches :
        /\ \A b \in DOMAIN batches : Disposes(k, b) => b = c
        /\ batches'[c].disposed /\ (Careful => ~batches[c].disposed)
        /\ \E r \in {Released(sessions[batches[c].session]), Discarded(sessions[batches[c].session])} :
             sessions' = [sessions EXCEPT ![batches[c].session] = r]
  <2>1. 0 \notin DOMAIN batches
    BY DEF Types, ServerTypes
  <2>2. CASE CommitBatch(k) \/ CommitFails(k)
    <3>1. k.pc = "monitor" /\ k.op = "commit"
      BY <2>2 DEF CommitBatch, CommitFails, AtMonitor
    <3>2. k.cur = 0 /\ k.arg \in DOMAIN batches /\ batches[k.arg] \in Batches
      BY <3>1, AtBatch
    <3>3. batches'[k.arg].disposed
      <4>1. CASE CommitBatch(k)
        <5>1. PICK v : v = [batches[k.arg] EXCEPT !.closing = TRUE, !.mapped = FALSE, !.disposed = TRUE]
          OBVIOUS
        <5>2. batches' = [batches EXCEPT ![k.arg] = v]
          BY <3>2, <4>1, <5>1 DEF CommitBatch, Types, ServerTypes
        <5>3. v.disposed
          BY <3>2, <5>1 DEF Batches
        <5> QED BY <3>2, <5>2, <5>3
      <4>2. CASE CommitFails(k)
        <5>1. PICK v : v = [batches[k.arg] EXCEPT !.closing = TRUE, !.mapped = FALSE, !.disposed = TRUE, !.lobs = 0, !.rows = {}]
          OBVIOUS
        <5>2. batches' = [batches EXCEPT ![k.arg] = v]
          BY <4>2, <5>1 DEF CommitFails
        <5>3. v.disposed
          BY <3>2, <5>1 DEF Batches
        <5> QED BY <3>2, <5>2, <5>3
      <4> QED BY <2>2, <4>1, <4>2
    <3>4. \A b \in DOMAIN batches : Disposes(k, b) => b = k.arg
      BY <2>1, <3>2 DEF Disposes
    <3>5. Careful => ~batches[k.arg].disposed
      BY <3>1 DEF Careful
    <3>6. \E r \in {Released(sessions[batches[k.arg].session]), Discarded(sessions[batches[k.arg].session])} :
             sessions' = [sessions EXCEPT ![batches[k.arg].session] = r]
      BY <2>2 DEF CommitBatch, CommitFails
    <3> QED BY <3>2, <3>3, <3>4, <3>5, <3>6
  <2>3. CASE DiscardDispose(k) /\ ~batches[k.cur].disposed
    <3>1. k.pc = "discard" /\ k.cur \in DOMAIN batches
      BY <2>3 DEF DiscardDispose, ServerOk, TaskOk
    <3>2. batches[k.cur] \in Batches
      BY <3>1 DEF Types, ServerTypes
    <3>3. batches'[k.cur].disposed
      <4>1. PICK v : v = [batches[k.cur] EXCEPT !.disposed = TRUE, !.lobs = 0, !.rows = {}]
        OBVIOUS
      <4>2. batches' = [batches EXCEPT ![k.cur] = v]
        BY <2>3, <4>1 DEF DiscardDispose
      <4>3. v.disposed
        BY <3>2, <4>1 DEF Batches
      <4> QED BY <3>1, <4>2, <4>3
    <3>4. \E r \in {Released(sessions[batches[k.cur].session]), Discarded(sessions[batches[k.cur].session])} :
             sessions' = [sessions EXCEPT ![batches[k.cur].session] = r]
      BY <2>3 DEF DiscardDispose
    <3>5. \A b \in DOMAIN batches : Disposes(k, b) => b = k.cur
      BY <3>1 DEF Disposes
    <3> QED BY <2>3, <3>1, <3>3, <3>4, <3>5
  <2> QED BY <2>2, <2>3
<1>3. PICK s0 \in DOMAIN sessions : s0 = batches[c].session
  BY <1>2 DEF ServerOk, BatchOk
<1>4. PICK p : p = sessions[s0]
  OBVIOUS
<1>5. p \in Sessions /\ Ready(p)
  BY <1>3, <1>4, ReadySessions
<1>6. PICK r \in {Released(p), Discarded(p)} : sessions' = [sessions EXCEPT ![s0] = r]
  BY <1>2, <1>3, <1>4
<1>7. r \in Sessions /\ Ready(r) /\ r.open - r.idle = p.open - p.idle - 1
  BY <1>5, <1>6, PoolTypes, PoolCounts
<1>8. \A s \in DOMAIN sessions : InUse(s)' = InUse(s)
  BY <1>1, UseStays
<1> QED BY <1>1, <1>2, <1>3, <1>4, <1>6, <1>7, <1>8, BatchGives

(* A pool drops an idle connection, a session is taken out of the map, a pool is *)
(* closed: nobody's connection is concerned.                                     *)
LEMMA PoolSteps ==
    ASSUME Types, ServerOk, CountInv, NEW k \in tasks, BatchEffect(k), UseEffect(k),
           DropIdle(k) \/ CloseSession(k) \/ CloseSessionPool(k)
    PROVE  CountEffect
<1>1. k.pc \in {"acquire", "queued", "discard"} /\ (k.pc = "discard" => k.cur = 0 /\ k.op = "close")
  BY DEF DropIdle, CloseSession, CloseSessionPool
<1>2. \A b \in DOMAIN batches : ~Disposes(k, b)
  BY <1>1, TaskFacts
<1>5. \A s \in DOMAIN sessions : InUse(s)' = InUse(s)
  <2>1. CASE DropIdle(k)
    BY <2>1 DEF DropIdle, InUse
  <2>2. CASE ~DropIdle(k)
    <3>1. k.pc \notin {"using", "prepare", "acquire"}
      BY <2>2 DEF CloseSession, CloseSessionPool
    <3> QED BY <3>1, UseStays
  <2> QED BY <2>1, <2>2
<1>3. CASE sessions' = sessions
  BY <1>1, <1>2, <1>3, <1>5, IdleCounts
<1>4. CASE sessions' # sessions
  <2>1. k.arg \in DOMAIN sessions
    BY <1>4, TaskFacts DEF DropIdle, CloseSession, CloseSessionPool, Session, ServerOk, TaskOk
  <2>2. PICK p : p = sessions[k.arg]
    OBVIOUS
  <2>3. p \in Sessions /\ Ready(p)
    BY <2>1, <2>2, ReadySessions
  <2>4. PICK r : /\ sessions' = [sessions EXCEPT ![k.arg] = r]
                 /\ r \in Sessions /\ Ready(r) /\ r.open - r.idle = p.open - p.idle
    <3>1. CASE DropIdle(k)
      <4>1. PICK r : r = [p EXCEPT !.idle = p.idle - 1, !.open = p.open - 1]
        OBVIOUS
      <4>2. sessions' = [sessions EXCEPT ![k.arg] = r]
        BY <2>1, <2>2, <3>1, <4>1 DEF DropIdle, Types, ServerTypes
      <4>3. r \in Sessions /\ r.open = p.open - 1 /\ r.idle = p.idle - 1
        <5>1. r \in Sessions
          BY <2>3, <4>1, PoolTypes
        <5> QED BY <2>3, <4>1, <5>1 DEF Sessions
      <4>4. p.idle > 0 /\ p.open \in Int /\ p.idle \in Int
        BY <2>2, <2>3, <3>1 DEF DropIdle, Sessions
      <4>5. Ready(r) /\ r.open - r.idle = p.open - p.idle
        BY <2>3, <4>3, <4>4, PoolAssumption DEF Ready
      <4> QED BY <4>2, <4>3, <4>5
    <3>2. CASE CloseSession(k)
      <4>1. PICK r : r = [p EXCEPT !.closed = TRUE]
        OBVIOUS
      <4>2. sessions' = [sessions EXCEPT ![k.arg] = r]
        BY <1>4, <2>2, <3>2, <4>1 DEF CloseSession
      <4>3. r \in Sessions /\ r.open = p.open /\ r.idle = p.idle
        BY <2>3, <4>1, PoolTypes DEF Sessions
      <4> QED BY <2>3, <4>2, <4>3 DEF Ready
    <3>3. CASE CloseSessionPool(k)
      <4>1. PICK r : r = ClosedPool(p)
        OBVIOUS
      <4>2. sessions' = [sessions EXCEPT ![k.arg] = r]
        BY <2>2, <3>3, <4>1 DEF CloseSessionPool
      <4> QED BY <2>3, <4>1, <4>2, PoolTypes, PoolCounts
    <3> QED BY <3>1, <3>2, <3>3
  <2> QED BY <1>1, <1>2, <1>5, <2>1, <2>2, <2>4, PoolStays
<1> QED BY <1>3, <1>4

(* openSession: the pool of the new session has its test connection idle. *)
LEMMA OpenCounts ==
    ASSUME Types, ServerOk, CountInv, NEW k \in tasks, BatchEffect(k), UseEffect(k), OpenSession(k)
    PROVE  CountEffect
<1>1. k.pc = "queued" /\ batches' = batches
  BY DEF OpenSession
<1>2. \A b \in DOMAIN batches : ~Disposes(k, b)
  BY <1>1, TaskFacts
<1>3. PICK p \in Sessions : sessions' = Append(sessions, p) /\ p.open = p.idle /\ p.open \in {0, 1} /\ (p.open = 1 => MaxIdle > 0)
  <2>1. CASE sessions' = Append(sessions,
                [closed |-> FALSE, shut |-> FALSE,
                 open |-> IF MaxIdle > 0 THEN 1 ELSE 0, idle |-> IF MaxIdle > 0 THEN 1 ELSE 0])
    <3>1. PICK n \in {0, 1} : n = (IF MaxIdle > 0 THEN 1 ELSE 0)
      OBVIOUS
    <3>2. PICK p : p = [closed |-> FALSE, shut |-> FALSE, open |-> n, idle |-> n]
      OBVIOUS
    <3>3. p \in Sessions /\ p.open = n /\ p.idle = n
      BY <3>2 DEF Sessions
    <3> QED BY <2>1, <3>1, <3>2, <3>3
  <2>2. CASE sessions' = Append(sessions, [closed |-> TRUE, shut |-> TRUE, open |-> 0, idle |-> 0])
    <3>1. PICK p : p = [closed |-> TRUE, shut |-> TRUE, open |-> 0, idle |-> 0]
      OBVIOUS
    <3>2. p \in Sessions /\ p.open = 0 /\ p.idle = 0
      BY <3>1 DEF Sessions
    <3> QED BY <2>2, <3>1, <3>2
  <2> QED BY <2>1, <2>2 DEF OpenSession
<1>4. /\ DOMAIN sessions' = DOMAIN sessions \cup {Len(sessions) + 1} /\ Len(sessions) + 1 \notin DOMAIN sessions
      /\ \A s \in DOMAIN sessions : sessions'[s] = sessions[s]
      /\ sessions'[Len(sessions) + 1] = p
  BY <1>3, SeqAppend DEF Types, ServerTypes
<1>5. Ready(p) /\ p.open = p.idle
  BY <1>3, PoolAssumption DEF Ready
<1>6. ASSUME NEW s \in DOMAIN sessions PROVE Ready(sessions'[s]) /\ Keeps(s)
  <2>1. InUse(s)' = InUse(s) /\ InBatches(s)' = InBatches(s)
    BY <1>1, <1>2, UseStays, BatchesStay
  <2>2. Away(s)' = Away(s)
    BY <1>4 DEF Away
  <2> QED BY <1>4, <2>1, <2>2, ReadySessions DEF Keeps
<1>7. ASSUME NEW s, s \notin DOMAIN sessions PROVE InBatches(s)' = {} /\ InUse(s)' = {}
  <2>1. InBatches(s)' = {}
    BY <1>1, <1>7 DEF InBatches, ServerOk, BatchOk
  <2>2. ASSUME NEW x \in InUse(s)' PROVE FALSE
    <3>1. x \in tasks' /\ x.pc \in {"using", "prepare"} /\ x.arg = s
      BY <2>2 DEF InUse
    <3>2. x \in tasks
      BY <1>1, <3>1 DEF UseEffect
    <3> QED BY <1>7, <3>1, <3>2, TaskFacts
  <2> QED BY <2>1, <2>2
<1> QED BY <1>4, <1>5, <1>6, <1>7 DEF CountEffect

(* beginBatch registers the batch: its connection is the batch's from now on. *)
LEMMA RegisterCounts ==
    ASSUME Types, ServerOk, CountInv, NEW k \in tasks, BatchEffect(k), UseEffect(k), BeginRegister(k)
    PROVE  CountEffect
<1>1. k.pc = "prepare" /\ k.arg \in DOMAIN sessions /\ sessions' = sessions
  BY TaskFacts DEF BeginRegister
<1>3. PICK v : v = [session |-> k.arg, opener |-> k.id, mapped |-> TRUE, closing |-> FALSE,
                    failed |-> FALSE, disposed |-> FALSE, lobs |-> 0, rows |-> {}, monitor |-> Free]
  OBVIOUS
<1>4. v.session = k.arg /\ ~v.disposed
  BY <1>3
<1>5. PICK n : /\ n \notin DOMAIN batches /\ DOMAIN batches' = DOMAIN batches \cup {n} /\ batches'[n] = v
               /\ \A b \in DOMAIN batches : batches'[b] = batches[b]
  <2>1. batches' = Append(batches, v)
    BY <1>3 DEF BeginRegister
  <2>2. DOMAIN batches = 1 .. Len(batches) /\ Len(batches) \in Nat
    BY DEF Types, ServerTypes
  <2>3. /\ DOMAIN batches' = 1 .. Len(batches) + 1 /\ batches'[Len(batches) + 1] = v
        /\ \A b \in DOMAIN batches : batches'[b] = batches[b]
    BY <2>1, <2>2 DEF Types, ServerTypes
  <2>4. DOMAIN batches' = DOMAIN batches \cup {Len(batches) + 1} /\ Len(batches) + 1 \notin DOMAIN batches
    BY <2>2, <2>3
  <2> QED BY <2>3, <2>4
<1> SUFFICES ASSUME NEW s \in DOMAIN sessions PROVE Ready(sessions'[s]) /\ (Keeps(s) \/ Hands(s))
  BY <1>1 DEF CountEffect
<1>6. Ready(sessions'[s]) /\ Away(s)' = Away(s)
  BY <1>1, ReadySessions DEF Away
<1>7. CASE s = k.arg
  <2>1. n \notin InBatches(s) /\ InBatches(s) \cup {n} \subseteq InBatches(s)'
    BY <1>4, <1>5, <1>7 DEF InBatches
  <2>2. InBatches(s)' \subseteq InBatches(s) \cup {n}
    BY <1>5 DEF InBatches
  <2>3. k \in InUse(s) /\ InUse(s)' = InUse(s) \ {k}
    BY <1>1, <1>7, UseStays
  <2> QED BY <1>6, <2>1, <2>2, <2>3 DEF Hands
<1>8. CASE s # k.arg
  <2>1. InUse(s)' = InUse(s)
    BY <1>8, UseStays
  <2>2. InBatches(s) \subseteq InBatches(s)'
    BY <1>5 DEF InBatches
  <2>3. InBatches(s)' \subseteq InBatches(s)
    BY <1>4, <1>5, <1>8 DEF InBatches
  <2> QED BY <1>6, <2>1, <2>2, <2>3 DEF Keeps
<1> QED BY <1>7, <1>8

(* Every step of a task. *)
LEMMA WorkCounts ==
    ASSUME Types, ServerOk, CountInv, UniqueInv, NEW k \in tasks, Work(k), UNCHANGED <<gen, goVars>>
    PROVE  CountInv' /\ (Careful /\ Counted => Counted')
<1>1. BatchEffect(k) /\ UseEffect(k) /\ TaskShape(k) /\ Types'
  BY WorkEffects, WorkShape, WorkUse, WorkKeeps DEF WorkEffect
<1>2. IsFiniteSet(tasks')
  <2>1. \E x : tasks' \subseteq tasks \cup {x}
    BY <1>1 DEF TaskShape
  <2> QED BY <2>1, FS_AddElement, FS_Subset DEF CountInv
<1>3. CountEffect
  BY <1>1, IdleSteps, AcquireCounts, RequestReturns, BatchReturns, PoolSteps, OpenCounts, RegisterCounts DEF Work
<1> QED BY <1>1, <1>2, <1>3, NoneLost

(* The steps of the input thread: a cancellation only marks tasks, and takes none *)
(* away that holds a connection.                                                  *)
LEMMA CancelCounts ==
    ASSUME Types, ServerOk, CountInv, UniqueInv, CancelFuture, Types'
    PROVE  CountInv' /\ (Counted => Counted')
<1>1. PICK never \in SUBSET tasks :
        /\ \A k \in never : k.pc = "queued"
        /\ tasks' = {[k EXCEPT !.cancelled = @ \/ k.id = Head(in).id] : k \in tasks \ never}
  BY DEF CancelFuture
<1>2. PICK f : f = [k \in tasks \ never |-> [k EXCEPT !.cancelled = @ \/ k.id = Head(in).id]]
  OBVIOUS
<1>3. ASSUME NEW k \in tasks \ never PROVE f[k].pc = k.pc /\ f[k].arg = k.arg /\ f[k].id = k.id /\ f[k].op = k.op
  BY <1>2 DEF Types, ServerTypes, Tasks
<1>4. DOMAIN f = tasks \ never /\ tasks' = {f[k] : k \in tasks \ never}
  BY <1>1, <1>2
<1>5. IsFiniteSet(tasks')
  <2>1. f \in Surjection(tasks \ never, tasks')
    BY <1>2, <1>4 DEF Surjection
  <2>2. IsFiniteSet(tasks \ never)
    BY FS_Subset DEF CountInv
  <2> QED BY <2>1, <2>2, FS_Surjection
<1>6. UNCHANGED <<sessions, batches>>
  BY DEF CancelFuture
<1>7. ASSUME NEW s PROVE Held(s)' = Held(s)
  <2>1. PICK g : g = [k \in InUse(s) |-> f[k]]
    OBVIOUS
  <2>2. InUse(s) \subseteq tasks \ never
    BY <1>1 DEF InUse
  <2>3. ASSUME NEW k \in InUse(s) PROVE g[k] = f[k] /\ g[k] \in InUse(s)' /\ g[k].id = k.id /\ k.op # "cleanup" /\ k \in tasks
    <3>1. k.op # "cleanup"
      BY QueuedTask DEF InUse
    <3> QED BY <1>3, <1>4, <2>1, <2>2, <3>1 DEF InUse
  <2>4. g \in Injection(InUse(s), InUse(s)')
    <3>1. g \in [InUse(s) -> InUse(s)']
      BY <2>1, <2>3
    <3>2. \A k, l \in InUse(s) : g[k] = g[l] => k = l
      BY <2>3 DEF UniqueInv
    <3> QED BY <3>1, <3>2 DEF Injection, IsInjective
  <2>5. g \in Surjection(InUse(s), InUse(s)')
    <3>1. g \in [InUse(s) -> InUse(s)']
      BY <2>1, <2>3
    <3>2. ASSUME NEW x \in InUse(s)' PROVE \E k \in InUse(s) : g[k] = x
      <4>1. x \in tasks' /\ x.pc \in {"using", "prepare"} /\ x.arg = s
        BY <3>2 DEF InUse
      <4>2. PICK k \in tasks \ never : x = f[k]
        BY <1>4, <4>1
      <4>3. k \in InUse(s)
        BY <1>3, <4>1, <4>2 DEF InUse
      <4> QED BY <2>3, <4>2, <4>3
    <3> QED BY <3>1, <3>2 DEF Surjection
  <2>6. Cardinality(InUse(s)') = Cardinality(InUse(s))
    <3>1. ExistsBijection(InUse(s), InUse(s)')
      BY <2>4, <2>5 DEF Bijection, ExistsBijection
    <3> QED BY <3>1, HeldFinite, FS_Bijection DEF CountInv
  <2>7. InBatches(s)' = InBatches(s)
    BY <1>6 DEF InBatches
  <2> QED BY <2>6, <2>7 DEF Held
<1> QED BY <1>5, <1>6, <1>7 DEF CountInv, NoConnectionLost, Counted

(* A request that is dispatched, or a cleanup, holds no connection. *)
LEMMA AddedCounts ==
    ASSUME Types, Types', CountInv, UNCHANGED sessions, DOMAIN batches = DOMAIN batches',
           \A b \in DOMAIN batches : batches'[b].session = batches[b].session /\ batches'[b].disposed = batches[b].disposed,
           tasks \subseteq tasks', NEW x, tasks' \subseteq tasks \cup {x}, x.pc \notin {"using", "prepare"}
    PROVE  CountInv' /\ (Careful /\ Counted => Counted')
<1>1. IsFiniteSet(tasks')
  BY FS_AddElement, FS_Subset DEF CountInv
<1>2. CountEffect
  <2> SUFFICES ASSUME NEW s \in DOMAIN sessions PROVE Ready(sessions'[s]) /\ Keeps(s)
    BY DEF CountEffect
  <2>1. InUse(s) \subseteq InUse(s)' /\ InUse(s)' \subseteq InUse(s)
    BY DEF InUse
  <2>2. InBatches(s) \subseteq InBatches(s)' /\ InBatches(s)' \subseteq InBatches(s)
    BY DEF InBatches
  <2> QED BY <2>1, <2>2, ReadySessions DEF Keeps, Away
<1> QED BY <1>1, <1>2, NoneLost

(* The steps of the JVM. *)
LEMMA ServerCounts ==
    ASSUME Types, Types', ServerOk, CountInv, UniqueInv, ServerStep
    PROVE  CountInv' /\ (Careful /\ Counted => Counted')
<1>1. CASE Dispatch
  <2>1. PICK x : /\ tasks' = tasks \cup {x}
                 /\ x = [id |-> Head(in).id, op |-> Head(in).op, arg |-> Head(in).arg, row |-> Head(in).row, pc |-> "queued",
                         cancelled |-> FALSE, todo |-> {}, cur |-> 0, ok |-> FALSE, val |-> 0]
    BY <1>1 DEF Dispatch
  <2>2. UNCHANGED <<sessions, batches>> /\ x.pc = "queued"
    BY <1>1, <2>1 DEF Dispatch
  <2> QED BY <2>1, <2>2, AddedCounts
<1>2. CASE CancelBatches
  <2>1. PICK x : x = Cleanup(BatchesOf(input))
    OBVIOUS
  <2>2. tasks \subseteq tasks' /\ tasks' \subseteq tasks \cup {x} /\ UNCHANGED sessions
    BY <1>2, <2>1, CancelBatchesFacts DEF CancelBatches
  <2>3. /\ DOMAIN batches = DOMAIN batches'
        /\ \A b \in DOMAIN batches : batches'[b].session = batches[b].session /\ batches'[b].disposed = batches[b].disposed
    BY <1>2, CancelBatchesFacts DEF Twin
  <2>4. x.pc = "discard"
    BY <2>1 DEF Cleanup
  <2> QED BY <2>2, <2>3, <2>4, AddedCounts
<1> QED BY <1>1, <1>2, CancelCounts, WorkCounts DEF ServerStep, ServerNext

(* The threads and the readers leave the JVM alone; it starts and ends with nothing, *)
(* and one that was given up has pools of its own.                                   *)
LEMMA GoCounts ==
    ASSUME CountInv,
           \/ \E t \in Threads : ThreadStep(t) \/ EnsureFails(t) \/ CtxDone(t) \/ JoinDone(t)
           \/ ReaderStep \/ Killed \/ Crash \/ UNCHANGED vars
           \/ BadFrame \/ LateCommit \/ \E g \in adrift : AdriftExits(g)
    PROVE  CountInv' /\ (Counted => Counted')
<1>1. UNCHANGED <<tasks, sessions, batches>> \/ (tasks' = {} /\ sessions' = <<>> /\ batches' = <<>>)
  <2>1. CASE \E t \in Threads : EnsureStart(t)
    BY <2>1 DEF EnsureStart, FreshProcess
  <2>2. CASE Killed \/ Crash
    BY <2>2 DEF Killed, Crash, Exit
  <2>3. CASE \E t \in Threads : ThreadStep(t) /\ ~EnsureStart(t)
    <3>1. CASE \E t \in Threads : StartWork(t) \/ StartClose(t) \/ Begin(t) \/ EnsureJoin(t)
      BY <3>1 DEF StartWork, StartClose, Begin, EnsureJoin, serverVars
    <3>2. CASE \E t \in Threads : HelloKill(t) \/ StartupFails(t) \/ StartFailed(t) \/ CheckRunning(t) \/ Register(t)
      BY <3>2 DEF HelloKill, StartupFails, StartFailed, CheckRunning, Register, serverVars
    <3>3. CASE \E t \in Threads : Capture(t) \/ Receive(t)
      BY <3>3 DEF Capture, Receive, serverVars
    <3>4. CASE \E t \in Threads : Write(t) \/ SendCancel(t)
      BY <3>4 DEF Write, SendCancel
    <3> QED BY <2>3, <3>1, <3>2, <3>3, <3>4, Zenon DEF ThreadStep
  <2>4. CASE \E t \in Threads : EnsureFails(t) \/ CtxDone(t) \/ JoinDone(t)
    BY <2>4 DEF EnsureFails, CtxDone, JoinDone
  <2>5. CASE ReaderStep \/ UNCHANGED vars
    BY <2>5 DEF ReaderStep, ReadResponse, ReadEOF, Reap, vars, serverVars
  <2>6. CASE BadFrame \/ LateCommit \/ \E g \in adrift : AdriftExits(g)
    BY <2>6 DEF BadFrame, LateCommit, AdriftExits
  <2> QED BY <2>1, <2>2, <2>3, <2>4, <2>5, <2>6
<1>2. CASE UNCHANGED <<tasks, sessions, batches>>
  BY <1>2 DEF CountInv, NoConnectionLost, Counted, Held, InUse, InBatches
<1>3. CASE tasks' = {} /\ sessions' = <<>>
  BY <1>3, FS_EmptySet DEF CountInv, NoConnectionLost, Counted
<1> QED BY <1>1, <1>2, <1>3

(* Every step. *)
LEMMA StepCounts ==
    ASSUME BaseInv, BaseInv', LinkInv, CountInv, [Next]_vars
    PROVE  CountInv' /\ (Careful /\ Counted => Counted')
<1>1. Types /\ Types' /\ ServerOk /\ UniqueInv
  BY Base DEF BaseInv, LinkInv
<1> QED BY <1>1, ServerCounts, GoCounts DEF Next

(* No connection of a pool is lost, whatever is cancelled, fails, is closed or dies *)
(* in whatever order: each one that is counted is idle, or at work for a request,   *)
(* or in a batch that has not been disposed of; and the pool keeps to its bounds.   *)
(* Nothing is assumed about which operations may be cancelled.                      *)
THEOREM NoConnectionIsLost == Spec => []NoConnectionLost
<1>1. Init => CountInv
  BY FS_EmptySet DEF Init, ServerInit, CountInv, NoConnectionLost
<1>2. BaseInv /\ BaseInv' /\ LinkInv /\ CountInv /\ [Next]_vars => CountInv'
  BY StepCounts
<1>3. CountInv => NoConnectionLost
  BY DEF CountInv
<1> QED BY <1>1, <1>2, <1>3, BaseHolds, LinksHold, PTL DEF Spec

-----------------------------------------------------------------------------
(* How the work of a thread goes on: it does not, *)
Rests(x) == call'[x] = call[x] /\ phase'[x] = phase[x] /\ handle'[x] = handle[x]

(* or inside a call, which a commit leaves only by an answer or an error, *)
Inside(x) ==
    /\ phase'[x] = phase[x] /\ handle'[x] = handle[x]
    /\ \/ phase[x] = "open"
       \/ call[x].pc = "rest" /\ cmd # 0 /\ call'[x].pc = "register"
       \/ call[x].pc \in {"register", "capture", "write"} /\ call'[x].pc \in {"capture", "write", "await"}
       \/ call[x].pc = "await" /\ call'[x].pc = "cancel" /\ call'[x].n = call[x].n /\ call[x].op \in Cancellable

(* or from one operation to the next, without a call, *)
Starts(x) ==
    /\ call[x].pc = "rest" /\ call'[x] = call[x] /\ handle'[x] = handle[x]
    /\ (phase[x] = "wait" /\ phase'[x] \in {"begin", "exec", "done"}) \/ (phase[x] = "copy" /\ phase'[x] = "close")

(* after an error, or after an answer. *)
Fails(x) ==
    /\ phase[x] \in Busy /\ call[x].pc # "await" /\ call'[x].pc = "rest" /\ call'[x].n = call[x].n
    /\ phase'[x] \in After(x, Error) /\ handle'[x] = handle[x]

Hears(x) ==
    /\ phase[x] \in Busy /\ call[x].pc = "await" /\ answer[x] # Empty /\ call[x].op # "hello"
    /\ call'[x].pc = "rest" /\ call'[x].n = call[x].n
    /\ phase'[x] \in After(x, answer[x])
    /\ handle'[x] = IF answer[x].ok /\ phase[x] \in {"open", "begin"} THEN [id |-> answer[x].val, born |-> call[x].w] ELSE handle[x]

Advances(x) == Rests(x) \/ Inside(x) \/ Starts(x) \/ Fails(x) \/ Hears(x)

(* One thread moves. *)
LEMMA AloneAdvances ==
    ASSUME NEW t \in Threads, Alone(t), Advances(t) PROVE \A x \in Threads : Advances(x)
BY DEF Alone, Advances, Rests

(* It returns from a call. *)
LEMMA ReturnAdvances ==
    ASSUME BaseInv, NEW t \in Threads, NEW r, r.val \in Int, Return(t, r), call[t].pc # "rest" \/ phase[t] \in Busy,
           \/ r = Error /\ call[t].pc # "await"
           \/ r = answer[t] /\ call[t].pc = "await" /\ answer[t] # Empty /\ call[t].op # "hello"
    PROVE  \A x \in Threads : Advances(x)
<1>1. phase[t] \in Busy
  BY Base, BusyThread
<1>2. /\ Alone(t) /\ call'[t].pc = "rest" /\ call'[t].n = call[t].n /\ phase'[t] \in After(t, r)
      /\ handle'[t] = IF r.ok /\ phase[t] \in {"open", "begin"} THEN [id |-> r.val, born |-> call[t].w] ELSE handle[t]
  BY <1>1, Base, ReturnFacts
<1>3. Advances(t)
  BY <1>1, <1>2, ErrorVal DEF Advances, Fails, Hears
<1> QED BY <1>2, <1>3, AloneAdvances

(* A startup ends for all that take part in it. *)
LEMMA JoinedAdvances ==
    ASSUME BaseInv, NEW t \in Threads, NEW r, Joined(t, r), phase[t] = "open", UNCHANGED <<phase, handle>>
    PROVE  \A x \in Threads : Advances(x)
<1>1. \A x \in Threads : call'[x] = call[x] \/ phase[x] = "open"
  BY JoinedFacts
<1> QED BY <1>1 DEF Advances, Rests, Inside

(* A call ends. *)
LEMMA FinishAdvances ==
    ASSUME BaseInv, NEW t \in Threads, NEW r, r.val \in Int, Finish(t, r), call[t].pc \in StartPcs,
           \/ r = Error /\ call[t].pc # "await"
           \/ r = answer[t] /\ call[t].pc = "await" /\ answer[t] # Empty
    PROVE  \A x \in Threads : Advances(x)
<1>1. CASE call[t].op # "hello"
  BY <1>1, ReturnAdvances DEF Finish, StartPcs
<1>2. CASE call[t].op = "hello"
  <2>1. phase[t] = "open"
    BY <1>2, Base, BusyThread DEF CallInv, CallOk, OpOf, Busy, BatchPhases, StartPcs
  <2>2. UNCHANGED <<phase, handle>>
    BY <1>2 DEF Finish
  <2>3. CASE r.ok
    BY <1>2, <2>1, <2>2, <2>3, JoinedAdvances DEF Finish
  <2>4. CASE ~r.ok
    <3>1. \A x \in Threads \ {t} : call'[x] = call[x]
      BY <1>2, <2>4, Base DEF Finish, ManagerInv, StarterInv
    <3> QED BY <2>1, <2>2, <3>1 DEF Advances, Rests, Inside
  <2> QED BY <2>3, <2>4
<1> QED BY <1>1, <1>2

(* Every step of a thread. *)
LEMMA ThreadAdvances ==
    ASSUME BaseInv, NEW t \in Threads, ThreadStep(t) \/ EnsureFails(t) \/ CtxDone(t) \/ JoinDone(t)
    PROVE  \A x \in Threads : Advances(x)
<1>1. call[t] \in Calls /\ call \in [Threads -> Calls] /\ CallOk(t) /\ answer[t].val \in Int
  BY Base, CallTypeFacts DEF CallInv
<1>2. CASE StartWork(t) \/ StartClose(t)
  <2>1. phase[t] \notin Busy
    BY <1>2 DEF StartWork, StartClose, Busy, BatchPhases
  <2>2. call[t].pc = "rest"
    BY <2>1, Base, BusyThread
  <2>3. UNCHANGED <<call, handle>> /\ \A x \in Threads \ {t} : phase'[x] = phase[x]
    BY <1>2, Base DEF StartWork, StartClose, Types, GoTypes
  <2>4. (phase[t] = "wait" /\ phase'[t] \in {"begin", "exec", "done"}) \/ (phase[t] = "copy" /\ phase'[t] = "close")
    BY <1>2, Base DEF StartWork, StartClose, Types, GoTypes
  <2>5. Alone(t) /\ Advances(t)
    BY <2>2, <2>3, <2>4 DEF Alone, Advances, Starts
  <2> QED BY <2>5, AloneAdvances
<1>3. CASE Begin(t) \/ EnsureJoin(t) \/ EnsureStart(t) \/ EnsureFails(t) \/ HelloKill(t)
  <2>1. phase[t] = "open" /\ UNCHANGED <<phase, handle>>
    BY <1>1, <1>3 DEF Begin, EnsureJoin, EnsureStart, EnsureFails, HelloKill, CallOk, StartPcs
  <2>2. \A x \in Threads \ {t} : call'[x] = call[x]
    BY <1>1, <1>3 DEF Begin, EnsureJoin, EnsureStart, EnsureFails, HelloKill
  <2> QED BY <2>1, <2>2 DEF Advances, Rests, Inside
<1>4. CASE StartupFails(t)
  <2>1. phase[t] = "open" /\ UNCHANGED <<phase, handle>>
    BY <1>1, <1>4 DEF StartupFails, CallOk, StartPcs
  <2> QED BY <1>4, <2>1, JoinedAdvances DEF StartupFails
<1>5. CASE StartFailed(t) \/ JoinDone(t) \/ (CheckRunning(t) /\ cmd = 0)
  <2>1. Return(t, Error) /\ (call[t].pc # "rest" \/ phase[t] \in Busy) /\ call[t].pc # "await"
    BY <1>5 DEF StartFailed, JoinDone, CheckRunning, Busy, BatchPhases
  <2> QED BY <2>1, ErrorVal, ReturnAdvances
<1>6. CASE (CheckRunning(t) /\ cmd # 0) \/ Register(t) \/ (Capture(t) /\ cmd # 0) \/ (Write(t) /\ call[t].w \in live \cup adrift) \/ CtxDone(t)
  <2>1. UNCHANGED <<phase, handle>> /\ \A x \in Threads \ {t} : call'[x] = call[x]
    BY <1>1, <1>6 DEF CheckRunning, Register, Capture, Write, CtxDone
  <2>2. \/ call[t].pc = "rest" /\ cmd # 0 /\ call'[t].pc = "register"
        \/ call[t].pc \in {"register", "capture", "write"} /\ call'[t].pc \in {"capture", "write", "await"}
        \/ call[t].pc = "await" /\ call'[t].pc = "cancel" /\ call'[t].n = call[t].n /\ call[t].op \in Cancellable
    <3>1. CASE CheckRunning(t) /\ cmd # 0
      BY <1>1, <3>1 DEF CheckRunning, Calls
    <3>2. CASE Register(t)
      <4>1. PICK c : c = [call[t] EXCEPT !.n = @ + 1, !.pc = "capture"]
        OBVIOUS
      <4>2. c.pc = "capture"
        BY <1>1, <4>1 DEF Calls
      <4>3. call' = [call EXCEPT ![t] = c] /\ call[t].pc = "register"
        BY <3>2, <4>1 DEF Register
      <4> QED BY <1>1, <4>2, <4>3
    <3>4. CASE Capture(t) /\ cmd # 0
      <4>1. PICK c : c = [call[t] EXCEPT !.pc = "write", !.w = cmd]
        OBVIOUS
      <4>2. c.pc = "write"
        BY <1>1, <4>1 DEF Calls
      <4>3. call' = [call EXCEPT ![t] = c] /\ call[t].pc = "capture"
        BY <3>4, <4>1 DEF Capture
      <4> QED BY <1>1, <4>2, <4>3
    <3>5. CASE Write(t) /\ call[t].w \in live \cup adrift
      BY <1>1, <3>5 DEF Write, Calls
    <3>3. CASE CtxDone(t)
      BY <1>1, <3>3 DEF CtxDone, Calls
    <3> QED BY <1>6, <3>1, <3>2, <3>3, <3>4, <3>5
  <2> QED BY <2>1, <2>2 DEF Advances, Rests, Inside
<1>7. CASE (Capture(t) /\ cmd = 0) \/ (Write(t) /\ call[t].w \notin live \cup adrift) \/ SendCancel(t)
  <2>1. Finish(t, Error) /\ call[t].pc \in StartPcs \ {"await"}
    BY <1>7 DEF Capture, Write, SendCancel, StartPcs
  <2> QED BY <2>1, ErrorVal, FinishAdvances
<1>8. CASE Receive(t)
  <2>1. Finish(t, answer[t]) /\ call[t].pc = "await" /\ answer[t] # Empty
    BY <1>8 DEF Receive
  <2> QED BY <1>1, <2>1, FinishAdvances DEF StartPcs
<1> QED BY <1>2, <1>3, <1>4, <1>5, <1>6, <1>7, <1>8 DEF ThreadStep

-----------------------------------------------------------------------------
(* Calm. A worker that has given its batch up never uses it again, and so does a  *)
(* writer that closes: what cancels, aborts or closes is asked by such a thread.   *)
GaveUp(t) == t \in Writers \/ phase[t] \in {"abort", "done"}

Calm(q) ==
    /\ q.op \in {"cancel", "abort", "cleanup"} => GaveUp(q.id.t)
    /\ q.op = "close" => phase[q.id.t] \in {"close", "closed"}
    /\ q.op = "begin" => \/ phase[q.id.t] = "done"
                         \/ phase[q.id.t] = "begin" /\ q.id.n = call[q.id.t].n /\ call[q.id.t].pc \in {"await", "cancel"}

CalmInv ==
    /\ \A i \in DOMAIN in : Calm(in[i])
    /\ \A k \in tasks : Calm(k)
    /\ input # NoTarget => GaveUp(input.t)

(* A thread that gave up does not work again, a writer that closes does not open,  *)
(* a beginBatch that ends without success is the end.                              *)
LEMMA GivesUp ==
    ASSUME BaseInv, NEW x \in Threads, Advances(x)
    PROVE  /\ GaveUp(x) => GaveUp(x)'
           /\ phase[x] \in {"close", "closed"} => phase'[x] \in {"close", "closed"}
           /\ phase[x] = "done" => phase'[x] = "done"
           /\ phase[x] = "begin" => \/ phase'[x] = "done"
                                    \/ call[x].pc = "await" /\ answer[x].ok
                                    \/ Rests(x)
                                    \/ phase'[x] = "begin" /\ call[x].pc = "await" /\ call'[x].pc = "cancel" /\ call'[x].n = call[x].n
                                    \/ phase'[x] = "begin" /\ call[x].pc \notin {"await", "cancel"}
           /\ call[x].pc = "cancel" /\ call'[x].pc # "cancel" => GaveUp(x)'
<1>1. CallOk(x) /\ (x \in Writers \/ x \in Workers) /\ ~(x \in Writers /\ x \in Workers)
  BY Base, ThreadsAssumption DEF CallInv
<1>2. ~Error.ok
  BY DEF Error
<1>3. CASE Rests(x) \/ Inside(x)
  BY <1>1, <1>3 DEF Rests, Inside, GaveUp, CallOk, WorkerPhases, BatchPhases
<1>4. CASE Starts(x)
  BY <1>1, <1>4 DEF Starts, GaveUp, CallOk
<1>5. CASE Fails(x)
  BY <1>1, <1>2, <1>5 DEF Fails, After, GaveUp, CallOk, Busy, BatchPhases, WorkerPhases, WriterPhases
<1>6. CASE Hears(x)
  BY <1>1, <1>6 DEF Hears, After, GaveUp, CallOk, Busy, BatchPhases, WorkerPhases, WriterPhases
<1> QED BY <1>3, <1>4, <1>5, <1>6 DEF Advances

(* A request that is somewhere stays calm while its thread moves. *)
LEMMA CalmMoves ==
    ASSUME BaseInv, LinkInv, NEW q, q.id \in Ids, Calm(q), q.op = "begin" => ~Quiet(q.id), Advances(q.id.t)
    PROVE  Calm(q)'
<1>1. q.id.t \in Threads
  BY DEF Ids
<1>2. q.op # "begin" => Calm(q)'
  BY <1>1, GivesUp DEF Calm
<1>3. ASSUME q.op = "begin" PROVE Calm(q)'
  <2>1. q.id.n = call[q.id.t].n => q.id = Id(q.id.t)
    BY DEF Ids, Id
  <2>2. ~(q.id.n = call[q.id.t].n /\ call[q.id.t].pc = "await" /\ answer[q.id.t].ok)
    BY <1>1, <1>3, <2>1 DEF LinkInv, ToldInv, Succeeded
  <2> QED BY <1>1, <1>3, <2>2, GivesUp DEF Calm, Rests
<1> QED BY <1>2, <1>3

(* What is written is calm. *)
LEMMA CalmInput ==
    ASSUME BaseInv, NEW x \in Threads, NEW m, NewInput(x, m), Advances(x)
    PROVE  Calm(m)'
<1>1. m.id.t = x /\ m.id.n = call[x].n /\ CallOk(x) /\ (x \in Writers \/ x \in Workers)
  BY Base, ThreadsAssumption DEF NewInput, Id, CallInv
<1>2. CASE m.op = "cancel" /\ Sends(x)
  <2>1. call[x].pc = "cancel" /\ call'[x].pc # "cancel"
    BY <1>2 DEF Sends
  <2> QED BY <1>1, <1>2, <2>1, GivesUp DEF Calm
<1>3. CASE m.op # "cancel" /\ Writes(x) /\ m.op = call[x].op
  <2>1. call'[x].pc = "await" /\ phase'[x] = phase[x] /\ call'[x].n = call[x].n
    BY <1>3 DEF Writes
  <2>2. m.op = "begin" => phase[x] = "begin"
    BY <1>1, <1>3 DEF CallOk, OpOf, Writes, StartPcs
  <2>3. m.op = "close" => phase[x] = "close"
    BY <1>1, <1>3 DEF CallOk, OpOf, Writes, StartPcs
  <2>4. m.op = "abort" => phase[x] = "abort"
    BY <1>1, <1>3 DEF CallOk, OpOf, Writes, StartPcs
  <2>5. m.op # "cleanup"
    BY <1>3 DEF NewInput, Messages, Ops
  <2> QED BY <1>1, <1>3, <2>1, <2>2, <2>3, <2>4, <2>5 DEF Calm, GaveUp
<1> QED BY <1>2, <1>3 DEF NewInput

(* What is in the pipe, at work or about to be cancelled is a thread's. *)
LEMMA PlaceTypes ==
    ASSUME Types
    PROVE  /\ \A i \in DOMAIN in : in[i] \in Messages /\ in[i].id \in Ids /\ in[i].id.t \in Threads
           /\ \A k \in tasks : k \in Tasks /\ k.id \in Ids /\ k.id.t \in Threads
           /\ input # NoTarget => input \in Ids /\ input.t \in Threads
<1>1. \A i \in Ids : i.t \in Threads
  BY DEF Ids
<1>2. \A i \in DOMAIN in : in[i] \in Messages
  BY DEF Types, ServerTypes
<1> QED BY <1>1, <1>2 DEF Types, ServerTypes, Messages, Tasks

(* Steps of the callers and their readers, *)
LEMMA CalmGo ==
    ASSUME BaseInv, LinkInv, CalmInv, \A x \in Threads : Advances(x), UNCHANGED <<tasks, input>>,
           in' = in \/ \E x \in Threads : \E m : NewInput(x, m)
    PROVE  CalmInv'
<1>1. /\ \A i \in DOMAIN in : in[i].id \in Ids /\ in[i].id.t \in Threads
      /\ \A k \in tasks : k.id \in Ids /\ k.id.t \in Threads
      /\ input # NoTarget => input.t \in Threads
  BY Base, PlaceTypes
<1>2. \A q : (\E i \in DOMAIN in : q = in[i]) => Calm(q)'
  <2> SUFFICES ASSUME NEW i \in DOMAIN in, NEW q, q = in[i] PROVE Calm(q)'
    OBVIOUS
  <2>1. q.id \in Ids /\ Calm(q) /\ Advances(q.id.t) /\ (q.op = "begin" => ~Quiet(q.id))
    BY <1>1 DEF CalmInv, Quiet
  <2> QED BY <2>1, CalmMoves
<1>3. \A k \in tasks : Calm(k)'
  <2> SUFFICES ASSUME NEW q \in tasks PROVE Calm(q)'
    OBVIOUS
  <2>1. q.id \in Ids /\ Calm(q) /\ Advances(q.id.t) /\ (q.op = "begin" => ~Quiet(q.id))
    BY <1>1 DEF CalmInv, Quiet
  <2> QED BY <2>1, CalmMoves
<1>4. \A i : i = input /\ i # NoTarget => GaveUp(i.t)'
  BY <1>1, GivesUp DEF CalmInv
<1>5. CASE in' = in
  BY <1>2, <1>3, <1>4, <1>5 DEF CalmInv
<1>6. ASSUME NEW x \in Threads, NEW m, NewInput(x, m) PROVE CalmInv'
  <2>1. Calm(m)'
    BY <1>6, CalmInput
  <2>2. \A i \in DOMAIN in' : in'[i] = m \/ (i \in DOMAIN in /\ in'[i] = in[i])
    BY <1>6, Base, InputGrows
  <2>3. \A i \in DOMAIN in' : \A q : q = in'[i] => Calm(q)'
    BY <1>2, <2>1, <2>2
  <2> QED BY <1>3, <1>4, <2>3 DEF CalmInv
<1> QED BY <1>5, <1>6

(* The steps, as the pools and their batches see them. The callers and readers:    *)
(* the JVM stays as it is, but for one message more; a call begins to wait when it *)
(* is written, and what it hears is a response.                                    *)
Waits(x) ==
    call'[x].pc = "await" =>
        /\ call'[x].n = call[x].n
        /\ \/ call'[x] = call[x] /\ phase'[x] = phase[x] /\ handle'[x] = handle[x]
              /\ (answer'[x].ok => \/ answer'[x] = answer[x]
                                   \/ \E r \in out : r.id = Id(x) /\ r.ok /\ answer'[x].val = r.val)
           \/ call[x].pc = "write" /\ ~answer'[x].ok

GoStep ==
    /\ UNCHANGED <<gen, live, input, tasks, sessions, batches, aliased>> /\ out' \subseteq out
    /\ cmd' \in {cmd, 0}
    /\ \A x \in Threads : Advances(x) /\ Waits(x)
    /\ in' = in \/ \E x \in Threads : \E m : NewInput(x, m)

(* A process that begins or ends has nothing in it. *)
Blank ==
    /\ in' = <<>> /\ input' = NoTarget /\ tasks' = {} /\ sessions' = <<>> /\ batches' = <<>> /\ handle' = handle
    /\ \/ gen' = gen /\ gen \notin live'
       \/ gen' = gen + 1 /\ out' = {} /\ \A x \in Threads : call'[x] = call[x] \/ call'[x].pc = "register"

(* The threads leave the sessions alone. *)
LEMMA ThreadsAside ==
    ASSUME NEW t, ThreadStep(t) \/ EnsureFails(t) \/ CtxDone(t) \/ JoinDone(t), ~EnsureStart(t)
    PROVE  sessions' = sessions
BY DEF ThreadStep, StartWork, StartClose, Begin, EnsureJoin, EnsureFails, CtxDone, JoinDone, HelloKill, StartupFails, StartFailed,
       CheckRunning, Register, Capture, Write, Receive, SendCancel, serverVars

(* A thread takes a step. *)
LEMMA ThreadGo ==
    ASSUME BaseInv, NEW t \in Threads, ThreadStep(t) \/ EnsureFails(t) \/ CtxDone(t) \/ JoinDone(t), ThreadEffect, sessions' = sessions
    PROVE  GoStep
<1>1. ASSUME NEW x \in Threads PROVE Waits(x)
  <2> SUFFICES ASSUME call'[x].pc = "await" PROVE Waits(x)
    BY DEF Waits
  <2>1. Still(x) \/ Writes(x) \/ Misses(x)
    BY DEF ThreadEffect, Kind, Off, Flying, Registers, Captures, Ends, Cancels, Sends
  <2>2. call[x].pc = "write" => ~answer[x].ok
    BY Base DEF IdInv
  <2> QED BY <2>1, <2>2 DEF Waits, Still, Writes, Misses
<1>2. \A x \in Threads : Advances(x)
  BY ThreadAdvances
<1> QED BY <1>1, <1>2, ThreadInput DEF GoStep, ThreadEffect

(* The manager hears of the end of a process. *)
LEMMA EndedGo ==
    ASSUME BaseInv, Ended, sessions' = sessions, \A x \in Threads : Advances(x)
    PROVE  GoStep
<1>1. ASSUME NEW x \in Threads, call'[x].pc = "await" PROVE Waits(x)
  BY <1>1, ErrorVal DEF Ended, Waits
<1> QED BY <1>1 DEF GoStep, Ended, Waits

(* The reader reads, or comes to the end, and processes begin and end. *)
LEMMA ReaderGo == ASSUME BaseInv, ReaderStep PROVE GoStep
<1>1. UNCHANGED <<gen, live, in, input, tasks, sessions, batches, aliased, call, phase, handle>>
  BY DEF ReaderStep, ReadResponse, ReadEOF, Reap, serverVars
<1>2. \A x \in Threads : Advances(x)
  BY <1>1 DEF Advances, Rests
<1>3. CASE \E g : ReadEOF(g) \/ Reap(g)
  BY <1>1, <1>2, <1>3, DiedEnded, EndedGo
<1>4. ASSUME NEW r \in out, ReadResponse(r) PROVE GoStep
  <2>1. cmd' = cmd /\ out' \subseteq out
    BY <1>4 DEF ReadResponse
  <2>2. \A x \in Threads : answer'[x] = answer[x] \/ (Id(x) = r.id /\ answer'[x] = [ok |-> r.ok, val |-> r.val])
    <3>1. r.id \in pending => r.id.t \in Threads /\ r.id = Id(r.id.t)
      <4>1. r.id \in Ids /\ (r.id \in pending => r.id.n = call[r.id.t].n)
        BY Base DEF Types, ServerTypes, Responses, IdInv
      <4> QED BY <4>1 DEF Ids, Id
    <3> QED BY <1>4, <3>1, Base DEF ReadResponse, Types, GoTypes
  <2>3. \A x \in Threads : Waits(x)
    BY <1>1, <2>2 DEF Waits
  <2> QED BY <1>1, <1>2, <2>1, <2>3 DEF GoStep
<1> QED BY <1>3, <1>4 DEF ReaderStep

(* A process is started, *)
LEMMA StartBlank == ASSUME BaseInv, NEW t \in Threads, EnsureStart(t) PROVE Blank
<1>1. call[t] \in Calls /\ call \in [Threads -> Calls]
  BY Base, CallTypeFacts
<1>2. [call[t] EXCEPT !.op = "hello", !.pc = "register"].pc = "register"
  BY <1>1 DEF Calls
<1>3. \A x \in Threads : call'[x] = call[x] \/ call'[x].pc = "register"
  BY <1>1, <1>2 DEF EnsureStart
<1> QED BY <1>3 DEF Blank, EnsureStart, FreshProcess

(* or dies. *)
LEMMA ExitBlank == ASSUME Killed \/ Crash PROVE Blank
BY DEF Blank, Killed, Crash, Exit, goVars

(* There are no other steps than these and those of the JVM. *)
LEMMA StepKinds == ASSUME BaseInv, [Next]_vars PROVE GoStep \/ ServerStep \/ Blank
<1>1. ASSUME NEW t \in Threads, ThreadStep(t) \/ EnsureFails(t) \/ CtxDone(t) \/ JoinDone(t) PROVE GoStep \/ Blank
  <2>1. CASE EnsureStart(t)
    BY <2>1, StartBlank
  <2>2. CASE ~EnsureStart(t)
    <3>1. (ThreadEffect \/ HelloKill(t)) /\ sessions' = sessions
      BY <1>1, <2>2, ThreadKinds, ThreadsAside
    <3> QED BY <1>1, <3>1, ThreadGo, DiedEnded, EndedGo, ThreadAdvances
  <2> QED BY <2>1, <2>2
<1>2. CASE UNCHANGED vars
  <2>1. UNCHANGED <<gen, live, in, out, input, tasks, sessions, batches, aliased, cmd, pending, answer, call, phase, handle>>
    BY <1>2 DEF vars, serverVars, goVars
  <2>2. Ended /\ \A x \in Threads : Advances(x)
    BY <2>1 DEF Ended, Advances, Rests
  <2> QED BY <2>1, <2>2, EndedGo
<1>3. CASE BadFrame \/ LateCommit \/ \E g \in adrift : AdriftExits(g)
  <2>1. Ended /\ UNCHANGED <<sessions, call>>
    BY <1>3, DriftEnded
  <2>2. \A x \in Threads : Advances(x)
    BY <2>1 DEF Ended, Advances, Rests
  <2> QED BY <2>1, <2>2, EndedGo
<1> QED BY <1>1, <1>2, <1>3, ReaderGo, ExitBlank DEF Next

(* Where the JVM's requests come from: they were there, were in the pipe, or clean up *)
(* after a cancellation.                                                              *)
From(q, k) == q.id = k.id /\ q.op = k.op /\ q.arg = k.arg

(* A step of the JVM brings none from elsewhere. *)
LEMMA ServerFrom ==
    ASSUME BaseInv, ServerStep
    PROVE  /\ UNCHANGED <<gen, live, cmd, call, phase, handle, answer>>
           /\ \A i \in DOMAIN in' : \E j \in DOMAIN in : in'[i] = in[j]
           /\ \A x \in tasks' : \/ \E k \in tasks : From(x, k)
                                \/ \E j \in DOMAIN in : From(x, in[j]) /\ in[j].op # "cancel" /\ (~aliased' => in[j].born \in {0, gen})
                                \/ x.op = "cleanup" /\ x.id = input /\ input # NoTarget
           /\ input' \in {input, NoTarget} \/ \E j \in DOMAIN in : in[j].op = "cancel" /\ input' = in[j].id
<1>1. UNCHANGED <<gen, goVars>>
  BY DEF ServerStep
<1>2. UNCHANGED <<gen, cmd, call, phase, handle, answer>>
  BY <1>1 DEF goVars
<1>3. ASSUME NEW k \in tasks, Work(k)
      PROVE  in' = in /\ input' = input /\ live' = live /\ \A x \in tasks' : \E l \in tasks : From(x, l)
  <2>1. UNCHANGED <<in, input, live>> /\ TaskEffect(k)
    BY <1>3, Base, WorkEffects DEF WorkEffect
  <2> QED BY <2>1 DEF TaskEffect, Kept, From
<1>4. CASE Dispatch
  <2>1. /\ Head(in) \in Messages /\ Head(in) = in[1] /\ 1 \in DOMAIN in
        /\ tasks' = tasks \cup {NewTask(Head(in))}
        /\ \A j \in DOMAIN in' : j + 1 \in DOMAIN in /\ in'[j] = in[j + 1]
    BY <1>1, <1>4, Base, DispatchKeeps
  <2>2. in[1].op # "cancel" /\ (~aliased' => in[1].born \in {0, gen}) /\ UNCHANGED <<input, live>>
    BY <1>4, <2>1 DEF Dispatch
  <2>3. From(NewTask(in[1]), in[1])
    BY <2>1, <2>2, NewTaskOk DEF From
  <2>4. \A x \in tasks' : (\E k \in tasks : From(x, k)) \/ (\E j \in DOMAIN in : From(x, in[j]) /\ in[j].op # "cancel" /\ (~aliased' => in[j].born \in {0, gen}))
    BY <2>1, <2>2, <2>3 DEF From
  <2> QED BY <1>2, <1>4, <2>1, <2>2, <2>4 DEF Dispatch
<1>5. CASE CancelFuture
  <2>1. /\ Head(in) = in[1] /\ 1 \in DOMAIN in
        /\ \A j \in DOMAIN in' : j + 1 \in DOMAIN in /\ in'[j] = in[j + 1]
        /\ \A x \in tasks' : \E k \in tasks : Same(k, x)
    BY <1>5, Base, CancelFutureTasks
  <2>2. in[1].op = "cancel" /\ input' = in[1].id /\ gen \in live /\ live' = live
    BY <1>5, <2>1 DEF CancelFuture
  <2>3. \A x \in tasks' : \E k \in tasks : From(x, k)
    BY <2>1 DEF Same, Kept, From
  <2> QED BY <1>2, <2>1, <2>2, <2>3
<1>6. CASE CancelBatches
  <2>1. \A x \in tasks' : x \in tasks \/ (x.op = "cleanup" /\ x.id = input)
    BY <1>6, Base, CancelBatchesFacts
  <2>2. input # NoTarget /\ input' = NoTarget /\ UNCHANGED <<in, live>> /\ gen \in live
    BY <1>6 DEF CancelBatches
  <2> QED BY <1>2, <2>1, <2>2 DEF From
<1>7. \A k \in tasks : Work(k) => /\ UNCHANGED <<gen, live, cmd, call, phase, handle, answer>>
                                  /\ in' = in /\ input' = input /\ \A x \in tasks' : \E l \in tasks : From(x, l)
  BY <1>2, <1>3
<1> QED BY <1>4, <1>5, <1>6, <1>7 DEF ServerStep, ServerNext

(* The JVM asks for nothing that was not asked. *)
LEMMA CalmServer == ASSUME BaseInv, CalmInv, ServerStep PROVE CalmInv'
<1>1. UNCHANGED <<call, phase>>
  BY ServerFrom
<1>2. \A q : Calm(q) => Calm(q)'
  BY <1>1 DEF Calm, GaveUp
<1>3. \A i \in DOMAIN in' : \A q : q = in'[i] => Calm(q)'
  BY <1>2, ServerFrom DEF CalmInv
<1>4. ASSUME NEW x \in tasks' PROVE Calm(x)'
  <2>1. CASE \E k : Calm(k) /\ From(x, k)
    BY <1>1, <2>1 DEF Calm, From, GaveUp
  <2>2. CASE x.op = "cleanup" /\ x.id = input /\ input # NoTarget
    BY <1>1, <2>2 DEF Calm, CalmInv, GaveUp
  <2> QED BY <2>1, <2>2, ServerFrom DEF CalmInv
<1>5. \A i : i = input' /\ i # NoTarget => GaveUp(i)' \/ GaveUp(i.t)'
  BY <1>1, ServerFrom DEF CalmInv, Calm, GaveUp
<1>6. \A i : i = input' /\ i # NoTarget => GaveUp(i.t)'
  BY <1>1, ServerFrom DEF CalmInv, Calm, GaveUp
<1> QED BY <1>3, <1>4, <1>6 DEF CalmInv

(* Whatever cancels, aborts or closes was asked by a thread that had given up. *)
THEOREM CalmHolds == Spec => []CalmInv
<1>1. Init => CalmInv
  BY DEF Init, ServerInit, CalmInv
<1>2. BaseInv /\ LinkInv /\ CalmInv /\ [Next]_vars => CalmInv'
  <2> SUFFICES ASSUME BaseInv, LinkInv, CalmInv, [Next]_vars PROVE CalmInv'
    OBVIOUS
  <2>1. CASE GoStep
    BY <2>1, CalmGo DEF GoStep
  <2>2. CASE Blank
    BY <2>2 DEF Blank, CalmInv
  <2> QED BY <2>1, <2>2, StepKinds, CalmServer
<1> QED BY <1>1, <1>2, BaseHolds, LinksHold, PTL DEF Spec

-----------------------------------------------------------------------------
(* Claims. A writer has a session, or waits for the answer that gives it. *)
Given(t, v) ==
    \/ \E k \in tasks : k.id = Id(t) /\ k.pc = "reply" /\ k.ok /\ k.val = v
    \/ \E r \in out : r.id = Id(t) /\ r.ok /\ r.val = v
    \/ answer[t].ok /\ answer[t].val = v

Claims(t, v) ==
    \/ Has(t, v)
    \/ /\ call[t].pc = "await" /\ phase[t] = "open" /\ call[t].op = "open" /\ call[t].w = gen
       /\ Given(t, v)

(* No session of a JVM is given to two writers. *)
ClaimInv ==
    ~aliased /\ gen \in live =>
        \A t \in Writers : \A v :
            Claims(t, v) => v \in DOMAIN sessions /\ \A u \in Writers : Claims(u, v) => u = t

(* The callers and readers claim nothing that was not claimed: what is heard was *)
(* on its way.                                                                  *)
LEMMA ClaimsGo ==
    ASSUME BaseInv, GoStep, NEW t \in Writers, NEW v, Claims(t, v)' PROVE Claims(t, v)
<1>0. t \in Threads /\ Advances(t) /\ Waits(t) /\ UNCHANGED <<gen, tasks>> /\ out' \subseteq out /\ gen \in Nat
  BY ThreadsAssumption, Base, CallTypeFacts DEF GoStep
<1>1. CASE Has(t, v)'
  <2>1. handle'[t] = handle[t] => Claims(t, v)
    BY <1>0, <1>1 DEF Claims, Has
  <2>2. ASSUME handle'[t] # handle[t] PROVE Claims(t, v)
    <3>1. Hears(t) /\ answer[t].ok /\ handle'[t] = [id |-> answer[t].val, born |-> call[t].w] /\ phase[t] \in {"open", "begin"}
      BY <1>0, <2>2 DEF Advances, Rests, Inside, Starts, Fails, Hears
    <3>2. phase[t] = "open" /\ call[t].pc = "await" /\ call[t].op = "open"
      BY <1>0, <3>1, Base DEF Hears, CallInv, CallOk, OpOf, WriterPhases, StartPcs
    <3> QED BY <1>0, <1>1, <3>1, <3>2 DEF Claims, Has, Given
  <2> QED BY <2>1, <2>2
<1>2. CASE call'[t].pc = "await" /\ phase'[t] = "open" /\ call'[t].op = "open" /\ call'[t].w = gen' /\ Given(t, v)'
  <2>1. Id(t)' = Id(t)
    BY <1>0, <1>2 DEF Waits, Id
  <2>2. CASE call[t].pc = "write" /\ ~answer'[t].ok
    BY <1>0, <1>2, <2>1, <2>2, FreshId DEF Given
  <2>3. CASE ~(call[t].pc = "write" /\ ~answer'[t].ok)
    <3>1. /\ call'[t] = call[t] /\ phase'[t] = phase[t]
          /\ answer'[t].ok => answer'[t] = answer[t] \/ \E r \in out : r.id = Id(t) /\ r.ok /\ answer'[t].val = r.val
      BY <1>0, <1>2, <2>3 DEF Waits
    <3>2. Given(t, v)
      BY <1>0, <1>2, <2>1, <3>1 DEF Given
    <3> QED BY <1>0, <1>2, <3>1, <3>2 DEF Claims
  <2> QED BY <2>2, <2>3
<1> QED BY <1>1, <1>2 DEF Claims

(* A task answers with success only once: what it gives out is the session it *)
(* opened, the last one.                                                      *)
LEMMA OpensLast ==
    ASSUME Types, ServerOk, NEW k \in tasks, Work(k), NEW x \in tasks', x \notin tasks, x.pc = "reply", x.ok, k.op = "open"
    PROVE  x.id = k.id /\ x.val = Len(sessions) + 1 /\ sessions' \in Seq(Sessions) /\ x.val \in DOMAIN sessions' /\ x.val \notin DOMAIN sessions
<1>1. k \in Tasks /\ TaskOk(k)
  BY DEF Types, ServerTypes, ServerOk
<1>2. OpenSession(k)
  <2>1. k.pc \notin {"acquire", "using", "prepare", "check", "monitor", "execute", "scan", "discard"}
    BY <1>1 DEF TaskOk
  <2>2. tasks' # tasks \ {k} /\ tasks' # tasks
    OBVIOUS
  <2> QED BY <1>1, <2>1, <2>2
          DEF Work, Reply, Acquire, DropIdle, Hello, FindSession, Execute, CloseSession, CloseSessionScan, CloseSessionPool, BeginRegister,
              BeginFails, BeginCheck, RequestBatch, UploadLOB, AddBatch, AddBatchDone, CommitBatch, CommitFails, AbortBatch, DiscardMark,
              DiscardDispose, DiscardEnd, AtMonitor
<1>3. PICK n \in Nat : n = Len(sessions) + 1
  BY DEF Types, ServerTypes
<1>4. ~Answered(k, FALSE, 0).ok /\ Answered(k, TRUE, n).id = k.id /\ Answered(k, TRUE, n).val = n
  BY <1>1 DEF Answered, Tasks
<1>5. x = Answered(k, TRUE, n) \/ x = Answered(k, FALSE, 0)
  BY <1>2, <1>3 DEF OpenSession, Answer, Step
<1>6. x.id = k.id /\ x.val = n
  BY <1>3, <1>4, <1>5
<1>7. PICK v : sessions' = Append(sessions, v)
  BY <1>2 DEF OpenSession
<1>8. sessions' \in Seq(Sessions)
  BY WorkEffects DEF WorkEffect, SessionEffect
<1>9. DOMAIN sessions' = DOMAIN sessions \cup {n} /\ n \notin DOMAIN sessions
  BY <1>3, <1>7 DEF Types, ServerTypes
<1> QED BY <1>3, <1>6, <1>8, <1>9

(* A step of a task brings a claim to the session it opened, for its caller. *)
LEMMA ClaimsWork ==
    ASSUME BaseInv, FitsInv, NEW k \in tasks, Work(k), UNCHANGED <<gen, goVars>>, NEW t \in Writers, NEW v, Claims(t, v)'
    PROVE  Claims(t, v) \/ (k.id = Id(t) /\ v \in DOMAIN sessions' /\ v \notin DOMAIN sessions)
<1>1. UNCHANGED <<gen, call, phase, handle, answer>> /\ t \in Threads
  BY ThreadsAssumption DEF goVars
<1>2. TaskEffect(k) /\ (out' = out \/ (k.pc = "reply" /\ out' = out \cup {Response(k)}))
  BY Base, WorkEffects DEF WorkEffect
<1>3. ASSUME NEW x \in tasks', x \notin tasks, x.id = Id(t), x.pc = "reply", x.ok, x.val = v, call[t].pc = "await", call[t].op = "open"
      PROVE  k.id = Id(t) /\ v \in DOMAIN sessions' /\ v \notin DOMAIN sessions
  <2>1. x.id = k.id /\ x.op = k.op /\ x.op # "cleanup"
    BY <1>2, <1>3 DEF TaskEffect, Kept, TaskOk
  <2>2. k.op = "open"
    BY <1>3, <2>1 DEF FitsInv, Fits, Id
  <2> QED BY <1>3, <2>1, <2>2, Base, OpensLast
<1>4. ASSUME NEW r \in out', r \notin out, r.id = Id(t), r.ok, r.val = v PROVE Given(t, v)
  <2>1. k.pc = "reply" /\ r = Response(k)
    BY <1>2, <1>4
  <2> QED BY <1>4, <2>1 DEF Given, Response
<1>5. Has(t, v)' => Has(t, v)
  BY <1>1 DEF Has
<1>6. Id(t)' = Id(t)
  BY <1>1 DEF Id
<1> QED BY <1>1, <1>3, <1>4, <1>5, <1>6 DEF Claims, Given

(* The input thread brings none. *)
LEMMA ClaimsInput ==
    ASSUME BaseInv, Dispatch \/ CancelFuture \/ CancelBatches, UNCHANGED <<gen, goVars>>, NEW t \in Writers, NEW v, Claims(t, v)'
    PROVE  Claims(t, v)
<1>1. UNCHANGED <<gen, call, phase, handle, answer, out>> /\ t \in Threads
  BY ThreadsAssumption DEF goVars, Dispatch, CancelFuture, CancelBatches
<1>2. \A x \in tasks' : x.pc = "reply" => \E k \in tasks : k.id = x.id /\ k.pc = x.pc /\ k.ok = x.ok /\ k.val = x.val
  <2>1. CASE Dispatch
    <3>1. tasks' = tasks \cup {NewTask(Head(in))}
      BY <2>1, Base, DispatchKeeps
    <3> QED BY <3>1 DEF NewTask
  <2>2. CASE CancelFuture
    <3>1. \A x \in tasks' : \E k \in tasks : Same(k, x)
      BY <2>2, Base, CancelFutureTasks
    <3> QED BY <3>1 DEF Same, Kept
  <2>3. CASE CancelBatches
    <3>1. \A x \in tasks' : x \in tasks \/ x.pc = "discard"
      BY <2>3, Base, CancelBatchesFacts
    <3> QED BY <3>1
  <2> QED BY <2>1, <2>2, <2>3
<1>3. Id(t)' = Id(t) /\ (Has(t, v)' => Has(t, v))
  BY <1>1 DEF Id, Has
<1> QED BY <1>1, <1>2, <1>3 DEF Claims, Given

(* No step gives a session to a second writer. *)
LEMMA ClaimStep == ASSUME BaseInv, PageInv, ClaimInv, GoStep \/ ServerStep \/ Blank PROVE ClaimInv'
<1>1. CASE GoStep
  <2>1. UNCHANGED <<aliased, gen, live, sessions>>
    BY <1>1 DEF GoStep
  <2>2. \A t \in Writers : \A v : Claims(t, v)' => Claims(t, v)
    BY <1>1, ClaimsGo
  <2> QED BY <2>1, <2>2 DEF ClaimInv
<1>2. CASE (Dispatch \/ CancelFuture \/ CancelBatches) /\ UNCHANGED <<gen, goVars>>
  <2>1. gen' = gen /\ live' = live /\ sessions' = sessions /\ (aliased => aliased')
    <3>1. CASE Dispatch
      BY <1>2, <3>1 DEF Dispatch
    <3>2. CASE CancelFuture
      BY <1>2, <3>2 DEF CancelFuture
    <3>3. CASE CancelBatches
      BY <1>2, <3>3 DEF CancelBatches
    <3> QED BY <1>2, <3>1, <3>2, <3>3
  <2>2. \A t \in Writers : \A v : Claims(t, v)' => Claims(t, v)
    BY <1>2, ClaimsInput
  <2> QED BY <2>1, <2>2 DEF ClaimInv
<1>3. ASSUME NEW k \in tasks, Work(k), UNCHANGED <<gen, goVars>> PROVE ClaimInv'
  <2>1. UNCHANGED <<aliased, live>> /\ DOMAIN sessions \subseteq DOMAIN sessions'
    BY <1>3, Base, WorkEffects DEF WorkEffect, SessionEffect
  <2> SUFFICES ASSUME ~aliased, gen \in live PROVE ClaimInv'
    BY <1>3, <2>1 DEF ClaimInv
  <2>2. \A t \in Writers : \A v : Claims(t, v)' => Claims(t, v) \/ (k.id = Id(t) /\ v \in DOMAIN sessions' /\ v \notin DOMAIN sessions)
    BY <1>3, ClaimsWork DEF PageInv
  <2>3. \A t, u : Id(t) = Id(u) => t = u
    BY DEF Id
  <2> QED BY <2>1, <2>2, <2>3 DEF ClaimInv
<1>4. CASE Blank
  <2>1. CASE gen' = gen /\ gen \notin live'
    BY <2>1 DEF ClaimInv
  <2>2. CASE gen' = gen + 1
    <3>1. \A t \in Writers : \A v : ~Claims(t, v)'
      <4> SUFFICES ASSUME NEW t \in Writers, NEW v, Claims(t, v)' PROVE FALSE
        OBVIOUS
      <4>1. t \in Threads /\ CallOk(t) /\ gen \in Nat /\ call[t].w \in Nat
        BY ThreadsAssumption, Base, CallTypeFacts DEF CallInv
      <4>2. handle'[t] = handle[t] /\ (call'[t] = call[t] \/ call'[t].pc = "register")
        BY <1>4, <2>2, <4>1 DEF Blank
      <4> QED BY <2>2, <4>1, <4>2 DEF Claims, Has, CallOk
    <3> QED BY <3>1 DEF ClaimInv
  <2> QED BY <1>4, <2>1, <2>2 DEF Blank
<1> QED BY <1>1, <1>2, <1>3, <1>4 DEF ServerStep, ServerNext

(* Two writers never have the same session of a JVM. *)
THEOREM ClaimsHold == Spec => []ClaimInv
<1>1. Init => ClaimInv
  BY DEF Init, ServerInit, ClaimInv
<1>2. BaseInv /\ PageInv /\ ClaimInv /\ [Next]_vars => ClaimInv'
  BY StepKinds, ClaimStep
<1> QED BY <1>1, <1>2, BaseHolds, PagesHold, PTL DEF Spec

-----------------------------------------------------------------------------
(* Discards. A task discards the batches of the worker that aborts or whose request *)
(* was cancelled, the batch that its own beginBatch opened, or those of a session   *)
(* that is closed.                                                                  *)
Concerns(k, b) ==
    \/ k.op \in {"cleanup", "abort"} /\ k.id.t = batches[b].opener.t
    \/ k.op = "begin" /\ k.id = batches[b].opener
    \/ k.op = "close" /\ k.arg = batches[b].session

Discards(k, b) == b \in k.todo \/ b = k.cur

TodoInv == ~aliased => \A k \in tasks : \A b \in DOMAIN batches : Discards(k, b) => Concerns(k, b)

(* Where the batches on the list of a task come from. *)
Listed(k, x) ==
    \A b : Discards(x, b) =>
        \/ Discards(k, b)
        \/ b = 0
        \/ k.op = "begin" /\ k.pc = "check" /\ b = k.val
        \/ k.op = "abort" /\ b = k.arg
        \/ k.op = "close" /\ b \in DOMAIN batches /\ batches[b].session = k.arg

(* A task that does not scan keeps its list. *)
LEMMA AnswerListed ==
    ASSUME NEW k \in Tasks, NEW ok, NEW val, Answer(k, ok, val)
    PROVE  \A x \in tasks' : x \in tasks \/ Listed(k, x)
<1>1. \A x : x = Answered(k, ok, val) => x.todo = k.todo /\ x.cur = k.cur
  BY DEF Answered, Tasks
<1> QED BY <1>1 DEF Answer, Step, Listed, Discards

(* (the same of one that goes to another step) *)
LEMMA GotoListed ==
    ASSUME NEW k \in Tasks, NEW pc, Goto(k, pc)
    PROVE  \A x \in tasks' : x \in tasks \/ Listed(k, x)
<1>1. \A x : x = [k EXCEPT !.pc = pc] => x.todo = k.todo /\ x.cur = k.cur
  BY DEF Tasks
<1> QED BY <1>1 DEF Goto, Step, Listed, Discards

(* A task that scans puts batches on it. *)
LEMMA ScanListed ==
    ASSUME NEW k \in Tasks, NEW B, Step(k, [k EXCEPT !.pc = "discard", !.todo = B]),
           \/ B = {k.arg} /\ k.op = "abort"
           \/ B = {k.val} /\ k.op = "begin" /\ k.pc = "check"
           \/ k.op = "close" /\ \A b \in B : b \in DOMAIN batches /\ batches[b].session = k.arg
    PROVE  \A x \in tasks' : x \in tasks \/ Listed(k, x)
<1>1. \A x : x = [k EXCEPT !.pc = "discard", !.todo = B] => x.todo = B /\ x.cur = k.cur
  BY DEF Tasks
<1> QED BY <1>1 DEF Step, Listed, Discards

(* Every step of a task. *)
LEMMA WorkListed ==
    ASSUME Types, ServerOk, NEW k \in tasks, Work(k)
    PROVE  \A x \in tasks' : x \in tasks \/ Listed(k, x)
<1>1. k \in Tasks /\ TaskOk(k)
  BY DEF Types, ServerTypes, ServerOk
<1>2. CASE Reply(k) \/ DropIdle(k)
  BY <1>2 DEF Reply, DropIdle
<1>3. CASE \/ Acquire(k) \/ Hello(k) \/ OpenSession(k) \/ FindSession(k) \/ Execute(k) \/ CloseSession(k) \/ CloseSessionPool(k)
           \/ BeginFails(k) \/ RequestBatch(k)
  <2>1. CASE Acquire(k)
    <3>1. Answer(k, FALSE, 0) \/ \E pc : Goto(k, pc)
      BY <2>1 DEF Acquire, Pooled
    <3> QED BY <1>1, <3>1, AnswerListed, GotoListed
  <2>2. CASE CloseSession(k)
    <3>1. Answer(k, TRUE, 0) \/ Goto(k, "scan")
      BY <2>2 DEF CloseSession, Goto
    <3> QED BY <1>1, <3>1, AnswerListed, GotoListed
  <2>3. CASE Hello(k) \/ OpenSession(k) \/ FindSession(k) \/ Execute(k) \/ CloseSessionPool(k) \/ BeginFails(k) \/ RequestBatch(k)
    <3>1. (\E ok, val : Answer(k, ok, val)) \/ \E pc : Goto(k, pc)
      BY <2>3 DEF Hello, OpenSession, FindSession, Execute, CloseSessionPool, BeginFails, RequestBatch
    <3> QED BY <1>1, <3>1, AnswerListed, GotoListed
  <2> QED BY <1>3, <2>1, <2>2, <2>3
<1>4. CASE UploadLOB(k) \/ AddBatch(k) \/ AddBatchDone(k) \/ CommitBatch(k) \/ CommitFails(k)
  <2>1. (\E ok, val : Answer(k, ok, val)) \/ \E pc : Goto(k, pc)
    BY <1>4 DEF UploadLOB, AddBatch, AddBatchDone, CommitBatch, CommitFails
  <2> QED BY <1>1, <2>1, AnswerListed, GotoListed
<1>5. CASE BeginRegister(k)
  <2>1. \A x, n : x = [k EXCEPT !.pc = "check", !.val = n] => x.todo = k.todo /\ x.cur = k.cur
    BY <1>1 DEF Tasks
  <2> QED BY <1>5, <2>1 DEF BeginRegister, Step, Listed, Discards
<1>6. CASE CloseSessionScan(k)
  <2>1. k.op = "close"
    BY <1>1, <1>6 DEF TaskOk, CloseSessionScan
  <2>2. PICK B : B = {b \in DOMAIN batches : batches[b].mapped /\ batches[b].session = k.arg}
    OBVIOUS
  <2>3. Step(k, [k EXCEPT !.pc = "discard", !.todo = B])
    BY <1>6, <2>2 DEF CloseSessionScan
  <2>4. \A b \in B : b \in DOMAIN batches /\ batches[b].session = k.arg
    BY <2>2
  <2> QED BY <1>1, <2>1, <2>3, <2>4, ScanListed
<1>7. CASE BeginCheck(k)
  <2>1. (\E ok, val : Answer(k, ok, val)) \/ Step(k, [k EXCEPT !.pc = "discard", !.todo = {k.val}])
    BY <1>7 DEF BeginCheck
  <2>2. k.op = "begin" /\ k.pc = "check"
    BY <1>7 DEF BeginCheck
  <2> QED BY <1>1, <2>1, <2>2, AnswerListed, ScanListed
<1>8. CASE AbortBatch(k)
  <2>1. (\E ok, val : Answer(k, ok, val)) \/ Step(k, [k EXCEPT !.pc = "discard", !.todo = {k.arg}])
    BY <1>8 DEF AbortBatch
  <2>2. k.op = "abort"
    BY <1>8 DEF AbortBatch
  <2> QED BY <1>1, <2>1, <2>2, AnswerListed, ScanListed
<1>9. CASE DiscardMark(k)
  <2>1. PICK b \in k.todo : Step(k, [k EXCEPT !.todo = @ \ {b}]) \/ Step(k, [k EXCEPT !.cur = b, !.todo = @ \ {b}])
    BY <1>9 DEF DiscardMark
  <2>2. PICK y, z : y = [k EXCEPT !.todo = @ \ {b}] /\ z = [k EXCEPT !.cur = b, !.todo = @ \ {b}]
    OBVIOUS
  <2>3. y.todo \subseteq k.todo /\ y.cur = k.cur
    BY <1>1, <2>2 DEF Tasks
  <2>4. z.todo \subseteq k.todo /\ z.cur = b
    BY <1>1, <2>2 DEF Tasks
  <2>5. Listed(k, y) /\ Listed(k, z)
    BY <2>1, <2>3, <2>4 DEF Listed, Discards
  <2> QED BY <2>1, <2>2, <2>5 DEF Step
<1>10. CASE DiscardDispose(k)
  <2>1. \A x : x = [k EXCEPT !.cur = 0] => x.todo = k.todo /\ x.cur = 0
    BY <1>1 DEF Tasks
  <2> QED BY <1>10, <2>1 DEF DiscardDispose, Step, Listed, Discards
<1>11. CASE DiscardEnd(k)
  <2>1. tasks' = tasks \ {k} \/ \E ok, val : Answer(k, ok, val)
    BY <1>11 DEF DiscardEnd
  <2> QED BY <1>1, <2>1, AnswerListed
<1> QED BY <1>2, <1>3, <1>4, <1>5, <1>6, <1>7, <1>8, <1>9, <1>10, <1>11 DEF Work

(* Batches are numbered from 1. *)
LEMMA NoBatchZero == ASSUME Types PROVE 0 \notin DOMAIN batches
BY DEF Types, ServerTypes

(* A task goes on with batches that concern it. *)
LEMMA TodoWork ==
    ASSUME BaseInv, PageInv, TodoInv, NEW k \in tasks, Work(k), UNCHANGED <<gen, goVars>>, ~aliased, gen \in live
    PROVE  \A x \in tasks' : \A b \in DOMAIN batches' : Discards(x, b) => Concerns(x, b)'
<1>1. TaskEffect(k) /\ BatchEffect(k)
  BY Base, WorkEffects DEF WorkEffect
<1>2. \A b \in DOMAIN batches : batches'[b].opener = batches[b].opener /\ batches'[b].session = batches[b].session
  BY <1>1 DEF BatchEffect, Grown
<1>3. TaskOk(k) /\ (k.op # "cleanup" => Fits(k)) /\ HandleInv
  BY Base DEF ServerOk, PageInv, FitsInv
<1>4. \A l \in tasks : \A b : Discards(l, b) /\ b # 0 => b \in DOMAIN batches
  BY Base DEF ServerOk, TaskOk, Discards
<1>5. \A b \in DOMAIN batches : \A l : Concerns(l, b) => Concerns(l, b)'
  BY <1>2 DEF Concerns
<1> SUFFICES ASSUME NEW x \in tasks', NEW b \in DOMAIN batches', Discards(x, b), b # 0 PROVE Concerns(x, b)'
  <2>1. 0 \notin DOMAIN batches'
    BY <1>1 DEF BatchEffect
  <2> QED BY <2>1
<1>6. CASE x \in tasks
  BY <1>4, <1>5, <1>6 DEF TodoInv
<1>7. CASE x \notin tasks
  <2>1. x.id = k.id /\ x.op = k.op /\ x.arg = k.arg /\ Listed(k, x)
    BY <1>1, <1>7, Base, WorkListed DEF TaskEffect, Kept
  <2>2. b \in DOMAIN batches /\ Concerns(k, b)
    <3>1. CASE Discards(k, b)
      BY <1>4, <3>1 DEF TodoInv
    <3>2. CASE k.op = "begin" /\ k.pc = "check" /\ b = k.val
      BY <1>3, <3>2 DEF TaskOk, Concerns
    <3>3. CASE k.op = "abort" /\ b = k.arg
      BY <1>3, <3>3, FoundBatch DEF Concerns, BatchOps
    <3>4. CASE k.op = "close" /\ b \in DOMAIN batches /\ batches[b].session = k.arg
      BY <3>4 DEF Concerns
    <3> QED BY <2>1, <3>1, <3>2, <3>3, <3>4 DEF Listed
  <2> QED BY <1>5, <2>1, <2>2 DEF Concerns
<1> QED BY <1>6, <1>7

(* A scan finds the batches of the worker whose request was cancelled. *)
LEMMA ScanConcerns ==
    ASSUME BaseInv, PageInv, ~aliased, gen \in live, NEW b \in BatchesOf(input)
    PROVE  b \in DOMAIN batches /\ batches[b].opener.t = input.t
<1>1. CASE batches[b].opener = input
  BY <1>1 DEF BatchesOf
<1>2. CASE \E k \in tasks : k.id = input /\ k.op \in {"lob", "add", "commit"} /\ k.arg = b
  <2>1. PICK k \in tasks : k.id = input /\ k.op \in {"lob", "add", "commit"} /\ k.arg = b
    BY <1>2
  <2>2. Fits(k) /\ HandleInv /\ k.op \in BatchOps
    BY <2>1 DEF PageInv, FitsInv, BatchOps
  <2> QED BY <2>1, <2>2, FoundBatch
<1>3. b \in DOMAIN batches
  BY DEF BatchesOf
<1> QED BY <1>1, <1>2, <1>3 DEF BatchesOf

(* Every step. *)
LEMMA TodoStep == ASSUME BaseInv, PageInv, TodoInv, GoStep \/ ServerStep \/ Blank PROVE TodoInv'
<1>1. CASE GoStep
  BY <1>1 DEF GoStep, TodoInv, Concerns
<1>2. CASE Blank
  BY <1>2 DEF Blank, TodoInv
<1>3. ASSUME NEW k \in tasks, Work(k), UNCHANGED <<gen, goVars>> PROVE TodoInv'
  <2>1. aliased' = aliased /\ gen \in live
    BY <1>3, Base, WorkEffects DEF WorkEffect, ServerOk, DeadInv
  <2> QED BY <1>3, <2>1, TodoWork DEF TodoInv
<1>4. CASE Dispatch /\ UNCHANGED <<gen, goVars>>
  <2>1. tasks' = tasks \cup {NewTask(Head(in))}
    BY <1>4, Base, DispatchKeeps
  <2>2. batches' = batches /\ (aliased => aliased')
    BY <1>4 DEF Dispatch
  <2>3. \A x \in tasks' : x \in tasks \/ (x.todo = {} /\ x.cur = 0)
    BY <2>1 DEF NewTask
  <2> QED BY <2>2, <2>3, Base, NoBatchZero DEF TodoInv, Discards, Concerns
<1>5. CASE CancelFuture /\ UNCHANGED <<gen, goVars>>
  <2>1. UNCHANGED <<batches, aliased>> /\ \A x \in tasks' : \E k \in tasks : Same(k, x)
    BY <1>5, Base, CancelFutureTasks DEF CancelFuture
  <2> QED BY <2>1 DEF TodoInv, Discards, Concerns, Same, Kept
<1>6. CASE CancelBatches /\ UNCHANGED <<gen, goVars>>
  <2>1. /\ DOMAIN batches' = DOMAIN batches
        /\ \A b \in DOMAIN batches : batches'[b].opener = batches[b].opener /\ batches'[b].session = batches[b].session
        /\ \A x \in tasks' : x \in tasks \/ (x.op = "cleanup" /\ x.id = input /\ x.todo = BatchesOf(input) /\ x.cur = 0)
    BY <1>6, Base, CancelBatchesFacts DEF Twin
  <2>2. aliased' = aliased /\ gen \in live
    BY <1>6 DEF CancelBatches
  <2>3. \A b \in DOMAIN batches : \A l : Concerns(l, b) => Concerns(l, b)'
    BY <2>1 DEF Concerns
  <2>4. ASSUME ~aliased PROVE \A b \in BatchesOf(input) : batches[b].opener.t = input.t
    BY <2>2, <2>4, ScanConcerns
  <2> QED BY <2>1, <2>2, <2>3, <2>4, Base, NoBatchZero DEF TodoInv, Discards, Concerns
<1> QED BY <1>1, <1>2, <1>3, <1>4, <1>5, <1>6 DEF ServerStep, ServerNext

(* What is discarded concerns whoever discards it. *)
THEOREM TodoHolds == Spec => []TodoInv
<1>1. Init => TodoInv
  BY DEF Init, ServerInit, TodoInv
<1>2. BaseInv /\ PageInv /\ TodoInv /\ [Next]_vars => TodoInv'
  BY StepKinds, TodoStep
<1> QED BY <1>1, <1>2, BaseHolds, PagesHold, PTL DEF Spec

-----------------------------------------------------------------------------
(* Commits. A commit is waited for by its worker; or the manager has given the JVM  *)
(* up, and worker and writer are through with it. Either way nobody is there who    *)
(* would discard the batch meanwhile.                                               *)
Disturbs(q, c) ==
    \/ q.op \in {"cancel", "abort", "cleanup", "begin"} /\ q.id.t = c
    \/ q.op = "close" /\ q.id.t = WriterOf[c]

Undisturbed(c) ==
    /\ \A i \in DOMAIN in : ~Disturbs(in[i], c)
    /\ \A k \in tasks : ~Disturbs(k, c)
    /\ input # NoTarget => input.t # c

Late(c) ==
    /\ cmd = 0 /\ call[c].pc = "rest" /\ phase[c] \in {"abort", "done"}
    /\ call[WriterOf[c]].pc = "rest" /\ phase[WriterOf[c]] \in {"copy", "close", "closed"}
    /\ Undisturbed(c)

CommitOk(q) ==
    q.op = "commit" =>
        /\ q.id.t \in Workers /\ q.id.n = call[q.id.t].n
        /\ (call[q.id.t].pc = "await" /\ phase[q.id.t] = "commit") \/ Late(q.id.t)

LateInv ==
    ~aliased => /\ \A i \in DOMAIN in : in[i].born \in {0, gen} => CommitOk(in[i])
                /\ \A k \in tasks : CommitOk(k)

(* While its worker commits, nobody disturbs a batch. *)
LEMMA CommitAlone ==
    ASSUME BaseInv, CalmInv, NEW c \in Workers, phase[c] = "commit"
    PROVE  /\ Undisturbed(c) /\ c \in Threads /\ WriterOf[c] \in Threads
           /\ phase[WriterOf[c]] = "copy" /\ call[WriterOf[c]].pc = "rest"
<1>1. c \notin Writers /\ c \in Threads /\ WriterOf[c] \in Threads
  BY ThreadsAssumption
<1>2. phase[WriterOf[c]] = "copy"
  BY Base DEF CallInv, PairOk, BatchPhases
<1>3. call[WriterOf[c]].pc = "rest"
  BY <1>1, <1>2, Base, BusyThread DEF Busy, BatchPhases
<1> QED BY <1>1, <1>2, <1>3 DEF Undisturbed, Disturbs, CalmInv, Calm, GaveUp

(* A worker and a writer that rest write nothing. *)
LEMMA StaysUndisturbed ==
    ASSUME BaseInv, GoStep, NEW c \in Workers, Undisturbed(c),
           call[c].pc \notin {"write", "cancel"}, call[WriterOf[c]].pc \notin {"write", "cancel"}
    PROVE  Undisturbed(c)'
<1>1. UNCHANGED <<tasks, input>>
  BY DEF GoStep
<1>2. CASE in' = in
  BY <1>1, <1>2 DEF Undisturbed, Disturbs
<1>3. ASSUME NEW x \in Threads, NEW m, NewInput(x, m) PROVE Undisturbed(c)'
  <2>1. x # c /\ x # WriterOf[c] /\ m.id.t = x
    BY <1>3 DEF NewInput, Writes, Sends, Id
  <2>2. \A i \in DOMAIN in' : in'[i] = m \/ (i \in DOMAIN in /\ in'[i] = in[i])
    BY <1>3, Base, InputGrows
  <2> QED BY <1>1, <2>1, <2>2 DEF Undisturbed, Disturbs
<1> QED BY <1>2, <1>3 DEF GoStep

(* Whoever is through with a JVM stays so. *)
LEMMA StaysLate ==
    ASSUME BaseInv, GoStep, NEW c \in Workers, Late(c)
    PROVE  Late(c)' /\ call'[c].n = call[c].n
<1>1. c \in Threads /\ WriterOf[c] \in Threads /\ Advances(c) /\ Advances(WriterOf[c]) /\ cmd' = 0
  BY ThreadsAssumption DEF GoStep, Late
<1>2. call'[c].pc = "rest" /\ call'[c].n = call[c].n /\ phase'[c] \in {"abort", "done"}
  BY <1>1 DEF Late, Advances, Rests, Inside, Starts, Fails, Hears, After
<1>3. call'[WriterOf[c]].pc = "rest" /\ phase'[WriterOf[c]] \in {"copy", "close", "closed"}
  <2>1. \A x \in Threads : Advances(x) /\ call[x].pc = "rest" /\ cmd = 0 /\ phase[x] \in {"copy", "close", "closed"} =>
          call'[x].pc = "rest" /\ phase'[x] \in {"copy", "close", "closed"}
    BY DEF Advances, Rests, Inside, Starts, Fails, Hears, After, Busy, BatchPhases
  <2> QED BY <1>1, <2>1 DEF Late
<1>4. Undisturbed(c)'
  BY StaysUndisturbed DEF Late
<1> QED BY <1>1, <1>2, <1>3, <1>4 DEF Late

(* A commit that is somewhere: its worker waits on, or the JVM was given up. *)
LEMMA CommitGoes ==
    ASSUME BaseInv, PageInv, LinkInv, CalmInv, GoStep, "commit" \notin Cancellable, ~aliased, gen \in live,
           NEW q, q.id \in Ids, Fits(q), ~Quiet(q.id), CommitOk(q)
    PROVE  CommitOk(q)'
<1> SUFFICES ASSUME q.op = "commit", NEW c, c = q.id.t, c \in Workers PROVE CommitOk(q)'
  BY DEF CommitOk
<1>1. c \in Threads /\ WriterOf[c] \in Threads /\ Advances(c) /\ CallOk(c) /\ q.id.n = call[c].n
  BY ThreadsAssumption, Base DEF GoStep, CallInv, CommitOk
<1>2. CASE Late(c)
  BY <1>1, <1>2, StaysLate DEF CommitOk
<1>3. CASE call[c].pc = "await" /\ phase[c] = "commit"
  <2>1. q.id = Id(c) /\ call[c].op = "commit"
    BY <1>1, <1>3 DEF Ids, Id, CallOk, OpOf, StartPcs
  <2>2. CASE Rests(c)
    BY <1>1, <1>3, <2>2 DEF CommitOk, Rests
  <2>3. CASE Hears(c)
    <3>1. ~answer[c].ok
      BY <1>1, <1>3, <2>1 DEF LinkInv, ToldInv, Succeeded
    <3>2. handle[WriterOf[c]].born = gen
      <4>1. handle[c].born = gen /\ HandleOk(c)
        BY DEF Fits, BatchOps, PageInv, HandleInv
      <4> QED BY <4>1 DEF HandleOk, LinkInv, SessionInv, OfSession, Has
    <3>3. cmd = 0 /\ cmd' = 0
      BY <1>3, <2>1, <2>3, <3>2 DEF LinkInv, ToldInv, Told, Flying, Hears, GoStep
    <3>4. call'[c].pc = "rest" /\ call'[c].n = call[c].n /\ phase'[c] = "abort"
      BY <1>3, <2>3, <3>1 DEF Hears, After
    <3>5. Undisturbed(c) /\ phase[WriterOf[c]] = "copy" /\ call[WriterOf[c]].pc = "rest"
      BY <1>3, CommitAlone
    <3>6. call'[WriterOf[c]].pc = "rest" /\ phase'[WriterOf[c]] \in {"copy", "close"}
      <4>1. \A x \in Threads : Advances(x) /\ call[x].pc = "rest" /\ cmd = 0 /\ phase[x] = "copy" =>
              call'[x].pc = "rest" /\ phase'[x] \in {"copy", "close"}
        BY DEF Advances, Rests, Inside, Starts, Fails, Hears, Busy, BatchPhases
      <4> QED BY <1>1, <3>3, <3>5, <4>1 DEF GoStep
    <3>7. Undisturbed(c)'
      BY <1>3, <3>5, StaysUndisturbed
    <3> QED BY <1>1, <3>3, <3>4, <3>6, <3>7 DEF CommitOk, Late
  <2> QED BY <1>1, <1>3, <2>1, <2>2, <2>3 DEF Advances, Inside, Starts, Fails
<1> QED BY <1>2, <1>3 DEF CommitOk

(* A commit that is written is waited for. *)
LEMMA CommitWritten ==
    ASSUME BaseInv, NEW x \in Threads, NEW m, NewInput(x, m) PROVE CommitOk(m)'
<1> SUFFICES ASSUME m.op = "commit" PROVE CommitOk(m)'
  BY DEF CommitOk
<1>1. m.id.t = x /\ m.id.n = call[x].n /\ Writes(x) /\ call[x].op = "commit" /\ CallOk(x) /\ (x \in Writers \/ x \in Workers)
  BY Base, ThreadsAssumption DEF NewInput, Id, CallInv
<1>2. phase[x] = "commit" /\ x \in Workers
  BY <1>1 DEF Writes, CallOk, OpOf, StartPcs, WriterPhases
<1> QED BY <1>1, <1>2 DEF CommitOk, Writes

(* Steps of the callers and readers, *)
LEMMA LateGo ==
    ASSUME BaseInv, PageInv, LinkInv, CalmInv, LateInv, GoStep, "commit" \notin Cancellable PROVE LateInv'
<1> SUFFICES ASSUME ~aliased PROVE LateInv'
  BY DEF GoStep, LateInv
<1>0. UNCHANGED <<gen, tasks>>
  BY DEF GoStep
<1>1. ASSUME NEW i \in DOMAIN in, NEW q, q = in[i], q.born \in {0, gen}, q.op = "commit" PROVE CommitOk(q)'
  <2>1. q.id \in Ids /\ Fits(q) /\ ~Quiet(q.id) /\ CommitOk(q)
    BY <1>1, Base, PlaceTypes DEF PageInv, FitsInv, Quiet, LateInv
  <2>2. gen \in live
    BY Base DEF ServerOk, DeadInv
  <2> QED BY <2>1, <2>2, CommitGoes
<1>2. ASSUME NEW q \in tasks, q.op = "commit" PROVE CommitOk(q)'
  <2>1. q.id \in Ids /\ Fits(q) /\ ~Quiet(q.id) /\ CommitOk(q)
    BY <1>2, Base, PlaceTypes DEF PageInv, FitsInv, Quiet, LateInv
  <2>2. gen \in live
    BY Base DEF ServerOk, DeadInv
  <2> QED BY <2>1, <2>2, CommitGoes
<1>3. \A i \in DOMAIN in : \A q : q = in[i] /\ q.born \in {0, gen} => CommitOk(q)'
  BY <1>1 DEF CommitOk
<1>4. \A q \in tasks : CommitOk(q)'
  BY <1>2 DEF CommitOk
<1>5. CASE in' = in
  BY <1>0, <1>3, <1>4, <1>5 DEF LateInv
<1>6. ASSUME NEW x \in Threads, NEW m, NewInput(x, m) PROVE LateInv'
  <2>1. \A i \in DOMAIN in' : in'[i] = m \/ (i \in DOMAIN in /\ in'[i] = in[i])
    BY <1>6, Base, InputGrows
  <2>2. CommitOk(m)'
    BY <1>6, CommitWritten
  <2>3. \A i \in DOMAIN in' : \A q : q = in'[i] /\ q.born \in {0, gen} => CommitOk(q)'
    BY <1>3, <2>1, <2>2
  <2> QED BY <1>0, <1>4, <2>3 DEF LateInv
<1> QED BY <1>5, <1>6 DEF GoStep

(* An id that met another process has met it. *)
LEMMA AliasedStays == ASSUME BaseInv, ServerStep PROVE aliased => aliased'
<1>1. ASSUME NEW k \in tasks, Work(k) PROVE aliased' = aliased
  BY <1>1, Base, WorkEffects DEF WorkEffect
<1>2. Dispatch => (aliased => aliased')
  BY DEF Dispatch
<1>3. CancelFuture => aliased' = aliased
  BY DEF CancelFuture
<1>4. CancelBatches => aliased' = aliased
  BY DEF CancelBatches
<1> QED BY <1>1, <1>2, <1>3, <1>4 DEF ServerStep, ServerNext

(* and of the JVM, to which nothing is added. *)
LEMMA LateServer == ASSUME BaseInv, LateInv, ServerStep PROVE LateInv'
<1>1. UNCHANGED <<gen, cmd, call, phase>>
  BY ServerFrom
<1>2. ASSUME NEW c \in Workers, Undisturbed(c) PROVE Undisturbed(c)'
  <2>1. \A i \in DOMAIN in' : ~Disturbs(in'[i], c)
    BY <1>2, ServerFrom DEF Undisturbed
  <2>2. \A x \in tasks' : ~Disturbs(x, c)
    BY <1>2, ServerFrom DEF Undisturbed, Disturbs, From
  <2>3. input' # NoTarget => input'.t # c
    BY <1>2, ServerFrom DEF Undisturbed, Disturbs
  <2> QED BY <2>1, <2>2, <2>3 DEF Undisturbed, Disturbs
<1>3. \A q : CommitOk(q) => CommitOk(q)'
  BY <1>1, <1>2 DEF CommitOk, Late
<1>4. \A x, q : From(x, q) /\ CommitOk(q) => CommitOk(x)
  BY DEF From, CommitOk
<1>5. aliased => aliased'
  BY AliasedStays
<1>6. ASSUME ~aliased' PROVE \A i \in DOMAIN in' : \A q : q = in'[i] /\ q.born \in {0, gen} => CommitOk(q)
  BY <1>5, <1>6, ServerFrom DEF LateInv
<1>7. ASSUME ~aliased' PROVE \A x \in tasks' : CommitOk(x)
  <2>1. \A x : x.op = "cleanup" => CommitOk(x)
    BY DEF CommitOk
  <2> QED BY <1>4, <1>5, <1>7, <2>1, ServerFrom DEF LateInv
<1> QED BY <1>1, <1>3, <1>6, <1>7 DEF LateInv

(* Nobody discards a batch that is being committed: its worker waits for nothing    *)
(* else, its writer is open; when commits are not cancelled.                        *)
THEOREM LateHolds == ASSUME "commit" \notin Cancellable PROVE Spec => []LateInv
<1>1. Init => LateInv
  BY DEF Init, ServerInit, LateInv
<1>2. BaseInv /\ PageInv /\ LinkInv /\ CalmInv /\ LateInv /\ [Next]_vars => LateInv'
  <2>1. Blank => LateInv'
    BY DEF Blank, LateInv
  <2> QED BY <2>1, StepKinds, LateGo, LateServer
<1> QED BY <1>1, <1>2, BaseHolds, PagesHold, LinksHold, CalmHolds, PTL DEF Spec

(* A commit that has found its batch finds it undisposed when it has the monitor. *)
CommitInv == ~aliased => Careful

(* Nobody disturbs a worker whose commit is somewhere. *)
LEMMA CommitUndisturbed ==
    ASSUME BaseInv, CalmInv, NEW k, k.op = "commit", CommitOk(k)
    PROVE  k.id.t \in Workers /\ Undisturbed(k.id.t) /\ k.id.n = call[k.id.t].n
BY CommitAlone DEF CommitOk, Late

(* No other task disposes of the batch that a commit is about. *)
LEMMA CommitMine ==
    ASSUME BaseInv, PageInv, LinkInv, CalmInv, ClaimInv, TodoInv, LateInv, ~aliased, gen \in live,
           NEW k \in tasks, k.op = "commit", NEW l \in tasks, Disposes(l, k.arg)
    PROVE  l = k
<1>1. /\ CommitOk(k) /\ CommitOk(l) /\ Fits(k) /\ (l.op # "cleanup" => Fits(l)) /\ HandleInv
      /\ k.id \in Ids /\ l.id \in Ids /\ ForSession(l)
  BY Base, PlaceTypes DEF LateInv, PageInv, FitsInv, LinkInv, SessionInv
<1>2. PICK c, b : c = k.id.t /\ b = k.arg
  OBVIOUS
<1>3. b \in DOMAIN batches /\ batches[b].opener.t = c /\ c \in Workers /\ OfSession(b)
  BY <1>1, <1>2, FoundBatch DEF BatchOps, LinkInv, SessionInv
<1>4. Undisturbed(c) /\ k.id.n = call[c].n
  BY <1>1, <1>2, CommitUndisturbed
<1>5. CASE l.cur = b
  <2>1. Concerns(l, b) /\ ~Disturbs(l, c)
    BY <1>3, <1>4, <1>5 DEF TodoInv, Discards, Undisturbed
  <2>2. l.op = "close" /\ l.arg = batches[b].session /\ l.id.t # WriterOf[c]
    BY <1>3, <2>1 DEF Concerns, Disturbs
  <2>3. l.id.t \in Writers /\ WriterOf[c] \in Writers /\ Claims(l.id.t, l.arg) /\ Claims(WriterOf[c], l.arg)
    BY <1>1, <1>3, <2>2, ThreadsAssumption DEF ForSession, OfSession, Claims
  <2> QED BY <2>2, <2>3 DEF ClaimInv
<1>6. CASE l.op = "commit" /\ l.pc = "monitor" /\ l.arg = b
  <2>1. batches[b].opener.t = l.id.t
    BY <1>1, <1>6, FoundBatch DEF BatchOps
  <2>2. l.id.n = call[c].n /\ l.id.t = c
    BY <1>1, <1>3, <1>6, <2>1, CommitUndisturbed
  <2>3. l.id = k.id
    BY <1>1, <1>2, <1>4, <2>2 DEF Ids
  <2> QED BY <1>6, <2>3 DEF LinkInv, UniqueInv
<1> QED BY <1>2, <1>5, <1>6 DEF Disposes

(* A commit is a batch's from its lookup on, and leaves the monitor for good. *)
LEMMA CommitSteps ==
    ASSUME Types, ServerOk, NEW k \in tasks, k.op = "commit", Work(k), NEW x \in tasks', x.pc = "monitor"
    PROVE  \/ x \in tasks /\ x # k
           \/ x \in tasks /\ k.pc # "monitor"
           \/ k.pc = "queued" /\ k.arg \in DOMAIN batches /\ batches[k.arg].mapped /\ x.arg = k.arg
<1>1. k \in Tasks /\ TaskOk(k)
  BY DEF Types, ServerTypes, ServerOk
<1>2. k.pc \notin {"acquire", "using", "prepare", "check", "scan", "discard", "execute"}
  BY <1>1 DEF TaskOk
<1>3. Reply(k) \/ RequestBatch(k) \/ CommitBatch(k) \/ CommitFails(k)
  BY <1>2
     DEF Work, Reply, Acquire, DropIdle, Hello, OpenSession, FindSession, Execute, CloseSession, CloseSessionScan, CloseSessionPool,
         BeginRegister, BeginFails, BeginCheck, UploadLOB, AddBatch, AddBatchDone, AbortBatch, DiscardMark, DiscardDispose, DiscardEnd, AtMonitor
<1>4. \A ok, val : Answered(k, ok, val).pc = "reply"
  BY <1>1 DEF Answered, Tasks
<1>5. CASE Reply(k) \/ CommitBatch(k) \/ CommitFails(k)
  <2>1. tasks' = tasks \ {k} \/ \E ok, val : Answer(k, ok, val)
    BY <1>5 DEF Reply, CommitBatch, CommitFails
  <2> QED BY <1>4, <2>1 DEF Answer, Step
<1>6. CASE RequestBatch(k)
  <2>1. [k EXCEPT !.pc = "monitor"].arg = k.arg
    BY <1>1 DEF Tasks
  <2> QED BY <1>4, <1>6, <2>1 DEF RequestBatch, Answer, Goto, Step
<1> QED BY <1>3, <1>5, <1>6

(* A step of a task disposes of no batch that another is about to commit. *)
LEMMA CommitWork ==
    ASSUME BaseInv, PageInv, LinkInv, CalmInv, ClaimInv, TodoInv, LateInv, CommitInv, NEW k \in tasks, Work(k), UNCHANGED <<gen, goVars>>
    PROVE  CommitInv'
<1>1. BatchEffect(k) /\ TaskEffect(k) /\ aliased' = aliased /\ gen \in live
  BY Base, WorkEffects DEF WorkEffect, ServerOk, DeadInv
<1> SUFFICES ASSUME ~aliased, NEW x \in tasks', x.op = "commit", x.pc = "monitor" PROVE ~batches'[x.arg].disposed
  BY <1>1 DEF CommitInv, Careful
<1>2. k.op = "commit" =>
        \/ x \in tasks /\ x # k
        \/ x \in tasks /\ k.pc # "monitor"
        \/ k.pc = "queued" /\ k.arg \in DOMAIN batches /\ batches[k.arg].mapped /\ x.arg = k.arg
  BY Base, CommitSteps
<1>3. CASE x \in tasks /\ ~(x = k /\ k.pc = "monitor")
  <2>1. x.arg \in DOMAIN batches /\ ~batches[x.arg].disposed
    BY <1>3, Base DEF CommitInv, Careful, ServerOk, TaskOk
  <2>2. ~Disposes(k, x.arg)
    BY <1>1, <1>3, CommitMine
  <2> QED BY <1>1, <2>1, <2>2 DEF BatchEffect, Grown
<1>4. CASE x \notin tasks
  <2>1. k.op = "commit"
    BY <1>1, <1>4 DEF TaskEffect, Kept
  <2>2. k.pc = "queued" /\ k.arg \in DOMAIN batches /\ batches[k.arg].mapped /\ x.arg = k.arg
    BY <1>2, <1>4, <2>1
  <2>3. ~Disposes(k, x.arg) /\ ~batches[x.arg].disposed
    BY <2>2, Base, TaskFacts DEF ServerOk, BatchOk
  <2> QED BY <1>1, <2>2, <2>3 DEF BatchEffect, Grown
<1> QED BY <1>2, <1>3, <1>4

(* Every step. *)
LEMMA CommitStep ==
    ASSUME BaseInv, PageInv, LinkInv, CalmInv, ClaimInv, TodoInv, LateInv, CommitInv, GoStep \/ ServerStep \/ Blank
    PROVE  CommitInv'
<1>1. CASE GoStep
  BY <1>1 DEF GoStep, CommitInv, Careful
<1>2. CASE Blank
  BY <1>2 DEF Blank, CommitInv, Careful
<1>3. ASSUME NEW k \in tasks, Work(k), UNCHANGED <<gen, goVars>> PROVE CommitInv'
  BY <1>3, CommitWork
<1>4. CASE Dispatch /\ UNCHANGED <<gen, goVars>>
  <2>1. tasks' = tasks \cup {NewTask(Head(in))}
    BY <1>4, Base, DispatchKeeps
  <2>2. batches' = batches /\ (aliased => aliased')
    BY <1>4 DEF Dispatch
  <2>3. \A x \in tasks' : x \in tasks \/ x.pc = "queued"
    BY <2>1 DEF NewTask
  <2> QED BY <2>2, <2>3 DEF CommitInv, Careful
<1>5. CASE CancelFuture /\ UNCHANGED <<gen, goVars>>
  <2>1. UNCHANGED <<batches, aliased>> /\ \A x \in tasks' : \E k \in tasks : Same(k, x)
    BY <1>5, Base, CancelFutureTasks DEF CancelFuture
  <2> QED BY <2>1 DEF CommitInv, Careful, Same, Kept
<1>6. CASE CancelBatches /\ UNCHANGED <<gen, goVars>>
  <2>1. /\ \A b \in DOMAIN batches : batches'[b].disposed = batches[b].disposed
        /\ \A x \in tasks' : x \in tasks \/ x.op = "cleanup"
    BY <1>6, Base, CancelBatchesFacts
  <2>2. aliased' = aliased
    BY <1>6 DEF CancelBatches
  <2>3. \A k \in tasks : k.pc = "monitor" => k.arg \in DOMAIN batches
    BY Base DEF ServerOk, TaskOk
  <2> QED BY <2>1, <2>2, <2>3 DEF CommitInv, Careful
<1> QED BY <1>1, <1>2, <1>3, <1>4, <1>5, <1>6 DEF ServerStep, ServerNext

(* A commit never finds that its connection was given back already; when commits *)
(* are not cancelled.                                                            *)
THEOREM CommitHolds == ASSUME "commit" \notin Cancellable PROVE Spec => []CommitInv
<1>1. Init => CommitInv
  BY DEF Init, ServerInit, CommitInv, Careful
<1>2. BaseInv /\ PageInv /\ LinkInv /\ CalmInv /\ ClaimInv /\ TodoInv /\ LateInv /\ CommitInv /\ [Next]_vars => CommitInv'
  BY StepKinds, CommitStep
<1> QED BY <1>1, <1>2, BaseHolds, PagesHold, LinksHold, CalmHolds, ClaimsHold, TodoHolds, LateHolds, PTL DEF Spec

-----------------------------------------------------------------------------
(* The pool's counter. Every connection that is held is counted. *)
OverInv == ~aliased => Counted

(* None is given back twice: only a commit gives one back without looking whether *)
(* that has been done.                                                            *)
LEMMA OverStep ==
    ASSUME BaseInv, BaseInv', LinkInv, CommitInv, CountInv, OverInv, [Next]_vars PROVE OverInv'
<1>1. CASE ServerStep
  <2>1. Careful /\ Counted => Counted'
    BY StepCounts
  <2>2. aliased => aliased'
    BY <1>1, AliasedStays
  <2> QED BY <2>1, <2>2 DEF OverInv, CommitInv
<1>2. CASE GoStep
  BY <1>2 DEF GoStep, OverInv, Counted, Held, InUse, InBatches
<1>3. CASE Blank
  BY <1>3 DEF Blank, OverInv, Counted
<1> QED BY <1>1, <1>2, <1>3, StepKinds

(* A pool's counter is exactly the number of its connections, idle, at work and in *)
(* batches: none is lost, and while no id met another process none is given back   *)
(* twice; when commits are not cancelled, which is what commitBatch relies on that *)
(* gives the connection back without looking whether a cleanup has done so.        *)
THEOREM PoolsCount == ASSUME "commit" \notin Cancellable PROVE Spec => []PoolCountsConnections
<1>1. Init => OverInv
  BY DEF Init, ServerInit, OverInv, Counted
<1>2. BaseInv /\ BaseInv' /\ LinkInv /\ CommitInv /\ CountInv /\ OverInv /\ [Next]_vars => OverInv'
  BY OverStep
<1>3. Init => CountInv
  BY FS_EmptySet DEF Init, ServerInit, CountInv, NoConnectionLost
<1>4. BaseInv /\ BaseInv' /\ LinkInv /\ CountInv /\ [Next]_vars => CountInv'
  BY StepCounts
<1>5. BaseInv /\ CountInv /\ OverInv => PoolCountsConnections
  <2> SUFFICES ASSUME BaseInv, CountInv, OverInv, ~aliased, NEW s \in DOMAIN sessions
               PROVE  sessions[s].open = sessions[s].idle + Held(s)
    BY DEF PoolCountsConnections, CountInv
  <2>1. Types
    BY Base
  <2>2. sessions[s].open \in Int /\ sessions[s].idle \in Int
    BY <2>1, ReadySessions DEF Ready
  <2>3. Held(s) \in Nat
    BY <2>1, HeldFinite, FS_CardinalityType DEF CountInv, Held
  <2>4. sessions[s].open <= sessions[s].idle + Held(s) /\ sessions[s].open >= sessions[s].idle + Held(s)
    BY DEF CountInv, NoConnectionLost, OverInv, Counted
  <2> QED BY <2>2, <2>3, <2>4
<1> QED BY <1>1, <1>2, <1>3, <1>4, <1>5, BaseHolds, LinksHold, CommitHolds, PTL DEF Spec
=============================================================================
