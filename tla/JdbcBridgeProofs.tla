-------------------------- MODULE JdbcBridgeProofs --------------------------
(***************************************************************************)
(* Proofs about JdbcBridge: the manager has one JVM besides those it gave   *)
(* up, and pages are committed whole, by an invariant over calls, requests, *)
(* tasks and batches.                                                       *)
(***************************************************************************)
EXTENDS JdbcBridge, FiniteSetTheorems, TLAPS

(* A thread that makes the handshake, or gives up on it, is the one that starts. *)
StartPcs == {"register", "capture", "write", "await", "cancel"}

Pcs == {"rest", "ensure", "join", "nostart", "failed", "kill", "reaped"} \cup StartPcs

Calls == [pc : Pcs, op : Ops \cup {"none", "hello"}, n : Nat, w : Nat]

Starter(c) == c.pc \in {"nostart", "kill", "reaped"} \/ (c.op = "hello" /\ c.pc \in StartPcs)

(* The process of the last generation is gone, or readLoop gave it up.          *)
Gone == live = {} \/ gen \in refused

(* It is the only one that can be there besides those that were given up, and   *)
(* its reaper with it; it is registered and listened to, or it is gone, or a    *)
(* failed startup waits for its end.                                            *)
ProcessInv ==
    /\ gen \in Nat /\ live \subseteq {gen} /\ live \subseteq reaping /\ cmd \in {0, gen}
    /\ adrift \subseteq refused /\ (cmd # 0 => cmd \in reading)
    /\ cmd = 0 => Gone \/ \E t \in Threads : call[t].pc = "reaped"

(* Whoever starts a process is alone in that.                                   *)
StarterInv ==
    /\ call \in [Threads -> Calls]
    /\ starting \in Threads \cup {NoOne}
    /\ \A t \in Threads : starting = t <=> Starter(call[t])
    /\ \A t \in Threads : /\ call[t].op = "hello" => Starter(call[t])
                          /\ call[t].pc = "nostart" => Gone
                          /\ call[t].pc = "reaped" => cmd = 0

ManagerInv == ProcessInv /\ StarterInv

-----------------------------------------------------------------------------
(* A thread that does not start anything goes on as one that does not. *)
Plain(c) == c \in Calls /\ ~Starter(c) /\ c.op # "hello"

(* A thread is as far as its call says. *)
LEMMA CallTypes ==
    ASSUME ManagerInv, NEW t \in Threads
    PROVE  call[t] \in Calls /\ (call[t].op # "hello" /\ call[t].pc \notin {"nostart", "kill", "reaped"} => Plain(call[t]))
BY DEF ManagerInv, StarterInv, Plain, Starter

(* One thread that starts nothing moves. *)
LEMMA PlainMove ==
    ASSUME ManagerInv, NEW t \in Threads, NEW c, Plain(call[t]), Plain(c),
           call' = [call EXCEPT ![t] = c],
           UNCHANGED <<gen, live, driftVars, reading, reaping, cmd, starting>>
    PROVE  ManagerInv'
<1>1. \A x \in Threads : call'[x] = IF x = t THEN c ELSE call[x]
  BY DEF ManagerInv, StarterInv
<1>2. call' \in [Threads -> Calls]
  BY DEF ManagerInv, StarterInv, Plain
<1>3. c.pc \notin {"nostart", "reaped"} /\ call[t].pc \notin {"nostart", "reaped"}
  BY DEF Plain, Starter
<1>4. StarterInv'
  BY <1>1, <1>2, <1>3 DEF ManagerInv, StarterInv, Plain, Gone, driftVars
<1>5. ProcessInv'
  BY <1>1, <1>3 DEF ManagerInv, ProcessInv, Gone, driftVars
<1> QED BY <1>4, <1>5 DEF ManagerInv

(* The thread that makes the handshake goes on with it. *)
LEMMA HelloMove ==
    ASSUME ManagerInv, NEW t \in Threads, NEW c \in Calls,
           call[t].op = "hello", call[t].pc \in StartPcs, c.op = "hello",
           c.pc \in StartPcs \cup {"kill"},
           call' = [call EXCEPT ![t] = c],
           UNCHANGED <<gen, live, driftVars, reading, reaping, cmd, starting>>
    PROVE  ManagerInv'
<1>1. \A x \in Threads : call'[x] = IF x = t THEN c ELSE call[x]
  BY DEF ManagerInv, StarterInv
<1>2. call' \in [Threads -> Calls]
  BY DEF ManagerInv, StarterInv
<1>3. c.pc \notin {"nostart", "reaped"} /\ call[t].pc \notin {"nostart", "reaped"}
  BY DEF StartPcs
<1>4. Starter(c) /\ Starter(call[t])
  BY DEF Starter
<1>5. StarterInv'
  BY <1>1, <1>2, <1>3, <1>4 DEF ManagerInv, StarterInv, Gone, driftVars
<1>6. ProcessInv'
  BY <1>1, <1>3 DEF ManagerInv, ProcessInv, Gone, driftVars
<1> QED BY <1>5, <1>6 DEF ManagerInv

(* The process is registered no more, with nobody in it or given up. *)
LEMMA DiedMove ==
    ASSUME ManagerInv, NEW g, ProcessDied(g), g \notin live \/ (g = gen /\ gen \in refused'),
           reading' \in {reading, reading \ {g}}, g \in reading' \/ g \notin live \/ g = gen,
           reaping' \in {reaping, reaping \ {g}}, live \subseteq reaping',
           refused \subseteq refused', UNCHANGED <<gen, live, adrift, call, starting>>
    PROVE  ManagerInv'
<1>1. cmd' = cmd \/ (cmd' = 0 /\ Gone')
  BY DEF ProcessDied, ManagerInv, ProcessInv, Gone
<1>2. cmd' \in {0, gen} /\ (cmd' # 0 => cmd' \in reading')
  BY DEF ProcessDied, ManagerInv, ProcessInv
<1>3. Gone => Gone'
  BY DEF Gone
<1>4. ProcessInv'
  BY <1>1, <1>2, <1>3 DEF ManagerInv, ProcessInv
<1>5. StarterInv'
  BY <1>1, <1>3 DEF ManagerInv, StarterInv
<1> QED BY <1>4, <1>5 DEF ManagerInv

(* The call returns to its caller. *)
LEMMA ReturnMove ==
    ASSUME ManagerInv, NEW t \in Threads, NEW r, Plain(call[t]), Return(t, r),
           UNCHANGED <<gen, live, driftVars, reading, reaping, cmd, starting>>
    PROVE  ManagerInv'
<1>1. PICK c : c = [call[t] EXCEPT !.pc = "rest", !.w = 0]
  OBVIOUS
<1>2. Plain(c)
  BY <1>1 DEF Plain, Starter, Calls, Pcs, StartPcs
<1>3. call' = [call EXCEPT ![t] = c]
  BY <1>1 DEF Return, ManagerInv, StarterInv
<1> QED BY <1>2, <1>3, PlainMove

(* The deferred end of ensureStarted. *)
LEMMA JoinedMove ==
    ASSUME ManagerInv, NEW t \in Threads, NEW r, Joined(t, r), Starter(call[t]),
           cmd = 0 => Gone, UNCHANGED <<gen, live, driftVars, reading, reaping, cmd>>
    PROVE  ManagerInv'
<1> DEFINE pc == IF r.ok THEN "register" ELSE "failed"
<1>1. \A x \in Threads : x = t \/ call[x].pc = "join" =>
         /\ [call[x] EXCEPT !.op = "open", !.pc = pc] \in Calls
         /\ [call[x] EXCEPT !.op = "open", !.pc = pc].op = "open"
         /\ [call[x] EXCEPT !.op = "open", !.pc = pc].pc \notin {"nostart", "kill", "reaped"}
  <2>1. pc \in Pcs /\ pc \notin {"nostart", "kill", "reaped"} /\ "open" \in Ops
    BY DEF Pcs, StartPcs, Ops
  <2>2. ASSUME NEW c \in Calls, NEW p \in Pcs
        PROVE  /\ [c EXCEPT !.op = "open", !.pc = p] \in Calls
               /\ [c EXCEPT !.op = "open", !.pc = p].op = "open" /\ [c EXCEPT !.op = "open", !.pc = p].pc = p
    BY <2>1 DEF Calls
  <2>3. \A x \in Threads : call[x] \in Calls
    BY DEF ManagerInv, StarterInv
  <2> HIDE DEF pc
  <2>4. ASSUME NEW x \in Threads
        PROVE  /\ [call[x] EXCEPT !.op = "open", !.pc = pc] \in Calls
               /\ [call[x] EXCEPT !.op = "open", !.pc = pc].op = "open" /\ [call[x] EXCEPT !.op = "open", !.pc = pc].pc = pc
    <3>1. PICK c \in Calls : c = call[x]
      BY <2>3
    <3> QED BY <2>1, <2>2, <3>1
  <2> QED BY <2>1, <2>4
<1>2. call' \in [Threads -> Calls]
  BY <1>1 DEF Joined, ManagerInv, StarterInv
<1>3. \A x \in Threads : ~Starter(call'[x]) /\ call'[x].op # "hello" /\ call'[x].pc \notin {"nostart", "reaped"}
  <2> TAKE x \in Threads
  <2>1. CASE x = t \/ call[x].pc = "join"
    BY <1>1, <2>1 DEF Joined, Starter
  <2>2. CASE ~(x = t \/ call[x].pc = "join")
    BY <2>2 DEF Joined, Starter, ManagerInv, StarterInv
  <2> QED BY <2>1, <2>2
<1>4. StarterInv'
  BY <1>2, <1>3, ThreadsAssumption DEF StarterInv, Joined, NoOne
<1>5. ProcessInv'
  BY DEF ManagerInv, ProcessInv, Gone, driftVars
<1> QED BY <1>4, <1>5 DEF ManagerInv


(* A call ends: it returns, or the handshake ends the startup or is to kill the process. *)
LEMMA FinishMove ==
    ASSUME ManagerInv, NEW t \in Threads, NEW r, Finish(t, r), call[t].pc \in StartPcs,
           UNCHANGED <<gen, live, driftVars, reading, reaping, cmd>>
    PROVE  ManagerInv'
<1>1. CASE call[t].op # "hello"
  <2>1. Plain(call[t])
    BY <1>1, CallTypes DEF StartPcs
  <2> QED BY <1>1, <2>1, ReturnMove DEF Finish
<1>2. CASE call[t].op = "hello" /\ r.ok
  <2>1. Starter(call[t]) /\ Joined(t, r)
    BY <1>2 DEF Starter, Finish
  <2>2. cmd = 0 => Gone
    BY <1>2, <2>1 DEF ManagerInv, ProcessInv, Gone, driftVars, StarterInv, Starter, StartPcs
  <2> QED BY <2>1, <2>2, JoinedMove
<1>3. CASE call[t].op = "hello" /\ ~r.ok
  <2>1. PICK c : c = [call[t] EXCEPT !.pc = "kill"]
    OBVIOUS
  <2>2. c \in Calls /\ c.op = "hello" /\ c.pc = "kill"
    BY <1>3, <2>1, CallTypes DEF Calls, Pcs, StartPcs
  <2>3. call' = [call EXCEPT ![t] = c] /\ starting' = starting
    BY <1>3, <2>1 DEF Finish, ManagerInv, StarterInv
  <2> QED BY <1>3, <2>2, <2>3, HelloMove
<1> QED BY <1>1, <1>2, <1>3

(* The call goes on, whether it is the handshake or another. *)
LEMMA CallMove ==
    ASSUME ManagerInv, NEW t \in Threads, NEW c \in Calls, call[t].pc \in StartPcs,
           c.pc \in StartPcs, c.op = call[t].op, call' = [call EXCEPT ![t] = c],
           UNCHANGED <<gen, live, driftVars, reading, reaping, cmd, starting>>
    PROVE  ManagerInv'
<1>1. CASE call[t].op # "hello"
  <2>1. Plain(call[t]) /\ Plain(c)
    BY <1>1, CallTypes DEF StartPcs, Plain, Starter
  <2> QED BY <2>1, PlainMove
<1>2. CASE call[t].op = "hello"
  BY <1>2, HelloMove
<1> QED BY <1>1, <1>2

-----------------------------------------------------------------------------
(* The steps of a thread. *)

(* Nothing of the manager changes. *)
LEMMA SameManager ==
    ASSUME ManagerInv, UNCHANGED <<gen, live, driftVars, reading, reaping, cmd, starting, call>>
    PROVE  ManagerInv'
BY DEF ManagerInv, ProcessInv, Gone, driftVars, StarterInv

(* OpenSession begins, joins a startup or finds a process. *)
LEMMA BeginInv ==
    ASSUME ManagerInv, NEW t \in Threads, Begin(t) \/ EnsureJoin(t)
    PROVE  ManagerInv'
<1>1. CASE Begin(t)
  <2>1. PICK c : c = [call[t] EXCEPT !.op = "open", !.pc = "ensure"]
    OBVIOUS
  <2>2. Plain(c)
    BY <2>1, CallTypes DEF Plain, Starter, Calls, Pcs, StartPcs, Ops
  <2>3. Plain(call[t])
    BY <1>1, CallTypes DEF Begin, Plain, ManagerInv, StarterInv, Starter, StartPcs
  <2> QED BY <1>1, <2>1, <2>2, <2>3, PlainMove DEF Begin, serverVars
<1>2. CASE EnsureJoin(t)
  <2>1. PICK pc \in {"join", "register"} : call' = [call EXCEPT ![t].pc = pc]
    BY <1>2 DEF EnsureJoin
  <2>2. Plain(call[t])
    BY <1>2, CallTypes DEF EnsureJoin, Plain, ManagerInv, StarterInv, Starter, StartPcs
  <2>3. PICK c : c = [call[t] EXCEPT !.pc = pc]
    OBVIOUS
  <2>4. Plain(c)
    BY <2>2, <2>3 DEF Plain, Starter, Calls, Pcs, StartPcs
  <2>5. call' = [call EXCEPT ![t] = c]
    BY <2>1, <2>3 DEF ManagerInv, StarterInv
  <2> QED BY <1>2, <2>2, <2>4, <2>5, PlainMove DEF EnsureJoin, serverVars
<1> QED BY <1>1, <1>2

(* ensureStarted: nobody starts and nothing is registered, so nothing is there. *)
LEMMA NothingThere ==
    ASSUME ManagerInv, starting = NoOne, cmd = 0
    PROVE  Gone /\ \A t \in Threads : ~Starter(call[t])
<1>1. \A t \in Threads : ~Starter(call[t])
  BY ThreadsAssumption DEF ManagerInv, StarterInv, NoOne
<1>2. \A t \in Threads : call[t].pc # "reaped"
  BY <1>1 DEF Starter
<1> QED BY <1>1, <1>2 DEF ManagerInv, ProcessInv, Gone, driftVars

(* A process is started. *)
LEMMA EnsureStartInv == ASSUME ManagerInv, NEW t \in Threads, EnsureStart(t) PROVE ManagerInv'
<1>1. Gone /\ \A x \in Threads : ~Starter(call[x])
  BY NothingThere DEF EnsureStart
<1>2. PICK c : c = [call[t] EXCEPT !.op = "hello", !.pc = "register"]
  OBVIOUS
<1>3. c \in Calls /\ c.op = "hello" /\ c.pc = "register" /\ Starter(c)
  BY <1>2, CallTypes DEF Calls, Pcs, StartPcs, Starter
<1>4. call' = [call EXCEPT ![t] = c] /\ starting' = t
  BY <1>2 DEF EnsureStart
<1>5. call' \in [Threads -> Calls] /\ \A x \in Threads : call'[x] = IF x = t THEN c ELSE call[x]
  BY <1>3, <1>4 DEF ManagerInv, StarterInv
<1>6. StarterInv'
  BY <1>1, <1>3, <1>4, <1>5 DEF ManagerInv, StarterInv, Starter
<1>7. /\ gen' \in Nat /\ live' = {gen'} /\ gen' \in reaping' /\ cmd' = gen' /\ cmd' # 0
      /\ cmd' \in reading' /\ adrift' \subseteq refused'
  BY <1>1 DEF EnsureStart, ManagerInv, ProcessInv, Gone, driftVars
<1>8. ProcessInv'
  BY <1>7 DEF ProcessInv, Gone, driftVars
<1> QED BY <1>6, <1>8 DEF ManagerInv

(* No process could be started. *)
LEMMA EnsureFailsInv == ASSUME ManagerInv, NEW t \in Threads, EnsureFails(t) PROVE ManagerInv'
<1>1. Gone /\ \A x \in Threads : ~Starter(call[x])
  BY NothingThere DEF EnsureFails
<1>2. PICK c : c = [call[t] EXCEPT !.pc = "nostart"]
  OBVIOUS
<1>3. c \in Calls /\ c.pc = "nostart" /\ Starter(c)
  BY <1>2, CallTypes DEF Calls, Pcs, StartPcs, Starter
<1>4. call' = [call EXCEPT ![t] = c] /\ starting' = t /\ UNCHANGED <<gen, live, driftVars, reading, reaping, cmd>>
  BY <1>2 DEF EnsureFails, ManagerInv, StarterInv
<1>5. call' \in [Threads -> Calls] /\ \A x \in Threads : call'[x] = IF x = t THEN c ELSE call[x]
  BY <1>3, <1>4 DEF ManagerInv, StarterInv
<1>6. StarterInv'
  BY <1>1, <1>3, <1>4, <1>5 DEF ManagerInv, StarterInv, Starter, Gone, driftVars
<1>7. ProcessInv'
  BY <1>1, <1>4 DEF ManagerInv, ProcessInv, Gone, driftVars
<1> QED BY <1>6, <1>7 DEF ManagerInv

(* The process of a failed handshake is no longer registered. *)
LEMMA HelloKillInv == ASSUME ManagerInv, NEW t \in Threads, HelloKill(t) PROVE ManagerInv'
<1>1. Starter(call[t])
  BY DEF HelloKill, Starter
<1>2. PICK c : c = [call[t] EXCEPT !.pc = "reaped"]
  OBVIOUS
<1>3. c \in Calls /\ c.pc = "reaped" /\ Starter(c)
  BY <1>2, CallTypes DEF Calls, Pcs, StartPcs, Starter
<1>4. call' = [call EXCEPT ![t] = c] /\ UNCHANGED <<gen, live, reading, reaping, starting, driftVars>> /\ cmd' = 0
  BY <1>2 DEF HelloKill, serverVars, ProcessDied, ManagerInv, StarterInv, ProcessInv, Gone, driftVars
<1>5. call' \in [Threads -> Calls] /\ \A x \in Threads : call'[x] = IF x = t THEN c ELSE call[x]
  BY <1>3, <1>4 DEF ManagerInv, StarterInv
<1>6. call[t].pc # "nostart"
  BY DEF HelloKill
<1>7. StarterInv'
  BY <1>1, <1>3, <1>4, <1>5, <1>6 DEF ManagerInv, StarterInv, Gone, driftVars
<1>8. ProcessInv'
  BY <1>3, <1>4, <1>5 DEF ManagerInv, ProcessInv, Gone, driftVars
<1> QED BY <1>7, <1>8 DEF ManagerInv

(* The startup ends with its error when the process is gone. *)
LEMMA StartupFailsInv == ASSUME ManagerInv, NEW t \in Threads, StartupFails(t) PROVE ManagerInv'
<1>1. Starter(call[t])
  BY DEF StartupFails, Starter
<1>2. Gone
  BY DEF StartupFails, ManagerInv, ProcessInv, Gone, driftVars, StarterInv
<1> QED BY <1>1, <1>2, JoinedMove DEF StartupFails, serverVars

(* A caller is told of a failed startup, or gives up waiting for it. *)
LEMMA StartFailedInv ==
    ASSUME ManagerInv, NEW t \in Threads, StartFailed(t) \/ JoinDone(t)
    PROVE  ManagerInv'
<1>1. Plain(call[t])
  BY CallTypes DEF StartFailed, JoinDone, Plain, ManagerInv, StarterInv, Starter, StartPcs
<1> QED BY <1>1, ReturnMove DEF StartFailed, JoinDone, serverVars

(* requestExisting. *)
LEMMA CheckRunningInv == ASSUME ManagerInv, NEW t \in Threads, CheckRunning(t) PROVE ManagerInv'
<1>1. Plain(call[t])
  BY CallTypes DEF CheckRunning, Plain, ManagerInv, StarterInv, Starter, StartPcs
<1>2. CASE cmd = 0
  BY <1>1, <1>2, ReturnMove DEF CheckRunning, serverVars
<1>3. CASE cmd # 0
  <2>1. PICK op \in Ops : op = OpOf(phase[t])
    BY DEF CheckRunning, OpOf, Ops
  <2>2. PICK c : c = [call[t] EXCEPT !.op = op, !.pc = "register"]
    OBVIOUS
  <2>3. Plain(c)
    BY <1>1, <2>1, <2>2 DEF Plain, Starter, Calls, Pcs, StartPcs, Ops
  <2> QED BY <1>1, <1>3, <2>1, <2>2, <2>3, PlainMove DEF CheckRunning, serverVars
<1> QED BY <1>2, <1>3

(* requestStarted and writeRequest. *)
LEMMA RequestInv ==
    ASSUME ManagerInv, NEW t \in Threads, Register(t) \/ Capture(t) \/ Write(t)
    PROVE  ManagerInv'
<1>0. call[t] \in Calls /\ cmd \in Nat
  BY CallTypes DEF ManagerInv, ProcessInv, Gone, driftVars
<1>1. CASE Register(t)
  <2>1. PICK n : n = call[t].n + 1
    OBVIOUS
  <2>2. PICK c : c = [call[t] EXCEPT !.n = n, !.pc = "capture"]
    OBVIOUS
  <2>3. n \in Nat
    BY <1>0, <2>1 DEF Calls
  <2>4. c \in Calls /\ c.pc \in StartPcs /\ c.op = call[t].op
    BY <1>0, <2>2, <2>3 DEF Calls, Pcs, StartPcs
  <2>5. c = [call[t] EXCEPT !.n = @ + 1, !.pc = "capture"]
    BY <1>0, <2>1, <2>2 DEF Calls
  <2>6. call[t].pc \in StartPcs /\ call' = [call EXCEPT ![t] = c]
    BY <1>1, <2>5 DEF Register, StartPcs, ManagerInv, StarterInv
  <2> QED BY <1>1, <2>4, <2>6, CallMove DEF Register, serverVars
<1>2. CASE Capture(t)
  <2>1. CASE cmd = 0
    BY <1>2, <2>1, FinishMove DEF Capture, serverVars, StartPcs
  <2>2. CASE cmd # 0
    <3>1. PICK c : c = [call[t] EXCEPT !.pc = "write", !.w = cmd]
      OBVIOUS
    <3>2. c \in Calls /\ c.pc \in StartPcs /\ c.op = call[t].op
      BY <1>0, <3>1 DEF Calls, Pcs, StartPcs
    <3>3. call[t].pc \in StartPcs /\ call' = [call EXCEPT ![t] = c]
      BY <1>2, <2>2, <3>1 DEF Capture, StartPcs
    <3> QED BY <1>2, <2>2, <3>2, <3>3, CallMove DEF Capture, serverVars
  <2> QED BY <2>1, <2>2
<1>3. CASE Write(t)
  <2>1. CASE call[t].w \notin live \cup adrift
    BY <1>3, <2>1, FinishMove DEF Write, StartPcs
  <2>2. CASE call[t].w \in live \cup adrift
    <3>1. PICK c : c = [call[t] EXCEPT !.pc = "await"]
      OBVIOUS
    <3>2. c \in Calls /\ c.pc \in StartPcs /\ c.op = call[t].op
      BY <1>0, <3>1 DEF Calls, Pcs, StartPcs
    <3>3. call[t].pc \in StartPcs /\ call' = [call EXCEPT ![t] = c]
      BY <1>3, <2>2, <3>1 DEF Write, StartPcs, ManagerInv, StarterInv
    <3> QED BY <1>3, <2>2, <3>2, <3>3, CallMove DEF Write
  <2> QED BY <2>1, <2>2
<1> QED BY <1>1, <1>2, <1>3

(* The answer comes or the context ends. *)
LEMMA WaitInv ==
    ASSUME ManagerInv, NEW t \in Threads, Receive(t) \/ CtxDone(t) \/ SendCancel(t)
    PROVE  ManagerInv'
<1>1. CASE Receive(t)
  BY <1>1, FinishMove DEF Receive, serverVars, StartPcs
<1>2. CASE CtxDone(t)
  <2>1. PICK c : c = [call[t] EXCEPT !.pc = "cancel"]
    OBVIOUS
  <2>2. c \in Calls /\ c.pc \in StartPcs /\ c.op = call[t].op
    BY <2>1, CallTypes DEF Calls, Pcs, StartPcs
  <2>3. call[t].pc \in StartPcs /\ call' = [call EXCEPT ![t] = c]
    BY <1>2, <2>1 DEF CtxDone, StartPcs, ManagerInv, StarterInv
  <2> QED BY <1>2, <2>2, <2>3, CallMove DEF CtxDone
<1>3. CASE SendCancel(t)
  BY <1>3, FinishMove DEF SendCancel, StartPcs
<1> QED BY <1>1, <1>2, <1>3

(* A worker or a close is begun. *)
LEMMA WriterInv ==
    ASSUME ManagerInv, NEW t \in Threads, StartWork(t) \/ StartClose(t)
    PROVE  ManagerInv'
BY SameManager DEF StartWork, StartClose, serverVars

(* readLoop and the reaper. *)
LEMMA ReaderInv == ASSUME ManagerInv, ReaderStep PROVE ManagerInv'
<1>1. ASSUME NEW r \in out, ReadResponse(r) PROVE ManagerInv'
  BY <1>1, SameManager DEF ReadResponse
<1>2. ASSUME NEW g \in reading, ReadEOF(g) PROVE ManagerInv'
  BY <1>2, DiedMove DEF ReadEOF, serverVars, driftVars, ManagerInv, ProcessInv
<1>3. ASSUME NEW g \in reaping, Reap(g) PROVE ManagerInv'
  BY <1>3, DiedMove DEF Reap, serverVars, driftVars, ManagerInv, ProcessInv
<1> QED BY <1>1, <1>2, <1>3 DEF ReaderStep

(* A frame is refused, and what becomes of a JVM that was given up. *)
LEMMA DriftInv ==
    ASSUME ManagerInv, BadFrame \/ LateCommit \/ \E g \in adrift : AdriftExits(g)
    PROVE  ManagerInv'
<1>1. CASE BadFrame
  BY <1>1, DiedMove DEF BadFrame, ManagerInv, ProcessInv
<1>2. CASE LateCommit \/ \E g \in adrift : AdriftExits(g)
  <2>1. adrift' \subseteq adrift /\ UNCHANGED <<gen, live, refused, reading, reaping, cmd, starting, call>>
    BY <1>2 DEF LateCommit, AdriftExits
  <2> QED BY <2>1 DEF ManagerInv, ProcessInv, StarterInv, Gone
<1> QED BY <1>1, <1>2

(* The JVM works or dies. *)
LEMMA ServerInv == ASSUME ManagerInv, ServerStep \/ Killed \/ Crash PROVE ManagerInv'
<1>1. UNCHANGED <<gen, goVars>>
  BY DEF ServerStep, Killed, Crash
<1>2. live' = live \/ live' = live \ {gen}
  <2>1. ASSUME NEW k \in tasks, Work(k) PROVE live' = live
    BY <2>1 DEF Work, Reply, Acquire, DropIdle, Hello, OpenSession, FindSession, Execute, CloseSession,
       CloseSessionScan, CloseSessionPool, BeginRegister, BeginFails, BeginCheck, RequestBatch, UploadLOB,
       AddBatch, AddBatchDone, CommitBatch, CommitFails, AbortBatch, DiscardMark, DiscardDispose, DiscardEnd
  <2>2. CASE ServerStep
    BY <2>1, <2>2 DEF ServerStep, ServerNext, Dispatch, CancelFuture, CancelBatches
  <2>3. CASE Killed \/ Crash
    BY <2>3 DEF Killed, Crash, Exit
  <2> QED BY <2>2, <2>3
<1>3. UNCHANGED <<gen, driftVars, reading, reaping, cmd, starting, call>>
  BY <1>1 DEF goVars
<1> QED BY <1>2, <1>3 DEF ManagerInv, ProcessInv, Gone, driftVars, StarterInv

-----------------------------------------------------------------------------
(* At first nothing is started. *)
LEMMA InitManager == Init => ManagerInv
<1> SUFFICES ASSUME Init PROVE ManagerInv
  OBVIOUS
<1>1. Resting \in Calls /\ ~Starter(Resting) /\ Resting.op # "hello" /\ Resting.pc = "rest"
  BY DEF Resting, Calls, Pcs, Starter, StartPcs
<1>2. call \in [Threads -> Calls] /\ \A t \in Threads : call[t] = Resting
  BY <1>1 DEF Init
<1>3. StarterInv
  BY <1>1, <1>2, ThreadsAssumption DEF Init, StarterInv, NoOne
<1> QED BY <1>3 DEF Init, ServerInit, ManagerInv, ProcessInv, Gone, driftVars

(* The manager's invariant holds in every state of the bridge. *)
THEOREM InvariantHolds == Spec => []ManagerInv
<1>1. Init => ManagerInv
  BY InitManager
<1>2. ManagerInv /\ [Next]_vars => ManagerInv'
  <2> SUFFICES ASSUME ManagerInv, [Next]_vars PROVE ManagerInv'
    OBVIOUS
  <2>1. ASSUME NEW t \in Threads, ThreadStep(t) \/ EnsureFails(t) \/ CtxDone(t) \/ JoinDone(t)
        PROVE  ManagerInv'
    BY <2>1, WriterInv, BeginInv, EnsureStartInv, EnsureFailsInv, HelloKillInv, StartupFailsInv,
       StartFailedInv, CheckRunningInv, RequestInv, WaitInv DEF ThreadStep
  <2>2. CASE UNCHANGED vars
    BY <2>2, SameManager DEF vars, serverVars, goVars
  <2> QED BY <2>1, <2>2, ReaderInv, ServerInv, DriftInv DEF Next
<1> QED BY <1>1, <1>2, PTL DEF Spec

(* A JVM besides the newest is one whose answers readLoop refused, and the one   *)
(* that is registered is listened to, whatever readLoop, reaper, failed            *)
(* handshakes, refused frames and concurrent first calls do.                       *)
THEOREM SingleProcess == Spec => []OneProcess
<1>1. ASSUME ManagerInv PROVE OneProcess
  BY <1>1 DEF ManagerInv, ProcessInv, OneProcess
<1> QED BY <1>1, InvariantHolds, PTL

-----------------------------------------------------------------------------
(* The callers, the pipe and the JVM together: what they hold.                    *)
Phases == {"open", "copy", "close", "closed", "wait", "begin", "exec", "done",
           "lob", "add1", "add2", "commit", "abort"}

Rows == (Threads \X Phases) \cup {<<>>}

TaskPcs == {"queued", "reply", "acquire", "using", "prepare", "check", "scan", "discard", "monitor", "execute"}

Messages == [id : Ids, op : Ops \cup {"hello", "cancel"}, arg : Int, born : Int, row : Rows]

Responses == [id : Ids, ok : BOOLEAN, val : Nat]

Tasks == [id : Ids, op : Ops \cup {"hello", "cleanup"}, arg : Int, row : Rows, pc : TaskPcs,
          cancelled : BOOLEAN, todo : SUBSET Int, cur : Int, ok : BOOLEAN, val : Nat]

Sessions == [closed : BOOLEAN, shut : BOOLEAN, open : Int, idle : Int]

Batches == [session : Int, opener : Ids, mapped : BOOLEAN, closing : BOOLEAN, failed : BOOLEAN,
            disposed : BOOLEAN, lobs : Int, rows : SUBSET Rows, monitor : Ids \cup {Free}]

(* What the pipes, the JVM and the calls hold. *)
ServerTypes ==
    /\ in \in Seq(Messages) /\ out \subseteq Responses /\ input \in Ids \cup {NoTarget}
    /\ tasks \subseteq Tasks /\ sessions \in Seq(Sessions) /\ batches \in Seq(Batches)

GoTypes ==
    /\ pending \subseteq Ids /\ answer \in [Threads -> [ok : BOOLEAN, val : Int]]
    /\ phase \in [Threads -> Phases] /\ handle \in [Threads -> [id : Int, born : Int]]

Types == ServerTypes /\ GoTypes

-----------------------------------------------------------------------------
(* Sequences: an element is replaced, *)
LEMMA SeqReplace ==
    ASSUME NEW S, NEW s \in Seq(S), NEW i, NEW v, i \in DOMAIN s => v \in S
    PROVE  /\ [s EXCEPT ![i] = v] \in Seq(S) /\ DOMAIN [s EXCEPT ![i] = v] = DOMAIN s
           /\ Len([s EXCEPT ![i] = v]) = Len(s)
           /\ \A j \in DOMAIN s : [s EXCEPT ![i] = v][j] = IF j = i THEN v ELSE s[j]
<1>1. PICK r : r = [s EXCEPT ![i] = v]
  OBVIOUS
<1>2. DOMAIN s = 1 .. Len(s) /\ Len(s) \in Nat /\ s \in [1 .. Len(s) -> S]
  OBVIOUS
<1>3. r \in [1 .. Len(s) -> S] /\ \A j \in DOMAIN s : r[j] = IF j = i THEN v ELSE s[j]
  BY <1>1, <1>2
<1>4. r \in Seq(S)
  BY <1>2, <1>3
<1>5. Len(r) = Len(s)
  BY <1>2, <1>3, <1>4
<1> QED BY <1>1, <1>2, <1>3, <1>4, <1>5

(* or one is added, *)
LEMMA SeqAppend ==
    ASSUME NEW S, NEW s \in Seq(S), NEW v \in S
    PROVE  /\ Append(s, v) \in Seq(S) /\ Len(Append(s, v)) = Len(s) + 1
           /\ DOMAIN Append(s, v) = DOMAIN s \cup {Len(s) + 1} /\ Len(s) + 1 \notin DOMAIN s
           /\ \A j \in DOMAIN s : Append(s, v)[j] = s[j]
           /\ Append(s, v)[Len(s) + 1] = v
OBVIOUS

(* or the first is taken away. *)
LEMMA SeqTail ==
    ASSUME NEW S, NEW s \in Seq(S), s # <<>>
    PROVE  /\ Head(s) \in S /\ Tail(s) \in Seq(S) /\ Head(s) = s[1] /\ 1 \in DOMAIN s
           /\ \A j \in DOMAIN Tail(s) : j + 1 \in DOMAIN s /\ Tail(s)[j] = s[j + 1]
OBVIOUS

-----------------------------------------------------------------------------
(* What a task is about while it is on its way: a session, a batch, or the       *)
(* batches it is to discard.                                                     *)
TaskOk(k) ==
    /\ k.todo \subseteq DOMAIN batches
    /\ k.cur # 0 => k.cur \in DOMAIN batches /\ batches[k.cur].closing /\ ~batches[k.cur].mapped
    /\ k.pc # "discard" => k.todo = {} /\ k.cur = 0
    /\ k.pc \in {"acquire", "using", "prepare", "check"} => k.arg \in DOMAIN sessions /\ k.op \in {"exec", "begin"}
    /\ k.pc = "using" => k.op = "exec"
    /\ k.pc \in {"prepare", "check"} => k.op = "begin"
    /\ k.pc \in {"monitor", "execute"} => k.op \in {"lob", "add", "commit"} /\ k.arg \in DOMAIN batches
    /\ k.pc = "execute" => k.op = "add"
    /\ k.pc = "scan" => k.op = "close"
    /\ k.op = "close" /\ k.pc \in {"scan", "discard"} => k.arg \in DOMAIN sessions
    /\ k.pc = "discard" => k.op \in {"close", "begin", "abort", "cleanup"}
    /\ k.op = "cleanup" => k.pc = "discard"
    /\ k.op = "begin" /\ (k.pc \in {"check", "discard"} \/ (k.pc = "reply" /\ k.ok)) =>
          k.val \in DOMAIN batches /\ batches[k.val].opener = k.id

(* A batch belongs to a session; it is given up only when nobody can find it.     *)
BatchOk(b) ==
    /\ batches[b].session \in DOMAIN sessions
    /\ batches[b].disposed => batches[b].closing /\ ~batches[b].mapped

(* Requests, tasks and batches are those of a JVM that runs. *)
DeadInv ==
    gen \notin live => in = <<>> /\ input = NoTarget /\ tasks = {} /\ sessions = <<>> /\ batches = <<>>

ServerOk ==
    /\ \A k \in tasks : TaskOk(k)
    /\ \A b \in DOMAIN batches : BatchOk(b)
    /\ DeadInv

-----------------------------------------------------------------------------
(* A task gives the connection of batch b up: a discard, or a commit. *)
Disposes(k, b) == k.cur = b \/ (k.op = "commit" /\ k.pc = "monitor" /\ k.arg = b)

(* What a step of task k does: to the batches there are, *)
Grown(k, b) ==
    /\ batches'[b].opener = batches[b].opener /\ batches'[b].session = batches[b].session
    /\ batches'[b].disposed => batches[b].disposed \/ Disposes(k, b)
    /\ batches[b].disposed => batches'[b].disposed
    /\ batches[b].closing => batches'[b].closing
    /\ batches'[b].mapped => batches[b].mapped
    /\ \/ batches'[b].rows = batches[b].rows
       \/ batches'[b].closing /\ batches'[b].rows = {}
       \/ k.op = "add" /\ b = k.arg /\ batches'[b].rows = batches[b].rows \cup {k.row}

BatchEffect(k) ==
    /\ batches' \in Seq(Batches) /\ DOMAIN batches \subseteq DOMAIN batches'
    /\ \A b \in DOMAIN batches : Grown(k, b)
    /\ \A b \in DOMAIN batches' \ DOMAIN batches :
         /\ k.op = "begin" /\ k.pc = "prepare" /\ k.arg \in DOMAIN sessions
         /\ batches'[b].opener = k.id /\ batches'[b].session = k.arg /\ batches'[b].rows = {}
    /\ \A b \in DOMAIN batches' : BatchOk(b)'

(* to the sessions, *)
SessionEffect == sessions' \in Seq(Sessions) /\ DOMAIN sessions \subseteq DOMAIN sessions'

(* to the task itself, *)
Kept(k, x) == x \in Tasks /\ x.id = k.id /\ x.op = k.op /\ x.arg = k.arg /\ x.row = k.row

Reported(k, x) ==
    x.pc = "reply" /\ x.ok =>
        /\ x.op = "add" => x.arg \in DOMAIN batches' /\ x.row \in batches'[x.arg].rows
        /\ x.op = "commit" => /\ k.arg \in DOMAIN batches /\ ~batches[k.arg].closing
                              /\ batches[k.arg].rows \subseteq db'

TaskEffect(k) == \A x \in tasks' : x \in tasks \/ (Kept(k, x) /\ TaskOk(x)' /\ Reported(k, x))

(* to the database and to the pipe. *)
Response(k) == [id |-> k.id, ok |-> k.ok, val |-> k.val]

WorkEffect(k) ==
    /\ UNCHANGED <<live, in, input, aliased>>
    /\ BatchEffect(k) /\ SessionEffect /\ TaskEffect(k)
    /\ db' = db \/ (k.op = "commit" /\ k.arg \in DOMAIN batches /\ ~batches[k.arg].closing
                    /\ db' = db \cup batches[k.arg].rows)
    /\ out' = out \/ (k.pc = "reply" /\ out' = out \cup {Response(k)})

(* Nothing happens to the batches, or to the sessions. *)
LEMMA SameBatches == ASSUME Types, ServerOk, SessionEffect, batches' = batches, NEW k PROVE BatchEffect(k)
BY DEF Types, ServerTypes, ServerOk, BatchEffect, Grown, BatchOk, SessionEffect

(* Sessions that stay as they are only go on. *)
LEMMA SameSessions == ASSUME Types, sessions' = sessions PROVE SessionEffect
BY DEF Types, ServerTypes, SessionEffect

(* A task that goes on is the same request. *)
LEMMA GotoTask ==
    ASSUME NEW k \in Tasks, NEW pc \in TaskPcs
    PROVE  LET x == [k EXCEPT !.pc = pc] IN
           Kept(k, x) /\ x.pc = pc /\ x.cancelled = k.cancelled /\ x.todo = k.todo /\ x.cur = k.cur /\ x.ok = k.ok /\ x.val = k.val
BY DEF Tasks, Kept

(* A task that is answered is the same request, at its reply. *)
LEMMA AnsweredTask ==
    ASSUME NEW k \in Tasks, NEW ok \in BOOLEAN, NEW val \in Nat
    PROVE  LET x == Answered(k, ok, val) IN
           Kept(k, x) /\ x.pc = "reply" /\ x.cancelled = k.cancelled /\ x.todo = k.todo /\ x.cur = k.cur /\ x.ok = ok /\ x.val = val
BY DEF Tasks, Kept, Answered, TaskPcs

(* A request is answered that did nothing to a page. *)
LEMMA FailEffect ==
    ASSUME Types, NEW k \in tasks, NEW val, val = 0, Answer(k, FALSE, val), k.todo = {}, k.cur = 0, k.op # "cleanup"
    PROVE  TaskEffect(k)
<1>1. PICK x : x = Answered(k, FALSE, val)
  OBVIOUS
<1>2. \A ok \in BOOLEAN : LET y == Answered(k, ok, val) IN
        Kept(k, y) /\ y.pc = "reply" /\ y.todo = k.todo /\ y.cur = k.cur /\ y.ok = ok
  BY AnsweredTask DEF Types, ServerTypes
<1>3. Kept(k, x) /\ x.pc = "reply" /\ x.todo = {} /\ x.cur = 0 /\ ~x.ok
  <2>1. FALSE \in BOOLEAN
    OBVIOUS
  <2> QED BY <1>1, <1>2, <2>1, Zenon
<1>4. TaskOk(x)' /\ Reported(k, x)
  BY <1>3 DEF TaskOk, Reported, Kept
<1> QED BY <1>1, <1>3, <1>4 DEF Answer, Step, TaskEffect

(* A request is answered with success that neither opened a batch nor touched a *)
(* page.                                                                        *)
LEMMA DoneEffect ==
    ASSUME Types, NEW k \in tasks, NEW val \in Nat, Answer(k, TRUE, val), k.todo = {}, k.cur = 0,
           k.op \notin {"cleanup", "begin", "add", "commit"}
    PROVE  TaskEffect(k)
<1>1. PICK x : x = Answered(k, TRUE, val)
  OBVIOUS
<1>2. \A ok \in BOOLEAN : LET y == Answered(k, ok, val) IN
        Kept(k, y) /\ y.pc = "reply" /\ y.todo = k.todo /\ y.cur = k.cur
  BY AnsweredTask DEF Types, ServerTypes
<1>3. Kept(k, x) /\ x.pc = "reply" /\ x.todo = {} /\ x.cur = 0
  <2>1. TRUE \in BOOLEAN
    OBVIOUS
  <2> QED BY <1>1, <1>2, <2>1, Zenon
<1>4. TaskOk(x)' /\ Reported(k, x)
  BY <1>3 DEF TaskOk, Reported, Kept
<1> QED BY <1>1, <1>3, <1>4 DEF Answer, Step, TaskEffect

(* A request goes on. *)
LEMMA GotoEffect ==
    ASSUME Types, NEW k \in tasks, NEW pc \in TaskPcs \ {"reply"}, Goto(k, pc),
           \A x \in Tasks : /\ Kept(k, x) /\ x.pc = pc /\ x.todo = k.todo /\ x.cur = k.cur /\ x.val = k.val
                            => TaskOk(x)'
    PROVE  TaskEffect(k)
<1>1. PICK x : x = [k EXCEPT !.pc = pc]
  OBVIOUS
<1>2. Kept(k, x) /\ x.pc = pc /\ x.todo = k.todo /\ x.cur = k.cur /\ x.val = k.val /\ x \in Tasks
  BY <1>1, GotoTask DEF Types, ServerTypes, Kept
<1>3. TaskOk(x)' /\ Reported(k, x)
  BY <1>2 DEF Reported
<1> QED BY <1>1, <1>2, <1>3 DEF Goto, Step, TaskEffect

(* The request of a task that is not cleaning up. *)
LEMMA QueuedTask ==
    ASSUME ServerOk, NEW k \in tasks, k.pc # "discard"
    PROVE  k.todo = {} /\ k.cur = 0 /\ k.op # "cleanup" /\ TaskOk(k)
BY DEF ServerOk, TaskOk

(* The worker writes the response into the pipe. *)
LEMMA ReplyEffect == ASSUME Types, ServerOk, NEW k \in tasks, Reply(k) PROVE WorkEffect(k)
<1>1. SessionEffect
  BY SameSessions DEF Reply
<1>2. BatchEffect(k)
  BY <1>1, SameBatches DEF Reply
<1>3. TaskEffect(k)
  BY DEF Reply, TaskEffect
<1> QED BY <1>1, <1>2, <1>3 DEF Reply, WorkEffect, Response

(* A pool changes. *)
LEMMA PoolTypes ==
    ASSUME NEW p \in Sessions
    PROVE  /\ Released(p) \in Sessions /\ Discarded(p) \in Sessions /\ ClosedPool(p) \in Sessions /\ Taken(p) \in Sessions
           /\ [p EXCEPT !.closed = TRUE] \in Sessions
           /\ [p EXCEPT !.idle = p.idle - 1, !.open = p.open - 1] \in Sessions
<1>1. Released(p) \in Sessions
  BY DEF Sessions, Released
<1>2. Discarded(p) \in Sessions
  BY DEF Sessions, Discarded
<1>0. p.open \in Int /\ p.idle \in Int
  BY DEF Sessions
<1>7. \A i, j \in Int : [p EXCEPT !.idle = i, !.open = j] \in Sessions
  BY DEF Sessions
<1>5. ClosedPool(p) \in Sessions
  <2>1. PICK j \in Int : j = p.open - p.idle
    BY <1>0
  <2>2. PICK i \in Int : i = 0
    OBVIOUS
  <2>3. \A b \in BOOLEAN : [p EXCEPT !.shut = b, !.open = j, !.idle = i] \in Sessions
    BY DEF Sessions
  <2>4. TRUE \in BOOLEAN
    OBVIOUS
  <2> QED BY <2>1, <2>2, <2>3, <2>4, Zenon DEF ClosedPool
<1>3. Taken(p) \in Sessions
  BY DEF Sessions, Taken
<1>4. [p EXCEPT !.closed = TRUE] \in Sessions
  BY DEF Sessions
<1>6. [p EXCEPT !.idle = p.idle - 1, !.open = p.open - 1] \in Sessions
  <2>1. PICK i \in Int : i = p.idle - 1
    BY <1>0
  <2>2. PICK j \in Int : j = p.open - 1
    BY <1>0
  <2> QED BY <2>1, <2>2, <1>7, Zenon
<1> QED BY <1>1, <1>2, <1>3, <1>4, <1>5, <1>6

(* A session is replaced by one with another pool. *)
LEMMA ReplaceSession ==
    ASSUME Types, NEW s, NEW p, s \in DOMAIN sessions => p \in Sessions, sessions' = [sessions EXCEPT ![s] = p]
    PROVE  SessionEffect
BY SeqReplace DEF Types, ServerTypes, SessionEffect

(* Every session is one. *)
LEMMA SessionTypes == ASSUME Types PROVE \A s \in DOMAIN sessions : sessions[s] \in Sessions
BY DEF Types, ServerTypes

(* A request takes a connection of its pool, or is refused. *)
LEMMA AcquireEffect == ASSUME Types, ServerOk, NEW k \in tasks, Acquire(k) PROVE WorkEffect(k)
<1>1. k.todo = {} /\ k.cur = 0 /\ k.op # "cleanup" /\ TaskOk(k) /\ k.pc = "acquire"
  BY QueuedTask DEF Acquire
<1>2. CASE Answer(k, FALSE, 0) /\ sessions' = sessions
  <2>1. SessionEffect /\ BatchEffect(k)
    BY <1>2, SameSessions, SameBatches DEF Acquire
  <2>2. TaskEffect(k)
    BY <1>1, <1>2, FailEffect, Zenon
  <2> QED BY <2>1, <2>2 DEF Acquire, WorkEffect
<1>3. CASE Pooled(k, IF k.op = "begin" THEN "prepare" ELSE "using")
  <2>1. SessionEffect
    <3>1. sessions' = [sessions EXCEPT ![k.arg] = Taken(sessions[k.arg])]
      BY <1>3 DEF Pooled
    <3> QED BY <3>1, ReplaceSession, SessionTypes, PoolTypes
  <2>2. BatchEffect(k)
    BY <2>1, SameBatches DEF Acquire
  <2>3. PICK pc \in {"prepare", "using"} : pc = IF k.op = "begin" THEN "prepare" ELSE "using"
    OBVIOUS
  <2>4. pc \in TaskPcs \ {"reply"} /\ Goto(k, pc)
    BY <1>3, <2>3 DEF Pooled, TaskPcs
  <2>5. \A x \in Tasks : Kept(k, x) /\ x.pc = pc /\ x.todo = k.todo /\ x.cur = k.cur /\ x.val = k.val => TaskOk(x)'
    BY <1>1, <2>1, <2>3 DEF Kept, TaskOk, SessionEffect
  <2> QED BY <2>1, <2>2, <2>4, <2>5, GotoEffect DEF Acquire, WorkEffect
<1> QED BY <1>2, <1>3 DEF Acquire

(* It throws an idle connection away. *)
LEMMA DropIdleEffect == ASSUME Types, ServerOk, NEW k \in tasks, DropIdle(k) PROVE WorkEffect(k)
<1>1. k.arg \in DOMAIN sessions
  BY QueuedTask DEF DropIdle, TaskOk
<1>2. sessions' = [sessions EXCEPT ![k.arg] = [sessions[k.arg] EXCEPT !.idle = sessions[k.arg].idle - 1, !.open = sessions[k.arg].open - 1]]
  BY <1>1, SessionTypes DEF DropIdle, Types, ServerTypes, Sessions
<1>3. SessionEffect
  BY <1>1, <1>2, ReplaceSession, SessionTypes, PoolTypes
<1> QED BY <1>3, SameBatches DEF DropIdle, WorkEffect, TaskEffect

(* It is the greeting, which does nothing. *)
LEMMA HelloEffect == ASSUME Types, ServerOk, NEW k \in tasks, Hello(k) PROVE WorkEffect(k)
<1>1. k.todo = {} /\ k.cur = 0 /\ k.op # "cleanup"
  BY QueuedTask DEF Hello
<1>2. TaskEffect(k)
  BY <1>1, DoneEffect, 0 \in Nat, Zenon DEF Hello
<1> QED BY <1>2, SameSessions, SameBatches DEF Hello, WorkEffect

(* It opens a session. *)
LEMMA OpenSessionEffect == ASSUME Types, ServerOk, NEW k \in tasks, OpenSession(k) PROVE WorkEffect(k)
<1>1. k.todo = {} /\ k.cur = 0 /\ k.op = "open"
  BY QueuedTask DEF OpenSession
<1>2. PICK n \in Nat : n = Len(sessions) + 1
  BY DEF Types, ServerTypes
<1>3. TaskEffect(k)
  <2>1. Answer(k, TRUE, n) \/ Answer(k, FALSE, 0)
    BY <1>2 DEF OpenSession
  <2> QED BY <1>1, <2>1, DoneEffect, FailEffect, Zenon
<1>4. PICK p \in Sessions : sessions' = Append(sessions, p)
  <2>1. PICK i \in Int : i = IF MaxIdle > 0 THEN 1 ELSE 0
    OBVIOUS
  <2>2. \A c, d \in BOOLEAN, j \in Int : [closed |-> c, shut |-> d, open |-> j, idle |-> j] \in Sessions
    BY DEF Sessions
  <2>3. TRUE \in BOOLEAN /\ FALSE \in BOOLEAN /\ 0 \in Int
    OBVIOUS
  <2> QED BY <2>1, <2>2, <2>3, Zenon DEF OpenSession
<1>5. SessionEffect
  BY <1>4, SeqAppend DEF Types, ServerTypes, SessionEffect
<1> QED BY <1>3, <1>5, SameBatches DEF OpenSession, WorkEffect

(* It looks its session up. *)
LEMMA FindSessionEffect == ASSUME Types, ServerOk, NEW k \in tasks, FindSession(k) PROVE WorkEffect(k)
<1>1. k.todo = {} /\ k.cur = 0 /\ k.op \in {"exec", "begin"}
  BY QueuedTask DEF FindSession
<1>2. TaskEffect(k)
  <2>1. CASE Session(k.arg) = {}
    BY <1>1, <2>1, FailEffect, Zenon DEF FindSession
  <2>2. CASE Session(k.arg) # {}
    <3>1. k.arg \in DOMAIN sessions
      BY <2>2 DEF Session
    <3>2. \A x \in Tasks : Kept(k, x) /\ x.pc = "acquire" /\ x.todo = k.todo /\ x.cur = k.cur /\ x.val = k.val => TaskOk(x)'
      BY <1>1, <3>1 DEF FindSession, Kept, TaskOk
    <3> QED BY <2>2, <3>2, GotoEffect DEF FindSession, TaskPcs
  <2> QED BY <2>1, <2>2
<1> QED BY <1>2, SameSessions, SameBatches DEF FindSession, WorkEffect

(* It gives the connection back that it executed on. *)
LEMMA ExecuteEffect == ASSUME Types, ServerOk, NEW k \in tasks, Execute(k) PROVE WorkEffect(k)
<1>1. k.todo = {} /\ k.cur = 0 /\ k.op = "exec"
  BY QueuedTask DEF Execute
<1>2. TaskEffect(k)
  <2>1. Answer(k, TRUE, 0) \/ Answer(k, FALSE, 0)
    BY DEF Execute
  <2> QED BY <1>1, <2>1, 0 \in Nat, DoneEffect, FailEffect, Zenon
<1>3. SessionEffect
  <2>1. sessions' = [sessions EXCEPT ![k.arg] = Released(sessions[k.arg])]
    BY DEF Execute
  <2> QED BY <2>1, ReplaceSession, SessionTypes, PoolTypes
<1> QED BY <1>2, <1>3, SameBatches DEF Execute, WorkEffect

(* It closes its session, *)
LEMMA CloseSessionEffect == ASSUME Types, ServerOk, NEW k \in tasks, CloseSession(k) PROVE WorkEffect(k)
<1>1. k.todo = {} /\ k.cur = 0 /\ k.op = "close"
  BY QueuedTask DEF CloseSession
<1>2. SessionEffect
  <2>1. CASE Session(k.arg) = {}
    BY <2>1, SameSessions DEF CloseSession
  <2>2. CASE Session(k.arg) # {}
    <3>1. sessions' = [sessions EXCEPT ![k.arg] = [sessions[k.arg] EXCEPT !.closed = TRUE]]
      BY <2>2 DEF CloseSession
    <3> QED BY <3>1, ReplaceSession, SessionTypes, PoolTypes
  <2> QED BY <2>1, <2>2
<1>3. TaskEffect(k)
  <2>1. CASE Session(k.arg) = {}
    BY <1>1, <2>1, 0 \in Nat, DoneEffect, Zenon DEF CloseSession
  <2>2. CASE Session(k.arg) # {}
    <3>1. k.arg \in DOMAIN sessions'
      BY <1>2, <2>2 DEF Session, SessionEffect
    <3>2. \A x \in Tasks : Kept(k, x) /\ x.pc = "scan" /\ x.todo = k.todo /\ x.cur = k.cur /\ x.val = k.val => TaskOk(x)'
      BY <1>1, <3>1 DEF Kept, TaskOk
    <3> QED BY <2>2, <3>2, GotoEffect DEF CloseSession, Goto, TaskPcs
  <2> QED BY <2>1, <2>2
<1> QED BY <1>2, <1>3, SameBatches DEF CloseSession, WorkEffect

(* A task is to discard batches. *)
LEMMA ScanTask ==
    ASSUME NEW k \in Tasks, NEW B \in SUBSET Int
    PROVE  LET x == [k EXCEPT !.pc = "discard", !.todo = B] IN
           Kept(k, x) /\ x.pc = "discard" /\ x.cancelled = k.cancelled /\ x.todo = B /\ x.cur = k.cur /\ x.ok = k.ok /\ x.val = k.val
BY DEF Tasks, Kept, TaskPcs

(* Every batch is one, and its number is its id. *)
LEMMA BatchDomain == ASSUME Types PROVE DOMAIN batches \subseteq Int /\ \A b \in DOMAIN batches : batches[b] \in Batches
BY DEF Types, ServerTypes

(* collects the batches of the session, *)
LEMMA CloseSessionScanEffect == ASSUME Types, ServerOk, NEW k \in tasks, CloseSessionScan(k) PROVE WorkEffect(k)
<1>1. k.todo = {} /\ k.cur = 0 /\ k.op = "close" /\ k.arg \in DOMAIN sessions
  BY QueuedTask DEF CloseSessionScan, TaskOk
<1>2. PICK B \in SUBSET DOMAIN batches : Step(k, [k EXCEPT !.pc = "discard", !.todo = B])
  BY DEF CloseSessionScan
<1>3. TaskEffect(k)
  <2>1. PICK x : x = [k EXCEPT !.pc = "discard", !.todo = B]
    OBVIOUS
  <2>2. B \in SUBSET Int
    BY BatchDomain
  <2>3. Kept(k, x) /\ x.pc = "discard" /\ x.todo = B /\ x.cur = 0
    BY ZenonT(60), <1>1, <2>1, <2>2, ScanTask DEF Types, ServerTypes
  <2>4. TaskOk(x)' /\ Reported(k, x)
    BY <1>1, <2>3 DEF CloseSessionScan, TaskOk, Reported, Kept
  <2> QED BY <1>2, <2>1, <2>3, <2>4 DEF Step, TaskEffect
<1> QED BY <1>3, SameSessions, SameBatches DEF CloseSessionScan, WorkEffect

(* and closes the pool when they are gone. *)
LEMMA CloseSessionPoolEffect == ASSUME Types, ServerOk, NEW k \in tasks, CloseSessionPool(k) PROVE WorkEffect(k)
<1>1. TaskEffect(k)
  BY 0 \in Nat, DoneEffect, Zenon DEF CloseSessionPool
<1>2. SessionEffect
  <2>1. sessions' = [sessions EXCEPT ![k.arg] = ClosedPool(sessions[k.arg])]
    BY DEF CloseSessionPool
  <2> QED BY <2>1, ReplaceSession, SessionTypes, PoolTypes
<1> QED BY <1>1, <1>2, SameBatches DEF CloseSessionPool, WorkEffect

(* A beginBatch fails and discards the connection. *)
LEMMA BeginFailsEffect == ASSUME Types, ServerOk, NEW k \in tasks, BeginFails(k) PROVE WorkEffect(k)
<1>1. k.todo = {} /\ k.cur = 0 /\ k.op = "begin"
  BY QueuedTask DEF BeginFails
<1>2. TaskEffect(k)
  BY <1>1, FailEffect, Zenon DEF BeginFails
<1>3. SessionEffect
  <2>1. sessions' = [sessions EXCEPT ![k.arg] = Discarded(sessions[k.arg])]
    BY DEF BeginFails
  <2> QED BY <2>1, ReplaceSession, SessionTypes, PoolTypes
<1> QED BY <1>2, <1>3, SameBatches DEF BeginFails, WorkEffect

(* A request has discarded all of its batches and is answered. *)
LEMMA DiscardEndEffect == ASSUME Types, ServerOk, NEW k \in tasks, DiscardEnd(k) PROVE WorkEffect(k)
<1>1. k.op \in {"begin", "abort", "cleanup"}
  BY DEF DiscardEnd, ServerOk, TaskOk
<1>2. TaskEffect(k)
  <2>1. CASE k.op = "cleanup"
    BY <2>1 DEF DiscardEnd, TaskEffect
  <2>2. CASE k.op = "abort"
    <3>1. Answer(k, TRUE, 0)
      BY <2>2 DEF DiscardEnd, Answer, Answered
    <3> QED BY <2>2, <3>1, 0 \in Nat, DoneEffect, Zenon DEF DiscardEnd
  <2>3. CASE k.op = "begin"
    <3>1. Answer(k, FALSE, 0)
      BY <2>3 DEF DiscardEnd, Answer, Answered
    <3> QED BY <2>3, <3>1, FailEffect, Zenon DEF DiscardEnd
  <2> QED BY <1>1, <2>1, <2>2, <2>3
<1> QED BY <1>2, SameSessions, SameBatches DEF DiscardEnd, WorkEffect

(* A batch changes. *)
Like(k, b, v) ==
    /\ v \in Batches /\ v.opener = batches[b].opener /\ v.session = batches[b].session
    /\ batches[b].closing => v.closing
    /\ batches[b].disposed => v.disposed
    /\ v.mapped => batches[b].mapped
    /\ v.disposed => v.closing /\ ~v.mapped /\ (batches[b].disposed \/ Disposes(k, b))
    /\ \/ v.rows = batches[b].rows
       \/ v.closing /\ v.rows = {}
       \/ k.op = "add" /\ b = k.arg /\ v.rows = batches[b].rows \cup {k.row}

(* A batch is replaced by one that goes on from it. *)
LEMMA ReplaceBatch ==
    ASSUME Types, ServerOk, SessionEffect, NEW k, NEW b \in DOMAIN batches, NEW v,
           Like(k, b, v), batches' = [batches EXCEPT ![b] = v]
    PROVE  /\ BatchEffect(k) /\ DOMAIN batches' = DOMAIN batches
           /\ \A c \in DOMAIN batches : batches'[c] = IF c = b THEN v ELSE batches[c]
<1>1. /\ batches' \in Seq(Batches) /\ DOMAIN batches' = DOMAIN batches
      /\ \A c \in DOMAIN batches : batches'[c] = IF c = b THEN v ELSE batches[c]
  BY SeqReplace DEF Types, ServerTypes, Like
<1>2. \A c \in DOMAIN batches : Grown(k, c)
  BY <1>1 DEF Grown, Like
<1>3. \A c \in DOMAIN batches' : BatchOk(c)'
  BY <1>1 DEF BatchOk, ServerOk, SessionEffect, Like
<1> QED BY <1>1, <1>2, <1>3 DEF BatchEffect

(* What becomes of a batch, as far as pages and connections are concerned. *)
Twin(B, v) == v \in Batches /\ v.opener = B.opener /\ v.session = B.session

(* It is marked, *)
LEMMA Marking ==
    ASSUME NEW B \in Batches
    PROVE  LET v == [B EXCEPT !.closing = TRUE] IN Twin(B, v) /\ v.closing /\ v.mapped = B.mapped /\ v.disposed = B.disposed /\ v.rows = B.rows
BY DEF Batches, Twin

(* or only if c; *)
LEMMA MarkingIf ==
    ASSUME NEW B \in Batches, NEW c \in BOOLEAN
    PROVE  LET v == [B EXCEPT !.closing = @ \/ c] IN Twin(B, v) /\ v.closing = (B.closing \/ c) /\ v.mapped = B.mapped /\ v.disposed = B.disposed /\ v.rows = B.rows
BY DEF Batches, Twin

(* a LOB is spooled or a request fails, *)
LEMMA Spooling ==
    ASSUME NEW B \in Batches, NEW l \in Int
    PROVE  LET v == [B EXCEPT !.lobs = l] IN Twin(B, v) /\ v.closing = B.closing /\ v.mapped = B.mapped /\ v.disposed = B.disposed /\ v.rows = B.rows
BY DEF Batches, Twin

(* both (with the values as parameters: the provers do not find the typing of *)
(* constants)                                                                 *)
LEMMA SpoolFails0 ==
    ASSUME NEW B \in Batches, NEW l \in Int, NEW f \in BOOLEAN
    PROVE  LET v == [B EXCEPT !.lobs = l, !.failed = f] IN Twin(B, v) /\ v.closing = B.closing /\ v.mapped = B.mapped /\ v.disposed = B.disposed /\ v.rows = B.rows
BY DEF Batches, Twin

(* both at once, *)
LEMMA SpoolFails ==
    ASSUME NEW B \in Batches
    PROVE  LET v == [B EXCEPT !.lobs = 1, !.failed = TRUE] IN Twin(B, v) /\ v.closing = B.closing /\ v.mapped = B.mapped /\ v.disposed = B.disposed /\ v.rows = B.rows
<1>1. 1 \in Int /\ TRUE \in BOOLEAN
  OBVIOUS
<1> QED BY <1>1, SpoolFails0, Zenon

(* or the request fails alone, *)
LEMMA Failing ==
    ASSUME NEW B \in Batches
    PROVE  LET v == [B EXCEPT !.failed = TRUE] IN Twin(B, v) /\ v.closing = B.closing /\ v.mapped = B.mapped /\ v.disposed = B.disposed /\ v.rows = B.rows
BY DEF Batches, Twin

(* or the batch refuses the row and may be closed for it; *)
LEMMA Refusing ==
    ASSUME NEW B \in Batches, NEW c \in BOOLEAN
    PROVE  LET v == [B EXCEPT !.failed = TRUE, !.closing = c] IN Twin(B, v) /\ v.closing = c /\ v.mapped = B.mapped /\ v.disposed = B.disposed /\ v.rows = B.rows
BY DEF Batches, Twin

(* its monitor is taken and left, rows are added, *)
LEMMA Locking ==
    ASSUME NEW B \in Batches, NEW i \in Ids \cup {Free}
    PROVE  LET v == [B EXCEPT !.monitor = i] IN Twin(B, v) /\ v.closing = B.closing /\ v.mapped = B.mapped /\ v.disposed = B.disposed /\ v.rows = B.rows
BY DEF Batches, Twin

(* left, with its LOBs (the values as parameters) *)
LEMMA Leaving0 ==
    ASSUME NEW B \in Batches, NEW l \in Int, NEW i \in Ids \cup {Free}
    PROVE  LET v == [B EXCEPT !.lobs = l, !.monitor = i] IN Twin(B, v) /\ v.closing = B.closing /\ v.mapped = B.mapped /\ v.disposed = B.disposed /\ v.rows = B.rows
BY DEF Batches, Twin

(* left after its LOBs are consumed, *)
LEMMA Leaving ==
    ASSUME NEW B \in Batches
    PROVE  LET v == [B EXCEPT !.lobs = 0, !.monitor = Free] IN Twin(B, v) /\ v.closing = B.closing /\ v.mapped = B.mapped /\ v.disposed = B.disposed /\ v.rows = B.rows
<1>1. 0 \in Int /\ Free \in Ids \cup {Free}
  OBVIOUS
<1> QED BY <1>1, Leaving0, Zenon

(* rows are added; *)
LEMMA Filling ==
    ASSUME NEW B \in Batches, NEW R \in SUBSET Rows
    PROVE  LET v == [B EXCEPT !.rows = R] IN Twin(B, v) /\ v.closing = B.closing /\ v.mapped = B.mapped /\ v.disposed = B.disposed /\ v.rows = R
BY DEF Batches, Twin

(* it is committed, *)
LEMMA Committing ==
    ASSUME NEW B \in Batches
    PROVE  LET v == [B EXCEPT !.closing = TRUE, !.mapped = FALSE, !.disposed = TRUE] IN Twin(B, v) /\ v.closing /\ ~v.mapped /\ v.disposed /\ v.rows = B.rows
BY DEF Batches, Twin

(* (the values as parameters) *)
LEMMA RollingBack0 ==
    ASSUME NEW B \in Batches, NEW l \in Int, NEW R \in SUBSET Rows
    PROVE  LET v == [B EXCEPT !.closing = TRUE, !.mapped = FALSE, !.disposed = TRUE, !.lobs = l, !.rows = R] IN Twin(B, v) /\ v.closing /\ ~v.mapped /\ v.disposed /\ v.rows = R
BY DEF Batches, Twin

(* rolled back, unmapped or given up. *)
LEMMA RollingBack ==
    ASSUME NEW B \in Batches
    PROVE  LET v == [B EXCEPT !.closing = TRUE, !.mapped = FALSE, !.disposed = TRUE, !.lobs = 0, !.rows = {}] IN Twin(B, v) /\ v.closing /\ ~v.mapped /\ v.disposed /\ v.rows = {}
<1>1. 0 \in Int /\ {} \in SUBSET Rows
  OBVIOUS
<1> QED BY <1>1, RollingBack0, Zenon

(* It is taken out of the map, *)
LEMMA Unmapping ==
    ASSUME NEW B \in Batches
    PROVE  LET v == [B EXCEPT !.mapped = FALSE] IN Twin(B, v) /\ v.closing = B.closing /\ ~v.mapped /\ v.disposed = B.disposed /\ v.rows = B.rows
BY DEF Batches, Twin

(* taken out and marked, *)
LEMMA TakingOut ==
    ASSUME NEW B \in Batches
    PROVE  LET v == [B EXCEPT !.closing = TRUE, !.mapped = FALSE] IN Twin(B, v) /\ v.closing /\ ~v.mapped /\ v.disposed = B.disposed /\ v.rows = B.rows
BY DEF Batches, Twin

(* (the values as parameters) *)
LEMMA GivingUp0 ==
    ASSUME NEW B \in Batches, NEW l \in Int, NEW R \in SUBSET Rows
    PROVE  LET v == [B EXCEPT !.disposed = TRUE, !.lobs = l, !.rows = R] IN Twin(B, v) /\ v.closing = B.closing /\ v.mapped = B.mapped /\ v.disposed /\ v.rows = R
BY DEF Batches, Twin

(* or disposed of with its rows. *)
LEMMA GivingUp ==
    ASSUME NEW B \in Batches
    PROVE  LET v == [B EXCEPT !.disposed = TRUE, !.lobs = 0, !.rows = {}] IN Twin(B, v) /\ v.closing = B.closing /\ v.mapped = B.mapped /\ v.disposed /\ v.rows = {}
<1>1. 0 \in Int /\ {} \in SUBSET Rows
  OBVIOUS
<1> QED BY <1>1, GivingUp0, Zenon

(* beginBatch registers the batch. *)
LEMMA BeginRegisterEffect == ASSUME Types, ServerOk, NEW k \in tasks, BeginRegister(k) PROVE WorkEffect(k)
<1>1. k.todo = {} /\ k.cur = 0 /\ k.op = "begin" /\ k.pc = "prepare" /\ k.arg \in DOMAIN sessions /\ k \in Tasks
  BY QueuedTask DEF BeginRegister, TaskOk, Types, ServerTypes
<1>2. PICK v : v = [session |-> k.arg, opener |-> k.id, mapped |-> TRUE, closing |-> FALSE,
                    failed |-> FALSE, disposed |-> FALSE, lobs |-> 0, rows |-> {}, monitor |-> Free]
  OBVIOUS
<1>3. v \in Batches /\ v.opener = k.id /\ v.session = k.arg /\ v.rows = {} /\ ~v.disposed
  <2>1. k.arg \in Int /\ k.id \in Ids
    BY <1>1 DEF Tasks
  <2> QED BY <1>2, <2>1 DEF Batches
<1>4. PICK n : n = Len(batches) + 1
  OBVIOUS
<1>5. /\ batches' \in Seq(Batches) /\ DOMAIN batches' = DOMAIN batches \cup {n} /\ n \notin DOMAIN batches
      /\ \A j \in DOMAIN batches : batches'[j] = batches[j]
      /\ batches'[n] = v /\ n \in Nat
  BY <1>2, <1>3, <1>4, SeqAppend DEF BeginRegister, Types, ServerTypes
<1>6. \A b \in DOMAIN batches' : BatchOk(b)'
  BY <1>1, <1>3, <1>5 DEF BatchOk, ServerOk, BeginRegister
<1>7. BatchEffect(k)
  BY <1>1, <1>3, <1>5, <1>6 DEF BatchEffect, Grown
<1>8. PICK x : x = [k EXCEPT !.pc = "check", !.val = n]
  OBVIOUS
<1>9. Kept(k, x) /\ x.pc = "check" /\ x.todo = {} /\ x.cur = 0 /\ x.val = n
  BY <1>1, <1>5, <1>8 DEF Tasks, Kept, TaskPcs
<1>10. TaskOk(x)' /\ Reported(k, x)
  BY <1>1, <1>3, <1>5, <1>9 DEF TaskOk, Reported, Kept, BeginRegister
<1>11. TaskEffect(k)
  BY <1>4, <1>8, <1>9, <1>10 DEF BeginRegister, Step, TaskEffect
<1> QED BY <1>7, <1>11, SameSessions DEF BeginRegister, WorkEffect

(* A request that goes on to discard what it has to. *)
LEMMA ScanEffect ==
    ASSUME Types, ServerOk, NEW k \in tasks, BatchEffect(k), NEW B \in SUBSET DOMAIN batches,
           k.cur = 0, k.op \in {"begin", "abort"}, k.op = "begin" => k.pc = "check",
           Step(k, [k EXCEPT !.pc = "discard", !.todo = B])
    PROVE  TaskEffect(k)
<1>1. PICK x : x = [k EXCEPT !.pc = "discard", !.todo = B]
  OBVIOUS
<1>2. B \in SUBSET Int
  BY BatchDomain
<1>3. Kept(k, x) /\ x.pc = "discard" /\ x.todo = B /\ x.cur = 0 /\ x.val = k.val
  BY ZenonT(60), <1>1, <1>2, ScanTask DEF Types, ServerTypes
<1>4. k.op = "begin" => k.val \in DOMAIN batches /\ batches[k.val].opener = k.id
  BY DEF ServerOk, TaskOk
<1>5. TaskOk(x)' /\ Reported(k, x)
  BY <1>3, <1>4 DEF TaskOk, Reported, Kept, BatchEffect, Grown
<1> QED BY <1>1, <1>3, <1>5 DEF Step, TaskEffect

(* beginBatch checks what it registered. *)
LEMMA BeginCheckEffect == ASSUME Types, ServerOk, NEW k \in tasks, BeginCheck(k) PROVE WorkEffect(k)
<1>1. /\ k.todo = {} /\ k.cur = 0 /\ k.op = "begin" /\ k.pc = "check" /\ k \in Tasks
      /\ k.val \in DOMAIN batches /\ batches[k.val].opener = k.id
  BY QueuedTask DEF BeginCheck, TaskOk, Types, ServerTypes
<1>2. SessionEffect
  BY SameSessions DEF BeginCheck
<1>3. CASE k.cancelled \/ sessions[k.arg].closed
  <2>1. PICK v : v = [batches[k.val] EXCEPT !.closing = TRUE]
    OBVIOUS
  <2>2. batches[k.val] \in Batches /\ (batches[k.val].disposed => batches[k.val].closing /\ ~batches[k.val].mapped)
    BY <1>1, BatchDomain DEF ServerOk, BatchOk
  <2>3. Like(k, k.val, v)
    BY <2>1, <2>2, Marking DEF Like, Twin
  <2>4. batches' = [batches EXCEPT ![k.val] = v]
    BY <1>3, <2>1 DEF BeginCheck
  <2>5. BatchEffect(k)
    BY <1>1, <1>2, <2>3, <2>4, ReplaceBatch
  <2>6. PICK B \in SUBSET DOMAIN batches : B = {k.val}
    BY <1>1
  <2>7. TaskEffect(k)
    BY <1>1, <1>3, <2>5, <2>6, ScanEffect DEF BeginCheck
  <2> QED BY <1>2, <2>5, <2>7 DEF BeginCheck, WorkEffect
<1>4. CASE ~(k.cancelled \/ sessions[k.arg].closed)
  <2>1. Answer(k, TRUE, k.val) /\ batches' = batches
    BY <1>4 DEF BeginCheck
  <2>2. PICK x : x = Answered(k, TRUE, k.val)
    OBVIOUS
  <2>3. k.val \in Nat
    BY <1>1 DEF Tasks
  <2>4. \A ok \in BOOLEAN : LET y == Answered(k, ok, k.val) IN
          Kept(k, y) /\ y.pc = "reply" /\ y.todo = k.todo /\ y.cur = k.cur /\ y.val = k.val
    BY <1>1, <2>3, AnsweredTask
  <2>5. Kept(k, x) /\ x.pc = "reply" /\ x.todo = {} /\ x.cur = 0 /\ x.val = k.val
    BY <1>1, <2>2, <2>4, TRUE \in BOOLEAN, Zenon
  <2>6. TaskOk(x)' /\ Reported(k, x)
    BY <1>1, <2>1, <2>5 DEF TaskOk, Reported, Kept
  <2>7. TaskEffect(k)
    BY <2>1, <2>2, <2>5, <2>6 DEF Answer, Step, TaskEffect
  <2> QED BY <1>2, <2>1, <2>7, SameBatches DEF BeginCheck, WorkEffect
<1> QED BY <1>3, <1>4

(* requestBatch. *)
LEMMA RequestBatchEffect == ASSUME Types, ServerOk, NEW k \in tasks, RequestBatch(k) PROVE WorkEffect(k)
<1>1. k.todo = {} /\ k.cur = 0 /\ k.op \in {"lob", "add", "commit"} /\ k \in Tasks
  BY QueuedTask DEF RequestBatch, Types, ServerTypes
<1>2. SessionEffect
  BY SameSessions DEF RequestBatch
<1>3. CASE k.arg \in DOMAIN batches /\ batches[k.arg].mapped
  <2>1. PICK v : v = [batches[k.arg] EXCEPT !.closing = @ \/ k.cancelled]
    OBVIOUS
  <2>2. /\ batches[k.arg] \in Batches /\ k.cancelled \in BOOLEAN
        /\ batches[k.arg].disposed => batches[k.arg].closing /\ ~batches[k.arg].mapped
    BY <1>1, <1>3, BatchDomain DEF ServerOk, BatchOk, Tasks
  <2>3. Like(k, k.arg, v)
    <3>1. /\ Twin(batches[k.arg], v) /\ v.closing = (batches[k.arg].closing \/ k.cancelled)
          /\ v.mapped = batches[k.arg].mapped /\ v.disposed = batches[k.arg].disposed /\ v.rows = batches[k.arg].rows
      BY <2>1, <2>2, MarkingIf
    <3> QED BY <2>2, <3>1 DEF Like, Twin
  <2>4. batches' = [batches EXCEPT ![k.arg] = v]
    BY <1>3, <2>1 DEF RequestBatch
  <2>5. BatchEffect(k) /\ DOMAIN batches' = DOMAIN batches
    BY <1>3, <1>2, <2>3, <2>4, ReplaceBatch
  <2>6. \A x \in Tasks : Kept(k, x) /\ x.pc = "monitor" /\ x.todo = k.todo /\ x.cur = k.cur /\ x.val = k.val => TaskOk(x)'
    BY <1>1, <1>3, <2>5 DEF Kept, TaskOk
  <2>7. TaskEffect(k)
    BY <1>3, <2>6, GotoEffect DEF RequestBatch, TaskPcs
  <2> QED BY <1>2, <2>5, <2>7 DEF RequestBatch, WorkEffect
<1>4. CASE ~(k.arg \in DOMAIN batches /\ batches[k.arg].mapped)
  <2>1. Answer(k, FALSE, 0) /\ batches' = batches
    BY <1>4 DEF RequestBatch
  <2>2. TaskEffect(k)
    BY <1>1, <2>1, FailEffect, Zenon
  <2> QED BY <1>2, <2>1, <2>2, SameBatches DEF RequestBatch, WorkEffect
<1> QED BY <1>3, <1>4

(* The request at a batch: what it finds there. *)
LEMMA AtBatch ==
    ASSUME Types, ServerOk, NEW k \in tasks, k.pc \in {"monitor", "execute"}
    PROVE  /\ k.todo = {} /\ k.cur = 0 /\ k \in Tasks /\ k.op # "cleanup" /\ k.row \in Rows
           /\ k.arg \in DOMAIN batches /\ batches[k.arg] \in Batches
           /\ batches[k.arg].disposed => batches[k.arg].closing /\ ~batches[k.arg].mapped
           /\ batches[k.arg].session \in DOMAIN sessions
<1>1. k.todo = {} /\ k.cur = 0 /\ k \in Tasks /\ k.op # "cleanup" /\ k.arg \in DOMAIN batches
  BY QueuedTask DEF TaskOk, Types, ServerTypes
<1> QED BY <1>1, BatchDomain DEF ServerOk, BatchOk, Tasks

(* ensureBatchOpen refuses. *)
LEMMA RefusedBatch ==
    ASSUME Types, ServerOk, NEW k \in tasks, NEW B \in Batches, B.session \in DOMAIN sessions
    PROVE  LET v == Refused(k, B) IN
           Twin(B, v) /\ (B.closing => v.closing) /\ v.mapped = B.mapped /\ v.disposed = B.disposed /\ v.rows = B.rows
<1>1. PICK c \in BOOLEAN : c = (B.closing \/ k.cancelled \/ sessions[B.session].closed)
  OBVIOUS
<1>2. B.closing => c
  BY <1>1
<1>3. Refused(k, B) = [B EXCEPT !.failed = TRUE, !.closing = c]
  BY <1>1 DEF Refused
<1>4. \A d \in BOOLEAN : LET v == [B EXCEPT !.failed = TRUE, !.closing = d] IN
        Twin(B, v) /\ v.closing = d /\ v.mapped = B.mapped /\ v.disposed = B.disposed /\ v.rows = B.rows
  BY Refusing
<1> QED BY <1>2, <1>3, <1>4

(* A LOB is uploaded to a batch. *)
LEMMA UploadLOBEffect == ASSUME Types, ServerOk, NEW k \in tasks, UploadLOB(k) PROVE WorkEffect(k)
<1>1. k.op = "lob" /\ k.pc = "monitor"
  BY DEF UploadLOB, AtMonitor
<1>2. /\ k.todo = {} /\ k.cur = 0 /\ k.op # "cleanup" /\ k.arg \in DOMAIN batches /\ batches[k.arg] \in Batches
      /\ batches[k.arg].disposed => batches[k.arg].closing /\ ~batches[k.arg].mapped
      /\ batches[k.arg].session \in DOMAIN sessions
  BY <1>1, AtBatch
<1>3. SessionEffect
  BY SameSessions DEF UploadLOB
<1>4. PICK v : /\ batches' = [batches EXCEPT ![k.arg] = v]
               /\ Twin(batches[k.arg], v) /\ (batches[k.arg].closing => v.closing) /\ v.mapped = batches[k.arg].mapped
               /\ v.disposed = batches[k.arg].disposed /\ v.rows = batches[k.arg].rows
  <2>1. CASE batches' = [batches EXCEPT ![k.arg].lobs = 1]
    <3>1. PICK v : v = [batches[k.arg] EXCEPT !.lobs = 1]
      OBVIOUS
    <3>2. batches' = [batches EXCEPT ![k.arg] = v]
      BY <2>1, <3>1
    <3>3. /\ Twin(batches[k.arg], v) /\ (batches[k.arg].closing => v.closing) /\ v.mapped = batches[k.arg].mapped
          /\ v.disposed = batches[k.arg].disposed /\ v.rows = batches[k.arg].rows
      BY <1>2, <3>1, 1 \in Int, Spooling
    <3> QED BY <3>2, <3>3
  <2>2. CASE batches' = [batches EXCEPT ![k.arg] = Refused(k, batches[k.arg])]
    <3>1. PICK v : v = Refused(k, batches[k.arg])
      OBVIOUS
    <3>2. batches' = [batches EXCEPT ![k.arg] = v]
      BY <2>2, <3>1
    <3>3. /\ Twin(batches[k.arg], v) /\ (batches[k.arg].closing => v.closing) /\ v.mapped = batches[k.arg].mapped
          /\ v.disposed = batches[k.arg].disposed /\ v.rows = batches[k.arg].rows
      BY <1>2, <3>1, RefusedBatch
    <3> QED BY <3>2, <3>3
  <2>3. CASE batches' = [batches EXCEPT ![k.arg].lobs = 1, ![k.arg].failed = TRUE]
    <3>1. PICK v : v = [batches[k.arg] EXCEPT !.lobs = 1, !.failed = TRUE]
      OBVIOUS
    <3>2. batches' = [batches EXCEPT ![k.arg] = v]
      BY <2>3, <3>1, <1>2 DEF Types, ServerTypes
    <3> QED BY <1>2, <3>1, <3>2, SpoolFails
  <2> QED BY <2>1, <2>2, <2>3 DEF UploadLOB
<1>5. Like(k, k.arg, v)
  BY <1>2, <1>4 DEF Like, Twin
<1>6. BatchEffect(k)
  BY <1>2, <1>3, <1>4, <1>5, ReplaceBatch
<1>7. Answer(k, TRUE, 0) \/ Answer(k, FALSE, 0)
  BY DEF UploadLOB
<1>8. TaskEffect(k)
  BY <1>1, <1>2, <1>7, 0 \in Nat, DoneEffect, FailEffect, Zenon
<1> QED BY <1>3, <1>6, <1>8 DEF UploadLOB, WorkEffect

(* A page begins to be executed on the connection of its batch. *)
LEMMA AddBatchEffect == ASSUME Types, ServerOk, NEW k \in tasks, AddBatch(k) PROVE WorkEffect(k)
<1>1. k.op = "add" /\ k.pc = "monitor"
  BY DEF AddBatch, AtMonitor
<1>2. /\ k.todo = {} /\ k.cur = 0 /\ k.op # "cleanup" /\ k.arg \in DOMAIN batches /\ batches[k.arg] \in Batches
      /\ batches[k.arg].disposed => batches[k.arg].closing /\ ~batches[k.arg].mapped
      /\ batches[k.arg].session \in DOMAIN sessions /\ k \in Tasks
  BY <1>1, AtBatch
<1>3. SessionEffect
  BY SameSessions DEF AddBatch
<1>4. PICK v : /\ batches' = [batches EXCEPT ![k.arg] = v]
               /\ Twin(batches[k.arg], v) /\ (batches[k.arg].closing => v.closing) /\ v.mapped = batches[k.arg].mapped
               /\ v.disposed = batches[k.arg].disposed /\ v.rows = batches[k.arg].rows
  <2>1. CASE BatchOpen(k)
    <3>0. k.id \in Ids \cup {Free}
      BY <1>2 DEF Tasks
    <3>1. PICK v : v = [batches[k.arg] EXCEPT !.monitor = k.id]
      OBVIOUS
    <3>2. batches' = [batches EXCEPT ![k.arg] = v]
      BY <2>1, <3>1 DEF AddBatch
    <3>3. /\ Twin(batches[k.arg], v) /\ (batches[k.arg].closing => v.closing) /\ v.mapped = batches[k.arg].mapped
          /\ v.disposed = batches[k.arg].disposed /\ v.rows = batches[k.arg].rows
      BY <1>2, <3>1, <3>0, Locking
    <3> QED BY <3>2, <3>3
  <2>2. CASE ~BatchOpen(k)
    <3>1. PICK v : v = Refused(k, batches[k.arg])
      OBVIOUS
    <3>2. batches' = [batches EXCEPT ![k.arg] = v]
      BY <2>2, <3>1 DEF AddBatch
    <3>3. /\ Twin(batches[k.arg], v) /\ (batches[k.arg].closing => v.closing) /\ v.mapped = batches[k.arg].mapped
          /\ v.disposed = batches[k.arg].disposed /\ v.rows = batches[k.arg].rows
      BY <1>2, <3>1, RefusedBatch
    <3> QED BY <3>2, <3>3
  <2> QED BY <2>1, <2>2
<1>5. Like(k, k.arg, v)
  BY <1>2, <1>4 DEF Like, Twin
<1>6. BatchEffect(k) /\ DOMAIN batches' = DOMAIN batches
  BY <1>2, <1>3, <1>4, <1>5, ReplaceBatch
<1>7. TaskEffect(k)
  <2>1. CASE BatchOpen(k)
    <3>1. \A x \in Tasks : Kept(k, x) /\ x.pc = "execute" /\ x.todo = k.todo /\ x.cur = k.cur /\ x.val = k.val => TaskOk(x)'
      BY <1>1, <1>2, <1>6 DEF Kept, TaskOk
    <3> QED BY <2>1, <3>1, GotoEffect DEF AddBatch, TaskPcs
  <2>2. CASE ~BatchOpen(k)
    BY <1>2, <2>2, FailEffect, Zenon DEF AddBatch
  <2> QED BY <2>1, <2>2
<1> QED BY <1>3, <1>6, <1>7 DEF AddBatch, WorkEffect

(* The page has been executed, or has failed. *)
LEMMA AddBatchDoneEffect == ASSUME Types, ServerOk, NEW k \in tasks, AddBatchDone(k) PROVE WorkEffect(k)
<1>1. k.op = "add" /\ k.pc = "execute"
  BY DEF AddBatchDone
<1>2. /\ k.todo = {} /\ k.cur = 0 /\ k.op # "cleanup" /\ k.arg \in DOMAIN batches /\ batches[k.arg] \in Batches
      /\ batches[k.arg].disposed => batches[k.arg].closing /\ ~batches[k.arg].mapped
      /\ batches[k.arg].session \in DOMAIN sessions /\ k \in Tasks /\ k.row \in Rows
  BY <1>1, AtBatch
<1>3. SessionEffect
  BY SameSessions DEF AddBatchDone
<1>4. PICK b : b = [batches[k.arg] EXCEPT !.lobs = 0, !.monitor = Free]
  OBVIOUS
<1>5. /\ b \in Batches /\ Twin(batches[k.arg], b) /\ b.closing = batches[k.arg].closing /\ b.mapped = batches[k.arg].mapped
      /\ b.disposed = batches[k.arg].disposed /\ b.rows = batches[k.arg].rows
  BY <1>2, <1>4, Leaving DEF Twin
<1>6. PICK R \in SUBSET Rows : R = batches[k.arg].rows \cup {k.row}
  BY <1>2 DEF Batches
<1>7. PICK done : done = [b EXCEPT !.rows = @ \cup {k.row}]
  OBVIOUS
<1>8. done = [b EXCEPT !.rows = R]
  BY <1>5, <1>6, <1>7
<1>9. /\ done \in Batches /\ Twin(batches[k.arg], done) /\ done.closing = batches[k.arg].closing
      /\ done.mapped = batches[k.arg].mapped /\ done.disposed = batches[k.arg].disposed /\ done.rows = R
  BY <1>5, <1>8, Filling DEF Twin
<1>10. PICK v : /\ batches' = [batches EXCEPT ![k.arg] = v]
                /\ Twin(batches[k.arg], v) /\ (batches[k.arg].closing => v.closing) /\ v.mapped = batches[k.arg].mapped
                /\ v.disposed = batches[k.arg].disposed
                /\ \/ v.rows = R /\ (Answer(k, TRUE, 0) \/ Answer(k, FALSE, 0))
                   \/ v.rows = batches[k.arg].rows /\ Answer(k, FALSE, 0)
  <2>1. CASE batches' = [batches EXCEPT ![k.arg] = done] /\ Answer(k, TRUE, 0)
    BY <1>9, <2>1
  <2>2. CASE batches' = [batches EXCEPT ![k.arg] = Refused(k, done)] /\ Answer(k, FALSE, 0)
    <3>1. done.session \in DOMAIN sessions
      BY <1>2, <1>9 DEF Twin
    <3>2. PICK v : v = Refused(k, done)
      OBVIOUS
    <3>3. Twin(done, v) /\ (done.closing => v.closing) /\ v.mapped = done.mapped /\ v.disposed = done.disposed /\ v.rows = done.rows
      BY <1>9, <3>1, <3>2, RefusedBatch
    <3> QED BY <1>9, <2>2, <3>2, <3>3 DEF Twin
  <2>3. CASE batches' = [batches EXCEPT ![k.arg] = [b EXCEPT !.failed = TRUE]] /\ Answer(k, FALSE, 0)
    <3>1. PICK v : v = [b EXCEPT !.failed = TRUE]
      OBVIOUS
    <3>2. Twin(b, v) /\ v.closing = b.closing /\ v.mapped = b.mapped /\ v.disposed = b.disposed /\ v.rows = b.rows
      BY <1>5, <3>1, Failing
    <3> QED BY <1>5, <2>3, <3>1, <3>2 DEF Twin
  <2> QED BY <1>4, <1>7, <2>1, <2>2, <2>3, Zenon DEF AddBatchDone
<1>11. Like(k, k.arg, v)
  BY <1>1, <1>2, <1>6, <1>10 DEF Like, Twin
<1>12. /\ BatchEffect(k) /\ DOMAIN batches' = DOMAIN batches
       /\ \A c \in DOMAIN batches : batches'[c] = IF c = k.arg THEN v ELSE batches[c]
  BY <1>2, <1>3, <1>10, <1>11, ReplaceBatch
<1>13. TaskEffect(k)
  <2>1. CASE Answer(k, FALSE, 0)
    BY <1>2, <2>1, FailEffect, Zenon
  <2>2. CASE ~Answer(k, FALSE, 0)
    <3>1. Answer(k, TRUE, 0) /\ k.row \in v.rows
      BY <1>6, <1>10, <2>2
    <3>2. PICK x : x = Answered(k, TRUE, 0)
      OBVIOUS
    <3>3. \A ok \in BOOLEAN, val \in Nat : LET y == Answered(k, ok, val) IN
            Kept(k, y) /\ y.pc = "reply" /\ y.todo = k.todo /\ y.cur = k.cur
      BY <1>2, AnsweredTask
    <3>4. TRUE \in BOOLEAN /\ 0 \in Nat
      OBVIOUS
    <3>5. Kept(k, x) /\ x.pc = "reply" /\ x.todo = {} /\ x.cur = 0
      BY <1>2, <3>2, <3>3, <3>4, Zenon
    <3>6. TaskOk(x)' /\ Reported(k, x)
      BY <1>1, <1>2, <1>12, <3>1, <3>5 DEF TaskOk, Reported, Kept
    <3> QED BY <3>1, <3>2, <3>5, <3>6 DEF Answer, Step, TaskEffect
  <2> QED BY <2>1, <2>2
<1> QED BY <1>3, <1>12, <1>13 DEF AddBatchDone, WorkEffect

(* A batch is committed: the only step that changes the database. *)
LEMMA CommitBatchEffect == ASSUME Types, ServerOk, NEW k \in tasks, CommitBatch(k) PROVE WorkEffect(k)
<1>1. k.op = "commit" /\ k.pc = "monitor"
  BY DEF CommitBatch, AtMonitor
<1>2. /\ k.todo = {} /\ k.cur = 0 /\ k.arg \in DOMAIN batches /\ batches[k.arg] \in Batches
      /\ batches[k.arg].session \in DOMAIN sessions /\ k \in Tasks
  BY <1>1, AtBatch
<1>3. SessionEffect
  <2>1. sessions' = [sessions EXCEPT ![batches[k.arg].session] = Released(sessions[batches[k.arg].session])]
    BY DEF CommitBatch
  <2> QED BY <2>1, ReplaceSession, SessionTypes, PoolTypes
<1>4. PICK v : v = [batches[k.arg] EXCEPT !.closing = TRUE, !.mapped = FALSE, !.disposed = TRUE]
  OBVIOUS
<1>5. batches' = [batches EXCEPT ![k.arg] = v]
  BY <1>2, <1>4 DEF CommitBatch, Types, ServerTypes
<1>6. Like(k, k.arg, v)
  BY <1>1, <1>2, <1>4, Committing DEF Like, Twin, Disposes
<1>7. BatchEffect(k)
  BY <1>2, <1>3, <1>5, <1>6, ReplaceBatch
<1>8. db' = db \cup batches[k.arg].rows /\ ~batches[k.arg].closing
  BY DEF CommitBatch, BatchOpen
<1>9. TaskEffect(k)
  <2>1. PICK x : x = Answered(k, TRUE, 0)
    OBVIOUS
  <2>2. \A ok \in BOOLEAN, val \in Nat : LET y == Answered(k, ok, val) IN
          Kept(k, y) /\ y.pc = "reply" /\ y.todo = k.todo /\ y.cur = k.cur
    BY <1>2, AnsweredTask
  <2>3. TRUE \in BOOLEAN /\ 0 \in Nat
    OBVIOUS
  <2>4. Kept(k, x) /\ x.pc = "reply" /\ x.todo = {} /\ x.cur = 0
    BY <1>2, <2>1, <2>2, <2>3, Zenon
  <2>5. TaskOk(x)' /\ Reported(k, x)
    BY <1>1, <1>2, <1>8, <2>4 DEF TaskOk, Reported, Kept
  <2> QED BY <2>1, <2>4, <2>5 DEF CommitBatch, Answer, Step, TaskEffect
<1> QED BY <1>1, <1>2, <1>3, <1>7, <1>8, <1>9 DEF CommitBatch, WorkEffect

(* A commit fails and the batch is rolled back. *)
LEMMA CommitFailsEffect == ASSUME Types, ServerOk, NEW k \in tasks, CommitFails(k) PROVE WorkEffect(k)
<1>1. k.op = "commit" /\ k.pc = "monitor"
  BY DEF CommitFails, AtMonitor
<1>2. /\ k.todo = {} /\ k.cur = 0 /\ k.arg \in DOMAIN batches /\ batches[k.arg] \in Batches
      /\ batches[k.arg].session \in DOMAIN sessions /\ k \in Tasks /\ k.op # "cleanup"
  BY <1>1, AtBatch
<1>3. SessionEffect
  <2>1. sessions' = [sessions EXCEPT ![batches[k.arg].session] = Discarded(sessions[batches[k.arg].session])]
    BY DEF CommitFails
  <2> QED BY <2>1, ReplaceSession, SessionTypes, PoolTypes
<1>4. PICK v : v = [batches[k.arg] EXCEPT !.closing = TRUE, !.mapped = FALSE, !.disposed = TRUE, !.lobs = 0, !.rows = {}]
  OBVIOUS
<1>5. batches' = [batches EXCEPT ![k.arg] = v]
  BY <1>4 DEF CommitFails
<1>6. Like(k, k.arg, v)
  BY <1>1, <1>2, <1>4, RollingBack DEF Like, Twin, Disposes
<1>7. BatchEffect(k)
  BY <1>2, <1>3, <1>5, <1>6, ReplaceBatch
<1>8. db' = db \/ (db' = db \cup batches[k.arg].rows /\ ~batches[k.arg].closing)
  BY DEF CommitFails, BatchOpen
<1>9. TaskEffect(k)
  BY <1>2, FailEffect, Zenon DEF CommitFails
<1> QED BY <1>1, <1>2, <1>3, <1>7, <1>8, <1>9 DEF CommitFails, WorkEffect

(* abortBatch takes the batch out of the map. *)
LEMMA AbortBatchEffect == ASSUME Types, ServerOk, NEW k \in tasks, AbortBatch(k) PROVE WorkEffect(k)
<1>1. k.todo = {} /\ k.cur = 0 /\ k.op = "abort"
  BY QueuedTask DEF AbortBatch
<1>2. SessionEffect
  BY SameSessions DEF AbortBatch
<1>3. CASE k.arg \in DOMAIN batches /\ batches[k.arg].mapped
  <2>1. PICK v : v = [batches[k.arg] EXCEPT !.mapped = FALSE]
    OBVIOUS
  <2>2. batches[k.arg] \in Batches /\ (batches[k.arg].disposed => batches[k.arg].closing /\ ~batches[k.arg].mapped)
    BY <1>3, BatchDomain DEF ServerOk, BatchOk
  <2>3. Like(k, k.arg, v)
    BY <2>1, <2>2, Unmapping DEF Like, Twin
  <2>4. batches' = [batches EXCEPT ![k.arg] = v]
    BY <1>3, <2>1 DEF AbortBatch
  <2>5. BatchEffect(k)
    BY <1>2, <1>3, <2>3, <2>4, ReplaceBatch
  <2>6. PICK B \in SUBSET DOMAIN batches : B = {k.arg}
    BY <1>3
  <2>7. TaskEffect(k)
    BY <1>1, <1>3, <2>5, <2>6, ScanEffect DEF AbortBatch
  <2> QED BY <1>2, <2>5, <2>7 DEF AbortBatch, WorkEffect
<1>4. CASE ~(k.arg \in DOMAIN batches /\ batches[k.arg].mapped)
  <2>1. Answer(k, TRUE, 0) /\ batches' = batches
    BY <1>4 DEF AbortBatch
  <2>2. TaskEffect(k)
    BY <1>1, <2>1, 0 \in Nat, DoneEffect, Zenon
  <2> QED BY <1>2, <2>1, <2>2, SameBatches DEF AbortBatch, WorkEffect
<1> QED BY <1>3, <1>4

(* A task takes the next batch, or is through with one. *)
LEMMA MarkEffect ==
    ASSUME Types, ServerOk, NEW k \in tasks, BatchEffect(k), SessionEffect, NEW x, NEW B \in SUBSET k.todo, NEW i \in Int,
           k.pc = "discard", tasks' = (tasks \ {k}) \cup {x}, x = [k EXCEPT !.cur = i, !.todo = B],
           i # 0 => i \in DOMAIN batches' /\ batches'[i].closing /\ ~batches'[i].mapped
    PROVE  TaskEffect(k)
<1>1. TaskOk(k) /\ k \in Tasks
  BY DEF ServerOk, Types, ServerTypes
<1>2. B \in SUBSET Int /\ B \subseteq DOMAIN batches'
  BY <1>1, BatchDomain DEF TaskOk, BatchEffect
<1>3. Kept(k, x) /\ x.pc = "discard" /\ x.todo = B /\ x.cur = i /\ x.val = k.val
  BY <1>1, <1>2 DEF Tasks, Kept
<1>4. TaskOk(x)' /\ Reported(k, x)
  BY <1>1, <1>2, <1>3 DEF TaskOk, Reported, Kept, BatchEffect, Grown, SessionEffect
<1> QED BY <1>3, <1>4 DEF TaskEffect

(* A task takes the next batch that it is to discard and marks it, *)
LEMMA DiscardMarkEffect == ASSUME Types, ServerOk, NEW k \in tasks, DiscardMark(k) PROVE WorkEffect(k)
<1>1. k.pc = "discard" /\ k.cur = 0 /\ k \in Tasks /\ TaskOk(k)
  BY DEF DiscardMark, Types, ServerTypes, ServerOk
<1>2. SessionEffect
  BY SameSessions DEF DiscardMark
<1>3. PICK b \in k.todo :
        IF k.op = "close" /\ ~batches[b].mapped
        THEN Step(k, [k EXCEPT !.todo = @ \ {b}]) /\ batches' = batches
        ELSE /\ batches' = [batches EXCEPT ![b].closing = TRUE, ![b].mapped = FALSE]
             /\ Step(k, [k EXCEPT !.cur = b, !.todo = @ \ {b}])
  BY DEF DiscardMark
<1>4. PICK B \in SUBSET k.todo : B = k.todo \ {b}
  OBVIOUS
<1>5. b \in DOMAIN batches /\ b \in Int
  BY <1>1, <1>3, BatchDomain DEF TaskOk
<1>6. CASE k.op = "close" /\ ~batches[b].mapped
  <2>1. BatchEffect(k)
    BY <1>2, <1>3, <1>6, SameBatches
  <2>2. PICK x : x = [k EXCEPT !.todo = @ \ {b}]
    OBVIOUS
  <2>3. PICK i \in Int : i = 0
    OBVIOUS
  <2>4. x = [k EXCEPT !.cur = i, !.todo = B]
    BY <1>1, <1>4, <2>2, <2>3 DEF Tasks
  <2>5. TaskEffect(k)
    BY <1>1, <1>2, <1>3, <1>6, <2>1, <2>2, <2>3, <2>4, MarkEffect DEF Step
  <2> QED BY <1>2, <2>1, <2>5 DEF DiscardMark, WorkEffect
<1>7. CASE ~(k.op = "close" /\ ~batches[b].mapped)
  <2>1. PICK v : v = [batches[b] EXCEPT !.closing = TRUE, !.mapped = FALSE]
    OBVIOUS
  <2>2. batches' = [batches EXCEPT ![b] = v]
    BY <1>3, <1>5, <1>7, <2>1 DEF Types, ServerTypes
  <2>3. Like(k, b, v) /\ v.closing /\ ~v.mapped
    BY <1>5, <2>1, BatchDomain, TakingOut DEF Like, Twin
  <2>4. BatchEffect(k) /\ b \in DOMAIN batches' /\ batches'[b].closing /\ ~batches'[b].mapped
    BY <1>2, <1>5, <2>2, <2>3, ReplaceBatch
  <2>5. PICK x : x = [k EXCEPT !.cur = b, !.todo = B]
    OBVIOUS
  <2>6. tasks' = (tasks \ {k}) \cup {x}
    BY <1>3, <1>4, <1>7, <2>5 DEF Step
  <2>7. TaskEffect(k)
    BY <1>1, <1>2, <1>5, <2>4, <2>5, <2>6, MarkEffect
  <2> QED BY <1>2, <2>4, <2>7 DEF DiscardMark, WorkEffect
<1> QED BY <1>6, <1>7

(* and disposes of it. *)
LEMMA DiscardDisposeEffect == ASSUME Types, ServerOk, NEW k \in tasks, DiscardDispose(k) PROVE WorkEffect(k)
<1>1. /\ k.pc = "discard" /\ k.cur # 0 /\ k \in Tasks /\ TaskOk(k) /\ k.cur \in DOMAIN batches
      /\ batches[k.cur].closing /\ ~batches[k.cur].mapped /\ batches[k.cur] \in Batches
  BY BatchDomain DEF DiscardDispose, Types, ServerTypes, ServerOk, TaskOk
<1>2. SessionEffect
  <2>1. CASE batches[k.cur].disposed
    BY <2>1, SameSessions DEF DiscardDispose
  <2>2. CASE ~batches[k.cur].disposed
    <3>1. sessions' = [sessions EXCEPT ![batches[k.cur].session] = Discarded(sessions[batches[k.cur].session])]
      BY <2>2 DEF DiscardDispose
    <3> QED BY <3>1, ReplaceSession, SessionTypes, PoolTypes
  <2> QED BY <2>1, <2>2
<1>3. BatchEffect(k)
  <2>1. CASE batches[k.cur].disposed
    BY <1>2, <2>1, SameBatches DEF DiscardDispose
  <2>2. CASE ~batches[k.cur].disposed
    <3>1. PICK v : v = [batches[k.cur] EXCEPT !.disposed = TRUE, !.lobs = 0, !.rows = {}]
      OBVIOUS
    <3>2. Like(k, k.cur, v)
      BY <1>1, <3>1, GivingUp DEF Like, Twin, Disposes
    <3>3. batches' = [batches EXCEPT ![k.cur] = v]
      BY <2>2, <3>1 DEF DiscardDispose
    <3> QED BY <1>1, <1>2, <3>2, <3>3, ReplaceBatch
  <2> QED BY <2>1, <2>2
<1>4. TaskEffect(k)
  <2>1. PICK i \in Int : i = 0
    OBVIOUS
  <2>2. PICK B \in SUBSET k.todo : B = k.todo
    OBVIOUS
  <2>3. PICK x : x = [k EXCEPT !.cur = i, !.todo = B]
    OBVIOUS
  <2>4. x = [k EXCEPT !.cur = 0]
    BY <1>1, <2>1, <2>2, <2>3 DEF Tasks
  <2> QED BY <1>1, <1>2, <1>3, <2>1, <2>3, <2>4, MarkEffect DEF DiscardDispose, Step
<1> QED BY <1>2, <1>3, <1>4 DEF DiscardDispose, WorkEffect

(* Every step of a task. *)
LEMMA WorkEffects == ASSUME Types, ServerOk, NEW k \in tasks, Work(k) PROVE WorkEffect(k)
BY ReplyEffect, AcquireEffect, DropIdleEffect, HelloEffect, OpenSessionEffect, FindSessionEffect,
   ExecuteEffect,
   CloseSessionEffect, CloseSessionScanEffect, CloseSessionPoolEffect, BeginRegisterEffect, BeginFailsEffect,
   BeginCheckEffect, RequestBatchEffect, UploadLOBEffect, AddBatchEffect, AddBatchDoneEffect, CommitBatchEffect,
   CommitFailsEffect, AbortBatchEffect, DiscardMarkEffect, DiscardDisposeEffect, DiscardEndEffect, Zenon DEF Work

-----------------------------------------------------------------------------
(* The types and what the tasks are about stay right. *)

(* Batches and sessions only go on. *)
GoOn ==
    /\ DOMAIN batches \subseteq DOMAIN batches' /\ DOMAIN sessions \subseteq DOMAIN sessions'
    /\ \A b \in DOMAIN batches :
         /\ batches'[b].opener = batches[b].opener
         /\ batches[b].closing => batches'[b].closing
         /\ batches'[b].mapped => batches[b].mapped

(* What a task is about stays so while batches and sessions go on. *)
LEMMA TaskStays == ASSUME GoOn, NEW x, TaskOk(x) PROVE TaskOk(x)'
<1>1. x.todo \subseteq DOMAIN batches'
  BY DEF GoOn, TaskOk
<1>2. x.cur # 0 => x.cur \in DOMAIN batches' /\ batches'[x.cur].closing /\ ~batches'[x.cur].mapped
  BY DEF GoOn, TaskOk
<1>3. x.op = "begin" /\ (x.pc \in {"check", "discard"} \/ (x.pc = "reply" /\ x.ok)) =>
          x.val \in DOMAIN batches' /\ batches'[x.val].opener = x.id
  BY DEF GoOn, TaskOk
<1> QED BY <1>1, <1>2, <1>3 DEF GoOn, TaskOk

(* A step of a task keeps the types and what the tasks are about. *)
LEMMA WorkKeeps ==
    ASSUME Types, ServerOk, NEW k \in tasks, Work(k), UNCHANGED <<gen, goVars>>
    PROVE  Types' /\ ServerOk'
<1>1. WorkEffect(k) /\ k \in Tasks
  BY WorkEffects DEF Types, ServerTypes
<1>2. GoOn
  BY <1>1 DEF WorkEffect, BatchEffect, Grown, SessionEffect, GoOn
<1>3. \A x \in tasks' : x \in Tasks /\ TaskOk(x)'
  BY <1>1, <1>2, TaskStays DEF WorkEffect, TaskEffect, Kept, Types, ServerTypes, ServerOk
<1>4. out' \subseteq Responses
  <2>1. Response(k) \in Responses
    BY <1>1 DEF Tasks, Responses, Response
  <2> QED BY <1>1, <2>1 DEF WorkEffect, Types, ServerTypes
<1>5. ServerTypes'
  BY <1>1, <1>3, <1>4 DEF WorkEffect, BatchEffect, SessionEffect, Types, ServerTypes
<1>6. GoTypes'
  BY DEF Types, GoTypes, goVars
<1>7. gen \in live
  BY DEF ServerOk, DeadInv
<1>8. ServerOk'
  BY <1>1, <1>3, <1>7 DEF WorkEffect, BatchEffect, ServerOk, DeadInv
<1> QED BY <1>5, <1>6, <1>8 DEF Types

(* A request is dispatched. *)
NewTask(q) ==
    [id |-> q.id, op |-> q.op, arg |-> q.arg, row |-> q.row, pc |-> "queued",
     cancelled |-> FALSE, todo |-> {}, cur |-> 0, ok |-> FALSE, val |-> 0]

(* A new task is its message, with nothing to discard. *)
LEMMA NewTaskOk ==
    ASSUME NEW q \in Messages, q.op # "cancel"
    PROVE  LET k == NewTask(q) IN
           /\ k \in Tasks /\ k.id = q.id /\ k.op = q.op /\ k.arg = q.arg /\ k.row = q.row /\ k.pc = "queued"
           /\ k.todo = {} /\ k.cur = 0 /\ ~k.cancelled /\ k.val = 0
BY DEF NewTask, Messages, Tasks, TaskPcs

(* A request that is dispatched leaves the pipe and becomes a task. *)
LEMMA DispatchKeeps ==
    ASSUME Types, ServerOk, Dispatch, UNCHANGED <<gen, goVars>>
    PROVE  /\ Types' /\ ServerOk' /\ Head(in) \in Messages /\ Head(in) = in[1] /\ 1 \in DOMAIN in
           /\ tasks' = tasks \cup {NewTask(Head(in))}
           /\ \A j \in DOMAIN in' : j + 1 \in DOMAIN in /\ in'[j] = in[j + 1]
<1>1. /\ Head(in) \in Messages /\ Head(in) = in[1] /\ 1 \in DOMAIN in /\ in' \in Seq(Messages)
      /\ \A j \in DOMAIN in' : j + 1 \in DOMAIN in /\ in'[j] = in[j + 1]
  BY SeqTail DEF Dispatch, Types, ServerTypes
<1>2. tasks' = tasks \cup {NewTask(Head(in))}
  BY DEF Dispatch, NewTask
<1>3. PICK k : k = NewTask(Head(in))
  OBVIOUS
<1>4. /\ k \in Tasks /\ k.op = Head(in).op /\ k.pc = "queued" /\ k.todo = {} /\ k.cur = 0
  BY <1>1, <1>3, NewTaskOk DEF Dispatch
<1>5. k.op # "cleanup"
  BY <1>1, <1>4 DEF Messages, Ops
<1>6. TaskOk(k)'
  BY <1>4, <1>5 DEF TaskOk
<1>7. GoOn
  BY DEF Dispatch, GoOn
<1>8. \A x \in tasks' : x \in Tasks /\ TaskOk(x)'
  BY <1>2, <1>3, <1>4, <1>6, <1>7, TaskStays DEF Types, ServerTypes, ServerOk
<1>9. ServerTypes' /\ GoTypes'
  BY <1>1, <1>8 DEF Dispatch, Types, ServerTypes, GoTypes, goVars
<1>10. ServerOk'
  BY <1>8 DEF Dispatch, ServerOk, BatchOk, DeadInv
<1> QED BY <1>1, <1>2, <1>9, <1>10 DEF Types

(* A cancellation marks its request. *)
Same(k, x) ==
    /\ Kept(k, x) /\ x.pc = k.pc /\ x.todo = k.todo /\ x.cur = k.cur /\ x.ok = k.ok /\ x.val = k.val
    /\ k.cancelled => x.cancelled

(* The cancellation leaves the pipe; every task stays, and those of its request *)
(* are marked.                                                                  *)
LEMMA CancelFutureTasks ==
    ASSUME Types, ServerOk, CancelFuture
    PROVE  /\ Head(in) \in Messages /\ Head(in) = in[1] /\ 1 \in DOMAIN in
           /\ \A j \in DOMAIN in' : j + 1 \in DOMAIN in /\ in'[j] = in[j + 1]
           /\ in' \in Seq(Messages)
           /\ \A x \in tasks' : \E k \in tasks : Same(k, x) /\ (k.id = Head(in).id => x.cancelled)
<1>1. /\ Head(in) \in Messages /\ Head(in) = in[1] /\ 1 \in DOMAIN in /\ in' \in Seq(Messages)
      /\ \A j \in DOMAIN in' : j + 1 \in DOMAIN in /\ in'[j] = in[j + 1]
  BY SeqTail DEF CancelFuture, Types, ServerTypes
<1>2. ASSUME NEW k \in tasks
      PROVE  LET x == [k EXCEPT !.cancelled = @ \/ k.id = Head(in).id] IN
             Same(k, x) /\ (k.id = Head(in).id => x.cancelled)
  <2>1. PICK c \in BOOLEAN : c = (k.cancelled \/ k.id = Head(in).id)
    OBVIOUS
  <2>2. (k.cancelled => c) /\ (k.id = Head(in).id => c)
    BY <2>1
  <2>3. k \in Tasks
    BY DEF Types, ServerTypes
  <2>4. PICK x : x = [k EXCEPT !.cancelled = c]
    OBVIOUS
  <2>5. Same(k, x) /\ x.cancelled = c
    BY <2>2, <2>3, <2>4 DEF Tasks, Same, Kept
  <2> QED BY <2>1, <2>2, <2>4, <2>5
<1>3. PICK never : tasks' = {[k EXCEPT !.cancelled = @ \/ k.id = Head(in).id] : k \in tasks \ never}
  BY DEF CancelFuture
<1>4. ASSUME NEW x \in tasks' PROVE \E k \in tasks : Same(k, x) /\ (k.id = Head(in).id => x.cancelled)
  <2>1. PICK k \in tasks : x = [k EXCEPT !.cancelled = @ \/ k.id = Head(in).id]
    BY <1>3, <1>4
  <2> QED BY <1>2, <2>1
<1> QED BY <1>1, <1>4

(* A marked task is about what it was about. *)
LEMMA SameOk == ASSUME NEW k, NEW x, Same(k, x), TaskOk(k) PROVE TaskOk(x)
BY DEF Same, Kept, TaskOk

(* A cancellation that is read keeps the types and what the tasks are about. *)
LEMMA CancelFutureKeeps ==
    ASSUME Types, ServerOk, CancelFuture, UNCHANGED <<gen, goVars>>
    PROVE  Types' /\ ServerOk'
<1>1. GoOn
  BY DEF CancelFuture, GoOn
<1>2. \A x \in tasks' : x \in Tasks /\ TaskOk(x)'
  BY <1>1, CancelFutureTasks, SameOk, TaskStays DEF Same, Kept, ServerOk
<1>3. in' \in Seq(Messages) /\ input' \in Ids
  BY CancelFutureTasks DEF CancelFuture, Messages
<1>4. ServerTypes' /\ GoTypes'
  BY <1>2, <1>3 DEF CancelFuture, Types, ServerTypes, GoTypes, goVars
<1>5. ServerOk'
  BY <1>2 DEF CancelFuture, ServerOk, BatchOk, DeadInv
<1> QED BY <1>4, <1>5 DEF Types

(* The batches of a cancelled request are marked and their cleanup is scheduled. *)
Cleanup(B) ==
    [id |-> input, op |-> "cleanup", arg |-> 0, row |-> <<>>, pc |-> "discard",
     cancelled |-> FALSE, todo |-> B, cur |-> 0, ok |-> TRUE, val |-> 0]

(* The batches of the request are marked, and one task is added that discards *)
(* them.                                                                      *)
LEMMA CancelBatchesFacts ==
    ASSUME Types, ServerOk, CancelBatches
    PROVE  /\ batches' \in Seq(Batches) /\ DOMAIN batches' = DOMAIN batches
           /\ \A b \in DOMAIN batches :
                /\ Twin(batches[b], batches'[b]) /\ batches'[b].mapped = batches[b].mapped
                /\ batches'[b].disposed = batches[b].disposed /\ batches'[b].rows = batches[b].rows
                /\ batches[b].closing => batches'[b].closing
                /\ batches'[b].closing => batches[b].closing \/ b \in BatchesOf(input)
           /\ \A x \in tasks' : x \in tasks \/ /\ x = Cleanup(BatchesOf(input)) /\ x \in Tasks /\ x.op = "cleanup" /\ x.pc = "discard"
                                               /\ x.id = input /\ x.todo = BatchesOf(input) /\ x.cur = 0
           /\ tasks \subseteq tasks'
<1>1. PICK B : B = BatchesOf(input)
  OBVIOUS
<1>2. B \subseteq DOMAIN batches /\ B \in SUBSET Int /\ input \in Ids
  BY <1>1, BatchDomain DEF BatchesOf, CancelBatches, Types, ServerTypes
<1>3. batches' = [b \in DOMAIN batches |-> [batches[b] EXCEPT !.closing = @ \/ b \in B]]
  BY <1>1 DEF CancelBatches
<1>4. ASSUME NEW b \in DOMAIN batches
      PROVE  /\ Twin(batches[b], batches'[b]) /\ batches'[b].mapped = batches[b].mapped
             /\ batches'[b].disposed = batches[b].disposed /\ batches'[b].rows = batches[b].rows
             /\ batches[b].closing => batches'[b].closing
             /\ batches'[b].closing => batches[b].closing \/ b \in B
  <2>0. (b \in B) \in BOOLEAN
    OBVIOUS
  <2>1. PICK c \in BOOLEAN : c = (b \in B)
    BY <2>0, Zenon
  <2>2. PICK v : v = [batches[b] EXCEPT !.closing = @ \/ c]
    OBVIOUS
  <2>3. batches'[b] = v
    BY <1>3, <2>1, <2>2
  <2>4. /\ Twin(batches[b], v) /\ v.closing = (batches[b].closing \/ c) /\ v.mapped = batches[b].mapped
        /\ v.disposed = batches[b].disposed /\ v.rows = batches[b].rows
    BY <2>2, BatchDomain, MarkingIf
  <2> QED BY <2>1, <2>3, <2>4
<1>5. batches' \in Seq(Batches) /\ DOMAIN batches' = DOMAIN batches
  <2>1. DOMAIN batches = 1 .. Len(batches) /\ Len(batches) \in Nat
    BY DEF Types, ServerTypes
  <2>2. batches' \in [1 .. Len(batches) -> Batches]
    BY <1>3, <1>4, <2>1 DEF Twin
  <2> QED BY <1>3, <2>1, <2>2
<1>6. PICK x : x = Cleanup(B)
  OBVIOUS
<1>7. x \in Tasks /\ x.op = "cleanup" /\ x.pc = "discard" /\ x.id = input /\ x.todo = B /\ x.cur = 0
  BY <1>2, <1>6 DEF Cleanup, Tasks, TaskPcs, Rows
<1>8. tasks' = tasks \cup (IF B = {} THEN {} ELSE {x})
  BY <1>1, <1>6 DEF CancelBatches, Cleanup
<1>9. \A y \in tasks' : y \in tasks \/ y = x
  BY <1>8
<1> QED BY <1>1, <1>4, <1>5, <1>6, <1>7, <1>8, <1>9

(* The scan of a cancellation keeps the types and what the tasks are about. *)
LEMMA CancelBatchesKeeps ==
    ASSUME Types, ServerOk, CancelBatches, UNCHANGED <<gen, goVars>>
    PROVE  Types' /\ ServerOk'
<1>1. GoOn
  BY CancelBatchesFacts DEF CancelBatches, GoOn, Twin
<1>2. \A x \in tasks' : x \in Tasks /\ TaskOk(x)'
  <2> TAKE x \in tasks'
  <2>1. CASE x \in tasks
    BY <1>1, <2>1, TaskStays DEF Types, ServerTypes, ServerOk
  <2>2. CASE x \notin tasks
    <3>1. x \in Tasks /\ x.op = "cleanup" /\ x.pc = "discard" /\ x.todo = BatchesOf(input) /\ x.cur = 0
      BY <2>2, CancelBatchesFacts
    <3>2. x.todo \subseteq DOMAIN batches'
      BY <3>1, CancelBatchesFacts DEF BatchesOf
    <3> QED BY <3>1, <3>2 DEF TaskOk
  <2> QED BY <2>1, <2>2
<1>3. ServerTypes' /\ GoTypes'
  BY <1>2, CancelBatchesFacts DEF CancelBatches, Types, ServerTypes, GoTypes, goVars
<1>4. \A b \in DOMAIN batches' : BatchOk(b)'
  BY CancelBatchesFacts DEF CancelBatches, ServerOk, BatchOk, Twin
<1>5. ServerOk'
  BY <1>2, <1>4 DEF CancelBatches, ServerOk, DeadInv
<1> QED BY <1>3, <1>5 DEF Types

(* So does every step of the JVM, *)
LEMMA ServerKeeps == ASSUME Types, ServerOk, ServerStep PROVE Types' /\ ServerOk'
BY WorkKeeps, DispatchKeeps, CancelFutureKeeps, CancelBatchesKeeps DEF ServerStep, ServerNext

(* and its end, which takes requests, tasks and batches with it. *)
LEMMA ExitKeeps == ASSUME Types, ManagerInv, ServerOk, Killed \/ Crash PROVE Types' /\ ServerOk'
<1>1. Exit /\ UNCHANGED <<gen, goVars>>
  BY DEF Killed, Crash
<1>2. ServerTypes' /\ GoTypes'
  BY <1>1 DEF Exit, Types, ServerTypes, GoTypes, goVars
<1>3. ServerOk'
  BY <1>1 DEF Exit, ServerOk, DeadInv
<1> QED BY <1>2, <1>3 DEF Types

-----------------------------------------------------------------------------
(* The callers: what a thread is at, and the ids of its calls. *)
WriterPhases == {"open", "copy", "close", "closed"}
BatchPhases == {"lob", "add1", "add2", "commit", "abort"}
WorkerPhases == {"wait", "begin", "exec", "done"} \cup BatchPhases
Busy == {"open", "close", "begin", "exec"} \cup BatchPhases
Flying == {"capture", "write", "await"}

(* A call is the one its thread's work asks for; a handle is there as long as it  *)
(* is needed and was given out by some process.                                   *)
CallOk(t) ==
    /\ t \in Writers => phase[t] \in WriterPhases
    /\ t \in Workers => phase[t] \in WorkerPhases
    /\ call[t].pc \in StartPcs => call[t].op = OpOf(phase[t]) \/ (call[t].op = "hello" /\ phase[t] = "open")
    /\ call[t].pc \notin StartPcs \cup {"rest"} => phase[t] = "open"
    /\ call[t].pc = "ensure" => call[t].op = "open"
    /\ call[t].w <= gen /\ handle[t].born \in 0 .. gen
    /\ call[t].pc \in {"write", "await"} => call[t].w > 0
    /\ phase[t] \in {"open", "wait", "begin", "exec"} => handle[t] = NoHandle
    /\ phase[t] \in BatchPhases \cup {"copy", "close"} => handle[t].born > 0
    /\ phase[t] = "add2" => Pages # 1

(* A worker works while its writer is open. *)
PairOk(t) ==
    /\ phase[t] \in {"begin", "exec"} \cup BatchPhases => phase[WriterOf[t]] = "copy"
    /\ phase[WriterOf[t]] = "open" => phase[t] = "wait"

CallInv == (\A t \in Threads : CallOk(t)) /\ (\A t \in Workers : PairOk(t))

(* The id of a call is new until it is written. *)
UsedId(id) == id.n <= call[id.t].n /\ (id.n = call[id.t].n => call[id.t].pc \notin {"capture", "write"})

IdInv ==
    /\ \A i \in DOMAIN in : UsedId(in[i].id)
    /\ \A k \in tasks : UsedId(k.id)
    /\ \A r \in out : UsedId(r.id)
    /\ input # NoTarget => UsedId(input)
    /\ \A p \in pending : p.n = call[p.t].n /\ call[p.t].pc \in Flying /\ answer[p.t] = Empty
    /\ \A t \in Threads : call[t].pc \in {"capture", "write"} => ~answer[t].ok

BaseInv == ManagerInv /\ Types /\ ServerOk /\ CallInv /\ IdInv

(* What the threads other than t see of its step. *)
Alone(t) ==
    \A x \in Threads \ {t} : call'[x] = call[x] /\ phase'[x] = phase[x] /\ handle'[x] = handle[x]

(* The types of what a thread keeps. *)
LEMMA CallTypeFacts ==
    ASSUME ManagerInv, Types, NEW t \in Threads
    PROVE  /\ call[t] \in Calls /\ call[t].n \in Nat /\ call[t].w \in Nat /\ call[t].op \in Ops \cup {"none", "hello"}
           /\ call \in [Threads -> Calls] /\ phase[t] \in Phases /\ handle[t] \in [id : Int, born : Int]
           /\ answer[t] \in [ok : BOOLEAN, val : Int] /\ gen \in Nat
BY DEF ManagerInv, StarterInv, ProcessInv, Calls, Types, GoTypes

(* A thread that is in a call is busy. *)
LEMMA BusyThread ==
    ASSUME ManagerInv, Types, CallInv, NEW t \in Threads, call[t].pc # "rest"
    PROVE  phase[t] \in Busy
<1>1. call[t].op \in Ops \cup {"none", "hello"} /\ phase[t] \in Phases /\ CallOk(t) /\ call[t].pc \in Pcs
  BY CallTypeFacts DEF CallInv, Calls
<1>2. CASE call[t].pc \notin StartPcs
  BY <1>1, <1>2 DEF CallOk, Busy
<1>3. CASE call[t].pc \in StartPcs
  BY <1>1, <1>3 DEF CallOk, OpOf, Busy, BatchPhases, Phases, Ops
<1> QED BY <1>2, <1>3

(* The operation that follows one that ended with r. *)
LEMMA AfterFacts ==
    ASSUME NEW t, NEW r, phase[t] \in Busy, NEW p \in After(t, r)
    PROVE  /\ p \in Phases \ {"open", "close", "begin", "exec", "wait"}
           /\ phase[t] \in WriterPhases => p \in {"copy", "closed"} /\ (p = "copy" => r.ok /\ phase[t] = "open")
           /\ phase[t] \in WorkerPhases => p \in {"done"} \cup BatchPhases
           /\ p \in BatchPhases /\ phase[t] \notin BatchPhases => phase[t] = "begin" /\ r.ok
           /\ p = "add2" => r.ok /\ phase[t] = "add1" /\ Pages # 1
           /\ p = "commit" => r.ok /\ ((phase[t] = "add1" /\ Pages = 1) \/ phase[t] = "add2")
BY DEF After, Busy, Phases, BatchPhases, WriterPhases, WorkerPhases

(* A call that returns moves its thread to the next phase, with the id that the *)
(* answer gave.                                                                 *)
LEMMA ReturnFacts ==
    ASSUME ManagerInv, Types, NEW t \in Threads, NEW r, r.val \in Int, Return(t, r), phase[t] \in Busy
    PROVE  /\ Alone(t) /\ call'[t].pc = "rest" /\ call'[t].w = 0 /\ call'[t].n = call[t].n /\ call' \in [Threads -> Calls]
           /\ phase'[t] \in After(t, r) /\ phase' \in [Threads -> Phases]
           /\ handle'[t] = IF r.ok /\ phase[t] \in {"open", "begin"} THEN [id |-> r.val, born |-> call[t].w] ELSE handle[t]
           /\ handle' \in [Threads -> [id : Int, born : Int]]
<1>1. call[t] \in Calls /\ call \in [Threads -> Calls] /\ call[t].w \in Nat /\ handle[t] \in [id : Int, born : Int]
  BY CallTypeFacts
<1>2. PICK c : c = [call[t] EXCEPT !.pc = "rest", !.w = 0]
  OBVIOUS
<1>3. c \in Calls /\ c.pc = "rest" /\ c.w = 0 /\ c.n = call[t].n
  BY <1>1, <1>2 DEF Calls, Pcs, StartPcs
<1>4. call' = [call EXCEPT ![t] = c]
  BY <1>1, <1>2 DEF Return
<1>5. call' \in [Threads -> Calls] /\ call'[t] = c /\ \A x \in Threads \ {t} : call'[x] = call[x]
  BY <1>1, <1>3, <1>4
<1>6. PICK p \in After(t, r) : phase' = [phase EXCEPT ![t] = p]
  BY DEF Return
<1>7. p \in Phases
  BY <1>6, AfterFacts
<1>8. phase' \in [Threads -> Phases] /\ phase'[t] = p /\ \A x \in Threads \ {t} : phase'[x] = phase[x]
  BY <1>6, <1>7 DEF Types, GoTypes
<1>9. PICK h : h = IF r.ok /\ phase[t] \in {"open", "begin"} THEN [id |-> r.val, born |-> call[t].w] ELSE handle[t]
  OBVIOUS
<1>10. h \in [id : Int, born : Int]
  BY <1>1, <1>9
<1>11. handle' = [handle EXCEPT ![t] = h]
  BY <1>9 DEF Return, Types, GoTypes
<1>12. handle' \in [Threads -> [id : Int, born : Int]] /\ handle'[t] = h /\ \A x \in Threads \ {t} : handle'[x] = handle[x]
  BY <1>10, <1>11 DEF Types, GoTypes
<1> QED BY <1>3, <1>5, <1>6, <1>8, <1>9, <1>12 DEF Alone

(* One thread moves. *)
LEMMA AloneInv ==
    ASSUME ManagerInv, Types, CallInv, NEW t \in Threads, Alone(t), CallOk(t)', UNCHANGED gen,
           t \in Workers => PairOk(t)',
           t \in Writers => \/ phase'[t] = phase[t]
                            \/ /\ phase[t] # "copy" /\ phase'[t] # "open"
                            \/ /\ phase'[t] # "open"
                               /\ \A c \in Workers : WriterOf[c] = t => phase[c] \notin {"begin", "exec"} \cup BatchPhases
    PROVE  CallInv'
<1>1. \A x \in Threads : CallOk(x)'
  BY DEF CallInv, CallOk, Alone
<1>2. ASSUME NEW x \in Workers PROVE PairOk(x)'
  <2>1. x \in Threads /\ WriterOf[x] \in Writers /\ WriterOf[x] \in Threads /\ x \notin Writers /\ WriterOf[x] \notin Workers
    BY ThreadsAssumption
  <2>2. PairOk(x)
    BY DEF CallInv
  <2>3. CASE x = t
    BY <2>3
  <2>4. CASE x # t /\ WriterOf[x] # t
    BY <2>1, <2>2, <2>4 DEF PairOk, Alone
  <2>5. CASE x # t /\ WriterOf[x] = t
    BY <2>1, <2>2, <2>5 DEF PairOk, Alone
  <2> QED BY <2>3, <2>4, <2>5
<1> QED BY <1>1, <1>2 DEF CallInv

(* A call returns. *)
LEMMA ReturnKeeps ==
    ASSUME ManagerInv, Types, CallInv, NEW t \in Threads, NEW r, r.val \in Int, Return(t, r), phase[t] \in Busy,
           r.ok => call[t].w > 0, UNCHANGED gen
    PROVE  CallInv'
<1>1. /\ Alone(t) /\ call'[t].pc = "rest" /\ call'[t].w = 0
      /\ phase'[t] \in After(t, r)
      /\ handle'[t] = IF r.ok /\ phase[t] \in {"open", "begin"} THEN [id |-> r.val, born |-> call[t].w] ELSE handle[t]
  BY ReturnFacts
<1>2. /\ phase'[t] \in Phases \ {"open", "close", "begin", "exec", "wait"}
      /\ phase[t] \in WriterPhases => phase'[t] \in {"copy", "closed"} /\ (phase'[t] = "copy" => r.ok /\ phase[t] = "open")
      /\ phase[t] \in WorkerPhases => phase'[t] \in {"done"} \cup BatchPhases
      /\ phase'[t] \in BatchPhases /\ phase[t] \notin BatchPhases => phase[t] = "begin" /\ r.ok
      /\ phase'[t] = "add2" => Pages # 1
  BY <1>1, AfterFacts
<1>3. CallOk(t) /\ gen \in Nat /\ call[t].w \in Nat
  BY CallTypeFacts DEF CallInv
<1>4. handle'[t].born = IF r.ok /\ phase[t] \in {"open", "begin"} THEN call[t].w ELSE handle[t].born
  BY <1>1
<1>5. handle'[t].born \in 0 .. gen
  BY <1>3, <1>4 DEF CallOk
<1>6. phase'[t] \in BatchPhases \cup {"copy", "close"} => handle'[t].born > 0
  BY <1>2, <1>3, <1>4 DEF CallOk, Busy, WriterPhases, WorkerPhases, BatchPhases, Phases
<1>7. CallOk(t)'
  BY <1>1, <1>2, <1>3, <1>5, <1>6 DEF CallOk, StartPcs, WriterPhases, WorkerPhases
<1>8. ASSUME t \in Workers PROVE PairOk(t)'
  <2>1. WriterOf[t] \in Threads \ {t} /\ phase[t] \in WorkerPhases /\ PairOk(t)
    BY <1>3, <1>8, ThreadsAssumption DEF CallOk, CallInv
  <2>2. phase'[WriterOf[t]] = phase[WriterOf[t]]
    BY <1>1, <2>1 DEF Alone
  <2> QED BY <1>2, <2>1, <2>2 DEF PairOk, Busy, WorkerPhases, BatchPhases
<1>9. ASSUME t \in Writers PROVE phase[t] # "copy" /\ phase'[t] # "open"
  BY <1>2 DEF Busy, BatchPhases
<1> QED BY <1>1, <1>7, <1>8, <1>9, AloneInv

(* A call goes on, or is left, without a change of the thread's work. *)
LEMMA QuietKeeps ==
    ASSUME ManagerInv, Types, CallInv, UNCHANGED <<gen, phase, handle>>, call' \in [Threads -> Calls],
           \A t \in Threads :
               \/ call'[t] = call[t]
               \/ /\ call'[t].pc \in StartPcs => call'[t].op = OpOf(phase[t]) \/ (call'[t].op = "hello" /\ phase[t] = "open")
                  /\ call'[t].pc \notin StartPcs \cup {"rest"} => phase[t] = "open"
                  /\ call'[t].pc = "ensure" => call'[t].op = "open"
                  /\ call'[t].w <= gen /\ (call'[t].pc \in {"write", "await"} => call'[t].w > 0)
    PROVE  CallInv'
<1>1. \A t \in Threads : CallOk(t)'
  BY DEF CallInv, CallOk
<1>2. \A t \in Workers : PairOk(t)'
  BY DEF CallInv, PairOk
<1> QED BY <1>1, <1>2 DEF CallInv

(* The ids stay known. *)
LEMMA IdsKeep ==
    ASSUME IdInv,
           \A t \in Threads : call'[t].n = call[t].n /\ (call'[t].pc \in {"capture", "write"} => call[t].pc \in {"capture", "write"}),
           Types, ManagerInv, in' \in Seq(Messages),
           \A i \in DOMAIN in' : \E j \in DOMAIN in : in'[i].id = in[j].id,
           \A k \in tasks' : k \in Tasks /\ ((\E l \in tasks : k.id = l.id) \/ k.id = input),
           \A r \in out' : r \in Responses /\ (r \in out \/ \E k \in tasks : r.id = k.id),
           input' = NoTarget \/ input' = input \/ (\E i \in DOMAIN in : input' = in[i].id),
           \A k \in tasks' : k.id = input => input # NoTarget,
           \A p \in pending' : p \in pending /\ call'[p.t].pc \in Flying /\ answer'[p.t] = Empty,
           \A t \in Threads : call'[t].pc \in {"capture", "write"} => answer'[t] = answer[t] \/ ~answer'[t].ok
    PROVE  IdInv'
<1> DEFINE Used(id) == id \in Ids /\ UsedId(id)
<1> DEFINE Still(id) == id.n <= call'[id.t].n /\ (id.n = call'[id.t].n => call'[id.t].pc \notin {"capture", "write"})
<1>1. \A id : Used(id) => Still(id)
  <2> SUFFICES ASSUME NEW id \in Ids, UsedId(id) PROVE Still(id)
    OBVIOUS
  <2>1. id.t \in Threads
    BY DEF Ids
  <2> QED BY <2>1 DEF UsedId
<1>2. /\ \A i \in DOMAIN in : in[i].id \in Ids
      /\ \A k \in tasks : k.id \in Ids
      /\ \A r \in out : r.id \in Ids
      /\ input # NoTarget => input \in Ids
  <2>1. \A i \in DOMAIN in : in[i] \in Messages
    BY DEF Types, ServerTypes
  <2> QED BY <2>1 DEF Types, ServerTypes, Messages, Tasks, Responses
<1>3. /\ \A i \in DOMAIN in : Used(in[i].id)
      /\ \A k \in tasks : Used(k.id)
      /\ \A r \in out : Used(r.id)
      /\ input # NoTarget => Used(input)
  BY <1>2 DEF IdInv
<1> HIDE DEF Used
<1>4. \A i \in DOMAIN in' : Still(in'[i].id)
  BY <1>1, <1>3
<1>5. \A k \in tasks' : Still(k.id)
  BY <1>1, <1>3
<1>6. \A r \in out' : Still(r.id)
  BY <1>1, <1>3
<1>7. input' # NoTarget => Still(input')
  BY <1>1, <1>3
<1>8. \A p \in pending' : p.t \in Threads
  BY DEF Types, GoTypes, Ids
<1>9. \A p \in pending' : p.n = call'[p.t].n /\ call'[p.t].pc \in Flying /\ answer'[p.t] = Empty
  BY <1>8 DEF IdInv
<1>10. \A t \in Threads : call'[t].pc \in {"capture", "write"} => ~answer'[t].ok
  BY DEF IdInv
<1> QED BY <1>4, <1>5, <1>6, <1>7, <1>9, <1>10 DEF IdInv, UsedId

-----------------------------------------------------------------------------
(* The steps. *)

(* The JVM works. *)
LEMMA ServerBase == ASSUME BaseInv, ManagerInv', ServerStep PROVE BaseInv'
<1>1. UNCHANGED <<gen, goVars>> /\ Types' /\ ServerOk'
  BY ServerKeeps DEF BaseInv, ServerStep
<1>2. UNCHANGED <<gen, call, phase, handle, answer, pending>>
  BY <1>1 DEF goVars
<1>3. CallInv'
  <2>1. \A t \in Threads : CallOk(t)'
    BY <1>2 DEF BaseInv, CallInv, CallOk
  <2>2. \A t \in Workers : PairOk(t)'
    BY <1>2 DEF BaseInv, CallInv, PairOk
  <2> QED BY <2>1, <2>2 DEF CallInv
<1>4. /\ in' \in Seq(Messages)
      /\ \A i \in DOMAIN in' : \E j \in DOMAIN in : in'[i].id = in[j].id
      /\ \A k \in tasks' : k \in Tasks
      /\ \A r \in out' : r \in Responses /\ (r \in out \/ \E k \in tasks : r.id = k.id)
      /\ input' = NoTarget \/ input' = input \/ (\E i \in DOMAIN in : input' = in[i].id)
      /\ \/ \A k \in tasks' : (\E l \in tasks : k.id = l.id) \/ (k.id = input /\ input # NoTarget)
         \/ Dispatch
  <2>0. in' \in Seq(Messages) /\ (\A k \in tasks' : k \in Tasks) /\ (\A r \in out' : r \in Responses)
    BY <1>1 DEF Types, ServerTypes
  <2>1. CASE Dispatch
    BY <1>1, <2>0, <2>1, DispatchKeeps DEF Dispatch, BaseInv
  <2>2. CASE CancelFuture
    <3>1. \A x \in tasks' : \E k \in tasks : x.id = k.id
      BY <2>2, CancelFutureTasks DEF BaseInv, Same, Kept
    <3>2. input' = in[1].id /\ 1 \in DOMAIN in /\ out' = out
      BY <2>2, CancelFutureTasks DEF CancelFuture, BaseInv
    <3>3. \A i \in DOMAIN in' : \E j \in DOMAIN in : in'[i].id = in[j].id
      BY <2>2, CancelFutureTasks DEF BaseInv
    <3> QED BY <2>0, <3>1, <3>2, <3>3
  <2>3. CASE CancelBatches
    <3>1. \A x \in tasks' : x \in tasks \/ x.id = input
      BY <2>3, CancelBatchesFacts DEF BaseInv
    <3> QED BY <2>0, <2>3, <3>1 DEF CancelBatches
  <2>4. ASSUME NEW k \in tasks, Work(k)
        PROVE  /\ \A i \in DOMAIN in' : \E j \in DOMAIN in : in'[i].id = in[j].id
               /\ \A r \in out' : r \in out \/ \E l \in tasks : r.id = l.id
               /\ input' = input
               /\ \A x \in tasks' : \E l \in tasks : x.id = l.id
    <3>1. WorkEffect(k)
      BY <2>4, WorkEffects DEF BaseInv
    <3>2. \A x \in tasks' : \E l \in tasks : x.id = l.id
      BY <3>1 DEF WorkEffect, TaskEffect, Kept
    <3>3. \A r \in out' : r \in out \/ \E l \in tasks : r.id = l.id
      BY <3>1 DEF WorkEffect, Response
    <3> QED BY <3>1, <3>2, <3>3 DEF WorkEffect
  <2> QED BY <2>0, <2>1, <2>2, <2>3, <2>4 DEF ServerStep, ServerNext
<1>5. IdInv'
  <2>1. CASE Dispatch
    <3>1. tasks' = tasks \cup {NewTask(Head(in))} /\ Head(in) = in[1] /\ 1 \in DOMAIN in
      BY <1>1, <2>1, DispatchKeeps DEF BaseInv
    <3>2. NewTask(Head(in)).id = in[1].id
      BY <3>1 DEF NewTask
    <3>3. \A k \in tasks' : k \in tasks \/ k.id = in[1].id
      BY <3>1, <3>2
    <3>4. \A k \in tasks' : UsedId(k.id)
      BY <3>1, <3>3 DEF BaseInv, IdInv
    <3>5. \A i \in DOMAIN in' : UsedId(in'[i].id)
      BY <1>4 DEF BaseInv, IdInv
    <3>6. \A id : UsedId(id)' <=> UsedId(id)
      BY <1>2 DEF UsedId
    <3> QED BY <1>2, <2>1, <3>4, <3>5, <3>6 DEF BaseInv, IdInv, Dispatch, UsedId
  <2>2. CASE ~Dispatch
    <3>1. \A k \in tasks' : k \in Tasks /\ ((\E l \in tasks : k.id = l.id) \/ k.id = input)
      BY <1>4, <2>2
    <3>2. \A k \in tasks' : k.id = input => input # NoTarget
      <4>1. \A k \in tasks' : k.id # NoTarget
        BY <3>1, ThreadsAssumption DEF Tasks, Ids, NoTarget
      <4> QED BY <4>1
    <3>3. \A p \in pending' : p \in pending /\ call'[p.t].pc \in Flying /\ answer'[p.t] = Empty
      BY <1>2 DEF BaseInv, IdInv
    <3>4. \A t \in Threads : /\ call'[t].n = call[t].n
                             /\ call'[t].pc \in {"capture", "write"} => call[t].pc \in {"capture", "write"}
                             /\ answer'[t] = answer[t]
      BY <1>2
    <3> QED BY <1>4, <3>1, <3>2, <3>3, <3>4, IdsKeep DEF BaseInv
  <2> QED BY <2>1, <2>2
<1> QED BY <1>1, <1>3, <1>5 DEF BaseInv

(* The JVM dies. *)
LEMMA ExitBase == ASSUME BaseInv, ManagerInv', Killed \/ Crash PROVE BaseInv'
<1>1. Types' /\ ServerOk' /\ Exit /\ UNCHANGED <<gen, goVars>>
  BY ExitKeeps DEF BaseInv, Killed, Crash
<1>2. UNCHANGED <<gen, call, phase, handle, answer, pending>>
  BY <1>1 DEF goVars
<1>3. CallInv'
  <2>1. \A t \in Threads : CallOk(t)'
    BY <1>2 DEF BaseInv, CallInv, CallOk
  <2>2. \A t \in Workers : PairOk(t)'
    BY <1>2 DEF BaseInv, CallInv, PairOk
  <2> QED BY <2>1, <2>2 DEF CallInv
<1>4. IdInv'
  BY <1>1, <1>2 DEF BaseInv, IdInv, UsedId, Exit
<1> QED BY <1>1, <1>3, <1>4 DEF BaseInv

(* A thread or the reader moves, the JVM does not; a message may be written. *)
Written(m) ==
    /\ m \in Messages /\ in' = Append(in, m) /\ gen \in live
    /\ m.id.n <= call'[m.id.t].n /\ (m.id.n = call'[m.id.t].n => call'[m.id.t].pc \notin {"capture", "write"})

(* A step of the threads that starts no process, writes at most one message and *)
(* registers nobody keeps the base.                                             *)
LEMMA GoBase ==
    ASSUME BaseInv, ManagerInv', CallInv', GoTypes', UNCHANGED <<gen, live, input, tasks, sessions, batches>>,
           in' = in \/ (\E m : Written(m)), out' \subseteq out,
           \A t \in Threads : call'[t].n = call[t].n /\ (call'[t].pc \in {"capture", "write"} => call[t].pc \in {"capture", "write"}),
           \A p \in pending' : p \in pending /\ call'[p.t].pc \in Flying /\ answer'[p.t] = Empty,
           \A t \in Threads : call'[t].pc \in {"capture", "write"} => answer'[t] = answer[t] \/ ~answer'[t].ok
    PROVE  BaseInv'
<1>1. in' \in Seq(Messages)
  BY DEF BaseInv, Types, ServerTypes, Written
<1>2. Types'
  BY <1>1 DEF BaseInv, Types, ServerTypes
<1>3. ServerOk'
  <2>1. GoOn
    BY DEF GoOn
  <2>2. \A x \in tasks' : TaskOk(x)'
    BY <2>1, TaskStays DEF BaseInv, ServerOk
  <2>3. DeadInv'
    BY DEF BaseInv, ServerOk, DeadInv, Written
  <2> QED BY <2>2, <2>3 DEF BaseInv, ServerOk, BatchOk
<1> DEFINE Still(id) == id.n <= call'[id.t].n /\ (id.n = call'[id.t].n => call'[id.t].pc \notin {"capture", "write"})
<1>4. \A id \in Ids : UsedId(id) => Still(id)
  <2> SUFFICES ASSUME NEW id \in Ids, UsedId(id) PROVE Still(id)
    OBVIOUS
  <2>1. id.t \in Threads
    BY DEF Ids
  <2> QED BY <2>1 DEF UsedId
<1>5. \A i \in DOMAIN in : in[i].id \in Ids /\ UsedId(in[i].id)
  <2>1. \A i \in DOMAIN in : in[i] \in Messages
    BY DEF BaseInv, Types, ServerTypes
  <2> QED BY <2>1 DEF Messages, BaseInv, IdInv
<1>6. \A i \in DOMAIN in' : Still(in'[i].id)
  <2>1. CASE in' = in
    BY <1>4, <1>5, <2>1
  <2>2. ASSUME NEW m, Written(m) PROVE \A i \in DOMAIN in' : Still(in'[i].id)
    <3>1. /\ DOMAIN in' = DOMAIN in \cup {Len(in) + 1} /\ in'[Len(in) + 1] = m
          /\ \A i \in DOMAIN in : in'[i] = in[i]
      BY <2>2, SeqAppend DEF Written, BaseInv, Types, ServerTypes
    <3>2. Still(m.id)
      BY <2>2 DEF Written
    <3> QED BY <1>4, <1>5, <3>1, <3>2
  <2> QED BY <2>1, <2>2
<1>7. \A k \in tasks' : Still(k.id)
  BY <1>4 DEF BaseInv, Types, ServerTypes, Tasks, IdInv
<1>8. \A r \in out' : Still(r.id)
  BY <1>4 DEF BaseInv, Types, ServerTypes, Responses, IdInv
<1>9. input' # NoTarget => Still(input')
  BY <1>4 DEF BaseInv, Types, ServerTypes, IdInv
<1>10. \A p \in pending' : p.t \in Threads
  BY DEF BaseInv, Types, GoTypes, Ids
<1>11. \A p \in pending' : p.n = call'[p.t].n /\ call'[p.t].pc \in Flying /\ answer'[p.t] = Empty
  BY <1>10 DEF BaseInv, IdInv
<1>12. \A t \in Threads : call'[t].pc \in {"capture", "write"} => ~answer'[t].ok
  BY DEF BaseInv, IdInv
<1>13. IdInv'
  BY <1>6, <1>7, <1>8, <1>9, <1>11, <1>12 DEF IdInv, UsedId
<1> QED BY <1>2, <1>3, <1>13 DEF BaseInv

(* The call returns to its caller, with nothing left of it at the manager. *)
LEMMA ReturnBase ==
    ASSUME BaseInv, ManagerInv', NEW t \in Threads, NEW r, r.val \in Int, Return(t, r), phase[t] \in Busy,
           r.ok => call[t].w > 0, UNCHANGED <<gen, live, out, input, tasks, sessions, batches, answer>>,
           in' = in \/ (\E m : Written(m)), pending' \subseteq pending, Id(t) \notin pending'
    PROVE  BaseInv'
<1>1. CallInv'
  BY ReturnKeeps DEF BaseInv
<1>2. /\ Alone(t) /\ call'[t].pc = "rest" /\ call'[t].n = call[t].n
      /\ phase' \in [Threads -> Phases] /\ handle' \in [Threads -> [id : Int, born : Int]]
  BY ReturnFacts DEF BaseInv
<1>3. GoTypes'
  BY <1>2 DEF BaseInv, Types, GoTypes
<1>4. \A p \in pending' : p \in pending /\ call'[p.t].pc \in Flying /\ answer'[p.t] = Empty
  <2> TAKE p \in pending'
  <2>1. p \in pending /\ p \in Ids /\ p.n = call[p.t].n /\ call[p.t].pc \in Flying /\ answer[p.t] = Empty
    BY DEF BaseInv, IdInv, Types, GoTypes
  <2>2. p.t # t
    BY <2>1 DEF Id, Ids
  <2>3. p.t \in Threads \ {t}
    BY <2>1, <2>2 DEF Ids
  <2> QED BY <1>2, <2>1, <2>3 DEF Alone
<1>5. \A x \in Threads : call'[x].n = call[x].n /\ (call'[x].pc \in {"capture", "write"} => call[x].pc \in {"capture", "write"})
  BY <1>2 DEF Alone
<1> QED BY <1>1, <1>3, <1>4, <1>5, GoBase

(* The calls go on, or are left, with the threads' work unchanged. *)
LEMMA QuietBase ==
    ASSUME BaseInv, ManagerInv', UNCHANGED <<gen, live, out, input, tasks, sessions, batches, phase, handle>>,
           in' = in \/ (\E m : Written(m)), GoTypes',
           \A t \in Threads :
               \/ call'[t] = call[t]
               \/ /\ call'[t].pc \in StartPcs => call'[t].op = OpOf(phase[t]) \/ (call'[t].op = "hello" /\ phase[t] = "open")
                  /\ call'[t].pc \notin StartPcs \cup {"rest"} => phase[t] = "open"
                  /\ call'[t].pc = "ensure" => call'[t].op = "open"
                  /\ call'[t].w <= gen /\ (call'[t].pc \in {"write", "await"} => call'[t].w > 0)
                  /\ call'[t].n = call[t].n /\ (call'[t].pc \in {"capture", "write"} => call[t].pc \in {"capture", "write"}),
           \A p \in pending' : p \in pending /\ call'[p.t].pc \in Flying /\ answer'[p.t] = Empty,
           \A t \in Threads : call'[t].pc \in {"capture", "write"} => answer'[t] = answer[t] \/ ~answer'[t].ok
    PROVE  BaseInv'
<1>1. call' \in [Threads -> Calls]
  BY DEF ManagerInv, StarterInv
<1>2. CallInv'
  BY <1>1, QuietKeeps DEF BaseInv
<1> QED BY <1>2, GoBase

(* One call goes on. *)
LEMMA MoveBase ==
    ASSUME BaseInv, ManagerInv', UNCHANGED <<gen, live, out, input, tasks, sessions, batches, phase, handle, answer>>,
           in' = in \/ (\E m : Written(m)), NEW t \in Threads, NEW c, call' = [call EXCEPT ![t] = c],
           c.pc \in StartPcs => c.op = OpOf(phase[t]) \/ (c.op = "hello" /\ phase[t] = "open"),
           c.pc \notin StartPcs \cup {"rest"} => phase[t] = "open", c.pc = "ensure" => c.op = "open",
           c.w <= gen, c.pc \in {"write", "await"} => c.w > 0, c.n = call[t].n,
           c.pc \in {"capture", "write"} => call[t].pc \in {"capture", "write"},
           pending' \subseteq pending, c.pc \in Flying \/ Id(t) \notin pending'
    PROVE  BaseInv'
<1>1. \A x \in Threads : call'[x] = IF x = t THEN c ELSE call[x]
  BY DEF BaseInv, ManagerInv, StarterInv
<1>2. GoTypes'
  BY DEF BaseInv, Types, GoTypes
<1>3. \A p \in pending' : p \in pending /\ call'[p.t].pc \in Flying /\ answer'[p.t] = Empty
  <2> TAKE p \in pending'
  <2>1. p \in pending /\ p \in Ids /\ p.n = call[p.t].n /\ call[p.t].pc \in Flying /\ answer[p.t] = Empty
    BY DEF BaseInv, IdInv, Types, GoTypes
  <2>2. p.t = t => p = Id(t)
    BY <2>1 DEF Id, Ids
  <2>3. p.t \in Threads
    BY <2>1 DEF Ids
  <2> QED BY <1>1, <2>1, <2>2, <2>3
<1> QED BY <1>1, <1>2, <1>3, QuietBase

(* A thread that does not wait for an answer is not in the map. *)
LEMMA NotPending ==
    ASSUME BaseInv, NEW t \in Threads, call[t].pc \notin Flying \/ answer[t] # Empty
    PROVE  Id(t) \notin pending
<1>1. \A p \in pending : call[p.t].pc \in Flying /\ answer[p.t] = Empty
  BY DEF BaseInv, IdInv
<1> QED BY <1>1 DEF Id

(* What the base is made of. *)
LEMMA Base == ASSUME BaseInv PROVE ManagerInv /\ Types /\ ServerOk /\ CallInv /\ IdInv
BY DEF BaseInv

(* A thread starts the next operation. *)
LEMMA WorkBase == ASSUME BaseInv, ManagerInv', NEW t \in Threads, StartWork(t) \/ StartClose(t) PROVE BaseInv'
<1>1. UNCHANGED <<gen, live, in, out, input, tasks, sessions, batches, call, handle, answer, pending>>
  BY DEF StartWork, StartClose, serverVars
<1>2. phase[t] \notin Busy /\ phase[t] \in Phases
  BY Base, CallTypeFacts DEF StartWork, StartClose, Busy, BatchPhases
<1>3. call[t].pc = "rest" /\ CallOk(t)
  BY <1>2, Base, BusyThread DEF CallInv
<1>4. PICK p \in {"done", "begin", "exec", "close"} :
        /\ phase' = [phase EXCEPT ![t] = p]
        /\ p = "close" => t \in Writers /\ phase[t] = "copy" /\ \A c \in Workers : WriterOf[c] = t => phase[c] = "done"
        /\ p # "close" => t \in Workers /\ phase[t] = "wait" /\ phase[WriterOf[t]] \in {"copy", "closed"}
        /\ p \in {"begin", "exec"} => phase[WriterOf[t]] = "copy"
  BY DEF StartWork, StartClose
<1>5. p \in Phases
  BY <1>4 DEF Phases
<1>6. phase' \in [Threads -> Phases] /\ \A x \in Threads : phase'[x] = IF x = t THEN p ELSE phase[x]
  BY <1>4, <1>5 DEF BaseInv, Types, GoTypes
<1>7. Alone(t)
  BY <1>1, <1>6 DEF Alone
<1>8. t \in Workers => WriterOf[t] \in Threads /\ WriterOf[t] # t
  BY ThreadsAssumption
<1>9. CallOk(t)'
  BY <1>1, <1>3, <1>4, <1>6, ThreadsAssumption DEF CallOk, StartPcs, WriterPhases, WorkerPhases, BatchPhases
<1>10. t \in Workers => PairOk(t)'
  BY <1>4, <1>6, <1>8, ThreadsAssumption DEF PairOk, BatchPhases
<1>11. CallInv'
  BY <1>1, <1>4, <1>6, <1>7, <1>9, <1>10, Base, AloneInv, ThreadsAssumption DEF BatchPhases
<1>12. GoTypes'
  BY <1>1, <1>6 DEF BaseInv, Types, GoTypes
<1>13. \A q \in pending' : q \in pending /\ call'[q.t].pc \in Flying /\ answer'[q.t] = Empty
  BY <1>1 DEF BaseInv, IdInv
<1> QED BY <1>1, <1>11, <1>12, <1>13, GoBase

(* A call begins: it joins a start, or finds that it cannot. *)
LEMMA BeginBase == ASSUME BaseInv, ManagerInv', NEW t \in Threads, Begin(t) \/ EnsureJoin(t) \/ EnsureFails(t) PROVE BaseInv'
<1>1. UNCHANGED <<gen, live, in, out, input, tasks, sessions, batches, phase, handle, answer, pending>>
  BY DEF Begin, EnsureJoin, EnsureFails, serverVars
<1>2. call[t] \in Calls /\ call \in [Threads -> Calls] /\ CallOk(t) /\ call[t].pc \in {"rest", "ensure"}
  BY Base, CallTypeFacts DEF CallInv, Begin, EnsureJoin, EnsureFails
<1>3. PICK c \in Calls :
        /\ call' = [call EXCEPT ![t] = c] /\ c.pc \in {"ensure", "join", "register", "nostart"}
        /\ c.op = "open" /\ c.w = call[t].w /\ c.n = call[t].n
  <2>1. CASE Begin(t)
    <3>1. PICK c : c = [call[t] EXCEPT !.op = "open", !.pc = "ensure"]
      OBVIOUS
    <3>2. c \in Calls /\ c.pc = "ensure" /\ c.op = "open" /\ c.w = call[t].w /\ c.n = call[t].n
      BY <1>2, <3>1 DEF Calls, Pcs, Ops
    <3> QED BY <2>1, <3>1, <3>2 DEF Begin
  <2>2. CASE EnsureJoin(t) \/ EnsureFails(t)
    <3>1. PICK pc \in {"join", "register", "nostart"} : call' = [call EXCEPT ![t].pc = pc]
      BY <2>2 DEF EnsureJoin, EnsureFails
    <3>2. PICK c : c = [call[t] EXCEPT !.pc = pc]
      OBVIOUS
    <3>3. c \in Calls /\ c.pc = pc /\ c.op = call[t].op /\ c.w = call[t].w /\ c.n = call[t].n
      BY <1>2, <3>2 DEF Calls, Pcs, StartPcs
    <3>4. call[t].op = "open"
      BY <1>2, <2>2 DEF EnsureJoin, EnsureFails, CallOk
    <3> QED BY <1>2, <3>1, <3>2, <3>3, <3>4
  <2> QED BY <2>1, <2>2
<1>4. phase[t] = "open" /\ Id(t) \notin pending
  BY <1>2, NotPending DEF Begin, EnsureJoin, EnsureFails, CallOk, StartPcs, Flying
<1> QED BY <1>1, <1>2, <1>3, <1>4, MoveBase DEF CallOk, OpOf, StartPcs, Flying

(* The error is an answer without a value. *)
LEMMA ErrorVal == Error.val \in Int /\ ~Error.ok
BY DEF Error

(* A call whose start failed returns the error. *)
LEMMA FailedBase == ASSUME BaseInv, ManagerInv', NEW t \in Threads, StartFailed(t) \/ JoinDone(t) PROVE BaseInv'
<1>1. UNCHANGED <<gen, live, in, out, input, tasks, sessions, batches, answer, pending>>
  BY DEF StartFailed, JoinDone, serverVars
<1>2. Return(t, Error) /\ call[t].pc \in {"failed", "join"}
  BY DEF StartFailed, JoinDone
<1>3. phase[t] \in Busy /\ Id(t) \notin pending
  BY <1>2, Base, BusyThread, NotPending DEF Flying
<1> QED BY <1>1, <1>2, <1>3, ErrorVal, ReturnBase

(* A call checks that the process runs. *)
LEMMA CheckRunningBase == ASSUME BaseInv, ManagerInv', NEW t \in Threads, CheckRunning(t) PROVE BaseInv'
<1>1. UNCHANGED <<gen, live, in, out, input, tasks, sessions, batches, answer, pending>>
  BY DEF CheckRunning, serverVars
<1>2. phase[t] \in Busy /\ Id(t) \notin pending /\ CallOk(t) /\ call[t] \in Calls
  BY Base, CallTypeFacts, NotPending DEF CheckRunning, Flying, Busy, BatchPhases, CallInv
<1>3. CASE cmd = 0
  <2>1. Return(t, Error)
    BY <1>3 DEF CheckRunning
  <2> QED BY <1>1, <1>2, <2>1, ErrorVal, ReturnBase
<1>4. CASE cmd # 0
  <2>1. PICK op \in Ops : op = OpOf(phase[t])
    BY DEF CheckRunning, OpOf, Ops
  <2>2. PICK c : c = [call[t] EXCEPT !.op = op, !.pc = "register"]
    OBVIOUS
  <2>3. c \in Calls /\ c.op = op /\ c.pc = "register" /\ c.w = call[t].w /\ c.n = call[t].n
    BY <1>2, <2>2 DEF Calls, Pcs, StartPcs
  <2>4. call' = [call EXCEPT ![t] = c] /\ UNCHANGED <<phase, handle>>
    BY <1>4, <2>1, <2>2 DEF CheckRunning
  <2> QED BY <1>1, <1>2, <2>1, <2>3, <2>4, MoveBase DEF CallOk, StartPcs
<1> QED BY <1>3, <1>4

(* The deferred end of ensureStarted: the starter and the joiners go on or have failed. *)
LEMMA JoinedFacts ==
    ASSUME BaseInv, NEW t \in Threads, NEW r, Joined(t, r), phase[t] = "open"
    PROVE  \A x \in Threads :
               \/ call'[x] = call[x]
               \/ /\ phase[x] = "open" /\ (x = t \/ call[x].pc = "join")
                  /\ call'[x].op = "open" /\ call'[x].pc \in {"register", "failed"}
                  /\ call'[x].w = call[x].w /\ call'[x].n = call[x].n
<1> TAKE x \in Threads
<1>1. call[x] \in Calls /\ CallOk(x)
  BY Base, CallTypeFacts DEF CallInv
<1>2. CASE x = t \/ call[x].pc = "join"
  <2>1. PICK pc \in {"register", "failed"} : pc = IF r.ok THEN "register" ELSE "failed"
    OBVIOUS
  <2>2. PICK c : c = [call[x] EXCEPT !.op = "open", !.pc = pc]
    OBVIOUS
  <2>3. c.op = "open" /\ c.pc = pc /\ c.w = call[x].w /\ c.n = call[x].n
    BY <1>1, <2>2 DEF Calls
  <2>4. call'[x] = c
    BY <1>2, <2>1, <2>2 DEF Joined
  <2>5. phase[x] = "open"
    BY <1>1, <1>2 DEF CallOk, StartPcs
  <2> QED BY <1>2, <2>3, <2>4, <2>5
<1>3. CASE ~(x = t \/ call[x].pc = "join")
  BY <1>3 DEF Joined
<1> QED BY <1>2, <1>3

(* The start of the process is joined: the call of the thread goes on or *)
(* returns.                                                              *)
LEMMA JoinedBase ==
    ASSUME BaseInv, ManagerInv', NEW t \in Threads, NEW r, Joined(t, r), phase[t] = "open",
           UNCHANGED <<gen, live, out, input, tasks, sessions, batches, answer, phase, handle>>,
           in' = in \/ (\E m : Written(m)), pending' \subseteq pending, Id(t) \notin pending'
    PROVE  BaseInv'
<1>1. \A x \in Threads :
         \/ call'[x] = call[x]
         \/ /\ phase[x] = "open" /\ (x = t \/ call[x].pc = "join")
            /\ call'[x].op = "open" /\ call'[x].pc \in {"register", "failed"}
            /\ call'[x].w = call[x].w /\ call'[x].n = call[x].n
  BY JoinedFacts
<1>2. GoTypes'
  BY DEF BaseInv, Types, GoTypes
<1>3. \A p \in pending' : p \in pending /\ call'[p.t].pc \in Flying /\ answer'[p.t] = Empty
  <2> TAKE p \in pending'
  <2>1. p \in pending /\ p \in Ids /\ p.n = call[p.t].n /\ call[p.t].pc \in Flying /\ answer[p.t] = Empty
    BY DEF BaseInv, IdInv, Types, GoTypes
  <2>2. p.t \in Threads /\ p.t # t
    BY <2>1 DEF Id, Ids
  <2>3. call[p.t].pc # "join"
    BY <2>1 DEF Flying
  <2> QED BY <1>1, <2>1, <2>2, <2>3
<1>4. \A x \in Threads : call[x].w <= gen
  BY DEF BaseInv, CallInv, CallOk
<1> QED BY <1>1, <1>2, <1>3, <1>4, QuietBase DEF StartPcs, OpOf

(* The start of the process fails. *)
LEMMA StartupFailsBase == ASSUME BaseInv, ManagerInv', NEW t \in Threads, StartupFails(t) PROVE BaseInv'
<1>1. UNCHANGED <<gen, live, in, out, input, tasks, sessions, batches, answer, phase, handle, pending>> /\ Joined(t, Error)
  BY DEF StartupFails, serverVars
<1>2. phase[t] = "open" /\ Id(t) \notin pending
  <2>1. call[t].pc \in {"nostart", "reaped"}
    BY DEF StartupFails
  <2> QED BY <2>1, Base, NotPending DEF CallInv, CallOk, StartPcs, Flying
<1> QED BY <1>1, <1>2, JoinedBase

(* The call ends, with nothing left of it at the manager. *)
LEMMA FinishBase ==
    ASSUME BaseInv, ManagerInv', NEW t \in Threads, NEW r, r.val \in Int, Finish(t, r), call[t].pc \in StartPcs,
           r.ok => call[t].w > 0, UNCHANGED <<gen, live, out, input, tasks, sessions, batches, answer>>,
           in' = in \/ (\E m : Written(m)), pending' \subseteq pending, Id(t) \notin pending'
    PROVE  BaseInv'
<1>1. phase[t] \in Busy /\ CallOk(t) /\ call[t] \in Calls
  BY Base, BusyThread, CallTypeFacts DEF StartPcs, CallInv
<1>2. CASE call[t].op # "hello"
  BY <1>1, <1>2, ReturnBase DEF Finish
<1>3. CASE call[t].op = "hello" /\ r.ok
  <2>1. phase[t] = "open"
    BY <1>1, <1>3 DEF CallOk, OpOf, Busy, BatchPhases
  <2> QED BY <1>3, <2>1, JoinedBase DEF Finish
<1>4. CASE call[t].op = "hello" /\ ~r.ok
  <2>1. phase[t] = "open"
    BY <1>1, <1>4 DEF CallOk, OpOf, Busy, BatchPhases
  <2>2. PICK c : c = [call[t] EXCEPT !.pc = "kill"]
    OBVIOUS
  <2>3. c.pc = "kill" /\ c.w = call[t].w /\ c.n = call[t].n
    BY <1>1, <2>2 DEF Calls
  <2>4. call' = [call EXCEPT ![t] = c] /\ UNCHANGED <<phase, handle>>
    BY <1>4, <2>2, Base DEF Finish, ManagerInv, StarterInv
  <2> QED BY <1>1, <2>1, <2>3, <2>4, MoveBase DEF StartPcs, CallOk
<1> QED BY <1>2, <1>3, <1>4

(* A call captures the process to which it will write. *)
LEMMA CaptureBase == ASSUME BaseInv, ManagerInv', NEW t \in Threads, Capture(t) PROVE BaseInv'
<1>1. UNCHANGED <<gen, live, in, out, input, tasks, sessions, batches, answer>> /\ call[t].pc = "capture"
  BY DEF Capture, serverVars
<1>2. CASE cmd = 0
  <2>1. Finish(t, Error) /\ pending' \subseteq pending /\ Id(t) \notin pending'
    BY <1>2 DEF Capture
  <2> QED BY <1>1, <2>1, ErrorVal, FinishBase DEF StartPcs
<1>3. CASE cmd # 0
  <2>1. call[t] \in Calls /\ cmd \in Nat /\ cmd <= gen /\ cmd > 0 /\ CallOk(t)
    BY <1>3, Base, CallTypeFacts DEF ManagerInv, ProcessInv, CallInv
  <2>2. PICK c : c = [call[t] EXCEPT !.pc = "write", !.w = cmd]
    OBVIOUS
  <2>3. c.pc = "write" /\ c.w = cmd /\ c.n = call[t].n /\ c.op = call[t].op
    BY <2>1, <2>2 DEF Calls
  <2>4. call' = [call EXCEPT ![t] = c] /\ UNCHANGED <<phase, handle, pending>>
    BY <1>3, <2>2 DEF Capture
  <2> QED BY <1>1, <2>1, <2>3, <2>4, MoveBase DEF StartPcs, CallOk, Flying
<1> QED BY <1>2, <1>3

(* A call receives its answer. *)
LEMMA ReceiveBase == ASSUME BaseInv, ManagerInv', NEW t \in Threads, Receive(t) PROVE BaseInv'
<1>1. /\ UNCHANGED <<gen, live, in, out, input, tasks, sessions, batches, answer, pending>>
      /\ call[t].pc = "await" /\ answer[t] # Empty /\ Finish(t, answer[t])
  BY DEF Receive, serverVars
<1>2. answer[t].val \in Int /\ call[t].w > 0
  BY <1>1, Base, CallTypeFacts DEF CallInv, CallOk
<1>3. Id(t) \notin pending
  BY <1>1, NotPending
<1> QED BY <1>1, <1>2, <1>3, FinishBase DEF StartPcs

(* The context of a call is done. *)
LEMMA CtxDoneBase == ASSUME BaseInv, ManagerInv', NEW t \in Threads, CtxDone(t) PROVE BaseInv'
<1>1. /\ UNCHANGED <<gen, live, in, out, input, tasks, sessions, batches, answer, phase, handle>>
      /\ call[t].pc = "await" /\ pending' = pending \ {Id(t)}
  BY DEF CtxDone
<1>2. call[t] \in Calls /\ CallOk(t)
  BY Base, CallTypeFacts DEF CallInv
<1>3. PICK c : c = [call[t] EXCEPT !.pc = "cancel"]
  OBVIOUS
<1>4. c.pc = "cancel" /\ c.w = call[t].w /\ c.n = call[t].n /\ c.op = call[t].op
  BY <1>2, <1>3 DEF Calls
<1>5. call' = [call EXCEPT ![t] = c]
  BY <1>3, Base DEF CtxDone, ManagerInv, StarterInv
<1> QED BY <1>1, <1>2, <1>4, <1>5, MoveBase DEF StartPcs, CallOk, Flying

(* What a call writes. *)
LEMMA TargetTypes ==
    ASSUME BaseInv, NEW t \in Threads, call[t].pc \in StartPcs
    PROVE  /\ Target(t).id \in Int /\ Target(t).born \in Int /\ <<t, phase[t]>> \in Rows /\ Id(t) \in Ids
           /\ call[t].op \in Ops \cup {"hello"}
           /\ call[t].op \in {"begin", "exec"} => t \in Workers /\ WriterOf[t] \in Writers /\ Target(t) = handle[WriterOf[t]]
           /\ call[t].op \in {"lob", "add", "commit", "abort"} => t \in Workers /\ Target(t) = handle[t]
           /\ call[t].op = "close" => t \in Writers /\ Target(t) = handle[t]
           /\ call[t].op \in {"hello", "open"} => t \in Writers /\ Target(t) = NoHandle
<1>1. /\ call[t] \in Calls /\ phase[t] \in Busy /\ CallOk(t) /\ phase[t] \in Phases /\ call[t].n \in Nat
      /\ \A x \in Threads : handle[x].id \in Int /\ handle[x].born \in Int
  BY Base, CallTypeFacts, BusyThread DEF CallInv, StartPcs
<1>2. call[t].op = OpOf(phase[t]) \/ (call[t].op = "hello" /\ phase[t] = "open")
  BY <1>1 DEF CallOk
<1>3. t \in Writers \/ t \in Workers
  BY ThreadsAssumption
<1>4. /\ call[t].op \in Ops \cup {"hello"}
      /\ call[t].op \in {"begin", "exec", "lob", "add", "commit", "abort"} => t \in Workers
      /\ call[t].op \in {"close", "hello", "open"} => t \in Writers
  BY <1>1, <1>2, <1>3 DEF OpOf, Busy, BatchPhases, Ops, CallOk, WriterPhases, WorkerPhases
<1>5. t \in Workers => WriterOf[t] \in Writers /\ WriterOf[t] \in Threads
  BY ThreadsAssumption
<1>6. Target(t) = handle[WriterOf[t]] \/ Target(t) = handle[t] \/ Target(t) = NoHandle
  BY DEF Target
<1>7. Target(t).id \in Int /\ Target(t).born \in Int
  BY <1>1, <1>4, <1>5 DEF Target, NoHandle
<1>8. <<t, phase[t]>> \in Rows /\ Id(t) \in Ids
  BY <1>1 DEF Rows, Id, Ids
<1> QED BY <1>4, <1>5, <1>7, <1>8 DEF Target

(* A request is a message. *)
LEMMA RequestType ==
    ASSUME BaseInv, NEW t \in Threads, call[t].pc \in StartPcs
    PROVE  /\ Request(t) \in Messages /\ Request(t).id = Id(t) /\ Request(t).op = call[t].op /\ Request(t).arg = Target(t).id
           /\ Request(t).born = Target(t).born /\ Request(t).row = <<t, phase[t]>>
BY TargetTypes DEF Request, Message, Messages

(* A call writes its request into the pipe. *)
LEMMA WriteBase == ASSUME BaseInv, ManagerInv', NEW t \in Threads, Write(t) PROVE BaseInv'
<1>1. UNCHANGED <<gen, live, out, input, tasks, sessions, batches, answer>> /\ call[t].pc = "write"
  BY DEF Write
<1>2. CASE call[t].w \notin live \cup adrift
  <2>1. Finish(t, Error) /\ pending' \subseteq pending /\ Id(t) \notin pending' /\ in' = in
    BY <1>2 DEF Write
  <2> QED BY <1>1, <2>1, ErrorVal, FinishBase DEF StartPcs
<1>3. CASE call[t].w \in live \cup adrift
  <2>1. call[t] \in Calls /\ CallOk(t) /\ call[t].n \in Nat
    BY Base, CallTypeFacts DEF CallInv
  <2>2. PICK c : c = [call[t] EXCEPT !.pc = "await"]
    OBVIOUS
  <2>3. c.pc = "await" /\ c.w = call[t].w /\ c.n = call[t].n /\ c.op = call[t].op
    BY <2>1, <2>2 DEF Calls
  <2>4. call' = [call EXCEPT ![t] = c] /\ UNCHANGED <<phase, handle, pending>>
    BY <1>3, <2>2, Base DEF Write, ManagerInv, StarterInv
  <2>5. ASSUME call[t].w \in live PROVE Written(Request(t))
    <3>1. call'[t] = c
      BY <2>4, Base DEF ManagerInv, StarterInv
    <3>2. in' = Append(in, Request(t))
      BY <2>5 DEF Write
    <3>3. gen \in live
      BY <2>5, Base DEF ManagerInv, ProcessInv
    <3>4. Request(t) \in Messages /\ Request(t).id = Id(t)
      BY <1>1, RequestType DEF StartPcs
    <3>5. Id(t).t = t /\ Id(t).n = call[t].n
      BY DEF Id
    <3> QED BY <2>1, <2>3, <3>1, <3>2, <3>3, <3>4, <3>5 DEF Written
  <2>6. in' = in \/ Written(Request(t))
    BY <1>3, <2>5 DEF Write
  <2> QED BY <1>1, <2>1, <2>3, <2>4, <2>6, MoveBase DEF StartPcs, CallOk, Flying
<1> QED BY <1>2, <1>3

Cancellation(t) == Message(Id(t), "cancel", 0, 0, <<>>)

(* A cancellation is a message. *)
LEMMA CancellationType ==
    ASSUME BaseInv, NEW t \in Threads
    PROVE  /\ Cancellation(t) \in Messages /\ Cancellation(t).id = Id(t) /\ Cancellation(t).op = "cancel"
<1>1. Id(t) \in Ids
  BY Base, CallTypeFacts DEF Id, Ids
<1> QED BY <1>1 DEF Cancellation, Message, Messages, Rows

(* After its end a call is not about to be written. *)
LEMMA FinishPc ==
    ASSUME BaseInv, NEW t \in Threads, NEW r, r.val \in Int, Finish(t, r), call[t].pc \in StartPcs
    PROVE  call'[t].pc \notin {"capture", "write", "await", "cancel"} /\ call'[t].n = call[t].n
<1>1. phase[t] \in Busy /\ CallOk(t) /\ call[t] \in Calls
  BY Base, BusyThread, CallTypeFacts DEF StartPcs, CallInv
<1>2. CASE call[t].op # "hello"
  BY <1>1, <1>2, Base, ReturnFacts DEF Finish
<1>3. CASE call[t].op = "hello" /\ r.ok
  <2>1. phase[t] = "open"
    BY <1>1, <1>3 DEF CallOk, OpOf, Busy, BatchPhases
  <2>2. Joined(t, r)
    BY <1>3 DEF Finish
  <2>3. PICK pc \in {"register", "failed"} : call'[t] = [call[t] EXCEPT !.op = "open", !.pc = pc]
    BY <2>2 DEF Joined
  <2> QED BY <1>1, <2>3 DEF Calls
<1>4. CASE call[t].op = "hello" /\ ~r.ok
  <2>1. call'[t] = [call[t] EXCEPT !.pc = "kill"]
    BY <1>4, Base DEF Finish, ManagerInv, StarterInv
  <2> QED BY <1>1, <2>1 DEF Calls
<1> QED BY <1>2, <1>3, <1>4

(* A call writes its cancellation into the pipe. *)
LEMMA SendCancelBase == ASSUME BaseInv, ManagerInv', NEW t \in Threads, SendCancel(t) PROVE BaseInv'
<1>1. /\ UNCHANGED <<gen, live, out, input, tasks, sessions, batches, answer, pending>>
      /\ call[t].pc = "cancel" /\ Finish(t, Error)
  BY DEF SendCancel
<1>2. Id(t) \notin pending
  BY <1>1, NotPending DEF Flying
<1>3. call'[t].pc \notin {"capture", "write"} /\ call'[t].n = call[t].n /\ call[t].n \in Nat
  BY <1>1, ErrorVal, FinishPc, Base, CallTypeFacts DEF StartPcs
<1>4. in' = in \/ Written(Cancellation(t))
  <2>1. CASE cmd \in live
    <3>1. in' = Append(in, Cancellation(t))
      BY <2>1 DEF SendCancel, Cancellation
    <3>2. gen \in live
      BY <2>1, Base DEF ManagerInv, ProcessInv
    <3>3. Id(t).t = t /\ Id(t).n = call[t].n
      BY DEF Id
    <3> QED BY <1>3, <3>1, <3>2, <3>3, CancellationType DEF Written
  <2>2. CASE cmd \notin live
    BY <2>2 DEF SendCancel
  <2> QED BY <2>1, <2>2
<1> QED BY <1>1, <1>2, <1>4, ErrorVal, FinishBase DEF StartPcs

(* A call registers its id with a number nobody had. *)
LEMMA RegisterBase == ASSUME BaseInv, ManagerInv', NEW t \in Threads, Register(t) PROVE BaseInv'
<1>1. /\ UNCHANGED <<gen, live, in, out, input, tasks, sessions, batches, phase, handle>> /\ call[t].pc = "register"
      /\ pending' = pending \cup {[t |-> t, n |-> call[t].n + 1]} /\ answer' = [answer EXCEPT ![t] = Empty]
  BY DEF Register, serverVars
<1>2. call[t] \in Calls /\ CallOk(t) /\ call[t].n \in Nat /\ call \in [Threads -> Calls]
  BY Base, CallTypeFacts DEF CallInv
<1>3. PICK n \in Nat : n = call[t].n + 1
  BY <1>2
<1>4. PICK c : c = [call[t] EXCEPT !.n = n, !.pc = "capture"]
  OBVIOUS
<1>5. c \in Calls /\ c.pc = "capture" /\ c.w = call[t].w /\ c.n = n /\ c.op = call[t].op
  BY <1>2, <1>4 DEF Calls, Pcs, StartPcs
<1>6. call' = [call EXCEPT ![t] = c]
  BY <1>2, <1>3, <1>4 DEF Register
<1>7. call' \in [Threads -> Calls] /\ \A x \in Threads : call'[x] = IF x = t THEN c ELSE call[x]
  BY <1>2, <1>5, <1>6
<1>8. CallInv'
  BY <1>1, <1>2, <1>5, <1>7, Base, QuietKeeps DEF CallOk, StartPcs
<1>9. Empty \in [ok : BOOLEAN, val : Int] /\ ~Empty.ok
  BY DEF Empty
<1>10. answer' \in [Threads -> [ok : BOOLEAN, val : Int]] /\ \A x \in Threads : answer'[x] = IF x = t THEN Empty ELSE answer[x]
  BY <1>1, <1>9, Base DEF Types, GoTypes
<1>11. pending' \subseteq Ids
  BY <1>1, <1>3, Base DEF Types, GoTypes, Ids
<1>12. Types'
  BY <1>1, <1>10, <1>11, Base DEF Types, ServerTypes, GoTypes
<1>13. ServerOk'
  <2>1. GoOn
    BY <1>1 DEF GoOn
  <2>2. \A x \in tasks' : TaskOk(x)'
    BY <1>1, <2>1, TaskStays, Base DEF ServerOk
  <2> QED BY <1>1, <2>2, Base DEF ServerOk, BatchOk, DeadInv
<1> DEFINE Still(id) == id.n <= call'[id.t].n /\ (id.n = call'[id.t].n => call'[id.t].pc \notin {"capture", "write"})
<1>14. \A id \in Ids : UsedId(id) => Still(id)
  <2> SUFFICES ASSUME NEW id \in Ids, UsedId(id) PROVE Still(id)
    OBVIOUS
  <2>1. id.t \in Threads /\ id.n \in Nat
    BY DEF Ids
  <2> QED BY <1>2, <1>3, <1>5, <1>7, <2>1 DEF UsedId
<1>15. \A i \in DOMAIN in' : Still(in'[i].id)
  <2>1. \A i \in DOMAIN in : in[i] \in Messages
    BY Base DEF Types, ServerTypes
  <2> QED BY <1>1, <1>14, <2>1, Base DEF Messages, IdInv
<1>16. /\ \A k \in tasks' : Still(k.id)
       /\ \A r \in out' : Still(r.id)
       /\ input' # NoTarget => Still(input')
  BY <1>1, <1>14, Base DEF Types, ServerTypes, Tasks, Responses, IdInv
<1>17. \A p \in pending' : p.n = call'[p.t].n /\ call'[p.t].pc \in Flying /\ answer'[p.t] = Empty
  <2> TAKE p \in pending'
  <2>1. CASE p \in pending
    <3>1. p \in Ids /\ p.n = call[p.t].n /\ call[p.t].pc \in Flying /\ answer[p.t] = Empty
      BY <2>1, Base DEF IdInv, Types, GoTypes
    <3>2. p.t \in Threads /\ p.t # t
      BY <1>1, <3>1 DEF Ids, Flying
    <3> QED BY <1>7, <1>10, <3>1, <3>2
  <2>2. CASE p = [t |-> t, n |-> n]
    BY <1>5, <1>7, <1>10, <2>2 DEF Flying
  <2> QED BY <1>1, <1>3, <2>1, <2>2
<1>18. \A x \in Threads : call'[x].pc \in {"capture", "write"} => ~answer'[x].ok
  BY <1>7, <1>9, <1>10, Base DEF IdInv
<1>19. IdInv'
  BY <1>15, <1>16, <1>17, <1>18 DEF IdInv, UsedId
<1> QED BY <1>8, <1>12, <1>13, <1>19 DEF BaseInv

(* A process is started: its pipe and its memory are empty. *)
LEMMA EnsureStartBase == ASSUME BaseInv, ManagerInv', NEW t \in Threads, EnsureStart(t) PROVE BaseInv'
<1>1. /\ UNCHANGED <<phase, handle, answer, pending>> /\ call[t].pc = "ensure" /\ gen' = gen + 1 /\ gen \in Nat
      /\ gen' \in live' /\ in' = <<>> /\ out' = {} /\ input' = NoTarget /\ tasks' = {} /\ sessions' = <<>> /\ batches' = <<>>
  BY Base DEF EnsureStart, FreshProcess, ManagerInv, ProcessInv
<1>2. call[t] \in Calls /\ CallOk(t) /\ call[t].n \in Nat /\ call \in [Threads -> Calls]
  BY Base, CallTypeFacts DEF CallInv
<1>3. PICK c : c = [call[t] EXCEPT !.op = "hello", !.pc = "register"]
  OBVIOUS
<1>4. c.pc = "register" /\ c.w = call[t].w /\ c.n = call[t].n /\ c.op = "hello"
  BY <1>2, <1>3 DEF Calls
<1>5. \A x \in Threads : call'[x] = IF x = t THEN c ELSE call[x]
  BY <1>2, <1>3 DEF EnsureStart
<1>6. phase[t] = "open"
  BY <1>1, <1>2 DEF CallOk, StartPcs
<1>7. \A x \in Threads : CallOk(x)'
  <2> TAKE x \in Threads
  <2>1. CallOk(x) /\ call[x].w \in Nat
    BY Base, CallTypeFacts DEF CallInv
  <2>2. CASE x = t
    BY <1>1, <1>4, <1>5, <1>6, <2>1, <2>2 DEF CallOk, StartPcs
  <2>3. CASE x # t
    BY <1>1, <1>5, <2>1, <2>3 DEF CallOk
  <2> QED BY <2>2, <2>3
<1>8. CallInv'
  BY <1>1, <1>7, Base DEF CallInv, PairOk
<1>9. Types' /\ ServerOk'
  BY <1>1, Base DEF Types, ServerTypes, GoTypes, ServerOk, DeadInv
<1>10. \A p \in pending' : p.n = call'[p.t].n /\ call'[p.t].pc \in Flying /\ answer'[p.t] = Empty
  <2> TAKE p \in pending'
  <2>1. p \in Ids /\ p.n = call[p.t].n /\ call[p.t].pc \in Flying /\ answer[p.t] = Empty
    BY <1>1, Base DEF IdInv, Types, GoTypes
  <2>2. p.t \in Threads /\ p.t # t
    BY <1>1, <2>1 DEF Ids, Flying
  <2> QED BY <1>1, <1>5, <2>1, <2>2
<1>11. IdInv'
  BY <1>1, <1>4, <1>5, <1>10, Base DEF IdInv
<1> QED BY <1>8, <1>9, <1>11 DEF BaseInv

(* The process is no longer registered: its callers are told. *)
LEMMA DiedFacts ==
    ASSUME BaseInv, NEW g, ProcessDied(g)
    PROVE  /\ pending' \subseteq pending /\ answer' \in [Threads -> [ok : BOOLEAN, val : Int]]
           /\ \A p \in pending' : answer'[p.t] = answer[p.t]
           /\ \A t \in Threads : answer'[t] = answer[t] \/ (answer'[t] = Error /\ Id(t) \in pending)
<1>1. Error \in [ok : BOOLEAN, val : Int]
  BY DEF Error
<1> QED BY <1>1, Base DEF ProcessDied, Types, GoTypes

(* The manager learns that a process died and fails the calls that wait for it. *)
LEMMA DiedBase ==
    ASSUME BaseInv, ManagerInv', NEW g, ProcessDied(g),
           UNCHANGED <<gen, live, in, out, input, tasks, sessions, batches, phase, handle>>,
           \A t \in Threads :
               \/ call'[t] = call[t]
               \/ call[t].pc = "kill" /\ call'[t].pc = "reaped" /\ call'[t].w = call[t].w /\ call'[t].n = call[t].n
    PROVE  BaseInv'
<1>1. GoTypes'
  <2>1. pending' \subseteq Ids
    BY DiedFacts, Base DEF Types, GoTypes
  <2> QED BY <2>1, DiedFacts, Base DEF Types, GoTypes
<1>2. \A t \in Threads : call[t].w <= gen /\ (call[t].pc = "kill" => phase[t] = "open")
  BY Base DEF CallInv, CallOk, StartPcs
<1>3. \A p \in pending' : p \in pending /\ call'[p.t].pc \in Flying /\ answer'[p.t] = Empty
  <2> TAKE p \in pending'
  <2>1. p \in pending /\ p \in Ids /\ p.n = call[p.t].n /\ call[p.t].pc \in Flying /\ answer[p.t] = Empty /\ answer'[p.t] = answer[p.t]
    BY DiedFacts, Base DEF IdInv, Types, GoTypes
  <2>2. p.t \in Threads /\ call[p.t].pc # "kill"
    BY <2>1 DEF Ids, Flying
  <2> QED BY <2>1, <2>2
<1>4. \A t \in Threads : answer'[t] = answer[t] \/ ~answer'[t].ok
  BY DiedFacts, ErrorVal
<1> QED BY <1>1, <1>2, <1>3, <1>4, QuietBase DEF StartPcs

(* A greeting that was not answered kills the process. *)
LEMMA HelloKillBase == ASSUME BaseInv, ManagerInv', NEW t \in Threads, HelloKill(t) PROVE BaseInv'
<1>1. /\ UNCHANGED <<gen, live, in, out, input, tasks, sessions, batches, phase, handle>> /\ ProcessDied(gen)
      /\ call[t].pc = "kill" /\ call' = [call EXCEPT ![t].pc = "reaped"]
  BY DEF HelloKill, serverVars
<1>2. call[t] \in Calls /\ call \in [Threads -> Calls]
  BY Base, CallTypeFacts
<1>3. PICK c : c = [call[t] EXCEPT !.pc = "reaped"]
  OBVIOUS
<1>4. c.pc = "reaped" /\ c.w = call[t].w /\ c.n = call[t].n
  BY <1>2, <1>3 DEF Calls
<1>5. \A x \in Threads : call'[x] = IF x = t THEN c ELSE call[x]
  BY <1>1, <1>2, <1>3
<1>6. \A x \in Threads :
        \/ call'[x] = call[x]
        \/ call[x].pc = "kill" /\ call'[x].pc = "reaped" /\ call'[x].w = call[x].w /\ call'[x].n = call[x].n
  BY <1>1, <1>4, <1>5
<1> QED BY <1>1, <1>6, DiedBase

(* The reader delivers a response, or sees the end of the pipe. *)
LEMMA ReaderBase == ASSUME BaseInv, ManagerInv', ReaderStep PROVE BaseInv'
<1>1. ASSUME NEW r \in out, ReadResponse(r) PROVE BaseInv'
  <2>1. /\ UNCHANGED <<gen, live, in, input, tasks, sessions, batches, call, phase, handle>> /\ out' \subseteq out
        /\ pending' = pending \ {r.id}
        /\ answer' = IF r.id \in pending THEN [answer EXCEPT ![r.id.t] = [ok |-> r.ok, val |-> r.val]] ELSE answer
    BY <1>1 DEF ReadResponse
  <2>2. r \in Responses /\ UsedId(r.id)
    BY Base DEF Types, ServerTypes, IdInv
  <2>3. PICK a : a = [ok |-> r.ok, val |-> r.val]
    OBVIOUS
  <2>4. a \in [ok : BOOLEAN, val : Int] /\ r.id \in Ids /\ r.id.t \in Threads
    BY <2>2, <2>3 DEF Responses, Ids
  <2>5. /\ answer' \in [Threads -> [ok : BOOLEAN, val : Int]]
        /\ \A t \in Threads : answer'[t] = IF r.id \in pending /\ t = r.id.t THEN a ELSE answer[t]
    BY <2>1, <2>3, <2>4, Base DEF Types, GoTypes
  <2>6. GoTypes'
    BY <2>1, <2>5, Base DEF Types, GoTypes
  <2>7. CallInv'
    <3>1. \A t \in Threads : CallOk(t)'
      BY <2>1, Base DEF CallInv, CallOk
    <3>2. \A t \in Workers : PairOk(t)'
      BY <2>1, Base DEF CallInv, PairOk
    <3> QED BY <3>1, <3>2 DEF CallInv
  <2>8. \A p \in pending' : p \in pending /\ call'[p.t].pc \in Flying /\ answer'[p.t] = Empty
    <3> TAKE p \in pending'
    <3>1. p \in pending /\ p # r.id /\ p \in Ids /\ p.n = call[p.t].n /\ call[p.t].pc \in Flying /\ answer[p.t] = Empty
      BY <2>1, Base DEF IdInv, Types, GoTypes
    <3>2. p.t \in Threads
      BY <3>1 DEF Ids
    <3>3. r.id \in pending => r.id.n = call[r.id.t].n
      BY Base DEF IdInv
    <3>4. r.id \in pending => p.t # r.id.t
      BY <3>1, <3>3, <2>4 DEF Ids
    <3> QED BY <2>1, <2>5, <3>1, <3>2, <3>4
  <2>9. \A t \in Threads : call'[t].pc \in {"capture", "write"} => answer'[t] = answer[t]
    <3>1. r.id \in pending => call[r.id.t].pc \notin {"capture", "write"}
      BY <2>2, Base DEF IdInv, UsedId
    <3> QED BY <2>1, <2>5, <3>1
  <2> QED BY <2>1, <2>6, <2>7, <2>8, <2>9, GoBase
<1>2. ASSUME NEW g \in reading, ReadEOF(g) PROVE BaseInv'
  BY <1>2, DiedBase DEF ReadEOF, serverVars
<1>3. ASSUME NEW g \in reaping, Reap(g) PROVE BaseInv'
  BY <1>3, DiedBase DEF Reap, serverVars
<1> QED BY <1>1, <1>2, <1>3 DEF ReaderStep

(* Nothing that the base is about changes. *)
LEMMA StillBase ==
    ASSUME BaseInv, ManagerInv',
           UNCHANGED <<gen, live, in, out, input, tasks, sessions, batches, call, phase, handle, answer, pending>>
    PROVE  BaseInv'
<1>1. CallInv'
  <2>1. \A t \in Threads : CallOk(t)'
    BY Base DEF CallInv, CallOk
  <2>2. \A t \in Workers : PairOk(t)'
    BY Base DEF CallInv, PairOk
  <2> QED BY <2>1, <2>2 DEF CallInv
<1>2. \A p \in pending' : p \in pending /\ call'[p.t].pc \in Flying /\ answer'[p.t] = Empty
  BY Base DEF IdInv
<1>3. GoTypes'
  BY Base DEF Types, GoTypes
<1> QED BY <1>1, <1>2, <1>3, GoBase

(* A frame is refused, or a JVM that was given up commits or dies. *)
LEMMA DriftBase ==
    ASSUME BaseInv, ManagerInv', BadFrame \/ LateCommit \/ \E g \in adrift : AdriftExits(g)
    PROVE  BaseInv'
<1>1. CASE BadFrame
  BY <1>1, DiedBase DEF BadFrame
<1>2. CASE LateCommit \/ \E g \in adrift : AdriftExits(g)
  BY <1>2, StillBase DEF LateCommit, AdriftExits
<1> QED BY <1>1, <1>2

(* Types, tasks, calls and ids are right in every state of the bridge. *)
THEOREM BaseHolds == Spec => []BaseInv
<1>1. Init => ManagerInv
  BY InitManager
<1>2. Init /\ ManagerInv => BaseInv
  <2> SUFFICES ASSUME Init, ManagerInv PROVE BaseInv
    OBVIOUS
  <2>1. ServerTypes /\ ServerOk
    BY DEF Init, ServerInit, ServerTypes, ServerOk, DeadInv
  <2>2. /\ \A t \in Threads : call[t] = Resting /\ handle[t] = NoHandle /\ answer[t] = Empty
        /\ \A t \in Threads : phase[t] = IF t \in Writers THEN "open" ELSE "wait"
    BY DEF Init
  <2>3. GoTypes
    <3>1. Empty \in [ok : BOOLEAN, val : Int] /\ NoHandle \in [id : Int, born : Int]
      BY DEF Empty, NoHandle
    <3> QED BY <3>1 DEF Init, GoTypes, Phases
  <2>4. CallInv
    <3>1. \A t \in Threads : CallOk(t)
      BY <2>2, ThreadsAssumption
      DEF Init, CallOk, Resting, NoHandle, StartPcs, WriterPhases, WorkerPhases, BatchPhases
    <3>2. \A t \in Workers : PairOk(t)
      BY <2>2, ThreadsAssumption DEF PairOk, BatchPhases
    <3> QED BY <3>1, <3>2 DEF CallInv
  <2>5. IdInv
    BY <2>2 DEF Init, ServerInit, IdInv, Resting
  <2> QED BY <2>1, <2>3, <2>4, <2>5 DEF BaseInv, Types
<1>3. BaseInv /\ ManagerInv' /\ [Next]_vars => BaseInv'
  <2> SUFFICES ASSUME BaseInv, ManagerInv', [Next]_vars PROVE BaseInv'
    OBVIOUS
  <2>1. ASSUME NEW t \in Threads, ThreadStep(t) \/ EnsureFails(t) \/ CtxDone(t) \/ JoinDone(t)
        PROVE  BaseInv'
    BY <2>1, WorkBase, BeginBase, EnsureStartBase, HelloKillBase, StartupFailsBase, FailedBase,
       CheckRunningBase,
       RegisterBase, CaptureBase, WriteBase, ReceiveBase, CtxDoneBase, SendCancelBase, Zenon DEF ThreadStep
  <2>2. CASE UNCHANGED vars
    BY <2>2, StillBase DEF vars, serverVars, goVars
  <2> QED BY <2>1, <2>2, ReaderBase, ServerBase, ExitBase, DriftBase DEF Next
<1> QED BY <1>1, <1>2, <1>3, InvariantHolds, PTL DEF Spec


-----------------------------------------------------------------------------
(* Pages. A page is what a worker's adds bring; a batch has it, or can no longer *)
(* be committed.                                                                 *)
BatchOps == {"lob", "add", "commit", "abort"}

Part(c) == IF Pages = 1 THEN {<<c, "add1">>} ELSE {<<c, "add1">>, <<c, "add2">>}

Open(b, R) == R \subseteq batches[b].rows \/ batches[b].closing

(* A request on its way to a batch is about the batch that this JVM gave to its   *)
(* caller; it brings a part of that caller's page, and commits nothing less than  *)
(* the page. The request of a call that still waits is the call's.                *)
Fits(q) ==
    /\ q.op \in BatchOps => q.id.t \in Workers /\ handle[q.id.t].id = q.arg /\ handle[q.id.t].born = gen /\ gen > 0
    /\ q.op = "add" => q.row \in Part(q.id.t)
    /\ q.op = "commit" => Open(q.arg, Part(q.id.t))
    /\ q.id.n = call[q.id.t].n /\ call[q.id.t].pc = "await" =>
         q.op = call[q.id.t].op /\ q.row = <<q.id.t, phase[q.id.t]>> /\ call[q.id.t].w = gen

(* A batch id that this JVM gave to a worker is that of its own batch, which has  *)
(* what the worker was told it has.                                               *)
HandleOk(t) ==
    handle[t].born = gen /\ gen \in live =>
        /\ handle[t].id \in DOMAIN batches /\ batches[handle[t].id].opener.t = t
        /\ phase[t] = "add2" => Open(handle[t].id, {<<t, "add1">>})
        /\ phase[t] = "commit" => Open(handle[t].id, Part(t))

(* What a success means to the thread that waits for it. *)
Good(t, val) ==
    /\ phase[t] = "begin" /\ call[t].w = gen /\ gen \in live => val \in DOMAIN batches /\ batches[val].opener.t = t
    /\ phase[t] \in {"add1", "add2"} /\ handle[t].born = gen /\ gen \in live => Open(handle[t].id, {<<t, phase[t]>>})
    /\ phase[t] = "commit" => Part(t) \subseteq db

TaskGood(k) ==
    k.pc = "reply" /\ k.ok =>
        /\ k.op = "add" => Open(k.arg, {k.row})
        /\ k.op = "commit" => Part(k.id.t) \subseteq db

Heard(id) == id.n = call[id.t].n /\ call[id.t].pc = "await"

Whole(c) == db \cap {<<c, "add1">>, <<c, "add2">>} \in {{}, Part(c)} /\ (c \in reported => Part(c) \subseteq db)

FitsInv ==
    /\ \A i \in DOMAIN in : in[i].op # "cancel" /\ in[i].born \in {0, gen} => Fits(in[i])
    /\ \A k \in tasks : k.op # "cleanup" => Fits(k) /\ TaskGood(k)

HandleInv ==
    /\ \A t \in Workers : HandleOk(t)
    /\ \A b \in DOMAIN batches : batches[b].rows \subseteq Part(batches[b].opener.t)

AnswerInv ==
    /\ \A t \in Threads : call[t].pc = "await" /\ answer[t].ok => Good(t, answer[t].val)
    /\ \A r \in out : r.ok /\ Heard(r.id) => Good(r.id.t, r.val)

WholeInv == \A c \in Workers : Whole(c)

PageInv == ~aliased => FitsInv /\ HandleInv /\ AnswerInv /\ WholeInv

(* The batches go on, with their pages, and the threads do not move. *)
PagesGoOn ==
    /\ UNCHANGED <<gen, live, goVars>>
    /\ DOMAIN batches \subseteq DOMAIN batches' /\ db \subseteq db'
    /\ \A b \in DOMAIN batches :
         /\ batches'[b].opener = batches[b].opener
         /\ \A R : R \subseteq batches[b].rows \/ batches[b].closing => R \subseteq batches'[b].rows \/ batches'[b].closing

(* A request finds the batch that was given to its caller. *)
LEMMA FoundBatch ==
    ASSUME BaseInv, HandleInv, NEW q, Fits(q), q.op \in BatchOps, gen \in live
    PROVE  q.arg \in DOMAIN batches /\ batches[q.arg].opener.t = q.id.t /\ q.id.t \in Workers
BY DEF HandleInv, HandleOk, Fits

(* Requests, handles and answers stay right while the batches go on. *)
LEMMA FitsStay ==
    ASSUME BaseInv, HandleInv, PagesGoOn, gen \in live, NEW q, Fits(q) PROVE Fits(q)'
<1>1. UNCHANGED <<gen, handle, call, phase>>
  BY DEF PagesGoOn, goVars
<1>2. q.op = "commit" => Open(q.arg, Part(q.id.t))'
  <2>1. q.op = "commit" => q.arg \in DOMAIN batches /\ Open(q.arg, Part(q.id.t))
    BY FoundBatch DEF BatchOps, Fits
  <2>2. ASSUME q.op = "commit" PROVE Open(q.arg, Part(q.id.t))'
    BY <2>1, <2>2 DEF PagesGoOn, Open, Part
  <2> QED BY <2>2
<1> QED BY <1>1, <1>2 DEF Fits, Part

(* What a success was stays true, *)
LEMMA TaskGoodStays ==
    ASSUME BaseInv, HandleInv, PagesGoOn, gen \in live, NEW k, Fits(k), TaskGood(k) PROVE TaskGood(k)'
<1>1. ASSUME k.pc = "reply", k.ok, k.op = "add" PROVE Open(k.arg, {k.row})'
  <2>1. k.arg \in DOMAIN batches /\ Open(k.arg, {k.row})
    BY <1>1, FoundBatch DEF BatchOps, TaskGood
  <2> QED BY <2>1 DEF PagesGoOn, Open
<1>2. ASSUME k.pc = "reply", k.ok, k.op = "commit" PROVE Part(k.id.t) \subseteq db'
  BY <1>2 DEF TaskGood, PagesGoOn
<1> QED BY <1>1, <1>2 DEF TaskGood, Part

(* as does what a worker was told about its batch, *)
LEMMA HandleStays ==
    ASSUME BaseInv, HandleInv, PagesGoOn, NEW t \in Workers PROVE HandleOk(t)'
<1>1. UNCHANGED <<gen, live, handle, call, phase>>
  BY DEF PagesGoOn, goVars
<1>2. ASSUME handle[t].born = gen, gen \in live
      PROVE  /\ handle[t].id \in DOMAIN batches' /\ batches'[handle[t].id].opener.t = t
             /\ phase[t] = "add2" => {<<t, "add1">>} \subseteq batches'[handle[t].id].rows \/ batches'[handle[t].id].closing
             /\ phase[t] = "commit" => Part(t) \subseteq batches'[handle[t].id].rows \/ batches'[handle[t].id].closing
  BY <1>2 DEF HandleInv, HandleOk, Open, PagesGoOn
<1> QED BY <1>1, <1>2 DEF HandleOk, Open, Part

(* and what the success means to the thread that waits. *)
LEMMA GoodStays ==
    ASSUME BaseInv, HandleInv, PagesGoOn, NEW t \in Threads, NEW val, Good(t, val) PROVE Good(t, val)'
<1>1. UNCHANGED <<gen, live, handle, call, phase>>
  BY DEF PagesGoOn, goVars
<1>2. ASSUME phase[t] = "begin", call[t].w = gen, gen \in live PROVE val \in DOMAIN batches' /\ batches'[val].opener.t = t
  BY <1>2 DEF Good, PagesGoOn
<1>3. ASSUME phase[t] \in {"add1", "add2"}, handle[t].born = gen, gen \in live
      PROVE  {<<t, phase[t]>>} \subseteq batches'[handle[t].id].rows \/ batches'[handle[t].id].closing
  <2>1. t \in Workers
    BY <1>3, Base, ThreadsAssumption DEF CallInv, CallOk, WriterPhases
  <2>2. handle[t].id \in DOMAIN batches
    BY <1>3, <2>1 DEF HandleInv, HandleOk
  <2> QED BY <1>3, <2>2 DEF Good, Open, PagesGoOn
<1>4. phase[t] = "commit" => Part(t) \subseteq db'
  BY DEF Good, PagesGoOn
<1> QED BY <1>1, <1>2, <1>3, <1>4 DEF Good, Open, Part


(* The reply of a request is good for the call that waits for it. *)
LEMMA ReplyGood ==
    ASSUME BaseInv, FitsInv, gen \in live, NEW k \in tasks, k.pc = "reply", k.ok, Heard(k.id)
    PROVE  Good(k.id.t, k.val)
<1>1. TaskOk(k) /\ k \in Tasks
  BY Base DEF ServerOk, Types, ServerTypes
<1>2. k.op # "cleanup" /\ k.id.t \in Threads
  BY <1>1 DEF TaskOk, Tasks, Ids
<1>3. Fits(k) /\ TaskGood(k)
  BY <1>2 DEF FitsInv
<1>4. k.op = call[k.id.t].op /\ k.row = <<k.id.t, phase[k.id.t]>>
  BY <1>3 DEF Fits, Heard
<1>5. CallOk(k.id.t) /\ call[k.id.t].pc \in StartPcs
  BY <1>2, Base DEF CallInv, Heard, StartPcs
<1>6. k.op = OpOf(phase[k.id.t]) \/ phase[k.id.t] = "open"
  BY <1>4, <1>5 DEF CallOk
<1>7. CASE phase[k.id.t] = "begin"
  <2>1. k.op = "begin"
    BY <1>6, <1>7 DEF OpOf
  <2> QED BY <1>1, <1>7, <2>1 DEF TaskOk, Good
<1>8. CASE phase[k.id.t] \in {"add1", "add2"}
  <2>1. k.op = "add"
    BY <1>6, <1>8 DEF OpOf
  <2> QED BY <1>3, <1>4, <1>8, <2>1 DEF TaskGood, Fits, BatchOps, Good
<1>9. CASE phase[k.id.t] = "commit"
  <2>1. k.op = "commit"
    BY <1>6, <1>9 DEF OpOf
  <2> QED BY <1>3, <1>9, <2>1 DEF TaskGood, Good
<1> QED BY <1>7, <1>8, <1>9 DEF Good

(* A step of a task keeps the pages. *)
LEMMA WorkPages ==
    ASSUME BaseInv, FitsInv, HandleInv, AnswerInv, WholeInv, NEW k \in tasks, Work(k), UNCHANGED <<gen, goVars>>
    PROVE  FitsInv' /\ HandleInv' /\ AnswerInv' /\ WholeInv'
<1>1. WorkEffect(k) /\ gen \in live /\ k \in Tasks /\ TaskOk(k) /\ UNCHANGED <<gen, live, in, call, phase, handle, answer, reported>>
  <2>1. WorkEffect(k)
    BY Base, WorkEffects
  <2> QED BY <2>1, Base DEF ServerOk, DeadInv, Types, ServerTypes, WorkEffect, goVars
<1>2. PagesGoOn
  <2>1. DOMAIN batches \subseteq DOMAIN batches' /\ db \subseteq db' /\ \A b \in DOMAIN batches : Grown(k, b)
    BY <1>1 DEF WorkEffect, BatchEffect
  <2>2. ASSUME NEW b \in DOMAIN batches, NEW R, R \subseteq batches[b].rows \/ batches[b].closing
        PROVE  R \subseteq batches'[b].rows \/ batches'[b].closing
    BY <2>1, <2>2 DEF Grown
  <2> QED BY <1>1, <2>1, <2>2 DEF PagesGoOn, Grown
<1>3. (\A i \in DOMAIN in : in[i].op # "cancel" /\ in[i].born \in {0, gen} => Fits(in[i]))'
  <2> SUFFICES ASSUME NEW i \in DOMAIN in', in'[i].op # "cancel", in'[i].born \in {0, gen'} PROVE (Fits(in[i]))'
    OBVIOUS
  <2>1. PICK q : q = in[i]
    OBVIOUS
  <2>2. Fits(q)
    BY <1>1, <2>1 DEF FitsInv
  <2>3. Fits(q)'
    BY <1>1, <1>2, <2>2, FitsStay
  <2> QED BY <1>1, <2>1, <2>3 DEF Fits, Open, Part
<1>4. ASSUME NEW x \in tasks', x.op # "cleanup" PROVE Fits(x)' /\ TaskGood(x)'
  <2>1. CASE x \in tasks
    BY <1>1, <1>2, <1>4, <2>1, FitsStay, TaskGoodStays DEF FitsInv
  <2>2. CASE Kept(k, x) /\ Reported(k, x)
    <3>1. Fits(k) /\ k.op = x.op /\ k.arg = x.arg /\ k.id = x.id /\ k.row = x.row
      BY <1>4, <2>2 DEF Kept, FitsInv
    <3>2. Fits(x)
      BY <3>1 DEF Fits
    <3>3. ASSUME x.pc = "reply", x.ok, x.op = "add" PROVE Open(x.arg, {x.row})'
      BY <2>2, <3>3 DEF Reported, Open
    <3>4. ASSUME x.pc = "reply", x.ok, x.op = "commit" PROVE Part(x.id.t) \subseteq db'
      BY <2>2, <3>1, <3>4 DEF Reported, Fits, Open
    <3>5. Fits(x)'
      BY <1>1, <1>2, <3>2, FitsStay
    <3> QED BY <3>3, <3>4, <3>5 DEF TaskGood, Part
  <2> QED BY <1>1, <2>1, <2>2 DEF WorkEffect, TaskEffect
<1>5. ASSUME NEW b \in DOMAIN batches' PROVE batches'[b].rows \subseteq Part(batches'[b].opener.t)
  <2>1. CASE b \notin DOMAIN batches
    BY <1>1, <1>5, <2>1 DEF WorkEffect, BatchEffect
  <2>2. CASE b \in DOMAIN batches
    <3>1. Grown(k, b) /\ batches[b].rows \subseteq Part(batches[b].opener.t)
      BY <1>1, <2>2 DEF WorkEffect, BatchEffect, HandleInv
    <3>2. ASSUME k.op = "add", b = k.arg PROVE k.row \in Part(batches[b].opener.t)
      <4>1. Fits(k)
        BY <3>2 DEF FitsInv
      <4>2. batches[b].opener.t = k.id.t
        BY <1>1, <3>2, <4>1, FoundBatch DEF BatchOps
      <4> QED BY <3>2, <4>1, <4>2 DEF Fits
    <3>3. batches'[b].rows \subseteq batches[b].rows \/ (k.op = "add" /\ b = k.arg /\ batches'[b].rows = batches[b].rows \cup {k.row})
      BY <3>1 DEF Grown
    <3>4. batches'[b].opener = batches[b].opener
      BY <3>1 DEF Grown
    <3> QED BY <3>1, <3>2, <3>3, <3>4
  <2> QED BY <2>1, <2>2
<1>6. FitsInv'
  BY <1>3, <1>4 DEF FitsInv
<1>7. HandleInv'
  BY <1>2, <1>5, HandleStays DEF HandleInv, Part
<1>8. AnswerInv'
  <2>1. ASSUME NEW t \in Threads, call[t].pc = "await", answer[t].ok PROVE Good(t, answer[t].val)'
    <3>1. PICK v : v = answer[t].val
      OBVIOUS
    <3>2. Good(t, v)
      BY <2>1, <3>1 DEF AnswerInv
    <3>3. Good(t, v)'
      BY <1>2, <3>2, GoodStays
    <3> QED BY <1>1, <3>1, <3>3
  <2>2. ASSUME NEW r \in out', r.ok, Heard(r.id) PROVE Good(r.id.t, r.val)'
    <3>1. Good(r.id.t, r.val) /\ r.id.t \in Threads
      <4>1. CASE r \in out
        BY <2>2, <4>1, Base DEF AnswerInv, Types, ServerTypes, Responses, Ids
      <4>2. CASE k.pc = "reply" /\ r = Response(k)
        <5>1. r.ok = k.ok /\ r.id = k.id /\ r.val = k.val
          BY <4>2 DEF Response
        <5> QED BY <1>1, <2>2, <4>2, <5>1, ReplyGood DEF Tasks, Ids
      <4> QED BY <1>1, <4>1, <4>2 DEF WorkEffect
    <3> QED BY <1>2, <3>1, GoodStays
  <2>3. \A id : Heard(id)' => Heard(id)
    BY <1>1 DEF Heard
  <2> QED BY <1>1, <2>1, <2>2, <2>3 DEF AnswerInv
<1>9. WholeInv'
  <2> SUFFICES ASSUME NEW c \in Workers PROVE Whole(c)'
    BY DEF WholeInv
  <2>1. Whole(c)
    BY DEF WholeInv
  <2>2. CASE db' = db
    BY <1>1, <2>1, <2>2 DEF Whole, Part
  <2>3. CASE k.op = "commit" /\ k.arg \in DOMAIN batches /\ ~batches[k.arg].closing /\ db' = db \cup batches[k.arg].rows
    <3>1. Fits(k)
      BY <2>3 DEF FitsInv
    <3>2. batches[k.arg].rows = Part(k.id.t)
      BY <1>1, <2>3, <3>1, FoundBatch DEF BatchOps, Fits, Open, HandleInv
    <3>3. CASE k.id.t = c
      <4>1. Part(c) \subseteq {<<c, "add1">>, <<c, "add2">>}
        BY DEF Part
      <4> QED BY <1>1, <2>1, <2>3, <3>2, <3>3, <4>1 DEF Whole, Part
    <3>4. CASE k.id.t # c
      <4>1. Part(k.id.t) \cap {<<c, "add1">>, <<c, "add2">>} = {}
        BY <3>4 DEF Part
      <4>2. db' \cap {<<c, "add1">>, <<c, "add2">>} = db \cap {<<c, "add1">>, <<c, "add2">>}
        BY <2>3, <3>2, <4>1
      <4> QED BY <1>1, <2>1, <2>3, <4>2 DEF Whole, Part
    <3> QED BY <3>3, <3>4
  <2> QED BY <1>1, <2>2, <2>3 DEF WorkEffect
<1> QED BY <1>6, <1>7, <1>8, <1>9


(* The input thread's steps leave the pages alone: requests in the pipe, tasks and *)
(* responses are the ones that were there.                                         *)
LEMMA InputPages ==
    ASSUME BaseInv, FitsInv, HandleInv, AnswerInv, WholeInv, gen \in live, PagesGoOn, UNCHANGED <<out, db>>,
           \A b \in DOMAIN batches' : b \in DOMAIN batches /\ batches'[b].rows = batches[b].rows,
           \A i \in DOMAIN in' : \E j \in DOMAIN in : in'[i] = in[j],
           \A x \in tasks' : x.op # "cleanup" => Fits(x) /\ TaskGood(x)
    PROVE  FitsInv' /\ HandleInv' /\ AnswerInv' /\ WholeInv'
<1>1. UNCHANGED <<gen, live, call, phase, handle, answer, reported>>
  BY DEF PagesGoOn, goVars
<1>2. (\A i \in DOMAIN in : in[i].op # "cancel" /\ in[i].born \in {0, gen} => Fits(in[i]))'
  <2> SUFFICES ASSUME NEW i \in DOMAIN in', in'[i].op # "cancel", in'[i].born \in {0, gen'} PROVE (Fits(in[i]))'
    OBVIOUS
  <2>1. PICK j \in DOMAIN in : in'[i] = in[j]
    OBVIOUS
  <2>2. PICK q : q = in[j]
    OBVIOUS
  <2>3. Fits(q)
    BY <1>1, <2>1, <2>2 DEF FitsInv
  <2>4. Fits(q)'
    BY <2>3, FitsStay
  <2> QED BY <2>1, <2>2, <2>4 DEF Fits, Open, Part
<1>3. FitsInv'
  BY <1>2, FitsStay, TaskGoodStays DEF FitsInv
<1>4. HandleInv'
  BY HandleStays DEF HandleInv, PagesGoOn, Part
<1>5. AnswerInv'
  <2>1. ASSUME NEW t \in Threads, call[t].pc = "await", answer[t].ok PROVE Good(t, answer[t].val)'
    <3>1. PICK v : v = answer[t].val
      OBVIOUS
    <3>2. Good(t, v)
      BY <2>1, <3>1 DEF AnswerInv
    <3>3. Good(t, v)'
      BY <3>2, GoodStays
    <3> QED BY <1>1, <3>1, <3>3
  <2>2. ASSUME NEW r \in out, r.ok, Heard(r.id) PROVE Good(r.id.t, r.val)'
    BY <2>2, GoodStays, Base DEF AnswerInv, Types, ServerTypes, Responses, Ids
  <2>3. \A id : Heard(id)' => Heard(id)
    BY <1>1 DEF Heard
  <2> QED BY <1>1, <2>1, <2>2, <2>3 DEF AnswerInv
<1>6. WholeInv'
  BY <1>1 DEF WholeInv, Whole, Part
<1> QED BY <1>3, <1>4, <1>5, <1>6

(* A request that is dispatched fits as it did in the pipe. *)
LEMMA DispatchPages ==
    ASSUME BaseInv, FitsInv, HandleInv, AnswerInv, WholeInv, Dispatch, ~aliased', UNCHANGED <<gen, goVars>>
    PROVE  FitsInv' /\ HandleInv' /\ AnswerInv' /\ WholeInv'
<1>1. /\ Head(in) \in Messages /\ Head(in) = in[1] /\ 1 \in DOMAIN in /\ tasks' = tasks \cup {NewTask(Head(in))}
      /\ \A i \in DOMAIN in' : \E j \in DOMAIN in : in'[i] = in[j]
  BY Base, DispatchKeeps
<1>2. gen \in live /\ Head(in).op # "cancel" /\ Head(in).born \in {0, gen} /\ UNCHANGED <<live, out, batches, db>>
  BY DEF Dispatch
<1>3. PagesGoOn
  BY <1>2 DEF PagesGoOn
<1>4. PICK x : x = NewTask(Head(in))
  OBVIOUS
<1>5. x.id = Head(in).id /\ x.op = Head(in).op /\ x.arg = Head(in).arg /\ x.row = Head(in).row /\ x.pc = "queued"
  BY <1>1, <1>2, <1>4, NewTaskOk
<1>6. Fits(Head(in))
  BY <1>1, <1>2 DEF FitsInv
<1>7. Fits(x) /\ TaskGood(x)
  BY <1>5, <1>6 DEF Fits, TaskGood
<1>8. \A y \in tasks' : y.op # "cleanup" => Fits(y) /\ TaskGood(y)
  BY <1>1, <1>4, <1>7 DEF FitsInv
<1> QED BY <1>1, <1>2, <1>3, <1>8, InputPages

(* A cancellation marks tasks and touches no page. *)
LEMMA CancelFuturePages ==
    ASSUME BaseInv, FitsInv, HandleInv, AnswerInv, WholeInv, CancelFuture, UNCHANGED <<gen, goVars>>
    PROVE  FitsInv' /\ HandleInv' /\ AnswerInv' /\ WholeInv'
<1>1. /\ \A i \in DOMAIN in' : \E j \in DOMAIN in : in'[i] = in[j]
      /\ \A x \in tasks' : \E k \in tasks : Same(k, x)
  BY Base, CancelFutureTasks
<1>2. gen \in live /\ UNCHANGED <<live, out, batches, db>>
  BY DEF CancelFuture
<1>3. PagesGoOn
  BY <1>2 DEF PagesGoOn
<1>4. ASSUME NEW x \in tasks', x.op # "cleanup" PROVE Fits(x) /\ TaskGood(x)
  <2>1. PICK k \in tasks : Same(k, x)
    BY <1>1
  <2>2. k.id = x.id /\ k.op = x.op /\ k.arg = x.arg /\ k.row = x.row /\ k.pc = x.pc /\ k.ok = x.ok
    BY <2>1 DEF Same, Kept
  <2>3. Fits(k) /\ TaskGood(k)
    BY <1>4, <2>2 DEF FitsInv
  <2> QED BY <2>2, <2>3 DEF Fits, TaskGood
<1> QED BY <1>1, <1>2, <1>3, <1>4, InputPages

(* Its scan closes batches and adds no row. *)
LEMMA CancelBatchesPages ==
    ASSUME BaseInv, FitsInv, HandleInv, AnswerInv, WholeInv, CancelBatches, UNCHANGED <<gen, goVars>>
    PROVE  FitsInv' /\ HandleInv' /\ AnswerInv' /\ WholeInv'
<1>1. /\ DOMAIN batches' = DOMAIN batches
      /\ \A b \in DOMAIN batches :
           /\ Twin(batches[b], batches'[b]) /\ batches'[b].rows = batches[b].rows
           /\ batches[b].closing => batches'[b].closing
      /\ \A x \in tasks' : x \in tasks \/ x.op = "cleanup"
  BY Base, CancelBatchesFacts
<1>2. gen \in live /\ UNCHANGED <<live, in, out, db>>
  BY DEF CancelBatches
<1>3. PagesGoOn
  BY <1>1, <1>2 DEF PagesGoOn, Twin
<1>4. \A x \in tasks' : x.op # "cleanup" => Fits(x) /\ TaskGood(x)
  BY <1>1 DEF FitsInv
<1> QED BY <1>1, <1>2, <1>3, <1>4, InputPages

(* No step of the JVM breaks a page. *)
LEMMA ServerPages == ASSUME BaseInv, PageInv, ServerStep PROVE PageInv'
<1> SUFFICES ASSUME ~aliased' PROVE FitsInv' /\ HandleInv' /\ AnswerInv' /\ WholeInv'
  BY DEF PageInv
<1>1. UNCHANGED <<gen, goVars>>
  BY DEF ServerStep
<1>2. ~aliased
  BY Base, WorkEffects DEF ServerStep, ServerNext, Dispatch, CancelFuture, CancelBatches, WorkEffect
<1> QED BY <1>1, <1>2, WorkPages, DispatchPages, CancelFuturePages, CancelBatchesPages
    DEF ServerStep, ServerNext, PageInv

(* When the JVM dies nothing is on its way to it, and its batches are no longer asked for. *)
LEMMA ExitPages == ASSUME BaseInv, PageInv, Killed \/ Crash PROVE PageInv'
<1> SUFFICES ASSUME ~aliased' PROVE FitsInv' /\ HandleInv' /\ AnswerInv' /\ WholeInv'
  BY DEF PageInv
<1>1. /\ UNCHANGED <<gen, call, phase, handle, answer, reported, out, db, aliased>> /\ gen \notin live'
      /\ in' = <<>> /\ tasks' = {} /\ batches' = <<>>
  BY DEF Killed, Crash, Exit, goVars
<1>2. FitsInv /\ HandleInv /\ AnswerInv /\ WholeInv
  BY <1>1 DEF PageInv
<1>3. FitsInv' /\ HandleInv'
  BY <1>1 DEF FitsInv, HandleInv, HandleOk
<1>4. \A t, val : Good(t, val) => Good(t, val)'
  BY <1>1 DEF Good, Part
<1>5. AnswerInv'
  BY <1>1, <1>2, <1>4 DEF AnswerInv, Heard
<1> QED BY <1>1, <1>2, <1>3, <1>5 DEF WholeInv, Whole, Part


-----------------------------------------------------------------------------
(* The threads move, the batches do not: nobody starts to wait but for what was    *)
(* just written, and nobody gives up an id for another.                            *)
Moves(x) ==
    /\ \/ call'[x].pc # "await"
       \/ call[x].pc = "write" /\ call'[x].n = call[x].n
       \/ /\ call[x].pc = "await" /\ call'[x].n = call[x].n /\ call'[x].op = call[x].op /\ call'[x].w = call[x].w
          /\ phase'[x] = phase[x] /\ handle'[x] = handle[x]
    /\ handle'[x] = handle[x] \/ handle[x].born = 0

(* A request still fits when threads move on: its worker keeps the handle, its *)
(* call is the one it was.                                                     *)
LEMMA FitsMove ==
    ASSUME BaseInv, UNCHANGED <<gen, live, batches>>, \A x \in Threads : Moves(x),
           NEW q, q.id \in Ids, UsedId(q.id), Fits(q)
    PROVE  Fits(q)'
<1>1. q.id.t \in Threads
  BY DEF Ids
<1>2. Moves(q.id.t)
  BY <1>1
<1>3. q.op \in BatchOps => q.id.t \in Workers /\ handle'[q.id.t].id = q.arg /\ handle'[q.id.t].born = gen /\ gen > 0
  BY <1>2 DEF Fits, Moves
<1>4. ASSUME q.id.n = call'[q.id.t].n, call'[q.id.t].pc = "await"
      PROVE  q.op = call'[q.id.t].op /\ q.row = <<q.id.t, phase'[q.id.t]>> /\ call'[q.id.t].w = gen
  BY <1>2, <1>4 DEF Moves, UsedId, Fits
<1> QED BY <1>3, <1>4 DEF Fits, Open, Part

(* A step of the threads keeps the pages when what it writes fits. *)
LEMMA GoPages ==
    ASSUME BaseInv, FitsInv, HandleInv, AnswerInv, WholeInv, UNCHANGED <<gen, live, tasks, batches, db>>, out' \subseteq out,
           \/ in' = in
           \/ \E m \in Messages : in' = Append(in, m) /\ (m.op # "cancel" /\ m.born \in {0, gen} => Fits(m)'),
           \A x \in Threads : Moves(x), \A x \in Workers : HandleOk(x)',
           \A x \in Threads : call'[x].pc = "await" /\ answer'[x].ok => Good(x, answer[x].val)',
           \A c \in Workers : c \in reported' => c \in reported \/ Part(c) \subseteq db
    PROVE  FitsInv' /\ HandleInv' /\ AnswerInv' /\ WholeInv'
<1>1. \A i \in DOMAIN in : in[i].id \in Ids /\ UsedId(in[i].id)
  <2>1. \A i \in DOMAIN in : in[i] \in Messages
    BY Base DEF Types, ServerTypes
  <2> QED BY <2>1, Base DEF Messages, IdInv
<1>2. ASSUME NEW i \in DOMAIN in', NEW q, q = in'[i], q.op # "cancel", q.born \in {0, gen} PROVE Fits(q)'
  <2>1. ASSUME NEW j \in DOMAIN in, q = in[j] PROVE Fits(q)'
    <3>1. q.id \in Ids /\ UsedId(q.id) /\ Fits(q)
      BY <1>1, <1>2, <2>1 DEF FitsInv
    <3> QED BY <3>1, FitsMove
  <2>2. CASE in' = in
    BY <1>2, <2>1, <2>2
  <2>3. ASSUME NEW m \in Messages, in' = Append(in, m), m.op # "cancel" /\ m.born \in {0, gen} => Fits(m)'
        PROVE  Fits(q)'
    <3>1. /\ DOMAIN in' = DOMAIN in \cup {Len(in) + 1} /\ in'[Len(in) + 1] = m
          /\ \A j \in DOMAIN in : in'[j] = in[j]
      BY <2>3, SeqAppend, Base DEF Types, ServerTypes
    <3>2. CASE i \in DOMAIN in
      BY <1>2, <2>1, <3>1, <3>2
    <3>3. CASE i = Len(in) + 1
      BY <1>2, <2>3, <3>1, <3>3
    <3> QED BY <3>1, <3>2, <3>3
  <2> QED BY <2>2, <2>3
<1>3. (\A i \in DOMAIN in : in[i].op # "cancel" /\ in[i].born \in {0, gen} => Fits(in[i]))'
  <2> SUFFICES ASSUME NEW i \in DOMAIN in', in'[i].op # "cancel", in'[i].born \in {0, gen'} PROVE (Fits(in[i]))'
    OBVIOUS
  <2>1. PICK q : q = in'[i]
    OBVIOUS
  <2>2. Fits(q)'
    BY <1>2, <2>1
  <2> QED BY <2>1, <2>2 DEF Fits, Open, Part
<1>4. ASSUME NEW k \in tasks, k.op # "cleanup" PROVE Fits(k)' /\ TaskGood(k)'
  <2>1. k.id \in Ids /\ UsedId(k.id) /\ Fits(k) /\ TaskGood(k)
    BY <1>4, Base DEF FitsInv, Types, ServerTypes, Tasks, IdInv
  <2> QED BY <2>1, FitsMove DEF TaskGood, Open, Part
<1>5. FitsInv'
  BY <1>3, <1>4 DEF FitsInv
<1>6. HandleInv'
  BY DEF HandleInv, Part
<1>7. ASSUME NEW r \in out', r.ok, Heard(r.id)' PROVE Good(r.id.t, r.val)'
  <2>1. r.id \in Ids /\ UsedId(r.id) /\ r.id.t \in Threads /\ r \in out
    BY Base DEF Types, ServerTypes, Responses, Ids, IdInv
  <2>2. Moves(r.id.t)
    BY <2>1
  <2>3. /\ call[r.id.t].pc = "await" /\ call'[r.id.t].n = call[r.id.t].n /\ call'[r.id.t].w = call[r.id.t].w
        /\ phase'[r.id.t] = phase[r.id.t] /\ handle'[r.id.t] = handle[r.id.t]
    BY <1>7, <2>1, <2>2 DEF Moves, Heard, UsedId
  <2>4. Good(r.id.t, r.val)
    BY <1>7, <2>1, <2>3 DEF AnswerInv, Heard
  <2>5. phase'[r.id.t] = "begin" /\ call'[r.id.t].w = gen /\ gen \in live => r.val \in DOMAIN batches /\ batches[r.val].opener.t = r.id.t
    BY <2>3, <2>4 DEF Good
  <2>6. phase'[r.id.t] \in {"add1", "add2"} /\ handle'[r.id.t].born = gen /\ gen \in live =>
          Open(handle'[r.id.t].id, {<<r.id.t, phase'[r.id.t]>>})
    BY <2>3, <2>4 DEF Good
  <2>7. phase'[r.id.t] = "commit" => Part(r.id.t) \subseteq db
    BY <2>3, <2>4 DEF Good
  <2> QED BY <2>5, <2>6, <2>7 DEF Good, Open, Part
<1>8. AnswerInv'
  BY <1>7 DEF AnswerInv
<1>9. WholeInv'
  BY DEF WholeInv, Whole, Part
<1> QED BY <1>5, <1>6, <1>8, <1>9

(* A waiting call that stays as it is hears what was good before. *)
LEMMA WaitingGood ==
    ASSUME AnswerInv, UNCHANGED <<gen, live, batches, db>>, NEW x \in Threads, call[x].pc = "await", answer[x].ok,
           answer'[x] = answer[x], call'[x].w = call[x].w, phase'[x] = phase[x], handle'[x] = handle[x]
    PROVE  Good(x, answer[x].val)'
<1>1. Good(x, answer[x].val)
  BY DEF AnswerInv
<1> QED BY <1>1 DEF Good, Open, Part

(* The calls go on, or are left, with the threads' work unchanged. *)
LEMMA QuietPages ==
    ASSUME BaseInv, PageInv, UNCHANGED <<gen, live, tasks, batches, db, aliased, out, phase, handle, reported>>,
           \/ in' = in
           \/ \E m \in Messages : in' = Append(in, m) /\ (m.op # "cancel" /\ m.born \in {0, gen} => aliased \/ Fits(m)'),
           \A x \in Threads :
               \/ call'[x] = call[x]
               \/ call'[x].pc # "await"
               \/ call[x].pc = "write" /\ call'[x].n = call[x].n /\ ~answer[x].ok,
           \A x \in Threads : answer'[x] = answer[x] \/ ~answer'[x].ok
    PROVE  PageInv'
<1> SUFFICES ASSUME ~aliased PROVE FitsInv' /\ HandleInv' /\ AnswerInv' /\ WholeInv'
  BY DEF PageInv
<1>1. FitsInv /\ HandleInv /\ AnswerInv /\ WholeInv
  BY DEF PageInv
<1>2. \A x \in Threads : Moves(x)
  BY DEF Moves
<1>3. \A x \in Workers : HandleOk(x)'
  BY <1>1 DEF HandleInv, HandleOk, Open, Part
<1>4. ASSUME NEW x \in Threads, call'[x].pc = "await", answer'[x].ok PROVE Good(x, answer[x].val)'
  <2>1. call'[x] = call[x] /\ answer'[x] = answer[x]
    BY <1>4
  <2> QED BY <1>1, <1>4, <2>1, WaitingGood
<1> QED BY <1>1, <1>2, <1>3, <1>4, GoPages


(* A call returns: its caller knows of its batch and its page what the answer said. *)
LEMMA ReturnPages ==
    ASSUME BaseInv, PageInv, NEW t \in Threads, NEW r, r.val \in Int, Return(t, r), phase[t] \in Busy,
           UNCHANGED <<gen, live, tasks, batches, db, aliased, out, answer>>,
           in' = in \/ (\E m \in Messages : in' = Append(in, m) /\ m.op = "cancel"),
           r.ok => call[t].pc = "await" /\ r = answer[t]
    PROVE  PageInv'
<1> SUFFICES ASSUME ~aliased PROVE FitsInv' /\ HandleInv' /\ AnswerInv' /\ WholeInv'
  BY DEF PageInv
<1>1. FitsInv /\ HandleInv /\ AnswerInv /\ WholeInv
  BY DEF PageInv
<1>2. /\ Alone(t) /\ call'[t].pc = "rest" /\ phase'[t] \in After(t, r)
      /\ handle'[t] = IF r.ok /\ phase[t] \in {"open", "begin"} THEN [id |-> r.val, born |-> call[t].w] ELSE handle[t]
  BY Base, ReturnFacts
<1>3. CallOk(t) /\ handle[t].born \in Int
  BY Base, CallTypeFacts DEF CallInv
<1>4. r.ok => Good(t, r.val)
  BY <1>1 DEF AnswerInv
<1>5. /\ phase'[t] = "add2" => r.ok /\ phase[t] = "add1"
      /\ phase'[t] = "commit" => r.ok /\ ((phase[t] = "add1" /\ Pages = 1) \/ phase[t] = "add2")
  BY <1>2, AfterFacts
<1>6. \A x \in Threads : Moves(x)
  <2> TAKE x \in Threads
  <2>1. CASE x # t
    BY <1>2, <2>1 DEF Alone, Moves
  <2>2. CASE x = t
    BY <1>2, <1>3, <2>2 DEF Moves, CallOk, NoHandle
  <2> QED BY <2>1, <2>2
<1>7. \A x \in Workers : HandleOk(x)'
  <2> TAKE x \in Workers
  <2>0. x \in Threads /\ HandleOk(x)
    BY <1>1, ThreadsAssumption DEF HandleInv
  <2>1. CASE x # t
    BY <1>2, <2>0, <2>1 DEF Alone, HandleOk, Open, Part
  <2>2. CASE x = t /\ r.ok /\ phase[t] = "begin"
    <3>1. handle'[t].id = r.val /\ handle'[t].born = call[t].w
      BY <1>2, <2>2
    <3>2. phase'[t] \notin {"add2", "commit"}
      BY <1>5, <2>2
    <3> QED BY <1>4, <2>2, <3>1, <3>2 DEF Good, HandleOk
  <2>3. CASE x = t /\ ~(r.ok /\ phase[t] = "begin")
    <3>1. phase[t] # "open"
      BY <1>3, <2>3 DEF CallOk, WorkerPhases, BatchPhases
    <3>2. handle'[t] = handle[t]
      BY <1>2, <2>3, <3>1
    <3>3. ASSUME handle[t].born = gen, gen \in live, phase'[t] = "add2" PROVE Open(handle[t].id, {<<t, "add1">>})
      BY <1>4, <1>5, <3>3 DEF Good
    <3>4. ASSUME handle[t].born = gen, gen \in live, phase'[t] = "commit" PROVE Open(handle[t].id, Part(t))
      <4>1. CASE phase[t] = "add1" /\ Pages = 1
        BY <1>4, <1>5, <3>4, <4>1 DEF Good, Part
      <4>2. CASE phase[t] = "add2"
        <5>1. Open(handle[t].id, {<<t, "add1">>}) /\ Open(handle[t].id, {<<t, "add2">>})
          BY <1>4, <1>5, <2>0, <2>3, <3>4, <4>2 DEF Good, HandleOk
        <5> QED BY <5>1 DEF Open, Part
      <4> QED BY <1>5, <3>4, <4>1, <4>2
    <3> QED BY <2>0, <2>3, <3>2, <3>3, <3>4 DEF HandleOk, Open, Part
  <2> QED BY <2>1, <2>2, <2>3
<1>8. ASSUME NEW x \in Threads, call'[x].pc = "await", answer'[x].ok PROVE Good(x, answer[x].val)'
  <2>1. x # t
    BY <1>2, <1>8
  <2> QED BY <1>1, <1>2, <1>8, <2>1, WaitingGood DEF Alone
<1>9. \A c \in Workers : c \in reported' => c \in reported \/ Part(c) \subseteq db
  BY <1>4 DEF Return, Good
<1> QED BY <1>1, <1>6, <1>7, <1>8, <1>9, GoPages

(* A call that ends hands its thread an answer that is good. *)
LEMMA FinishPages ==
    ASSUME BaseInv, PageInv, NEW t \in Threads, NEW r, r.val \in Int, Finish(t, r), call[t].pc \in StartPcs,
           UNCHANGED <<gen, live, tasks, batches, db, aliased, out, answer>>,
           in' = in \/ (\E m \in Messages : in' = Append(in, m) /\ m.op = "cancel"),
           r.ok => call[t].pc = "await" /\ r = answer[t]
    PROVE  PageInv'
<1>1. phase[t] \in Busy /\ CallOk(t) /\ call[t] \in Calls
  BY Base, BusyThread, CallTypeFacts DEF StartPcs, CallInv
<1>2. CASE call[t].op # "hello"
  BY <1>1, <1>2, ReturnPages DEF Finish
<1>3. CASE call[t].op = "hello"
  <2>0. phase[t] = "open"
    BY <1>1, <1>3 DEF CallOk, OpOf, Busy, BatchPhases
  <2>1. UNCHANGED <<phase, handle, reported>>
    BY <1>3 DEF Finish
  <2>2. \A x \in Threads : call'[x] = call[x] \/ call'[x].pc # "await"
    <3>1. CASE r.ok
      <4>1. Joined(t, r)
        BY <1>3, <3>1 DEF Finish
      <4> QED BY <2>0, <4>1, JoinedFacts
    <3>2. CASE ~r.ok
      <4>1. \A x \in Threads : call'[x] = IF x = t THEN [call[t] EXCEPT !.pc = "kill"] ELSE call[x]
        BY <1>3, <3>2, Base DEF Finish, ManagerInv, StarterInv
      <4>2. [call[t] EXCEPT !.pc = "kill"].pc = "kill"
        BY <1>1 DEF Calls
      <4> QED BY <4>1, <4>2
    <3> QED BY <3>1, <3>2
  <2> QED BY <2>1, <2>2, QuietPages
<1> QED BY <1>2, <1>3

(* The steps of the threads. *)
LEMMA StartPages == ASSUME BaseInv, PageInv, NEW t \in Threads, StartWork(t) \/ StartClose(t) PROVE PageInv'
<1> SUFFICES ASSUME ~aliased PROVE FitsInv' /\ HandleInv' /\ AnswerInv' /\ WholeInv'
  BY DEF PageInv, StartWork, StartClose, serverVars
<1>1. FitsInv /\ HandleInv /\ AnswerInv /\ WholeInv
  BY DEF PageInv
<1>2. UNCHANGED <<gen, live, in, tasks, batches, db, out, call, handle, answer, reported>>
  BY DEF StartWork, StartClose, serverVars
<1>3. phase[t] \notin Busy /\ phase[t] \in Phases
  BY Base, CallTypeFacts DEF StartWork, StartClose, Busy, BatchPhases
<1>4. call[t].pc = "rest"
  BY <1>3, Base, BusyThread
<1>5. PICK p \in {"done", "begin", "exec", "close"} : phase' = [phase EXCEPT ![t] = p]
  BY DEF StartWork, StartClose
<1>6. \A x \in Threads : phase'[x] = IF x = t THEN p ELSE phase[x]
  BY <1>5, Base DEF Types, GoTypes
<1>7. \A x \in Threads : Moves(x)
  BY <1>2, <1>4, <1>6 DEF Moves
<1>8. \A x \in Workers : HandleOk(x)'
  BY <1>1, <1>2, <1>6, ThreadsAssumption DEF HandleInv, HandleOk, Open, Part
<1>9. ASSUME NEW x \in Threads, call'[x].pc = "await", answer'[x].ok PROVE Good(x, answer[x].val)'
  BY <1>1, <1>2, <1>4, <1>6, <1>9, WaitingGood
<1> QED BY <1>1, <1>2, <1>7, <1>8, <1>9, GoPages


(* A thread is at another step of its call. *)
LEMMA CallSteps ==
    ASSUME BaseInv, NEW t \in Threads,
           \/ Begin(t) \/ EnsureJoin(t) \/ EnsureFails(t) \/ HelloKill(t) \/ Register(t) \/ CtxDone(t)
           \/ (CheckRunning(t) /\ cmd # 0) \/ (Capture(t) /\ cmd # 0)
    PROVE  /\ \A x \in Threads : call'[x] = call[x] \/ call'[x].pc # "await"
           /\ UNCHANGED <<gen, live, in, tasks, batches, db, aliased, out, phase, handle, reported>>
<1>1. call[t] \in Calls /\ call \in [Threads -> Calls] /\ call[t].n \in Nat
  BY Base, CallTypeFacts
<1>2. PICK c : call' = [call EXCEPT ![t] = c] /\ c.pc # "await"
  <2>1. CASE Begin(t)
    <3>1. [call[t] EXCEPT !.op = "open", !.pc = "ensure"].pc = "ensure"
      BY <1>1 DEF Calls
    <3> QED BY <2>1, <3>1 DEF Begin
  <2>2. CASE EnsureJoin(t) \/ EnsureFails(t) \/ HelloKill(t) \/ CtxDone(t)
    <3>1. PICK pc \in {"join", "register", "nostart", "reaped", "cancel"} : call' = [call EXCEPT ![t].pc = pc]
      BY <2>2 DEF EnsureJoin, EnsureFails, HelloKill, CtxDone
    <3>2. [call[t] EXCEPT !.pc = pc].pc = pc
      BY <1>1 DEF Calls
    <3> QED BY <1>1, <3>1, <3>2
  <2>3. CASE Register(t)
    <3>1. PICK n : n = call[t].n + 1
      OBVIOUS
    <3>2. [call[t] EXCEPT !.n = n, !.pc = "capture"].pc = "capture"
      BY <1>1 DEF Calls
    <3>3. call' = [call EXCEPT ![t] = [call[t] EXCEPT !.n = n, !.pc = "capture"]]
      BY <1>1, <2>3, <3>1 DEF Register
    <3> QED BY <3>2, <3>3
  <2>4. CASE CheckRunning(t) /\ cmd # 0
    <3>1. PICK op : op = OpOf(phase[t])
      OBVIOUS
    <3>2. [call[t] EXCEPT !.op = op, !.pc = "register"].pc = "register"
      BY <1>1 DEF Calls
    <3> QED BY <2>4, <3>1, <3>2 DEF CheckRunning
  <2>5. CASE Capture(t) /\ cmd # 0
    <3>2. [call[t] EXCEPT !.pc = "write", !.w = cmd].pc = "write"
      BY <1>1 DEF Calls
    <3> QED BY <2>5, <3>2 DEF Capture
  <2> QED BY <2>1, <2>2, <2>3, <2>4, <2>5
<1>3. \A x \in Threads : call'[x] = call[x] \/ call'[x].pc # "await"
  BY <1>1, <1>2
<1> QED BY <1>3
    DEF Begin, EnsureJoin, EnsureFails, HelloKill, Register, CtxDone, CheckRunning, Capture, serverVars

(* A step inside a call that neither writes nor returns keeps the pages. *)
LEMMA CallStepPages ==
    ASSUME BaseInv, PageInv, NEW t \in Threads,
           \/ Begin(t) \/ EnsureJoin(t) \/ EnsureFails(t) \/ HelloKill(t) \/ Register(t) \/ CtxDone(t)
           \/ (CheckRunning(t) /\ cmd # 0) \/ (Capture(t) /\ cmd # 0)
    PROVE  PageInv'
<1>1. \A x \in Threads : answer'[x] = answer[x] \/ ~answer'[x].ok
  <2>1. CASE HelloKill(t)
    BY <2>1, DiedFacts, ErrorVal DEF HelloKill
  <2>2. CASE Register(t)
    <3>1. \A x \in Threads : answer'[x] = IF x = t THEN Empty ELSE answer[x]
      BY <2>2, Base DEF Register, Types, GoTypes
    <3> QED BY <3>1 DEF Empty
  <2>3. CASE ~HelloKill(t) /\ ~Register(t)
    BY <2>3 DEF Begin, EnsureJoin, EnsureFails, CtxDone, CheckRunning, Capture
  <2> QED BY <2>1, <2>2, <2>3
<1>2. /\ \A x \in Threads : call'[x] = call[x] \/ call'[x].pc # "await"
      /\ UNCHANGED <<gen, live, in, tasks, batches, db, aliased, out, phase, handle, reported>>
  BY CallSteps
<1> QED BY <1>1, <1>2, QuietPages

(* So does a call that returns, with an answer or with an error. *)
LEMMA EndPages ==
    ASSUME BaseInv, PageInv, NEW t \in Threads,
           \/ StartFailed(t) \/ JoinDone(t) \/ StartupFails(t) \/ Receive(t) \/ SendCancel(t)
           \/ (CheckRunning(t) /\ cmd = 0) \/ (Capture(t) /\ cmd = 0) \/ (Write(t) /\ call[t].w \notin live \cup adrift)
    PROVE  PageInv'
<1>1. UNCHANGED <<gen, live, tasks, batches, db, aliased, out, answer>>
  BY DEF StartFailed, JoinDone, StartupFails, Receive, SendCancel, CheckRunning, Capture, Write, serverVars
<1>2. CASE StartFailed(t) \/ JoinDone(t) \/ (CheckRunning(t) /\ cmd = 0)
  <2>1. Return(t, Error) /\ in' = in
    BY <1>2 DEF StartFailed, JoinDone, CheckRunning, serverVars
  <2>2. phase[t] \in Busy
    BY <1>2, Base, BusyThread DEF StartFailed, JoinDone, CheckRunning, Busy, BatchPhases
  <2> QED BY <1>1, <2>1, <2>2, ErrorVal, ReturnPages
<1>3. CASE StartupFails(t)
  <2>1. Joined(t, Error) /\ phase[t] = "open" /\ UNCHANGED <<in, phase, handle, reported>>
    BY <1>3, Base DEF StartupFails, CallInv, CallOk, StartPcs, serverVars
  <2>2. \A x \in Threads : call'[x] = call[x] \/ call'[x].pc # "await"
    BY <2>1, JoinedFacts
  <2> QED BY <1>1, <2>1, <2>2, QuietPages
<1>4. CASE Receive(t)
  <2>1. call[t].pc = "await" /\ Finish(t, answer[t]) /\ answer[t].val \in Int /\ in' = in
    BY <1>4, Base, CallTypeFacts DEF Receive, serverVars
  <2> QED BY <1>1, <2>1, FinishPages DEF StartPcs
<1>5. CASE SendCancel(t)
  <2>1. call[t].pc \in StartPcs /\ Finish(t, Error)
    BY <1>5 DEF SendCancel, StartPcs
  <2>2. in' = in \/ in' = Append(in, Cancellation(t))
    BY <1>5 DEF SendCancel, Cancellation
  <2>3. in' = in \/ (\E m \in Messages : in' = Append(in, m) /\ m.op = "cancel")
    BY <2>2, CancellationType
  <2> QED BY <1>1, <2>1, <2>3, ErrorVal, FinishPages
<1>6. CASE (Capture(t) /\ cmd = 0) \/ (Write(t) /\ call[t].w \notin live \cup adrift)
  <2>1. call[t].pc \in StartPcs /\ Finish(t, Error) /\ in' = in
    BY <1>6 DEF Capture, Write, StartPcs, serverVars
  <2> QED BY <1>1, <2>1, ErrorVal, FinishPages
<1> QED BY <1>2, <1>3, <1>4, <1>5, <1>6


(* What a thread writes names the batch of its caller and brings its page. *)
LEMMA RequestFits ==
    ASSUME BaseInv, HandleInv, NEW t \in Threads, call[t].pc = "write", call[t].w = gen, gen \in live,
           Request(t).born \in {0, gen}
    PROVE  Fits(Request(t))
<1>1. call[t] \in Calls /\ CallOk(t) /\ gen \in Nat /\ phase[t] \in Busy
  BY Base, CallTypeFacts, BusyThread DEF CallInv, ManagerInv, ProcessInv
<1>2. PICK q : q = Request(t)
  OBVIOUS
<1>3. /\ q \in Messages /\ q.id = Id(t) /\ q.op = call[t].op /\ q.arg = Target(t).id
      /\ q.born = Target(t).born /\ q.row = <<t, phase[t]>>
  BY <1>2, RequestType DEF StartPcs
<1>4. q.id.t = t
  BY <1>3 DEF Id
<1>5. call[t].op = OpOf(phase[t]) \/ (call[t].op = "hello" /\ phase[t] = "open")
  BY <1>1 DEF CallOk, StartPcs
<1>6. ASSUME q.op \in BatchOps
      PROVE  t \in Workers /\ handle[t].id = q.arg /\ handle[t].born = gen /\ gen > 0
  <2>1. t \in Workers /\ Target(t) = handle[t]
    BY <1>3, <1>6, TargetTypes DEF StartPcs, BatchOps
  <2>2. phase[t] \in BatchPhases
    BY <1>1, <1>3, <1>5, <1>6 DEF OpOf, BatchOps, BatchPhases, Busy
  <2>3. handle[t].born > 0
    BY <1>1, <2>2 DEF CallOk
  <2> QED BY <1>1, <1>2, <1>3, <2>1, <2>3
<1>7. ASSUME q.op = "add" PROVE q.row \in Part(t)
  <2>1. phase[t] = "add1" \/ (phase[t] = "add2" /\ Pages # 1)
    BY <1>1, <1>3, <1>5, <1>7 DEF OpOf, CallOk, BatchPhases, Busy
  <2> QED BY <1>3, <2>1 DEF Part
<1>8. ASSUME q.op = "commit" PROVE Open(q.arg, Part(t))
  <2>1. phase[t] = "commit"
    BY <1>1, <1>3, <1>5, <1>8 DEF OpOf, BatchPhases, Busy
  <2> QED BY <1>6, <1>8, <2>1 DEF BatchOps, HandleInv, HandleOk
<1> QED BY <1>2, <1>4, <1>6, <1>7, <1>8 DEF Fits

(* A request is written: into the pipe, or into that of a JVM that was given up. *)
LEMMA WritePages == ASSUME BaseInv, PageInv, NEW t \in Threads, Write(t), call[t].w \in live \cup adrift PROVE PageInv'
<1>1. /\ UNCHANGED <<gen, live, tasks, batches, db, aliased, out, answer, phase, handle, reported>>
      /\ in' = IF call[t].w \in live THEN Append(in, Request(t)) ELSE in
  BY DEF Write
<1>2. call[t].pc = "write" /\ call[t] \in Calls
  BY Base, CallTypeFacts DEF Write
<1>3. PICK c : c = [call[t] EXCEPT !.pc = "await"]
  OBVIOUS
<1>4. c.pc = "await" /\ c.w = call[t].w /\ c.n = call[t].n /\ c.op = call[t].op
  BY <1>2, <1>3 DEF Calls
<1>5. \A x \in Threads : call'[x] = IF x = t THEN c ELSE call[x]
  BY <1>3, Base DEF Write, ManagerInv, StarterInv
<1>6. PICK q : q = Request(t)
  OBVIOUS
<1>7. q \in Messages /\ q.id = Id(t) /\ q.op = call[t].op /\ q.born = Target(t).born /\ q.row = <<t, phase[t]>>
  BY <1>2, <1>6, RequestType DEF StartPcs
<1>8. q.id.t = t /\ q.id.n = call[t].n
  BY <1>7 DEF Id
<1>9. ASSUME call[t].w \in live, ~aliased, q.born \in {0, gen} PROVE Fits(q)'
  <2>1. gen \in live /\ call[t].w = gen
    BY <1>9, Base DEF ManagerInv, ProcessInv
  <2>2. Fits(q)
    BY <1>2, <1>6, <1>9, <2>1, RequestFits DEF PageInv
  <2> QED BY <1>1, <1>4, <1>5, <1>7, <1>8, <2>1, <2>2 DEF Fits, Open, Part
<1>10. \/ in' = in
       \/ \E m \in Messages : in' = Append(in, m) /\ (m.op # "cancel" /\ m.born \in {0, gen} => aliased \/ Fits(m)')
  BY <1>1, <1>6, <1>7, <1>9
<1>11. ~answer[t].ok
  BY <1>2, Base DEF IdInv
<1> QED BY <1>1, <1>2, <1>4, <1>5, <1>10, <1>11, QuietPages

(* A fresh process knows nothing, and nothing that was given out is taken for its own. *)
LEMMA EnsureStartPages == ASSUME BaseInv, PageInv, NEW t \in Threads, EnsureStart(t) PROVE PageInv'
<1> SUFFICES ASSUME ~aliased PROVE FitsInv' /\ HandleInv' /\ AnswerInv' /\ WholeInv'
  BY DEF PageInv, EnsureStart
<1>1. FitsInv /\ HandleInv /\ AnswerInv /\ WholeInv
  BY DEF PageInv
<1>2. /\ UNCHANGED <<phase, handle, answer, reported, db>> /\ gen' = gen + 1 /\ gen \in Nat
      /\ in' = <<>> /\ out' = {} /\ tasks' = {} /\ batches' = <<>>
  BY Base DEF EnsureStart, FreshProcess, ManagerInv, ProcessInv
<1>3. \A x \in Threads : handle[x].born \in 0 .. gen /\ call[x].w \in Nat /\ call[x].w <= gen
  BY Base, CallTypeFacts DEF CallInv, CallOk
<1>4. \A x \in Threads : call'[x] = call[x] \/ call'[x].pc # "await"
  <2>1. call[t] \in Calls /\ call \in [Threads -> Calls]
    BY Base, CallTypeFacts
  <2>2. [call[t] EXCEPT !.op = "hello", !.pc = "register"].pc = "register"
    BY <2>1 DEF Calls
  <2> QED BY <2>1, <2>2 DEF EnsureStart
<1>5. FitsInv' /\ HandleInv'
  BY <1>2, <1>3, ThreadsAssumption DEF FitsInv, HandleInv, HandleOk
<1>6. ASSUME NEW x \in Threads, call'[x].pc = "await", answer'[x].ok PROVE Good(x, answer[x].val)'
  <2>1. Good(x, answer[x].val) /\ call'[x] = call[x]
    BY <1>1, <1>2, <1>4, <1>6 DEF AnswerInv
  <2>2. call'[x].w # gen' /\ handle'[x].born # gen'
    BY <1>2, <1>3, <2>1
  <2> QED BY <1>2, <2>1, <2>2 DEF Good, Part
<1>7. AnswerInv'
  BY <1>2, <1>6 DEF AnswerInv
<1> QED BY <1>1, <1>2, <1>5, <1>7 DEF WholeInv, Whole, Part

(* The reader hands an answer over, or tells that there will be none. *)
LEMMA ReaderPages == ASSUME BaseInv, PageInv, ReaderStep PROVE PageInv'
<1>1. ASSUME NEW r \in out, ReadResponse(r) PROVE PageInv'
  <2> SUFFICES ASSUME ~aliased PROVE FitsInv' /\ HandleInv' /\ AnswerInv' /\ WholeInv'
    BY <1>1 DEF PageInv, ReadResponse
  <2>1. FitsInv /\ HandleInv /\ AnswerInv /\ WholeInv
    BY DEF PageInv
  <2>2. /\ UNCHANGED <<gen, live, in, tasks, batches, db, call, phase, handle, reported>> /\ out' \subseteq out
        /\ answer' = IF r.id \in pending THEN [answer EXCEPT ![r.id.t] = [ok |-> r.ok, val |-> r.val]] ELSE answer
    BY <1>1 DEF ReadResponse
  <2>3. r \in Responses /\ UsedId(r.id) /\ r.id.t \in Threads
    BY Base DEF Types, ServerTypes, IdInv, Responses, Ids
  <2>4. PICK a : a = [ok |-> r.ok, val |-> r.val]
    OBVIOUS
  <2>5. a.ok = r.ok /\ a.val = r.val
    BY <2>4
  <2>6. \A t \in Threads : answer'[t] = IF r.id \in pending /\ t = r.id.t THEN a ELSE answer[t]
    BY <2>2, <2>3, <2>4, Base DEF Types, GoTypes
  <2>7. \A x \in Threads : Moves(x)
    BY <2>2 DEF Moves
  <2>8. \A x \in Workers : HandleOk(x)'
    BY <2>1, <2>2 DEF HandleInv, HandleOk, Open, Part
  <2>9. ASSUME NEW x \in Threads, call'[x].pc = "await", answer'[x].ok PROVE Good(x, answer[x].val)'
    <3>1. CASE answer'[x] = answer[x]
      BY <2>1, <2>2, <2>9, <3>1, WaitingGood
    <3>2. CASE r.id \in pending /\ x = r.id.t /\ answer'[x] = a
      <4>1. r.id.n = call[r.id.t].n
        BY <3>2, Base DEF IdInv
      <4>2. Heard(r.id) /\ r.ok
        BY <2>2, <2>5, <2>9, <3>2, <4>1 DEF Heard
      <4>3. Good(x, r.val)
        BY <2>1, <3>2, <4>2 DEF AnswerInv
      <4> QED BY <2>2, <2>5, <3>2, <4>3 DEF Good, Open, Part
    <3> QED BY <2>6, <3>1, <3>2
  <2> QED BY <2>1, <2>2, <2>7, <2>8, <2>9, GoPages
<1>2. ASSUME NEW g, ReadEOF(g) \/ Reap(g) PROVE PageInv'
  <2>1. /\ UNCHANGED <<gen, live, in, tasks, batches, db, aliased, out, call, phase, handle, reported>> /\ ProcessDied(g)
    BY <1>2 DEF ReadEOF, Reap, serverVars
  <2>2. \A x \in Threads : answer'[x] = answer[x] \/ ~answer'[x].ok
    BY <2>1, DiedFacts, ErrorVal
  <2> QED BY <2>1, <2>2, QuietPages
<1> QED BY <1>1, <1>2 DEF ReaderStep

-----------------------------------------------------------------------------
(* What a JVM that was given up may still commit is a page. *)
LateRowsInv == ~aliased => \A c \in late : \E x \in Workers : c.rows = Part(x)

(* A commit that is on its way is that of a whole page. *)
LEMMA CommitWhole ==
    ASSUME BaseInv, HandleInv, NEW q, Fits(q), gen \in live,
           q.op = "commit", q.arg \in DOMAIN batches, ~batches[q.arg].closing
    PROVE  \E x \in Workers : batches[q.arg].rows = Part(x)
<1>1. batches[q.arg].opener.t = q.id.t /\ q.id.t \in Workers
  BY FoundBatch DEF BatchOps
<1>2. Part(q.id.t) \subseteq batches[q.arg].rows
  BY DEF Fits, Open
<1>3. batches[q.arg].rows \subseteq Part(q.id.t)
  BY <1>1 DEF HandleInv
<1> QED BY <1>1, <1>2, <1>3

(* A process is started beside one that was given up. *)
LEMMA LateStart == ASSUME BaseInv, PageInv, LateRowsInv, NEW t \in Threads, EnsureStart(t) PROVE LateRowsInv'
<1> SUFFICES ASSUME ~aliased', NEW c \in late' PROVE \E x \in Workers : c.rows = Part(x)
  BY DEF LateRowsInv, Part
<1>1. ~aliased /\ FitsInv /\ HandleInv /\ (gen \in live => \A q \in OnTheirWay : q.born \in {0, gen})
  BY DEF EnsureStart, PageInv
<1>2. CASE c \in late
  BY <1>1, <1>2 DEF LateRowsInv
<1>3. CASE c \notin late
  <2>1. c.rows \in LateRows
    BY <1>3 DEF EnsureStart
  <2>2. PICK q \in OnTheirWay \cup tasks :
           /\ q.op = "commit" /\ q.arg \in DOMAIN batches /\ ~batches[q.arg].closing
           /\ c.rows = batches[q.arg].rows
    BY <2>1 DEF LateRows
  <2>3. gen \in live
    <3>1. gen \notin live => batches = <<>>
      BY Base DEF ServerOk, DeadInv
    <3> QED BY <2>2, <3>1
  <2>4. Fits(q)
    <3>1. CASE q \in tasks
      BY <1>1, <2>2, <3>1 DEF FitsInv
    <3>2. CASE \E i \in DOMAIN in : q = in[i]
      BY <1>1, <2>2, <2>3, <3>2 DEF FitsInv, OnTheirWay
    <3>3. CASE \E u \in Threads : call[u].pc = "write" /\ call[u].w = gen /\ q = Request(u)
      <4>1. PICK u \in Threads : call[u].pc = "write" /\ call[u].w = gen /\ q = Request(u)
        BY <3>3
      <4>2. q \in OnTheirWay
        BY <4>1 DEF OnTheirWay
      <4> QED BY <1>1, <2>3, <4>1, <4>2, RequestFits
    <3> QED BY <2>2, <3>1, <3>2, <3>3 DEF OnTheirWay
  <2> QED BY <1>1, <2>2, <2>3, <2>4, CommitWhole
<1> QED BY <1>2, <1>3

(* Every other step leaves it alone. *)
LEMMA LateStays ==
    ASSUME BaseInv, LateRowsInv, [Next]_vars, \A t \in Threads : ~EnsureStart(t) PROVE LateRowsInv'
<1>1. late' \subseteq late /\ (aliased => aliased')
  <2>1. ASSUME NEW t \in Threads, ThreadStep(t) \/ EnsureFails(t) \/ CtxDone(t) \/ JoinDone(t)
        PROVE  UNCHANGED <<late, aliased>>
    BY <2>1 DEF ThreadStep, StartWork, StartClose, Begin, EnsureJoin, EnsureFails, HelloKill, StartupFails,
       StartFailed, CheckRunning, Register, Capture, Write, Receive, CtxDone, JoinDone, SendCancel,
       serverVars, driftVars
  <2>2. CASE ReaderStep
    <3>1. ASSUME NEW r, ReadResponse(r) PROVE late' = late /\ aliased' = aliased
      BY <3>1 DEF ReadResponse, driftVars
    <3>2. ASSUME NEW g, ReadEOF(g) \/ Reap(g) PROVE late' = late /\ aliased' = aliased
      BY <3>2 DEF ReadEOF, Reap, serverVars, driftVars
    <3> QED BY <2>2, <3>1, <3>2 DEF ReaderStep
  <2>3. ASSUME NEW k \in tasks, Work(k) PROVE aliased' = aliased
    BY <2>3, WorkEffects, Base DEF WorkEffect
  <2>4. CASE ServerStep
    BY <2>3, <2>4 DEF ServerStep, ServerNext, Dispatch, CancelFuture, CancelBatches, goVars, driftVars
  <2>5. CASE Killed \/ Crash
    BY <2>5 DEF Killed, Crash, Exit, goVars, driftVars
  <2>6. CASE BadFrame \/ LateCommit \/ \E g \in adrift : AdriftExits(g)
    BY <2>6 DEF BadFrame, LateCommit, AdriftExits
  <2>7. CASE UNCHANGED vars
    BY <2>7 DEF vars, serverVars, goVars, driftVars
  <2> QED BY <2>1, <2>2, <2>4, <2>5, <2>6, <2>7 DEF Next
<1> QED BY <1>1 DEF LateRowsInv, Part

(* A frame is refused, or a JVM that was given up commits a page or dies. *)
LEMMA DriftPages ==
    ASSUME BaseInv, PageInv, LateRowsInv, BadFrame \/ LateCommit \/ \E g \in adrift : AdriftExits(g)
    PROVE  PageInv'
<1>1. CASE BadFrame
  <2>1. \A x \in Threads : answer'[x] = answer[x] \/ ~answer'[x].ok
    BY <1>1, DiedFacts, ErrorVal DEF BadFrame
  <2> QED BY <1>1, <2>1, QuietPages DEF BadFrame
<1>2. CASE LateCommit
  <2> SUFFICES ASSUME ~aliased PROVE FitsInv' /\ HandleInv' /\ AnswerInv' /\ WholeInv'
    BY <1>2 DEF PageInv, LateCommit
  <2>1. FitsInv /\ HandleInv /\ AnswerInv /\ WholeInv
    BY DEF PageInv
  <2>2. PICK x \in Workers : db' = db \cup Part(x)
    BY <1>2 DEF LateCommit, LateRowsInv
  <2>3. UNCHANGED <<gen, live, in, out, tasks, batches, call, phase, handle, answer, reported>>
    BY <1>2 DEF LateCommit
  <2>4. FitsInv' /\ HandleInv'
    BY <2>1, <2>2, <2>3 DEF FitsInv, HandleInv, HandleOk, Fits, TaskGood, Open, Part
  <2>5. AnswerInv'
    BY <2>1, <2>2, <2>3 DEF AnswerInv, Good, Heard, Open, Part
  <2>6. WholeInv'
    BY <2>1, <2>2, <2>3 DEF WholeInv, Whole, Part
  <2> QED BY <2>4, <2>5, <2>6
<1>3. CASE \E g \in adrift : AdriftExits(g)
  BY <1>3, QuietPages DEF AdriftExits
<1> QED BY <1>1, <1>2, <1>3

(* Requests, batches and answers are about the pages that their callers mean. *)
THEOREM PagesHold == Spec => []PageInv
<1>1. Init => PageInv
  <2> SUFFICES ASSUME Init PROVE FitsInv /\ HandleInv /\ AnswerInv /\ WholeInv
    BY DEF PageInv
  <2>1. /\ in = <<>> /\ tasks = {} /\ batches = <<>> /\ out = {} /\ live = {} /\ db = {} /\ reported = {}
        /\ \A t \in Threads : answer[t] = Empty
    BY DEF Init, ServerInit
  <2> QED BY <2>1 DEF FitsInv, HandleInv, HandleOk, AnswerInv, WholeInv, Whole, Empty
<1>2. BaseInv /\ PageInv /\ LateRowsInv /\ [Next]_vars => PageInv' /\ LateRowsInv'
  <2> SUFFICES ASSUME BaseInv, PageInv, LateRowsInv, [Next]_vars PROVE PageInv' /\ LateRowsInv'
    OBVIOUS
  <2>1. ASSUME NEW t \in Threads, ThreadStep(t) \/ EnsureFails(t) \/ CtxDone(t) \/ JoinDone(t) PROVE PageInv'
    BY <2>1, StartPages, CallStepPages, EndPages, WritePages, EnsureStartPages, Zenon DEF ThreadStep
  <2>2. ASSUME UNCHANGED vars PROVE PageInv'
    <3>1. UNCHANGED <<gen, live, in, tasks, batches, db, aliased, out, phase, handle, reported, call, answer>>
      BY <2>2 DEF vars, serverVars, goVars
    <3> QED BY <3>1, QuietPages
  <2>3. PageInv'
    BY <2>1, <2>2, ReaderPages, ServerPages, ExitPages, DriftPages DEF Next
  <2> QED BY <2>3, LateStart, LateStays
<1>3. Init => LateRowsInv
  BY DEF Init, LateRowsInv
<1> QED BY <1>1, <1>2, <1>3, BaseHolds, PTL DEF Spec

(* A page is committed whole or not at all, and CopyData returns without an error  *)
(* only when it is in the database: whatever is cancelled, fails, dies or comes     *)
(* late, as long as no id met another process.                                      *)
THEOREM PagesAreWhole == Spec => []WholePages
<1>1. PageInv => WholePages
  BY DEF PageInv, WholeInv, Whole, Part, WholePages
<1> QED BY <1>1, PagesHold, PTL
=============================================================================
