----------------------------- MODULE JdbcBridge -----------------------------
(***************************************************************************)
(* The Oscar JDBC bridge: the Go manager (internal/jdbcbridge/manager.go)    *)
(* that starts the JVM, multiplexes calls over one pipe and survives the     *)
(* JVM's death, composed with the JVM side (BridgeServer) and with the       *)
(* writers that use it (datamigrate/target/oscar.go): a writer opens a       *)
(* session, its workers copy pages through batches, then it closes.          *)
(***************************************************************************)
EXTENDS BridgeServer

CONSTANTS
    Writers,      \* OscarWriter values
    Workers,      \* goroutines that call CopyData
    WriterOf,     \* the writer a worker uses
    Cancellable,  \* operations whose context may be cancelled or time out
    Pages         \* AddBatch requests of a page, 1 .. n

ASSUME ThreadsAssumption ==
    /\ Threads = Writers \cup Workers /\ Writers \cap Workers = {}
    /\ WriterOf \in [Workers -> Writers] /\ "none" \notin Threads

NoOne == "none"

VARIABLES
    cmd,          \* Manager.cmd and stdin: the registered generation, 0 for nil
    starting,     \* Manager.starting: the thread that starts a process
    reading,      \* generations whose readLoop has not returned
    reaping,      \* generations whose reaper has not returned
    pending,      \* Manager.pending
    answer,       \* per thread, the channel of its call
    call,         \* per thread, the call it is in
    phase,        \* per thread, how far its work is
    handle,       \* per thread, the session or batch id it was given
    reported,     \* workers whose CopyData returned without an error
    adrift,       \* generations before gen whose JVM runs on, unregistered
    late,         \* rows that JVMs adrift may still commit
    refused       \* history: generations of which a frame was refused

driftVars == <<adrift, late, refused>>
goVars == <<cmd, starting, reading, reaping, pending, answer, call, phase, handle, reported, driftVars>>
vars == <<gen, serverVars, goVars>>

Empty == [ok |-> FALSE, val |-> -1]
Error == [ok |-> FALSE, val |-> 0]
NoHandle == [id |-> 0, born |-> 0]
Resting == [pc |-> "rest", op |-> "none", n |-> 0, w |-> 0]

Id(t) == [t |-> t, n |-> call[t].n]

Init ==
    /\ ServerInit
    /\ gen = 0 /\ cmd = 0 /\ starting = NoOne /\ reading = {} /\ reaping = {}
    /\ pending = {} /\ answer = [t \in Threads |-> Empty]
    /\ call = [t \in Threads |-> Resting]
    /\ phase = [t \in Threads |-> IF t \in Writers THEN "open" ELSE "wait"]
    /\ handle = [t \in Threads |-> NoHandle]
    /\ reported = {} /\ adrift = {} /\ late = {} /\ refused = {}

(***************************************************************************)
(* The writers: what follows a call.                                        *)
(***************************************************************************)
(* CopyData and its callers: the next operation after `phase` ended with r. *)
After(t, r) ==
    CASE phase[t] = "open"   -> IF r.ok THEN {"copy"} ELSE {"closed"}
      [] phase[t] = "close"  -> {"closed"}
      [] phase[t] = "exec"   -> {"done"}
      [] phase[t] = "begin"  -> IF r.ok THEN {"lob", "add1"} ELSE {"done"}
      [] phase[t] = "lob"    -> IF r.ok THEN {"add1"} ELSE {"abort"}
      [] phase[t] = "add1"   -> IF ~r.ok THEN {"abort"} ELSE IF Pages = 1 THEN {"commit"} ELSE {"add2"}
      [] phase[t] = "add2"   -> IF r.ok THEN {"commit"} ELSE {"abort"}
      [] phase[t] = "commit" -> IF r.ok THEN {"done"} ELSE {"abort"}
      [] OTHER               -> {"done"}

OpOf(p) == IF p \in {"add1", "add2"} THEN "add" ELSE p

(* The call returns r to its caller. *)
Return(t, r) ==
    /\ \E p \in After(t, r) : phase' = [phase EXCEPT ![t] = p]
    /\ call' = [call EXCEPT ![t] = [@ EXCEPT !.pc = "rest", !.w = 0]]
    /\ handle' = IF r.ok /\ phase[t] \in {"open", "begin"}
                 THEN [handle EXCEPT ![t] = [id |-> r.val, born |-> call[t].w]] ELSE handle
    /\ reported' = IF r.ok /\ phase[t] = "commit" THEN reported \cup {t} ELSE reported

(* A worker starts when its writer has a session: a page, or a statement. *)
StartWork(t) ==
    /\ t \in Workers /\ phase[t] = "wait" /\ phase[WriterOf[t]] \in {"copy", "closed"}
    /\ IF phase[WriterOf[t]] = "closed"
       THEN phase' = [phase EXCEPT ![t] = "done"]
       ELSE \E p \in {"begin", "exec"} : phase' = [phase EXCEPT ![t] = p]
    /\ UNCHANGED <<gen, serverVars, cmd, starting, reading, reaping, pending, answer, call, handle, reported, driftVars>>

(* The writer is closed when its workers are through. *)
StartClose(t) ==
    /\ t \in Writers /\ phase[t] = "copy" /\ \A c \in Workers : WriterOf[c] = t => phase[c] = "done"
    /\ phase' = [phase EXCEPT ![t] = "close"]
    /\ UNCHANGED <<gen, serverVars, cmd, starting, reading, reaping, pending, answer, call, handle, reported, driftVars>>

(***************************************************************************)
(* Manager: the process.                                                    *)
(***************************************************************************)
\* Variant: the waiting calls are not told.
DiedQuietly(g) ==
    /\ cmd' = IF g = gen THEN 0 ELSE cmd
    /\ UNCHANGED <<pending, answer>>

(* processDied of generation g, with failPending: only the registered process
   can die, and its waiting calls are told. *)
ProcessDied(g) ==
    IF g # gen \/ cmd = 0
    THEN UNCHANGED <<cmd, pending, answer>>
    ELSE /\ cmd' = 0
         /\ pending' = {}
         /\ answer' = [t \in Threads |-> IF Id(t) \in pending THEN Error ELSE answer[t]]

(* OpenSession: the only call that may start a process. *)
Begin(t) ==
    /\ call[t].pc = "rest" /\ phase[t] = "open"
    /\ call' = [call EXCEPT ![t] = [@ EXCEPT !.op = "open", !.pc = "ensure"]]
    /\ UNCHANGED <<gen, serverVars, cmd, starting, reading, reaping, pending, answer, phase, handle, reported, driftVars>>

(* ensureStarted: a startup under way is joined, a running process is used. *)
EnsureJoin(t) ==
    /\ call[t].pc = "ensure" /\ (starting # NoOne \/ cmd # 0)
    /\ call' = [call EXCEPT ![t].pc = IF starting # NoOne THEN "join" ELSE "register"]
    /\ UNCHANGED <<gen, serverVars, cmd, starting, reading, reaping, pending, answer, phase, handle, reported, driftVars>>

(* The id an operation is about, as its caller was given it. *)
Target(t) ==
    CASE call[t].op \in {"hello", "open"} -> NoHandle
      [] call[t].op \in {"begin", "exec"} -> handle[WriterOf[t]]
      [] OTHER -> handle[t]

(* What a thread writes. *)
Request(t) == Message(Id(t), call[t].op, Target(t).id, Target(t).born, <<t, phase[t]>>)

(* What reaches a JVM that runs on while another is started: the requests in its
   pipe and those of threads that are about to write to it. *)
OnTheirWay == {in[i] : i \in DOMAIN in} \cup {Request(t) : t \in {u \in Threads : call[u].pc = "write" /\ call[u].w = gen}}

(* The rows its commits may still make permanent. *)
LateRows ==
    {batches[q.arg].rows : q \in {x \in OnTheirWay \cup tasks :
        x.op = "commit" /\ x.arg \in DOMAIN batches /\ ~batches[x.arg].closing}}

(* ensureStarted: the process is started and registered, its readLoop and its
   reaper run; the handshake is a call of its own. A JVM that was unregistered
   and not killed runs on: nobody hears of it, but its commits reach the database. *)
EnsureStart(t) ==
    /\ call[t].pc = "ensure" /\ starting = NoOne /\ cmd = 0
    /\ gen' = gen + 1 /\ cmd' = gen + 1 /\ starting' = t
    /\ live' = {gen + 1} /\ reading' = reading \cup {gen + 1} /\ reaping' = reaping \cup {gen + 1}
    /\ FreshProcess
    /\ call' = [call EXCEPT ![t] = [@ EXCEPT !.op = "hello", !.pc = "register"]]
    /\ adrift' = adrift \cup live
    /\ late' = late \cup {[w |-> gen, rows |-> rows] : rows \in LateRows}
    /\ aliased' = (aliased \/ (gen \in live /\ \E q \in OnTheirWay : q.born \notin {0, gen}))
    /\ UNCHANGED <<db, faults, pending, answer, phase, handle, reported, refused>>

(* ensureStarted: paths, spool directory or exec.Cmd fail, there is no process.
   Others may join before the deferred end. *)
EnsureFails(t) ==
    /\ call[t].pc = "ensure" /\ starting = NoOne /\ cmd = 0
    /\ Fault
    /\ starting' = t
    /\ call' = [call EXCEPT ![t].pc = "nostart"]
    /\ UNCHANGED <<gen, live, in, out, input, tasks, sessions, batches, db, aliased,
                   cmd, reading, reaping, pending, answer, phase, handle, reported, driftVars>>

(* The deferred end of ensureStarted: joiners go on or fail with the starter. *)
Joined(t, r) ==
    /\ starting' = NoOne
    /\ call' = [x \in Threads |->
                  IF x = t \/ call[x].pc = "join"
                  THEN [call[x] EXCEPT !.op = "open", !.pc = IF r.ok THEN "register" ELSE "failed"]
                  ELSE call[x]]

(* A call ends with r: the handshake ends the startup or kills the process. *)
Finish(t, r) ==
    IF call[t].op # "hello" THEN Return(t, r) /\ UNCHANGED starting
    ELSE /\ IF r.ok THEN Joined(t, r)
            ELSE /\ call' = [call EXCEPT ![t].pc = "kill"]
                 /\ UNCHANGED starting
         /\ UNCHANGED <<phase, handle, reported>>

(* The handshake failed: the process is killed and its callers are told. *)
HelloKill(t) ==
    /\ call[t].pc = "kill"
    /\ ProcessDied(gen)
    /\ call' = [call EXCEPT ![t].pc = "reaped"]
    /\ UNCHANGED <<gen, serverVars, starting, reading, reaping, phase, handle, reported, driftVars>>

\* Variant: the failed startup does not wait for the reaper.
StartupFailsAtOnce(t) ==
    /\ call[t].pc \in {"nostart", "reaped"}
    /\ Joined(t, Error)
    /\ UNCHANGED <<gen, serverVars, cmd, reading, reaping, pending, answer, phase, handle, reported, driftVars>>

(* The startup ends with its error; if there was a process, when the reaper is
   through. *)
StartupFails(t) ==
    /\ call[t].pc = "nostart" \/ (call[t].pc = "reaped" /\ gen \notin reaping)
    /\ Joined(t, Error)
    /\ UNCHANGED <<gen, serverVars, cmd, reading, reaping, pending, answer, phase, handle, reported, driftVars>>

StartFailed(t) ==
    /\ call[t].pc = "failed"
    /\ Return(t, Error)
    /\ UNCHANGED <<gen, serverVars, cmd, starting, reading, reaping, pending, answer, driftVars>>

(* The JVM dies by itself, *)
Crash ==
    /\ Fault
    /\ Exit
    /\ UNCHANGED <<gen, goVars>>

(* or because a failed startup killed it. *)
Killed ==
    /\ starting # NoOne /\ call[starting].pc = "reaped"
    /\ Exit
    /\ UNCHANGED <<gen, faults, goVars>>

(* readLoop: a response goes to the call that waits for it, if any. *)
ReadResponse(r) ==
    /\ gen \in reading /\ r \in out
    /\ out' = out \ {r}
    /\ pending' = pending \ {r.id}
    /\ answer' = IF r.id \in pending THEN [answer EXCEPT ![r.id.t] = [ok |-> r.ok, val |-> r.val]] ELSE answer
    /\ UNCHANGED <<gen, live, in, input, tasks, sessions, batches, db, faults, aliased,
                   cmd, starting, reading, reaping, call, phase, handle, reported, driftVars>>

(* readLoop: a frame of another size, version or kind than a response (what a
   driver prints, an answer that is too long). The process is given up, not killed. *)
BadFrame ==
    /\ gen \in reading
    /\ Fault
    /\ reading' = reading \ {gen} /\ refused' = refused \cup {gen}
    /\ ProcessDied(gen)
    /\ UNCHANGED <<gen, live, in, out, input, tasks, sessions, batches, db, aliased,
                   starting, reaping, call, phase, handle, reported, adrift, late>>

(* A JVM that was given up commits what it was asked to, *)
LateCommit ==
    \E c \in late :
        /\ c.w \in adrift
        /\ db' = db \cup c.rows /\ late' = late \ {c}
        /\ UNCHANGED <<gen, live, in, out, input, tasks, sessions, batches, faults, aliased,
                       cmd, starting, reading, reaping, pending, answer, call, phase, handle, reported,
                       adrift, refused>>

(* and may die. *)
AdriftExits(g) ==
    /\ g \in adrift /\ adrift' = adrift \ {g}
    /\ Fault
    /\ UNCHANGED <<gen, live, in, out, input, tasks, sessions, batches, db, aliased,
                   cmd, starting, reading, reaping, pending, answer, call, phase, handle, reported,
                   late, refused>>

(* readLoop: end of file, after everything the process wrote. *)
ReadEOF(g) ==
    /\ g \in reading \ live /\ (g = gen => out = {})
    /\ reading' = reading \ {g}
    /\ ProcessDied(g)
    /\ UNCHANGED <<gen, serverVars, starting, reaping, call, phase, handle, reported, driftVars>>

(* The reaper: stdout is done and the process has been waited for. *)
Reap(g) ==
    /\ g \in reaping \ (live \cup adrift \cup reading)
    /\ reaping' = reaping \ {g}
    /\ ProcessDied(g)
    /\ UNCHANGED <<gen, serverVars, starting, reading, call, phase, handle, reported, driftVars>>

(***************************************************************************)
(* Manager: one call.                                                       *)
(***************************************************************************)
(* requestExisting, the start of every other call: never starts a process. *)
CheckRunning(t) ==
    /\ call[t].pc = "rest"
    /\ phase[t] \in {"exec", "begin", "lob", "add1", "add2", "commit", "abort", "close"}
    /\ IF cmd = 0
       THEN Return(t, Error)
       ELSE /\ call' = [call EXCEPT ![t] = [@ EXCEPT !.op = OpOf(phase[t]), !.pc = "register"]]
            /\ UNCHANGED <<phase, handle, reported>>
    /\ UNCHANGED <<gen, serverVars, cmd, starting, reading, reaping, pending, answer, driftVars>>

(* requestStarted: a new id is made known before anything is written. *)
Register(t) ==
    /\ call[t].pc = "register"
    /\ call' = [call EXCEPT ![t].n = @ + 1, ![t].pc = "capture"]
    /\ pending' = pending \cup {[t |-> t, n |-> call[t].n + 1]}
    /\ answer' = [answer EXCEPT ![t] = Empty]
    /\ UNCHANGED <<gen, serverVars, cmd, starting, reading, reaping, phase, handle, reported, driftVars>>

(* writeRequest: the pipe of the registered process, if there is one. *)
Capture(t) ==
    /\ call[t].pc = "capture"
    /\ IF cmd = 0
       THEN /\ pending' = pending \ {Id(t)}
            /\ Finish(t, Error)
       ELSE /\ call' = [call EXCEPT ![t] = [@ EXCEPT !.pc = "write", !.w = cmd]]
            /\ UNCHANGED <<pending, starting, phase, handle, reported>>
    /\ UNCHANGED <<gen, serverVars, cmd, reading, reaping, answer, driftVars>>

(* writeRequest: the pipe of a dead process refuses; that of one that was given
   up does not, and its commits are in `late`. *)
Write(t) ==
    /\ call[t].pc = "write"
    /\ IF call[t].w \in live \cup adrift
       THEN /\ in' = IF call[t].w \in live THEN Append(in, Request(t)) ELSE in
            /\ call' = [call EXCEPT ![t].pc = "await"]
            /\ UNCHANGED <<pending, starting, phase, handle, reported>>
       ELSE /\ pending' = pending \ {Id(t)}
            /\ Finish(t, Error)
            /\ UNCHANGED in
    /\ UNCHANGED <<gen, live, out, input, tasks, sessions, batches, db, faults, aliased,
                   cmd, reading, reaping, answer, driftVars>>

(* requestStarted: the response. *)
Receive(t) ==
    /\ call[t].pc = "await" /\ answer[t] # Empty
    /\ Finish(t, answer[t])
    /\ UNCHANGED <<gen, serverVars, cmd, reading, reaping, pending, answer, driftVars>>

(* requestStarted: the context ends first; select may prefer it to a response
   that is there. *)
CtxDone(t) ==
    /\ call[t].pc = "await" /\ call[t].op \in Cancellable
    /\ Fault
    /\ pending' = pending \ {Id(t)}
    /\ call' = [call EXCEPT ![t].pc = "cancel"]
    /\ UNCHANGED <<gen, live, in, out, input, tasks, sessions, batches, db, aliased,
                   cmd, starting, reading, reaping, answer, phase, handle, reported, driftVars>>

(* The context of a caller that waits for somebody else's startup ends. *)
JoinDone(t) ==
    /\ call[t].pc = "join" /\ "open" \in Cancellable
    /\ Fault
    /\ Return(t, Error)
    /\ UNCHANGED <<gen, live, in, out, input, tasks, sessions, batches, db, aliased,
                   cmd, starting, reading, reaping, pending, answer, driftVars>>

(* The cancellation is sent to whatever process is registered now. *)
SendCancel(t) ==
    /\ call[t].pc = "cancel"
    /\ in' = IF cmd \in live THEN Append(in, Message(Id(t), "cancel", 0, 0, <<>>)) ELSE in
    /\ Finish(t, Error)
    /\ UNCHANGED <<gen, live, out, input, tasks, sessions, batches, db, faults, aliased,
                   cmd, reading, reaping, pending, answer, driftVars>>

ThreadStep(t) ==
    \/ StartWork(t) \/ StartClose(t) \/ Begin(t)
    \/ EnsureJoin(t) \/ EnsureStart(t) \/ HelloKill(t) \/ StartupFails(t) \/ StartFailed(t)
    \/ CheckRunning(t) \/ Register(t) \/ Capture(t) \/ Write(t) \/ Receive(t) \/ SendCancel(t)

ReaderStep ==
    \/ \E r \in out : ReadResponse(r)
    \/ \E g \in reading : ReadEOF(g)
    \/ \E g \in reaping : Reap(g)

ServerStep == ServerNext /\ UNCHANGED <<gen, goVars>>

Next ==
    \/ \E t \in Threads : ThreadStep(t) \/ EnsureFails(t) \/ CtxDone(t) \/ JoinDone(t)
    \/ ReaderStep \/ ServerStep \/ Killed \/ Crash
    \/ BadFrame \/ LateCommit \/ \E g \in adrift : AdriftExits(g)

Spec == Init /\ [][Next]_vars

(* Goroutines and JVM threads go on when they can; a killed process dies. No
   crash, JDBC error or cancellation is required to happen. *)
Fairness ==
    /\ \A t \in Threads : WF_vars(ThreadStep(t))
    /\ WF_vars(ReaderStep) /\ WF_vars(Killed)
    /\ WF_vars((Dispatch \/ CancelFuture \/ CancelBatches) /\ UNCHANGED <<gen, goVars>>)
    /\ WF_vars(\E k \in tasks : Work(k) /\ UNCHANGED <<gen, goVars>>)

FairSpec == Spec /\ Fairness
-----------------------------------------------------------------------------
Ids == [t : Threads, n : Nat]
Ops == {"open", "exec", "begin", "lob", "add", "commit", "abort", "close"}

(* Every variable of both sides holds what it is meant to hold. *)
TypeOK ==
    /\ gen \in Nat /\ live \subseteq 1 .. gen /\ cmd \in 0 .. gen
    /\ adrift \subseteq 1 .. gen /\ refused \subseteq 1 .. gen /\ \A c \in late : c.w \in 1 .. gen
    /\ reading \subseteq 1 .. gen /\ reaping \subseteq 1 .. gen
    /\ starting \in Threads \cup {NoOne}
    /\ input \in Ids \cup {NoTarget} /\ pending \subseteq Ids
    /\ \A i \in DOMAIN in : in[i].id \in Ids /\ in[i].op \in Ops \cup {"hello", "cancel"}
    /\ \A r \in out : r.id \in Ids /\ r.ok \in BOOLEAN /\ r.val \in Nat
    /\ \A k \in tasks : k.id \in Ids /\ k.op \in Ops \cup {"hello", "cleanup"} /\ k.cancelled \in BOOLEAN
    /\ \A s \in DOMAIN sessions : sessions[s].open \in Int /\ sessions[s].idle \in 0 .. MaxIdle
    /\ \A b \in DOMAIN batches :
         batches[b].session \in DOMAIN sessions /\ batches[b].lobs \in 0 .. 1
    /\ \A t \in Threads :
         /\ call[t].n \in Nat /\ call[t].w \in 0 .. gen /\ handle[t].born \in 0 .. gen
         /\ answer[t].ok \in BOOLEAN /\ answer[t].val \in Nat \cup {-1}
    /\ faults \in 0 .. MaxFaults /\ reported \subseteq Workers

(* "Manager owns the single lazy JVM bridge process": whatever order readLoop,
   reaper, failed handshakes and concurrent first calls take, a process is only
   started when every earlier one is gone, except those whose answers readLoop
   could not read: they are given up and run on. Calls are written to a process
   whose answers are read (ensureStarted, processDied). *)
OneProcess ==
    /\ \A g \in live \cup adrift : g = gen \/ g \in refused
    /\ cmd # 0 => cmd \in reading

(* A call that waits will be answered: its id is registered with the process it
   was written to, and that process has the request, works on it or has answered
   it, unless it is dead and its end of file is still to be read. *)
AnswerOnTheWay ==
    \A t \in Threads : call[t].pc = "await" /\ answer[t] = Empty =>
        /\ Id(t) \in pending /\ call[t].w = cmd
        /\ cmd \in live =>
             \/ \E i \in DOMAIN in : in[i].id = Id(t)
             \/ \E k \in tasks : k.id = Id(t)
             \/ \E r \in out : r.id = Id(t)

(* A batch whose id nobody was given: its beginBatch was cancelled or failed.
   When a JVM in use has nothing left to do there is none, so no connection stays in
   a transaction that no caller can end (beginBatch, cancelRequest); as long as
   no id met another process. *)
NoUnknownBatch ==
    ~aliased /\ cmd \in live /\ in = <<>> /\ input = NoTarget /\ tasks = {} /\ out = {}
        /\ (\A t \in Threads : call[t].pc # "cancel" /\ (call[t].pc = "await" => answer[t] = Empty))
    => \A b \in DOMAIN batches : batches[b].mapped =>
          \E t \in Workers : handle[t] = [id |-> b, born |-> gen]

(* Spool files die with their batch: "queued uploads must never recreate files
   after an abort has acquired the batch monitor" (cancelRequest). *)
LobsDieWithBatch == \A b \in DOMAIN batches : batches[b].disposed => batches[b].lobs = 0

(* Who holds connections of a session: batches, and requests at work. *)
InBatches(s) == {b \in DOMAIN batches : batches[b].session = s /\ ~batches[b].disposed}
InUse(s) == {k \in tasks : k.pc \in {"using", "prepare"} /\ k.arg = s}

Held(s) == Cardinality(InBatches(s)) + Cardinality(InUse(s))

(* No connection is lost: whatever is cancelled, fails or is closed in whatever
   order, each one the pool counts is idle or somebody holds it, and there are
   never more than maxOpen (ConnectionPool, discardBatch). *)
NoConnectionLost ==
    \A s \in DOMAIN sessions :
        /\ sessions[s].open <= sessions[s].idle + Held(s)
        /\ sessions[s].open <= MaxOpen /\ sessions[s].idle \in 0 .. MaxIdle

(* The pool's counter is the number of connections that exist: none is lost
   and, as long as no id met another process, none is given back twice. *)
PoolCountsConnections ==
    /\ NoConnectionLost
    /\ ~aliased => \A s \in DOMAIN sessions : sessions[s].open = sessions[s].idle + Held(s)

(* A page is committed whole or not at all, and CopyData returns without an
   error only when it is there; as long as no id met another process. *)
WholePages ==
    ~aliased => \A c \in Workers :
        LET page == {<<c, "add1">>, <<c, "add2">>}
            part == IF Pages = 1 THEN {<<c, "add1">>} ELSE page
        IN  /\ db \cap page \in {{}, part}
            /\ c \in reported => part \subseteq db

(* "a bridge crash cannot turn an old session ID into an implicit retry against
   a fresh process": no request uses an id that another process gave out. *)
NoStaleId == ~aliased

(* A batch whose worker gave up on it: its abort never ran. *)
Abandoned ==
    \E b \in DOMAIN batches :
        /\ ~batches[b].disposed
        /\ \A t \in Workers : handle[t] = [id |-> b, born |-> gen] => phase[t] = "done"

(* Every call ends: with an answer or, when the JVM dies, with an error; the
   only thing to wait for in vain is a pool whose connections are in batches
   that were abandoned. *)
EveryCallEnds ==
    \A t \in Threads : call[t].pc # "rest" ~> (call[t].pc = "rest" \/ Abandoned)

(* A closed session gives every connection back, also those that requests
   cancelled before the close still held. *)
ClosedSessionDrains ==
    \A s \in 1 .. Cardinality(Writers) :
        (s \in DOMAIN sessions /\ sessions[s].shut) ~> (s \in DOMAIN sessions => sessions[s].open = 0)
=============================================================================
