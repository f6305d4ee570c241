----------------------------- MODULE CdcRunner -----------------------------
(***************************************************************************)
(* The CDC runner of one incremental job (datamigrate/cdc/runner.go, Run): *)
(* it streams the MySQL binlog, buffers the row changes of the source      *)
(* transaction being read, and applies the buffer together with a          *)
(* checkpoint in ONE target transaction.  The target checkpoint is the     *)
(* only durable progress; the process, the stream and the buffer may be    *)
(* lost at any moment.  A DDL statement on the source stops the runner     *)
(* until an operator acknowledges it.                                      *)
(*                                                                         *)
(* Abstractions.  The binlog is a sequence of entries (transactions or     *)
(* stand-alone statements); an entry is delivered as a GTID event, its row *)
(* events and one closing event.  Positions are only compared and saved at *)
(* the closing event of an entry, so File/Pos is the entry's number.  The  *)
(* target is the worst case for replay, tables without a key: `copies`     *)
(* counts how often every source row change is in the target.              *)
(***************************************************************************)
EXTENDS SourceLog

CONSTANTS
    UseGTID,    \* TRUE: the job started from a GTID set; FALSE: from file/pos
    Ackers,     \* concurrent requests to AckIncrementalDDL
    MaxFaults   \* bound: cancels, errors, reconnects and crashes

ASSUME RunnerAssumption == UseGTID \in BOOLEAN /\ MaxFaults \in Nat

VARIABLES
    binlog,    \* source: the entries written so far (durable)
    ckpt,      \* target: checkpoint row, or NoPosition (durable)
    copies,    \* target: how often row change <<i, k>> was applied (durable)
    mode,      \* SQLite: "active", "paused_ddl" or "cutover_ready" (durable)
    blocking,  \* SQLite: blocking_* position of the pending DDL (durable)
    boundary,  \* SQLite/registry: cutover boundary, or NoPosition
    up,        \* TRUE while Run is in its event loop
    ti, tk,    \* next event of the stream: entry ti, event tk (0 = GTID event)
    gset,      \* the syncer's executed GTID set (sent on a reconnect)
    pos,       \* Run: position after the last event read
    applied,   \* Run: last position known to be applied
    changes,   \* Run: buffered row changes, [<<i, k>> -> occurrences]
    currentGTID, \* Run: GTID of the transaction being read (the start set,
                 \* which is no transaction's GTID, is NoGTID)
    cancelled, \* Run: its context is cancelled (pause or abort)
    graceful,  \* Run: gracefulStop
    ack,       \* AckIncrementalDDL requests in flight
    acked,     \* history: DDL entries an operator has acknowledged
    faults     \* faults so far

source  == <<binlog>>
target  == <<ckpt, copies>>
job     == <<mode, blocking, boundary>>
runner  == <<up, ti, tk, gset, pos, applied, changes, currentGTID, cancelled, graceful>>
acks    == <<ack, acked>>
vars    == <<source, target, job, runner, acks, faults>>
-----------------------------------------------------------------------------
Position   == [gtid : SUBSET (1..MaxTxn), file : 0..MaxTxn]
NoPosition == [gtid |-> {}, file |-> 0]
NoGTID     == -1
Anonymous  == 0       \* the GTID every anonymous GTID event formats to
Idle       == [step |-> "idle", p |-> NoPosition]  \* no request in flight
EmptyBuffer == [x \in Ids |-> 0]

\* The position that covers exactly the first n entries.
PositionAt(n) == [gtid |-> IF UseGTID THEN 1..n ELSE {}, file |-> n]
Start == PositionAt(StartTxn)
CurrentPosition == PositionAt(Len(binlog))

\* GTID sets are compared when both sides have one, file positions otherwise.
PositionReached(a, r) ==
    IF r.gtid # {} /\ a.gtid # {}
    THEN r.gtid \subseteq a.gtid
    ELSE a.file >= r.file

mergeGTID(set, one) == IF one = NoGTID THEN set ELSE set \cup {one}

\* The entry that follows n in a stream whose client has executed the set g:
\* the source leaves out the transactions of g.
NextEntry(n, g) == CHOOSE m \in (n + 1)..(MaxTxn + 1) :
                      m \notin g /\ \A l \in (n + 1)..(m - 1) : l \in g
-----------------------------------------------------------------------------
Init ==
    /\ binlog \in Histories
    /\ ckpt = NoPosition
    /\ copies = Expected(binlog, StartTxn)
    /\ mode = "active" /\ blocking = NoPosition /\ boundary = NoPosition
    /\ up = FALSE /\ ti = 1 /\ tk = 0 /\ gset = {}
    /\ pos = NoPosition /\ applied = NoPosition
    /\ changes = EmptyBuffer /\ currentGTID = NoGTID
    /\ cancelled = FALSE /\ graceful = FALSE
    /\ ack = [a \in Ackers |-> Idle]
    /\ acked = {} /\ faults = 0
-----------------------------------------------------------------------------
\* The source commits another transaction or statement.
SourceCommit ==
    /\ Len(binlog) < MaxTxn
    /\ \E e \in Entries : binlog' = Append(binlog, e)
    /\ UNCHANGED <<target, job, runner, acks, faults>>

\* The runner's variables once Run has returned: nothing of them survives.
Returned ==
    /\ up' = FALSE /\ ti' = 1 /\ tk' = 0 /\ gset' = {}
    /\ pos' = NoPosition /\ applied' = NoPosition
    /\ changes' = EmptyBuffer /\ currentGTID' = NoGTID
    /\ cancelled' = FALSE /\ graceful' = FALSE

\* Variant: one entry short of the boundary is taken for the boundary.
CutoverReachedEarly(p) == boundary # NoPosition /\ p.file + 1 >= boundary.file

\* publish: with a cutover boundary that is reached, Run returns ErrCutoverReady.
CutoverReached(p) == boundary # NoPosition /\ PositionReached(p, boundary)

\* Variant: the configured start wins over the target checkpoint.
StartRunFromConfig ==
    /\ ~up /\ mode = "active"
    /\ ckpt' = Start
    /\ up' = TRUE /\ ti' = StartTxn + 1 /\ tk' = 0
    /\ gset' = Start.gtid /\ pos' = Start /\ applied' = Start /\ currentGTID' = NoGTID
    /\ UNCHANGED <<source, copies, job, changes, cancelled, graceful, acks, faults>>

\* Run up to its event loop: the target checkpoint, if there is one, replaces
\* the configured start; the stream starts behind it.
StartRun ==
    /\ ~up /\ mode = "active"
    /\ LET start == IF ckpt # NoPosition THEN ckpt ELSE Start IN
       /\ ckpt' = start
       /\ IF CutoverReached(start)
          THEN /\ mode' = "cutover_ready"
               /\ UNCHANGED <<up, ti, tk, gset, pos, applied, currentGTID>>
          ELSE /\ mode' = mode
               /\ up' = TRUE
               /\ ti' = NextEntry(IF UseGTID THEN 0 ELSE start.file, start.gtid)
               /\ tk' = 0
               /\ gset' = start.gtid
               /\ pos' = start /\ applied' = start
               /\ currentGTID' = NoGTID
    /\ UNCHANGED <<source, copies, blocking, boundary, changes, cancelled, graceful, acks, faults>>
-----------------------------------------------------------------------------
Closing(e) == e.rows + 1

\* Variant: the partial buffer survives a restart of its transaction.
KeepPartialBuffer ==
    /\ up /\ ti <= Len(binlog) /\ tk = 0
    /\ currentGTID' = (IF UseGTID THEN ti ELSE Anonymous)
    /\ gset' = IF UseGTID THEN gset \cup {ti} ELSE gset
    /\ pos' = [pos EXCEPT !.file = ti]
    /\ tk' = 1
    /\ UNCHANGED <<source, target, job, up, ti, applied, changes, cancelled, graceful, acks, faults>>

\* GTIDEvent: a transaction that starts again discards its partial buffer.
OnGTIDEvent ==
    /\ up /\ ti <= Len(binlog) /\ tk = 0
    /\ LET next == IF UseGTID THEN ti ELSE Anonymous IN
       /\ currentGTID' = next
       /\ changes' = IF next = currentGTID THEN EmptyBuffer ELSE changes
    /\ gset' = IF UseGTID THEN gset \cup {ti} ELSE gset
    /\ pos' = [pos EXCEPT !.file = ti]
    /\ tk' = 1
    /\ UNCHANGED <<source, target, job, up, ti, applied, cancelled, graceful, acks, faults>>

\* RowsEvent: buffered when its table is replicated, skipped otherwise.
OnRowsEvent ==
    /\ up /\ ti <= Len(binlog) /\ tk \in 1..binlog[ti].rows
    /\ changes' = IF tk \in binlog[ti].mine
                  THEN [changes EXCEPT ![<<ti, tk>>] = @ + 1] ELSE changes
    /\ pos' = [pos EXCEPT !.file = ti]
    /\ tk' = tk + 1
    /\ UNCHANGED <<source, target, job, up, ti, gset, applied, currentGTID,
                   cancelled, graceful, acks, faults>>

AtClosing(kinds) ==
    /\ up /\ ti <= Len(binlog)
    /\ tk = Closing(binlog[ti]) /\ binlog[ti].kind \in kinds

\* The position of the closing event: an XID event carries the syncer's GTID
\* set, a query event merges the current GTID.
ClosingPosition ==
    [file |-> ti,
     gtid |-> IF ~UseGTID THEN pos.gtid
              ELSE IF binlog[ti].kind = "xid" THEN gset
              ELSE mergeGTID(pos.gtid, currentGTID)]

\* A transaction's end: XID, COMMIT, ROLLBACK (which drops the buffer), or a
\* statement outside a transaction, which finds the buffer empty.
Commits ==
    AtClosing({"xid", "commit", "rollback"})
    \/ (AtClosing({"other"}) /\ changes = EmptyBuffer)

\* Variant: ROLLBACK commits the buffer.
BufferedOnRollback == changes

Buffered == IF binlog[ti].kind = "rollback" THEN EmptyBuffer ELSE changes

\* Faults are counted so that a run may have only MaxFaults of them.
Fault == faults < MaxFaults /\ faults' = faults + 1

\* commit's tail: publish, then leave when a pause was waiting for this commit.
AfterCommit(p) ==
    IF CutoverReached(p)
    THEN mode' = "cutover_ready" /\ Returned /\ UNCHANGED <<blocking, boundary>>
    ELSE /\ UNCHANGED job
         /\ IF graceful
            THEN Returned
            ELSE /\ pos' = ClosingPosition /\ applied' = p
                 /\ changes' = EmptyBuffer
                 /\ ti' = NextEntry(ti, gset) /\ tk' = 0
                 /\ UNCHANGED <<up, gset, currentGTID, cancelled, graceful>>

\* The publish after other events (heartbeats included) finds the boundary.
Publish ==
    /\ up /\ CutoverReached(applied)
    /\ mode' = "cutover_ready"
    /\ Returned
    /\ UNCHANGED <<source, target, blocking, boundary, acks, faults>>

\* commit of a transaction the target already has: the buffer is dropped.
CommitReplayed ==
    /\ Commits
    /\ PositionReached(applied, ClosingPosition)
    /\ AfterCommit(applied)
    /\ UNCHANGED <<source, target, acks, faults>>

\* applier.Apply: the buffered changes and the checkpoint in one transaction.
Apply(p) ==
    /\ copies' = [x \in Ids |-> copies[x] + Buffered[x]]
    /\ ckpt' = p

CommitApply ==
    /\ Commits
    /\ ~PositionReached(applied, ClosingPosition)
    /\ Apply(ClosingPosition)
    /\ AfterCommit(ClosingPosition)
    /\ UNCHANGED <<source, acks, faults>>

\* The target committed but the connection broke before the answer: Apply
\* returns an error and Run returns without having moved `applied`.
CommitUnanswered ==
    /\ Fault
    /\ Commits
    /\ ~PositionReached(applied, ClosingPosition)
    /\ Apply(ClosingPosition)
    /\ Returned
    /\ UNCHANGED <<source, job, acks>>

\* Variant: the pause itself moves the checkpoint behind the DDL.
DDLPauseAdvances ==
    /\ AtClosing({"ddl"})
    /\ ckpt' = ClosingPosition
    /\ mode' = "paused_ddl" /\ blocking' = ClosingPosition
    /\ Returned
    /\ UNCHANGED <<source, copies, boundary, acks, faults>>

\* A DDL of the source database: the hook stores the position behind it, Run
\* returns ErrDDLPause without touching the target.
DDLPause ==
    /\ AtClosing({"ddl"})
    /\ mode' = "paused_ddl" /\ blocking' = ClosingPosition
    /\ Returned
    /\ UNCHANGED <<source, target, boundary, acks, faults>>

\* Closing events that change nothing: XA statements, and a statement that
\* finds changes in the buffer.
OnIgnoredClosing ==
    /\ \/ AtClosing({"xa_prepare", "xa_rollback"})
       \/ (AtClosing({"other"}) /\ changes # EmptyBuffer)
    /\ pos' = [pos EXCEPT !.file = ti]
    /\ ti' = NextEntry(ti, gset) /\ tk' = 0
    /\ UNCHANGED <<source, target, job, up, gset, applied, changes, currentGTID,
                   cancelled, graceful, acks, faults>>
-----------------------------------------------------------------------------
\* The syncer reconnects by itself.  With GTIDs the source starts again with
\* the transaction read last, finished or not; by file the stream goes on.
Reconnect ==
    /\ up /\ Fault
    /\ UseGTID /\ currentGTID # NoGTID
    /\ ti' = currentGTID /\ tk' = 0
    /\ UNCHANGED <<source, target, job, up, gset, pos, applied, changes, currentGTID,
                   cancelled, graceful, acks>>

\* Pause or abort cancels the runner's context.
Cancel ==
    /\ up /\ ~cancelled /\ Fault
    /\ cancelled' = TRUE
    /\ UNCHANGED <<source, target, job, up, ti, tk, gset, pos, applied, changes,
                   currentGTID, graceful, acks>>

\* GetEvent reports the cancelled context: with changes buffered the runner
\* goes on (for at most five minutes) to commit them, otherwise it returns.
OnCancelled ==
    /\ up /\ cancelled /\ ~graceful
    /\ IF changes # EmptyBuffer
       THEN /\ graceful' = TRUE
            /\ UNCHANGED <<up, ti, tk, gset, pos, applied, changes, currentGTID, cancelled>>
       ELSE Returned
    /\ UNCHANGED <<source, target, job, acks, faults>>

\* Run returns on any error: GetEvent, a failed Apply (the target transaction
\* is rolled back: row conflict, lost connection), the grace period's end.
RunError ==
    /\ up /\ Fault
    /\ Returned
    /\ UNCHANGED <<source, target, job, acks>>

\* The server process dies; requests in flight die with it.
Crash ==
    /\ Fault
    /\ Returned
    /\ ack' = [a \in Ackers |-> Idle]
    /\ UNCHANGED <<source, target, job, acked>>
-----------------------------------------------------------------------------
\* PrepareIncrementalCutover: the boundary is the source head of this moment.
RequestCutover ==
    /\ up /\ mode = "active" /\ boundary = NoPosition
    /\ boundary' = CurrentPosition
    /\ UNCHANGED <<source, target, mode, blocking, runner, acks, faults>>

CancelCutover ==
    /\ boundary # NoPosition /\ mode # "paused_ddl"
    /\ boundary' = NoPosition /\ mode' = "active"
    /\ Fault
    /\ UNCHANGED <<source, target, blocking, runner, acks>>

\* AckIncrementalDDL, first part: the job is read and is paused_ddl.
AckRead(a) ==
    /\ ack[a] = Idle /\ mode = "paused_ddl"
    /\ ack' = [ack EXCEPT ![a] = [step |-> "save", p |-> blocking]]
    /\ acked' = acked \cup {blocking.file}
    /\ UNCHANGED <<source, target, job, runner, faults>>

\* Second part: SaveCheckpoint writes the position that was read.
AckSave(a) ==
    /\ ack[a].step = "save"
    /\ ckpt' = ack[a].p
    /\ ack' = [ack EXCEPT ![a].step = "swap"]
    /\ UNCHANGED <<source, copies, job, runner, acked, faults>>

\* Variant: the job stays paused.
AckWithoutSwap(a) ==
    /\ ack[a].step = "swap"
    /\ ack' = [ack EXCEPT ![a] = Idle]
    /\ UNCHANGED <<source, target, job, runner, acked, faults>>

\* Third part: the job leaves paused_ddl, if it still is there, and is launched.
AckSwap(a) ==
    /\ ack[a].step = "swap"
    /\ IF mode = "paused_ddl"
       THEN mode' = "active" /\ blocking' = NoPosition
       ELSE UNCHANGED <<mode, blocking>>
    /\ ack' = [ack EXCEPT ![a] = Idle]
    /\ UNCHANGED <<source, target, boundary, runner, acked, faults>>
-----------------------------------------------------------------------------
Deliver == OnGTIDEvent \/ OnRowsEvent \/ CommitReplayed \/ CommitApply
           \/ DDLPause \/ OnIgnoredClosing

Next ==
    \/ SourceCommit
    \/ StartRun \/ Deliver \/ Publish
    \/ Reconnect \/ Cancel \/ OnCancelled \/ CommitUnanswered \/ RunError \/ Crash
    \/ RequestCutover \/ CancelCutover
    \/ \E a \in Ackers : AckRead(a) \/ AckSave(a) \/ AckSwap(a)

Spec == Init /\ [][Next]_vars

\* Fairness.  The goroutine's loop keeps reading events and a launched runner
\* reaches its loop; operators resume a stopped job and finish (or cancel) what
\* they start; a handler that runs goes on to its end.
Fairness ==
    /\ WF_vars(Deliver) /\ WF_vars(StartRun) /\ WF_vars(Publish) /\ WF_vars(OnCancelled)
    /\ \A a \in Ackers : WF_vars(AckRead(a)) /\ WF_vars(AckSave(a)) /\ WF_vars(AckSwap(a))

FairSpec == Spec /\ Fairness
-----------------------------------------------------------------------------
\* The entries the target claims to have: those of its checkpoint, or those of
\* the initial copy before the first runner wrote one.
Done == IF ckpt = NoPosition THEN StartTxn ELSE ckpt.file

TypeOK ==
    /\ binlog \in Seq(Entries) /\ Len(binlog) \in StartTxn..MaxTxn
    /\ ckpt \in Position
    /\ copies \in [Ids -> Nat]
    /\ mode \in {"active", "paused_ddl", "cutover_ready"}
    /\ blocking \in Position /\ boundary \in Position
    /\ up \in BOOLEAN
    /\ ti \in 1..(MaxTxn + 1) /\ tk \in 0..(MaxRows + 1)
    /\ gset \in SUBSET (1..MaxTxn)
    /\ pos \in Position /\ applied \in Position
    /\ changes \in [Ids -> Nat]
    /\ currentGTID \in {NoGTID} \cup (0..MaxTxn)
    /\ cancelled \in BOOLEAN /\ graceful \in BOOLEAN
    /\ ack \in [Ackers -> [step : {"idle", "save", "swap"}, p : Position]]
    /\ acked \subseteq 1..MaxTxn
    /\ faults \in 0..MaxFaults

(***************************************************************************)
(* Exactly-once: at every moment, through crashes, reconnects, lost        *)
(* answers, pauses and acknowledgements, the target holds every committed  *)
(* row change of the entries its checkpoint covers exactly once, and       *)
(* nothing else (runner.go 203-229, postgres.go Apply).                    *)
(***************************************************************************)
ExactlyOnce == copies = Expected(binlog, Done)

\* The abstract view of this state.
Copy == INSTANCE ReplicatedCopy WITH log <- binlog, done <- Done

(***************************************************************************)
(* The runner implements ReplicatedCopy: whatever is lost, replayed or     *)
(* answered late, the target steps from one source state to a later one.   *)
(***************************************************************************)
ImplementsCopy == Copy!Spec

(***************************************************************************)
(* The checkpoint never moves back: what a resume starts from includes     *)
(* what any earlier checkpoint included.                                   *)
(***************************************************************************)
CheckpointMonotone == [][ckpt # NoPosition => PositionReached(ckpt', ckpt)]_vars

(***************************************************************************)
(* Nothing behind a DDL statement reaches the target before an operator    *)
(* acknowledged that statement (runner.go 319-329).                        *)
(***************************************************************************)
DDLBarrier ==
    \A i \in (StartTxn + 1)..Done : binlog[i].kind = "ddl" => i \in acked

(***************************************************************************)
(* A runner that reports the cutover boundary as reached has applied every *)
(* transaction up to it, even one committed between the request and the    *)
(* boundary's reading by the runner (publish, runner.go 173-180).          *)
(***************************************************************************)
CutoverComplete ==
    mode = "cutover_ready" =>
        \A x \in Ids : x[1] <= boundary.file => copies[x] = Expected(binlog, boundary.file)[x]

(***************************************************************************)
(* No row change is in a table without a key twice: "a replayed            *)
(* transaction (especially an INSERT into a no-PK table) must not be       *)
(* applied twice" (comment of commit, runner.go 205-208).                  *)
(***************************************************************************)
NeverAppliedTwice == \A x \in Ids : copies[x] <= 1

(***************************************************************************)
(* A transaction the source rolled back never reaches the target.          *)
(***************************************************************************)
RolledBackNeverApplied ==
    \A x \in Ids : x[1] <= Len(binlog) /\ binlog[x[1]].kind \in {"rollback", "xa_prepare"}
        => copies[x] = 0

(***************************************************************************)
(* Every committed source transaction is eventually in the target, unless  *)
(* the job waits for the cutover's end.                                    *)
(***************************************************************************)
EventuallyReplicated ==
    \A i \in 1..MaxTxn : (Len(binlog) >= i /\ Committed(binlog[i]))
                            ~> (Done >= i \/ mode = "cutover_ready")
=============================================================================
