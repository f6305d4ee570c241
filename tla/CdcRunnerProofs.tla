-------------------------- MODULE CdcRunnerProofs --------------------------
(***************************************************************************)
(* Proofs about CdcRunner, for every size of the binlog, of transactions   *)
(* and of the fault budget, for GTID and for file positions.  Two          *)
(* hypotheses, both needed (runs cdc_two_acks and cdc_xa show what happens *)
(* without them): at most one acknowledgement of a DDL is in flight, and   *)
(* the source runs no XA transactions.                                     *)
(***************************************************************************)
EXTENDS CdcRunner, TLAPS

OneAck == \A a, b \in Ackers : a = b
NoXA   == Kinds \cap {"xa_prepare", "xa_rollback"} = {}

\* The buffer of a runner that is about to read event k of entry i.
Partial(i, k) ==
    [x \in Ids |-> IF x[1] = i /\ x[2] < k /\ x[2] \in binlog[i].mine THEN 1 ELSE 0]

\* Checkpoints, boundaries and blocking positions cover a prefix of the binlog.
PositionsInv ==
    /\ ckpt # NoPosition => ckpt = PositionAt(ckpt.file)
    /\ Done \in StartTxn..Len(binlog)
    /\ boundary # NoPosition =>
         boundary = PositionAt(boundary.file) /\ boundary.file \in 1..Len(binlog)
    /\ mode = "cutover_ready" => boundary # NoPosition /\ boundary.file <= Done

\* The runner works on the entry behind the checkpoint, or reads the last one
\* again after a reconnect.
StreamInv ==
    up => /\ mode = "active" /\ ckpt # NoPosition
          /\ applied = ckpt
          /\ pos.gtid = ckpt.gtid
          /\ ti \in {Done, Done + 1}
          /\ ~UseGTID => gset = {} /\ ti = Done + 1 /\ currentGTID \in {NoGTID, Anonymous}
          /\ UseGTID => /\ currentGTID \in {NoGTID, Done, Done + 1}
                        /\ gset = 1..(IF currentGTID = Done + 1 THEN Done + 1 ELSE Done)
                        /\ ti = Done => currentGTID = Done
                        /\ currentGTID = Done => binlog[Done].kind # "ddl"
          /\ tk >= 1 => /\ ti <= Len(binlog)
                        /\ tk <= binlog[ti].rows + 1
                        /\ UseGTID => currentGTID = ti

\* The buffer holds what was read of the current entry, each row event once.
BufferInv ==
    up => /\ tk >= 1 => changes = Partial(ti, tk)
          /\ tk = 0 => changes = EmptyBuffer \/ (UseGTID /\ currentGTID = ti)

\* A stopped runner keeps nothing.
StoppedInv == ~up => changes = EmptyBuffer /\ graceful = FALSE /\ cancelled = FALSE

\* A pending DDL is the entry behind the checkpoint, until its acknowledgement
\* moves the checkpoint onto it.
DDLInv ==
    /\ mode = "paused_ddl" =>
         /\ ckpt # NoPosition
         /\ blocking = PositionAt(blocking.file)
         /\ blocking.file \in 1..Len(binlog) /\ binlog[blocking.file].kind = "ddl"
         /\ \/ Done + 1 = blocking.file
            \/ Done = blocking.file /\ blocking.file \in acked
    /\ \A a \in Ackers : ack[a].step # "idle" =>
         mode = "paused_ddl" /\ ack[a].p = blocking /\ blocking.file \in acked

IInv ==
    /\ TypeOK
    /\ PositionsInv /\ StreamInv /\ BufferInv /\ StoppedInv /\ DDLInv
    /\ ExactlyOnce /\ DDLBarrier
-----------------------------------------------------------------------------
\* The position of a prefix is a position, and the prefix can be read off it.
LEMMA PositionAtFacts ==
    ASSUME NEW n \in 1..MaxTxn
    PROVE  /\ PositionAt(n) \in Position
           /\ PositionAt(n) # NoPosition
           /\ PositionAt(n).file = n
           /\ PositionAt(n).gtid = IF UseGTID THEN 1..n ELSE {}
  BY SourceAssumption DEF PositionAt, Position, NoPosition

\* Between positions of prefixes, PositionReached is the order of the prefixes.
LEMMA ReachedIsOrder ==
    ASSUME NEW m \in 1..MaxTxn, NEW n \in 1..MaxTxn
    PROVE  PositionReached(PositionAt(m), PositionAt(n)) <=> m >= n
  <1>1. CASE UseGTID
    <2>1. (1..n) \subseteq (1..m) <=> m >= n
      BY SourceAssumption
    <2>2. 1 \in 1..n /\ 1 \in 1..m
      BY SourceAssumption
    <2> QED BY <1>1, <2>1, <2>2 DEF PositionReached, PositionAt
  <1>2. CASE ~UseGTID
    BY <1>2 DEF PositionReached, PositionAt
  <1> QED BY <1>1, <1>2

\* Behind an executed prefix the stream goes on with the first entry outside.
LEMMA NextBehindPrefix ==
    ASSUME NEW d \in 0..MaxTxn, NEW n \in 0..d
    PROVE  NextEntry(n, 1..d) = d + 1
  <1> DEFINE P(m) == m \notin 1..d /\ \A l \in (n + 1)..(m - 1) : l \in 1..d
  <1>1. d + 1 \in (n + 1)..(MaxTxn + 1) /\ P(d + 1)
    BY SourceAssumption
  <1>2. \A m \in (n + 1)..(MaxTxn + 1) : P(m) => m = d + 1
    <2> SUFFICES ASSUME NEW m \in (n + 1)..(MaxTxn + 1), P(m)
                 PROVE  m = d + 1
      OBVIOUS
    <2>1. m >= d + 1
      BY SourceAssumption
    <2>2. CASE m > d + 1
      <3>1. d + 1 \in (n + 1)..(m - 1)
        BY <2>2, SourceAssumption
      <3>2. d + 1 \in 1..d
        BY <3>1
      <3> QED BY <3>2, SourceAssumption
    <2> QED BY <2>1, <2>2, SourceAssumption
  <1> QED BY <1>1, <1>2 DEF NextEntry

\* By file position the stream simply goes on.
LEMMA NextByFile ==
    ASSUME NEW n \in 0..MaxTxn
    PROVE  NextEntry(n, {}) = n + 1
  <1> DEFINE P(m) == m \notin {} /\ \A l \in (n + 1)..(m - 1) : l \in {}
  <1>1. n + 1 \in (n + 1)..(MaxTxn + 1) /\ P(n + 1)
    BY SourceAssumption
  <1>2. \A m \in (n + 1)..(MaxTxn + 1) : P(m) => m = n + 1
    <2> SUFFICES ASSUME NEW m \in (n + 1)..(MaxTxn + 1), P(m)
                 PROVE  m = n + 1
      OBVIOUS
    <2>1. CASE m > n + 1
      <3>1. n + 1 \in (n + 1)..(m - 1)
        BY <2>1, SourceAssumption
      <3> QED BY <3>1
    <2> QED BY <2>1, SourceAssumption
  <1> QED BY <1>1, <1>2 DEF NextEntry

\* What a later entry does not change.
LEMMA ExpectedAppend ==
    ASSUME NEW log \in Seq(Entries), NEW e \in Entries, NEW n \in Nat, n <= Len(log)
    PROVE  Expected(Append(log, e), n) = Expected(log, n)
  <1>1. \A x \in Ids : x[1] <= n =>
          x[1] <= Len(log) /\ x[1] <= Len(Append(log, e)) /\ Append(log, e)[x[1]] = log[x[1]]
    BY SourceAssumption DEF Ids
  <1> QED BY <1>1 DEF Expected

\* What one further entry adds: its replicated rows, if it committed.
LEMMA ExpectedNext ==
    ASSUME NEW log \in Seq(Entries), NEW n \in Nat, n + 1 <= Len(log), NEW x \in Ids
    PROVE  Expected(log, n + 1)[x] =
             Expected(log, n)[x] +
               (IF Committed(log[n + 1]) /\ x[1] = n + 1 /\ x[2] \in log[n + 1].mine THEN 1 ELSE 0)
  <1>1. x[1] \in Nat
    BY SourceAssumption DEF Ids
  <1> QED BY <1>1 DEF Expected
-----------------------------------------------------------------------------
\* The initial states satisfy the invariant.
LEMMA InitIInv == Init => IInv
  <1> SUFFICES ASSUME Init PROVE IInv
    OBVIOUS
  <1> USE SourceAssumption, RunnerAssumption
  <1>1. binlog \in Seq(Entries) /\ Len(binlog) = StartTxn
    BY DEF Init, Histories
  <1>2. Done = StartTxn
    BY DEF Init, Done
  <1>3. NoPosition \in Position
    BY DEF NoPosition, Position
  <1>4. Expected(binlog, StartTxn) \in [Ids -> Nat] /\ EmptyBuffer \in [Ids -> Nat]
    BY DEF Expected, EmptyBuffer
  <1>5. TypeOK
    <2>1. Idle \in [step : {"idle", "save", "swap"}, p : Position]
      BY <1>3 DEF Idle
    <2>2. ack \in [Ackers -> [step : {"idle", "save", "swap"}, p : Position]]
      BY <2>1 DEF Init
    <2>3. up \in BOOLEAN /\ cancelled \in BOOLEAN /\ graceful \in BOOLEAN
      BY DEF Init
    <2>4. Len(binlog) \in StartTxn..MaxTxn /\ faults \in 0..MaxFaults /\ acked \subseteq 1..MaxTxn
      BY <1>1 DEF Init
    <2>5. /\ ckpt \in Position /\ blocking \in Position /\ boundary \in Position
          /\ pos \in Position /\ applied \in Position
      BY <1>3 DEF Init
    <2>6. /\ mode \in {"active", "paused_ddl", "cutover_ready"}
          /\ ti \in 1..(MaxTxn + 1) /\ tk \in 0..(MaxRows + 1) /\ gset \in SUBSET (1..MaxTxn)
          /\ currentGTID \in {NoGTID} \cup (0..MaxTxn)
          /\ copies \in [Ids -> Nat] /\ changes \in [Ids -> Nat]
      BY <1>4 DEF Init
    <2> QED BY <1>1, <2>2, <2>3, <2>4, <2>5, <2>6 DEF TypeOK
  <1>6. StreamInv /\ BufferInv /\ StoppedInv
    BY DEF Init, StreamInv, BufferInv, StoppedInv
  <1>8. PositionsInv /\ DDLInv
    BY <1>1, <1>2 DEF Init, PositionsInv, DDLInv, Idle
  <1>7. ExactlyOnce /\ DDLBarrier
    BY <1>2 DEF Init, ExactlyOnce, DDLBarrier
  <1> QED BY <1>5, <1>6, <1>7, <1>8 DEF IInv

\* The source writes on: nothing the runner has seen changes.
LEMMA SourceCommitInv ==
    ASSUME IInv, SourceCommit
    PROVE  IInv'
  <1> USE SourceAssumption, RunnerAssumption
  <1>1. PICK e \in Entries : binlog' = Append(binlog, e)
    BY DEF SourceCommit
  <1>2. binlog \in Seq(Entries) /\ Len(binlog) < MaxTxn /\ Len(binlog) \in Nat
    BY DEF IInv, TypeOK, SourceCommit
  <1>3. /\ binlog' \in Seq(Entries) /\ Len(binlog') = Len(binlog) + 1
        /\ \A i \in 1..Len(binlog) : binlog'[i] = binlog[i]
    BY <1>1, <1>2
  <1>4. /\ UNCHANGED <<ckpt, copies, mode, blocking, boundary, up, ti, tk, gset, pos, applied,
                       changes, currentGTID, cancelled, graceful, ack, acked, faults>>
        /\ Done' = Done
    BY DEF SourceCommit, target, job, runner, acks, Done
  <1>5. Done \in StartTxn..Len(binlog)
    BY DEF IInv, PositionsInv
  <1>6. TypeOK'
    BY <1>2, <1>3, <1>4 DEF IInv, TypeOK
  <1>7. PositionsInv'
    BY <1>2, <1>3, <1>4, <1>5 DEF IInv, PositionsInv
  <1>8. StreamInv'
    BY <1>2, <1>3, <1>4, <1>5 DEF IInv, StreamInv, TypeOK
  <1>9. BufferInv'
    <2>1. up /\ tk >= 1 => ti \in 1..Len(binlog)
      BY <1>2 DEF IInv, StreamInv, TypeOK
    <2>2. up /\ tk >= 1 => Partial(ti, tk)' = Partial(ti, tk)
      BY <2>1, <1>3, <1>4 DEF Partial
    <2> QED BY <2>2, <1>4 DEF IInv, BufferInv
  <1>10. StoppedInv' /\ DDLInv'
    BY <1>2, <1>3, <1>4 DEF IInv, StoppedInv, DDLInv
  <1>11. ExactlyOnce'
    BY <1>1, <1>2, <1>4, <1>5, ExpectedAppend DEF IInv, ExactlyOnce
  <1>12. DDLBarrier'
    BY <1>2, <1>3, <1>4, <1>5 DEF IInv, DDLBarrier
  <1> QED BY <1>6, <1>7, <1>8, <1>9, <1>10, <1>11, <1>12 DEF IInv

\* The runner's variables have their types once Run has returned.
LEMMA ReturnedType ==
    ASSUME Returned
    PROVE  /\ up' = FALSE /\ ti' \in 1..(MaxTxn + 1) /\ tk' \in 0..(MaxRows + 1)
           /\ gset' \in SUBSET (1..MaxTxn)
           /\ pos' \in Position /\ applied' \in Position
           /\ changes' \in [Ids -> Nat]
           /\ currentGTID' \in {NoGTID} \cup (0..MaxTxn)
           /\ cancelled' \in BOOLEAN /\ graceful' \in BOOLEAN
           /\ StreamInv' /\ BufferInv' /\ StoppedInv'
  <1> USE SourceAssumption, RunnerAssumption
  <1>1. NoPosition \in Position /\ EmptyBuffer \in [Ids -> Nat]
    BY DEF NoPosition, Position, EmptyBuffer
  <1>2. EmptyBuffer' = EmptyBuffer
    BY DEF EmptyBuffer
  <1>3. up' = FALSE /\ cancelled' = FALSE /\ graceful' = FALSE /\ changes' = EmptyBuffer
    BY DEF Returned
  <1>4. StreamInv' /\ BufferInv' /\ StoppedInv'
    BY <1>2, <1>3 DEF StreamInv, BufferInv, StoppedInv
  <1>5. /\ ti' \in 1..(MaxTxn + 1) /\ tk' \in 0..(MaxRows + 1)
        /\ gset' \in SUBSET (1..MaxTxn) /\ pos' \in Position /\ applied' \in Position
        /\ changes' \in [Ids -> Nat] /\ currentGTID' \in {NoGTID} \cup (0..MaxTxn)
    BY <1>1 DEF Returned
  <1> QED BY <1>3, <1>4, <1>5

\* Run returns without having touched anything durable.
LEMMA ReturnInv ==
    ASSUME IInv, Returned, faults' \in 0..MaxFaults,
           UNCHANGED <<binlog, ckpt, copies, mode, blocking, boundary, ack, acked>>
    PROVE  IInv'
  <1>1. Done' = Done
    BY DEF Done
  <1>2. TypeOK'
    BY ReturnedType DEF IInv, TypeOK
  <1>3. PositionsInv' /\ DDLInv' /\ ExactlyOnce' /\ DDLBarrier'
    BY <1>1 DEF IInv, PositionsInv, DDLInv, ExactlyOnce, DDLBarrier
  <1> QED BY <1>2, <1>3, ReturnedType DEF IInv

(* A run that ends with an error keeps the checkpoint and drops its buffer. *)
LEMMA RunErrorInv ==
    ASSUME IInv, RunError
    PROVE  IInv'
  BY ReturnInv, RunnerAssumption DEF RunError, Fault, source, target, job, acks, IInv, TypeOK

(* A crash loses the locals of Run and nothing of the target. *)
LEMMA CrashInv ==
    ASSUME IInv, Crash
    PROVE  IInv'
  <1> USE SourceAssumption, RunnerAssumption
  <1>1. /\ Returned /\ faults' \in 0..MaxFaults
        /\ UNCHANGED <<binlog, ckpt, copies, mode, blocking, boundary, acked>>
        /\ ack' = [a \in Ackers |-> Idle]
    BY DEF Crash, Fault, source, target, job, IInv, TypeOK
  <1>2. Done' = Done
    BY <1>1 DEF Done
  <1>3. NoPosition \in Position
    BY DEF NoPosition, Position
  <1>4. TypeOK'
    BY <1>1, <1>3, ReturnedType DEF IInv, TypeOK, Idle
  <1>5. PositionsInv' /\ DDLInv' /\ ExactlyOnce' /\ DDLBarrier'
    BY <1>1, <1>2 DEF IInv, PositionsInv, DDLInv, ExactlyOnce, DDLBarrier, Idle
  <1> QED BY <1>1, <1>4, <1>5, ReturnedType DEF IInv
-----------------------------------------------------------------------------
\* Steps that leave everything durable as it is keep the durable invariants.
LEMMA DurableFrame ==
    ASSUME IInv, UNCHANGED <<binlog, ckpt, copies, mode, blocking, boundary, ack, acked>>
    PROVE  /\ Done' = Done
           /\ PositionsInv' /\ DDLInv' /\ ExactlyOnce' /\ DDLBarrier'
  <1>1. Done' = Done
    BY DEF Done
  <1> QED BY <1>1 DEF IInv, PositionsInv, DDLInv, ExactlyOnce, DDLBarrier

\* The checkpoint, or the configured start before there is one, is the
\* position of the first Done entries.
LEMMA CheckpointIsPrefix ==
    ASSUME IInv
    PROVE  /\ Done \in 1..MaxTxn /\ Done \in StartTxn..Len(binlog)
           /\ (IF ckpt # NoPosition THEN ckpt ELSE Start) = PositionAt(Done)
           /\ Len(binlog) \in Nat
  BY SourceAssumption DEF IInv, TypeOK, PositionsInv, Done, Start

(* A new run starts at the checkpoint with an empty buffer. *)
LEMMA StartRunInv ==
    ASSUME IInv, StartRun
    PROVE  IInv'
  <1> USE SourceAssumption, RunnerAssumption
  <1>1. /\ Done \in 1..MaxTxn /\ Done \in StartTxn..Len(binlog) /\ Len(binlog) \in Nat
        /\ ~up /\ mode = "active" /\ ckpt' = PositionAt(Done)
        /\ UNCHANGED <<binlog, copies, blocking, boundary, changes, cancelled, graceful, ack, acked, faults>>
    BY CheckpointIsPrefix DEF StartRun, source, acks
  <1>2. Done' = Done /\ ckpt' \in Position /\ ckpt' # NoPosition
    BY <1>1, PositionAtFacts DEF Done
  <1>3. \A a \in Ackers : ack[a].step = "idle"
    BY <1>1 DEF IInv, DDLInv
  <1>4. ExactlyOnce' /\ DDLBarrier'
    BY <1>1, <1>2 DEF IInv, ExactlyOnce, DDLBarrier
  <1>5. CASE CutoverReached(PositionAt(Done))
    <2>1. mode' = "cutover_ready" /\ UNCHANGED <<up, ti, tk, gset, pos, applied, currentGTID>>
      BY <1>5, CheckpointIsPrefix DEF StartRun
    <2>2. boundary # NoPosition /\ boundary.file <= Done
      BY <1>1, <1>5, ReachedIsOrder DEF CutoverReached, IInv, PositionsInv, TypeOK
    <2>3. TypeOK'
      BY <1>1, <1>2, <2>1 DEF IInv, TypeOK
    <2>4. PositionsInv'
      BY <1>1, <1>2, <2>1, <2>2, PositionAtFacts DEF IInv, PositionsInv
    <2>5. StreamInv' /\ BufferInv' /\ StoppedInv'
      BY <1>1, <2>1 DEF IInv, StreamInv, BufferInv, StoppedInv, EmptyBuffer
    <2>6. DDLInv'
      BY <1>1, <1>3, <2>1 DEF DDLInv
    <2> QED BY <1>4, <2>3, <2>4, <2>5, <2>6 DEF IInv
  <1>6. CASE ~CutoverReached(PositionAt(Done))
    <2>1. /\ mode' = mode /\ up' = TRUE /\ tk' = 0
          /\ ti' = NextEntry(IF UseGTID THEN 0 ELSE PositionAt(Done).file, PositionAt(Done).gtid)
          /\ gset' = PositionAt(Done).gtid
          /\ pos' = PositionAt(Done) /\ applied' = PositionAt(Done) /\ currentGTID' = NoGTID
      BY <1>6, CheckpointIsPrefix DEF StartRun
    <2>2. ti' = Done + 1
      BY <1>1, <2>1, PositionAtFacts, NextBehindPrefix, NextByFile
    <2>3. gset' = IF UseGTID THEN 1..Done ELSE {}
      BY <1>1, <2>1, PositionAtFacts
    <2>4. TypeOK'
      <3>1. gset' \in SUBSET (1..MaxTxn)
        BY <1>1, <2>3
      <3>2. pos' \in Position /\ applied' \in Position
        BY <1>1, <2>1, PositionAtFacts
      <3>3. ti' \in 1..(MaxTxn + 1) /\ tk' \in 0..(MaxRows + 1)
        BY <1>1, <2>1, <2>2
      <3>4. up' \in BOOLEAN
        BY <2>1
      <3> QED BY <1>1, <1>2, <2>1, <3>1, <3>2, <3>3, <3>4 DEF IInv, TypeOK
    <2>5. PositionsInv'
      BY <1>1, <1>2, <2>1, PositionAtFacts DEF IInv, PositionsInv
    <2>6. StreamInv'
      <3>1. applied' = ckpt' /\ pos'.gtid = ckpt'.gtid
        BY <1>1, <2>1
      <3> QED BY <1>1, <1>2, <2>1, <2>2, <2>3, <3>1 DEF StreamInv, NoGTID
    <2>7. BufferInv' /\ StoppedInv'
      BY <1>1, <2>1 DEF IInv, BufferInv, StoppedInv, EmptyBuffer
    <2>8. DDLInv'
      BY <1>1, <1>3, <2>1 DEF DDLInv
    <2> QED BY <1>4, <2>4, <2>5, <2>6, <2>7, <2>8 DEF IInv
  <1> QED BY <1>5, <1>6

\* An event moves the file position only.
LEMMA PosMoves ==
    ASSUME NEW p \in Position, NEW i \in 0..MaxTxn
    PROVE  [p EXCEPT !.file = i] \in Position /\ [p EXCEPT !.file = i].gtid = p.gtid
  BY DEF Position

\* A GTID event starts an entry with an empty buffer, be it a new entry or one
\* that was read in part before a reconnect.
LEMMA OnGTIDEventInv ==
    ASSUME IInv, OnGTIDEvent
    PROVE  IInv'
  <1> USE SourceAssumption, RunnerAssumption
  <1>1. /\ up /\ ti <= Len(binlog) /\ tk = 0 /\ tk' = 1
        /\ currentGTID' = (IF UseGTID THEN ti ELSE Anonymous)
        /\ changes' = IF currentGTID' = currentGTID THEN EmptyBuffer ELSE changes
        /\ gset' = (IF UseGTID THEN gset \cup {ti} ELSE gset)
        /\ pos' = [pos EXCEPT !.file = ti]
        /\ UNCHANGED <<binlog, ckpt, copies, mode, blocking, boundary, up, ti, applied,
                       cancelled, graceful, ack, acked, faults>>
    BY DEF OnGTIDEvent, source, target, job, acks
  <1>2. Done \in 1..MaxTxn /\ Done \in StartTxn..Len(binlog) /\ Len(binlog) \in Nat
    BY CheckpointIsPrefix
  <1>3. Done' = Done /\ PositionsInv' /\ DDLInv' /\ ExactlyOnce' /\ DDLBarrier'
    BY <1>1, DurableFrame
  <1>4. ti \in 1..Len(binlog) /\ Len(binlog) <= MaxTxn /\ binlog[ti] \in Entries
    BY <1>1 DEF IInv, TypeOK
  <1>5. changes' = EmptyBuffer
    BY <1>1 DEF IInv, BufferInv
  <1>6. pos' \in Position /\ pos'.gtid = pos.gtid
    <2>1. pos \in Position /\ ti \in 0..MaxTxn
      BY <1>4 DEF IInv, TypeOK
    <2> QED BY <1>1, <2>1, PosMoves
  <1>7. TypeOK'
    <2>1. gset' \in SUBSET (1..MaxTxn)
      BY <1>1, <1>4 DEF IInv, TypeOK
    <2>2. currentGTID' \in {NoGTID} \cup (0..MaxTxn)
      BY <1>1, <1>4 DEF Anonymous
    <2>3. changes' \in [Ids -> Nat]
      BY <1>5 DEF EmptyBuffer
    <2>4. tk' \in 0..(MaxRows + 1)
      BY <1>1
    <2> QED BY <1>1, <1>6, <2>1, <2>2, <2>3, <2>4 DEF IInv, TypeOK
  <1>8. StreamInv'
    <2>1. 1 <= binlog[ti].rows + 1
      BY <1>4 DEF Entries
    <2>2. CASE UseGTID
      <3>1. currentGTID' = ti /\ gset' = gset \cup {ti}
        BY <1>1, <2>2
      <3>2. CASE ti = Done
        <4>1. currentGTID = Done /\ gset = 1..Done
          BY <1>1, <1>2, <2>2, <3>2 DEF IInv, StreamInv
        <4>2. gset' = 1..Done
          BY <1>2, <3>1, <3>2, <4>1
        <4> QED BY <1>1, <1>2, <1>3, <1>4, <1>6, <2>1, <2>2, <3>1, <3>2, <4>1, <4>2 DEF IInv, StreamInv
      <3>3. CASE ti = Done + 1
        <4>1. gset = 1..Done \/ gset = 1..(Done + 1)
          BY <1>1, <2>2 DEF IInv, StreamInv
        <4>2. gset' = 1..(Done + 1)
          BY <1>2, <3>1, <3>3, <4>1
        <4> QED BY <1>1, <1>2, <1>3, <1>4, <1>6, <2>1, <2>2, <3>1, <3>3, <4>2 DEF IInv, StreamInv
      <3> QED BY <1>1, <3>2, <3>3 DEF IInv, StreamInv
    <2>3. CASE ~UseGTID
      BY <1>1, <1>2, <1>3, <1>4, <1>6, <2>1, <2>3 DEF IInv, StreamInv
    <2> QED BY <2>2, <2>3
  <1>9. BufferInv'
    <2>1. Partial(ti, 1)' = EmptyBuffer
      <3>1. \A x \in Ids : ~(x[2] < 1)
        BY DEF Ids
      <3> QED BY <3>1 DEF Partial, EmptyBuffer
    <2> QED BY <1>1, <1>5, <2>1 DEF BufferInv
  <1>10. StoppedInv'
    BY <1>1 DEF StoppedInv
  <1> QED BY <1>3, <1>7, <1>8, <1>9, <1>10 DEF IInv

\* A row event adds its row to the buffer, if the job replicates the table.
LEMMA OnRowsEventInv ==
    ASSUME IInv, OnRowsEvent
    PROVE  IInv'
  <1> USE SourceAssumption, RunnerAssumption
  <1>1. /\ up /\ ti <= Len(binlog) /\ tk \in 1..binlog[ti].rows /\ tk' = tk + 1
        /\ changes' = IF tk \in binlog[ti].mine
                      THEN [changes EXCEPT ![<<ti, tk>>] = @ + 1] ELSE changes
        /\ pos' = [pos EXCEPT !.file = ti]
        /\ UNCHANGED <<binlog, ckpt, copies, mode, blocking, boundary, up, ti, gset, applied,
                       currentGTID, cancelled, graceful, ack, acked, faults>>
    BY DEF OnRowsEvent, source, target, job, acks
  <1>2. Done \in 1..MaxTxn /\ Done \in StartTxn..Len(binlog) /\ Len(binlog) \in Nat
    BY CheckpointIsPrefix
  <1>3. Done' = Done /\ PositionsInv' /\ DDLInv' /\ ExactlyOnce' /\ DDLBarrier'
    BY <1>1, DurableFrame
  <1>4. ti \in 1..Len(binlog) /\ Len(binlog) <= MaxTxn /\ binlog[ti] \in Entries
    BY <1>1 DEF IInv, TypeOK
  <1>5. binlog[ti].rows \in 0..MaxRows /\ tk \in 1..MaxRows /\ <<ti, tk>> \in Ids
    BY <1>1, <1>4 DEF Entries, Ids
  <1>6. pos' \in Position /\ pos'.gtid = pos.gtid
    <2>1. pos \in Position /\ ti \in 0..MaxTxn
      BY <1>4 DEF IInv, TypeOK
    <2> QED BY <1>1, <2>1, PosMoves
  <1>7. changes = Partial(ti, tk)
    BY <1>1, <1>5 DEF IInv, BufferInv
  <1>8. changes' = [x \in Ids |-> IF x[1] = ti /\ x[2] < tk + 1 /\ x[2] \in binlog[ti].mine THEN 1 ELSE 0]
    <2>1. \A x \in Ids : x[2] \in Nat /\ (x[1] = ti /\ x[2] = tk <=> x = <<ti, tk>>)
      BY DEF Ids
    <2>2. CASE tk \in binlog[ti].mine
      <3>1. changes' = [x \in Ids |-> IF x = <<ti, tk>> THEN changes[x] + 1 ELSE changes[x]]
        BY <1>1, <1>5, <1>7, <2>2 DEF Partial
      <3>2. \A x \in Ids : changes'[x] = IF x[1] = ti /\ x[2] < tk + 1 /\ x[2] \in binlog[ti].mine THEN 1 ELSE 0
        BY <1>5, <1>7, <2>1, <2>2, <3>1 DEF Partial
      <3> QED BY <3>1, <3>2
    <2>3. CASE tk \notin binlog[ti].mine
      BY <1>1, <1>5, <1>7, <2>1, <2>3 DEF Partial
    <2> QED BY <2>2, <2>3
  <1>9. TypeOK'
    <2>1. changes' \in [Ids -> Nat]
      BY <1>8
    <2>2. tk' \in 0..(MaxRows + 1)
      BY <1>1, <1>5
    <2> QED BY <1>1, <1>6, <2>1, <2>2 DEF IInv, TypeOK
  <1>10. StreamInv'
    BY <1>1, <1>2, <1>3, <1>4, <1>5, <1>6 DEF IInv, StreamInv
  <1>11. BufferInv'
    BY <1>1, <1>5, <1>8 DEF BufferInv, Partial
  <1>12. StoppedInv'
    BY <1>1 DEF StoppedInv
  <1> QED BY <1>3, <1>9, <1>10, <1>11, <1>12 DEF IInv
-----------------------------------------------------------------------------
\* At the end of entry ti the runner's position is that of the first ti entries.
LEMMA ClosingIsPrefix ==
    ASSUME IInv, up, ti <= Len(binlog), tk = Closing(binlog[ti])
    PROVE  /\ ti \in 1..Len(binlog) /\ ti \in 1..MaxTxn
           /\ Done \in 1..MaxTxn /\ Done \in StartTxn..Len(binlog) /\ Len(binlog) \in Nat
           /\ ti \in {Done, Done + 1}
           /\ binlog[ti] \in Entries /\ binlog[ti].rows \in 0..MaxRows /\ tk >= 1
           /\ applied = PositionAt(Done) /\ ckpt = PositionAt(Done) /\ ckpt # NoPosition
           /\ gset = (IF UseGTID THEN 1..ti ELSE {})
           /\ UseGTID => currentGTID = ti
           /\ ~UseGTID => ti = Done + 1
           /\ ClosingPosition = PositionAt(ti)
  <1> USE SourceAssumption, RunnerAssumption
  <1>1. Done \in 1..MaxTxn /\ Done \in StartTxn..Len(binlog) /\ Len(binlog) \in Nat
    BY CheckpointIsPrefix
  <1>2. ti \in 1..Len(binlog) /\ Len(binlog) <= MaxTxn /\ binlog[ti] \in Entries
    BY DEF IInv, TypeOK
  <1>3. binlog[ti].rows \in 0..MaxRows
    BY <1>2 DEF Entries
  <1>4. tk >= 1
    BY <1>3 DEF Closing
  <1>5. ckpt # NoPosition /\ applied = ckpt /\ pos.gtid = ckpt.gtid /\ ti \in {Done, Done + 1}
    BY DEF IInv, StreamInv
  <1>6. ckpt = PositionAt(Done)
    BY <1>5, CheckpointIsPrefix
  <1>7. CASE UseGTID
    <2>1. currentGTID = ti /\ gset = 1..(IF currentGTID = Done + 1 THEN Done + 1 ELSE Done)
      BY <1>4, <1>7 DEF IInv, StreamInv
    <2>2. gset = 1..ti
      BY <1>1, <1>5, <2>1
    <2>3. pos.gtid = 1..Done
      BY <1>1, <1>5, <1>6, <1>7, PositionAtFacts
    <2>4. mergeGTID(pos.gtid, currentGTID) = 1..ti
      <3>1. ti # NoGTID
        BY <1>2 DEF NoGTID
      <3>2. (1..Done) \cup {ti} = 1..ti
        BY <1>1, <1>2, <1>5
      <3> QED BY <2>1, <2>3, <3>1, <3>2 DEF mergeGTID
    <2>5. ClosingPosition = PositionAt(ti)
      BY <1>7, <2>2, <2>4 DEF ClosingPosition, PositionAt
    <2> QED BY <1>1, <1>2, <1>3, <1>4, <1>5, <1>6, <1>7, <2>1, <2>2, <2>5
  <1>8. CASE ~UseGTID
    <2>1. gset = {} /\ ti = Done + 1
      BY <1>8 DEF IInv, StreamInv
    <2>2. pos.gtid = {}
      BY <1>1, <1>5, <1>6, <1>8, PositionAtFacts
    <2>3. ClosingPosition = PositionAt(ti)
      BY <1>8, <2>2 DEF ClosingPosition, PositionAt
    <2> QED BY <1>1, <1>2, <1>3, <1>4, <1>5, <1>6, <1>8, <2>1, <2>3
  <1> QED BY <1>7, <1>8

\* The tail of commit, from a state whose durable part is sound: the runner
\* leaves, reports the boundary, or goes on with the next entry.
LEMMA AfterCommitInv ==
    ASSUME IInv, up, ti <= Len(binlog), tk = Closing(binlog[ti]),
           binlog[ti].kind # "ddl",
           AfterCommit(PositionAt(ti)),
           ckpt' = PositionAt(ti), copies' \in [Ids -> Nat],
           UNCHANGED <<binlog, ack, acked, faults>>,
           ExactlyOnce', DDLBarrier'
    PROVE  IInv'
  <1> USE SourceAssumption, RunnerAssumption
  <1>1. /\ ti \in 1..Len(binlog) /\ ti \in 1..MaxTxn /\ Len(binlog) \in Nat
        /\ Done \in StartTxn..Len(binlog) /\ ti \in {Done, Done + 1}
        /\ gset = (IF UseGTID THEN 1..ti ELSE {})
        /\ UseGTID => currentGTID = ti
        /\ ClosingPosition = PositionAt(ti)
    BY ClosingIsPrefix
  <1>2. ckpt' \in Position /\ ckpt' # NoPosition /\ ckpt'.file = ti /\ Done' = ti
    BY <1>1, PositionAtFacts DEF Done
  <1>3. mode = "active" /\ \A a \in Ackers : ack[a].step = "idle"
    BY DEF IInv, StreamInv, DDLInv
  <1>4. boundary # NoPosition =>
          boundary = PositionAt(boundary.file) /\ boundary.file \in 1..Len(binlog)
    BY DEF IInv, PositionsInv
  <1>5. CASE CutoverReached(PositionAt(ti))
    <2>1. mode' = "cutover_ready" /\ Returned /\ UNCHANGED <<blocking, boundary>>
      BY <1>5 DEF AfterCommit
    <2>2. boundary # NoPosition /\ boundary.file <= ti
      BY <1>1, <1>4, <1>5, ReachedIsOrder DEF CutoverReached, IInv, TypeOK
    <2>3. TypeOK'
      BY <1>2, <2>1, ReturnedType DEF IInv, TypeOK
    <2>4. PositionsInv'
      BY <1>1, <1>2, <1>4, <2>1, <2>2 DEF PositionsInv
    <2>5. DDLInv'
      BY <1>3, <2>1 DEF DDLInv
    <2> QED BY <2>1, <2>3, <2>4, <2>5, ReturnedType DEF IInv
  <1>6. CASE ~CutoverReached(PositionAt(ti)) /\ graceful
    <2>1. Returned /\ UNCHANGED <<mode, blocking, boundary>>
      BY <1>6 DEF AfterCommit, job
    <2>2. TypeOK'
      BY <1>2, <2>1, ReturnedType DEF IInv, TypeOK
    <2>3. PositionsInv'
      BY <1>1, <1>2, <1>3, <1>4, <2>1 DEF PositionsInv
    <2>4. DDLInv'
      BY <1>3, <2>1 DEF DDLInv
    <2> QED BY <2>1, <2>2, <2>3, <2>4, ReturnedType DEF IInv
  <1>7. CASE ~CutoverReached(PositionAt(ti)) /\ ~graceful
    <2>1. /\ UNCHANGED <<mode, blocking, boundary, up, gset, currentGTID, cancelled, graceful>>
          /\ pos' = PositionAt(ti) /\ applied' = PositionAt(ti)
          /\ changes' = EmptyBuffer /\ tk' = 0
          /\ ti' = NextEntry(ti, gset)
      BY <1>1, <1>7 DEF AfterCommit, job
    <2>2. ti' = ti + 1
      BY <1>1, <2>1, NextBehindPrefix, NextByFile
    <2>3. EmptyBuffer \in [Ids -> Nat] /\ EmptyBuffer' = EmptyBuffer
      BY DEF EmptyBuffer
    <2>4. TypeOK'
      <3>1. pos' \in Position /\ applied' \in Position
        BY <1>1, <2>1, PositionAtFacts
      <3>2. ti' \in 1..(MaxTxn + 1) /\ tk' \in 0..(MaxRows + 1) /\ changes' \in [Ids -> Nat]
        BY <1>1, <2>1, <2>2, <2>3
      <3> QED BY <1>2, <2>1, <3>1, <3>2 DEF IInv, TypeOK
    <2>5. PositionsInv'
      BY <1>1, <1>2, <1>3, <1>4, <2>1 DEF PositionsInv
    <2>6. StreamInv'
      <3>1. applied' = ckpt' /\ pos'.gtid = ckpt'.gtid /\ ti' = Done' + 1 /\ up' /\ mode' = "active"
        BY <1>2, <1>3, <2>1, <2>2
      <3>2. ~UseGTID => gset' = {} /\ currentGTID' \in {NoGTID, Anonymous}
        BY <1>1, <2>1 DEF IInv, StreamInv
      <3>3. UseGTID => currentGTID' = Done' /\ gset' = 1..Done' /\ binlog'[Done'].kind # "ddl"
        BY <1>1, <1>2, <2>1
      <3> QED BY <1>1, <1>2, <2>1, <3>1, <3>2, <3>3 DEF StreamInv
    <2>7. BufferInv' /\ StoppedInv'
      BY <2>1, <2>3 DEF BufferInv, StoppedInv
    <2>8. DDLInv'
      BY <1>3, <2>1 DEF DDLInv
    <2> QED BY <2>4, <2>5, <2>6, <2>7, <2>8 DEF IInv
  <1> QED BY <1>5, <1>6, <1>7

\* A replayed transaction is the last one applied: nothing durable changes.
LEMMA CommitReplayedInv ==
    ASSUME IInv, CommitReplayed
    PROVE  IInv'
  <1> USE SourceAssumption, RunnerAssumption
  <1>1. /\ up /\ ti <= Len(binlog) /\ tk = Closing(binlog[ti]) /\ binlog[ti].kind # "ddl"
        /\ PositionReached(applied, ClosingPosition) /\ AfterCommit(applied)
        /\ UNCHANGED <<binlog, ckpt, copies, ack, acked, faults>>
    BY DEF CommitReplayed, Commits, AtClosing, source, target, acks
  <1>2. /\ ti \in 1..MaxTxn /\ Done \in 1..MaxTxn /\ ti \in {Done, Done + 1}
        /\ applied = PositionAt(Done) /\ ckpt = PositionAt(Done)
        /\ ClosingPosition = PositionAt(ti)
    BY <1>1, ClosingIsPrefix
  <1>3. ti = Done
    BY <1>1, <1>2, ReachedIsOrder
  <1>4. Done' = Done
    BY <1>1 DEF Done
  <1>5. ExactlyOnce' /\ DDLBarrier' /\ copies' \in [Ids -> Nat]
    BY <1>1, <1>4 DEF IInv, ExactlyOnce, DDLBarrier, TypeOK
  <1> QED BY <1>1, <1>2, <1>3, <1>5, AfterCommitInv

\* Apply makes the target exactly one entry longer.
LEMMA ApplyExact ==
    ASSUME IInv, Commits, ~PositionReached(applied, ClosingPosition),
           Apply(ClosingPosition), UNCHANGED <<binlog, acked>>
    PROVE  /\ ti = Done + 1 /\ ClosingPosition = PositionAt(ti)
           /\ up /\ ti <= Len(binlog) /\ tk = Closing(binlog[ti]) /\ binlog[ti].kind # "ddl"
           /\ ckpt' = PositionAt(ti) /\ Done' = ti
           /\ copies' \in [Ids -> Nat] /\ ExactlyOnce' /\ DDLBarrier'
  <1> USE SourceAssumption, RunnerAssumption
  <1>1. /\ up /\ ti <= Len(binlog) /\ tk = Closing(binlog[ti])
        /\ binlog[ti].kind \in {"xid", "commit", "rollback", "other"}
        /\ binlog[ti].kind = "other" => changes = EmptyBuffer
    BY DEF Commits, AtClosing
  <1>2. /\ ti \in 1..MaxTxn /\ ti \in 1..Len(binlog) /\ Len(binlog) \in Nat
        /\ Done \in 1..MaxTxn /\ ti \in {Done, Done + 1}
        /\ applied = PositionAt(Done) /\ ClosingPosition = PositionAt(ti)
        /\ binlog[ti] \in Entries /\ binlog[ti].rows \in 0..MaxRows /\ tk >= 1
    BY <1>1, ClosingIsPrefix
  <1>3. ti = Done + 1
    BY <1>2, ReachedIsOrder
  <1>4. ckpt' = PositionAt(ti) /\ Done' = ti
    BY <1>2, PositionAtFacts DEF Apply, Done
  <1>5. changes = Partial(ti, tk)
    BY <1>1, <1>2 DEF IInv, BufferInv
  <1>6. \A x \in Ids : Buffered[x] =
          IF Committed(binlog[ti]) /\ x[1] = ti /\ x[2] \in binlog[ti].mine THEN 1 ELSE 0
    <2>1. \A x \in Ids : x[2] \in binlog[ti].mine => x[2] < tk
      BY <1>1, <1>2 DEF Entries, Ids, Closing
    <2>2. CASE Committed(binlog[ti])
      BY <1>5, <2>1, <2>2 DEF Buffered, Committed, Partial
    <2>3. CASE ~Committed(binlog[ti])
      <3>1. Buffered = EmptyBuffer
        BY <1>1, <2>3 DEF Buffered, Committed
      <3> QED BY <2>3, <3>1 DEF EmptyBuffer
    <2> QED BY <2>2, <2>3
  <1>7. binlog \in Seq(Entries) /\ copies = Expected(binlog, Done) /\ copies \in [Ids -> Nat]
    BY DEF IInv, TypeOK, ExactlyOnce
  <1>8. \A x \in Ids : copies[x] + Buffered[x] = Expected(binlog, ti)[x]
    BY <1>2, <1>3, <1>6, <1>7, ExpectedNext
  <1>9. copies' = Expected(binlog, ti)
    BY <1>8 DEF Apply, Expected
  <1>10. copies' \in [Ids -> Nat] /\ ExactlyOnce'
    BY <1>4, <1>9 DEF Expected, ExactlyOnce
  <1>11. DDLBarrier'
    BY <1>1, <1>2, <1>3, <1>4 DEF IInv, DDLBarrier
  <1> QED BY <1>1, <1>2, <1>3, <1>4, <1>10, <1>11

(* Apply adds exactly the entry behind the checkpoint. *)
LEMMA CommitApplyInv ==
    ASSUME IInv, CommitApply
    PROVE  IInv'
  <1>1. /\ Commits /\ ~PositionReached(applied, ClosingPosition) /\ Apply(ClosingPosition)
        /\ AfterCommit(ClosingPosition) /\ UNCHANGED <<binlog, ack, acked, faults>>
    BY DEF CommitApply, source, acks
  <1> QED BY <1>1, ApplyExact, AfterCommitInv

\* The answer is lost after the target committed: the checkpoint tells.
LEMMA CommitUnansweredInv ==
    ASSUME IInv, CommitUnanswered
    PROVE  IInv'
  <1> USE SourceAssumption, RunnerAssumption
  <1>1. /\ Commits /\ ~PositionReached(applied, ClosingPosition) /\ Apply(ClosingPosition)
        /\ Returned /\ faults' \in 0..MaxFaults
        /\ UNCHANGED <<binlog, mode, blocking, boundary, ack, acked>>
    BY DEF CommitUnanswered, Fault, source, job, acks, IInv, TypeOK
  <1>2. /\ ti = Done + 1 /\ ti <= Len(binlog) /\ up /\ ckpt' = PositionAt(ti) /\ Done' = ti
        /\ tk = Closing(binlog[ti])
        /\ copies' \in [Ids -> Nat] /\ ExactlyOnce' /\ DDLBarrier'
    BY <1>1, ApplyExact
  <1>3. ti \in 1..MaxTxn /\ Len(binlog) \in Nat /\ Done \in StartTxn..Len(binlog)
    BY <1>2, ClosingIsPrefix
  <1>4. ckpt' \in Position /\ ckpt' # NoPosition /\ ckpt'.file = ti
    BY <1>2, <1>3, PositionAtFacts
  <1>5. mode = "active" /\ \A a \in Ackers : ack[a].step = "idle"
    BY <1>2 DEF IInv, StreamInv, DDLInv
  <1>6. TypeOK'
    BY <1>1, <1>2, <1>4, ReturnedType DEF IInv, TypeOK
  <1>7. PositionsInv'
    BY <1>1, <1>2, <1>3, <1>4, <1>5 DEF IInv, PositionsInv
  <1>8. DDLInv'
    BY <1>1, <1>5 DEF DDLInv
  <1> QED BY <1>1, <1>2, <1>6, <1>7, <1>8, ReturnedType DEF IInv

\* The runner stops in front of a DDL that is the entry behind the checkpoint.
LEMMA DDLPauseInv ==
    ASSUME IInv, DDLPause
    PROVE  IInv'
  <1> USE SourceAssumption, RunnerAssumption
  <1>1. /\ up /\ ti <= Len(binlog) /\ tk = Closing(binlog[ti]) /\ binlog[ti].kind = "ddl"
        /\ mode' = "paused_ddl" /\ blocking' = ClosingPosition /\ Returned
        /\ UNCHANGED <<binlog, ckpt, copies, boundary, ack, acked, faults>>
    BY DEF DDLPause, AtClosing, source, target, acks
  <1>2. /\ ti \in 1..MaxTxn /\ ti \in 1..Len(binlog) /\ ti \in {Done, Done + 1}
        /\ ClosingPosition = PositionAt(ti) /\ ckpt # NoPosition
        /\ UseGTID => currentGTID = ti
        /\ ~UseGTID => ti = Done + 1
    BY <1>1, ClosingIsPrefix
  <1>3. ti = Done + 1
    BY <1>1, <1>2 DEF IInv, StreamInv
  <1>4. blocking' = PositionAt(ti) /\ blocking' \in Position /\ blocking'.file = ti
    BY <1>1, <1>2, PositionAtFacts
  <1>5. \A a \in Ackers : ack[a].step = "idle"
    BY <1>1 DEF IInv, StreamInv, DDLInv
  <1>6. Done' = Done
    BY <1>1 DEF Done
  <1>7. TypeOK'
    BY <1>1, <1>4, ReturnedType DEF IInv, TypeOK
  <1>8. PositionsInv' /\ ExactlyOnce' /\ DDLBarrier'
    BY <1>1, <1>6 DEF IInv, PositionsInv, ExactlyOnce, DDLBarrier
  <1>9. DDLInv'
    BY <1>1, <1>2, <1>3, <1>4, <1>5, <1>6 DEF DDLInv
  <1> QED BY <1>1, <1>7, <1>8, <1>9, ReturnedType DEF IInv

\* Without XA every closing event ends its entry.
LEMMA OnIgnoredClosingInv ==
    ASSUME NoXA, IInv, OnIgnoredClosing
    PROVE  IInv'
  <1> USE SourceAssumption, RunnerAssumption
  <1>1. /\ up /\ ti <= Len(binlog) /\ tk = Closing(binlog[ti])
        /\ \/ binlog[ti].kind \in {"xa_prepare", "xa_rollback"}
           \/ binlog[ti].kind = "other" /\ changes # EmptyBuffer
    BY DEF OnIgnoredClosing, AtClosing
  <1>2. binlog[ti] \in Entries /\ tk >= 1 /\ binlog[ti].rows \in Nat
    BY <1>1, ClosingIsPrefix
  <1>3. binlog[ti].kind \notin {"xa_prepare", "xa_rollback"}
    BY <1>2 DEF NoXA, Entries
  <1>4. binlog[ti].kind = "other" /\ changes # EmptyBuffer
    BY <1>1, <1>3
  <1>5. binlog[ti].mine = {}
    BY <1>2, <1>4 DEF Entries
  <1>6. changes = Partial(ti, tk)
    BY <1>1, <1>2 DEF IInv, BufferInv
  <1>7. Partial(ti, tk) = EmptyBuffer
    BY <1>5 DEF Partial, EmptyBuffer
  <1> QED BY <1>4, <1>6, <1>7

(* Publish ends the run only at a boundary that is applied. *)
LEMMA PublishInv ==
    ASSUME IInv, Publish
    PROVE  IInv'
  <1> USE SourceAssumption, RunnerAssumption
  <1>1. /\ up /\ CutoverReached(applied) /\ mode' = "cutover_ready" /\ Returned
        /\ UNCHANGED <<binlog, ckpt, copies, blocking, boundary, ack, acked, faults>>
    BY DEF Publish, source, target, acks
  <1>2. /\ Done \in 1..MaxTxn /\ Len(binlog) \in Nat /\ Len(binlog) <= MaxTxn
        /\ applied = PositionAt(Done)
    BY <1>1, CheckpointIsPrefix DEF IInv, StreamInv, TypeOK
  <1>3. boundary # NoPosition /\ boundary.file <= Done
    BY <1>1, <1>2, ReachedIsOrder DEF CutoverReached, IInv, PositionsInv
  <1>4. Done' = Done
    BY <1>1 DEF Done
  <1>5. \A a \in Ackers : ack[a].step = "idle"
    BY <1>1 DEF IInv, StreamInv, DDLInv
  <1>6. TypeOK'
    BY <1>1, ReturnedType DEF IInv, TypeOK
  <1>7. PositionsInv' /\ ExactlyOnce' /\ DDLBarrier'
    BY <1>1, <1>3, <1>4 DEF IInv, PositionsInv, ExactlyOnce, DDLBarrier
  <1>8. DDLInv'
    BY <1>1, <1>5 DEF DDLInv
  <1> QED BY <1>1, <1>6, <1>7, <1>8, ReturnedType DEF IInv

\* After a reconnect the source sends again the transaction read last.
LEMMA ReconnectInv ==
    ASSUME IInv, Reconnect
    PROVE  IInv'
  <1> USE SourceAssumption, RunnerAssumption
  <1>1. /\ up /\ faults' \in 0..MaxFaults /\ UseGTID /\ currentGTID # NoGTID
        /\ ti' = currentGTID /\ tk' = 0
        /\ UNCHANGED <<binlog, ckpt, copies, mode, blocking, boundary, up, gset, pos, applied,
                       changes, currentGTID, cancelled, graceful, ack, acked>>
    BY DEF Reconnect, Fault, source, target, job, acks, IInv, TypeOK
  <1>2. Done \in 1..MaxTxn
    BY CheckpointIsPrefix
  <1>3. Done' = Done /\ PositionsInv' /\ DDLInv' /\ ExactlyOnce' /\ DDLBarrier'
    BY <1>1, DurableFrame
  <1>4. currentGTID \in {Done, Done + 1}
    BY <1>1 DEF IInv, StreamInv
  <1>5. TypeOK'
    BY <1>1, <1>2, <1>4 DEF IInv, TypeOK
  <1>6. StreamInv'
    BY <1>1, <1>2, <1>3, <1>4 DEF IInv, StreamInv
  <1>7. BufferInv' /\ StoppedInv'
    BY <1>1 DEF BufferInv, StoppedInv
  <1> QED BY <1>3, <1>5, <1>6, <1>7 DEF IInv

(* A cancelled context changes nothing the invariant speaks of. *)
LEMMA CancelInv ==
    ASSUME IInv, Cancel
    PROVE  IInv'
  <1> USE SourceAssumption, RunnerAssumption
  <1>1. /\ up /\ faults' \in 0..MaxFaults /\ cancelled' = TRUE
        /\ UNCHANGED <<binlog, ckpt, copies, mode, blocking, boundary, up, ti, tk, gset, pos,
                       applied, changes, currentGTID, graceful, ack, acked>>
    BY DEF Cancel, Fault, source, target, job, acks, IInv, TypeOK
  <1>2. Done' = Done /\ PositionsInv' /\ DDLInv' /\ ExactlyOnce' /\ DDLBarrier'
    BY <1>1, DurableFrame
  <1>3. cancelled' \in BOOLEAN
    BY <1>1
  <1>4. TypeOK'
    BY <1>1, <1>3 DEF IInv, TypeOK
  <1>5. StreamInv'
    BY <1>1, <1>2 DEF IInv, StreamInv
  <1>6. BufferInv' /\ StoppedInv'
    BY <1>1 DEF IInv, BufferInv, StoppedInv, Partial, EmptyBuffer
  <1> QED BY <1>2, <1>4, <1>5, <1>6 DEF IInv

(* A run stops on cancel, or reads its transaction to the end. *)
LEMMA OnCancelledInv ==
    ASSUME IInv, OnCancelled
    PROVE  IInv'
  <1> USE SourceAssumption, RunnerAssumption
  <1>1. CASE changes # EmptyBuffer
    <2>1. /\ up /\ graceful' = TRUE
          /\ UNCHANGED <<binlog, ckpt, copies, mode, blocking, boundary, up, ti, tk, gset, pos,
                         applied, changes, currentGTID, cancelled, ack, acked, faults>>
      BY <1>1 DEF OnCancelled, source, target, job, acks
    <2>2. Done' = Done /\ PositionsInv' /\ DDLInv' /\ ExactlyOnce' /\ DDLBarrier'
      BY <2>1, DurableFrame
    <2>3. graceful' \in BOOLEAN
      BY <2>1
    <2>4. TypeOK'
      BY <2>1, <2>3 DEF IInv, TypeOK
    <2>5. StreamInv'
      BY <2>1, <2>2 DEF IInv, StreamInv
    <2>6. BufferInv' /\ StoppedInv'
      BY <2>1 DEF IInv, BufferInv, StoppedInv, Partial, EmptyBuffer
    <2> QED BY <2>2, <2>4, <2>5, <2>6 DEF IInv
  <1>2. CASE changes = EmptyBuffer
    BY <1>2, ReturnInv DEF OnCancelled, source, target, job, acks, IInv, TypeOK
  <1> QED BY <1>1, <1>2

(* A requested boundary is a position of the source. *)
LEMMA RequestCutoverInv ==
    ASSUME IInv, RequestCutover
    PROVE  IInv'
  <1> USE SourceAssumption, RunnerAssumption
  <1>1. /\ mode = "active" /\ boundary' = PositionAt(Len(binlog))
        /\ UNCHANGED <<binlog, ckpt, copies, mode, blocking, up, ti, tk, gset, pos, applied,
                       changes, currentGTID, cancelled, graceful, ack, acked, faults>>
    BY DEF RequestCutover, CurrentPosition, source, target, runner, acks
  <1>2. Len(binlog) \in 1..MaxTxn
    BY DEF IInv, TypeOK
  <1>3. boundary' \in Position /\ boundary' = PositionAt(boundary'.file) /\ boundary'.file \in 1..Len(binlog)
    BY <1>1, <1>2, PositionAtFacts
  <1>4. Done' = Done
    BY <1>1 DEF Done
  <1>5. TypeOK'
    BY <1>1, <1>3 DEF IInv, TypeOK
  <1>6. PositionsInv' /\ DDLInv' /\ ExactlyOnce' /\ DDLBarrier'
    BY <1>1, <1>3, <1>4 DEF IInv, PositionsInv, DDLInv, ExactlyOnce, DDLBarrier
  <1>7. StreamInv'
    BY <1>1, <1>4 DEF IInv, StreamInv
  <1>8. BufferInv' /\ StoppedInv'
    BY <1>1 DEF IInv, BufferInv, StoppedInv, Partial, EmptyBuffer
  <1> QED BY <1>5, <1>6, <1>7, <1>8 DEF IInv

(* Without a boundary nothing is promised about it. *)
LEMMA CancelCutoverInv ==
    ASSUME IInv, CancelCutover
    PROVE  IInv'
  <1> USE SourceAssumption, RunnerAssumption
  <1>1. /\ mode # "paused_ddl" /\ mode' = "active" /\ boundary' = NoPosition
        /\ faults' \in 0..MaxFaults
        /\ UNCHANGED <<binlog, ckpt, copies, blocking, up, ti, tk, gset, pos, applied,
                       changes, currentGTID, cancelled, graceful, ack, acked>>
    BY DEF CancelCutover, Fault, source, target, runner, acks, IInv, TypeOK
  <1>2. NoPosition \in Position
    BY DEF NoPosition, Position
  <1>3. Done' = Done
    BY <1>1 DEF Done
  <1>4. TypeOK'
    BY <1>1, <1>2 DEF IInv, TypeOK
  <1>5. PositionsInv' /\ DDLInv' /\ ExactlyOnce' /\ DDLBarrier'
    BY <1>1, <1>3 DEF IInv, PositionsInv, DDLInv, ExactlyOnce, DDLBarrier
  <1>6. StreamInv'
    BY <1>1, <1>3 DEF IInv, StreamInv
  <1>7. BufferInv' /\ StoppedInv'
    BY <1>1 DEF IInv, BufferInv, StoppedInv, Partial, EmptyBuffer
  <1> QED BY <1>4, <1>5, <1>6, <1>7 DEF IInv
\* An operator's request finds the job paused: from here on the DDL counts as
\* acknowledged.
LEMMA AckReadInv ==
    ASSUME IInv, NEW a \in Ackers, AckRead(a)
    PROVE  IInv'
  <1> USE SourceAssumption, RunnerAssumption
  <1>1. /\ mode = "paused_ddl"
        /\ ack' = [ack EXCEPT ![a] = [step |-> "save", p |-> blocking]]
        /\ acked' = acked \cup {blocking.file}
        /\ UNCHANGED <<binlog, ckpt, copies, mode, blocking, boundary, up, ti, tk, gset, pos,
                       applied, changes, currentGTID, cancelled, graceful, faults>>
    BY DEF AckRead, source, target, job, runner
  <1>2. blocking \in Position /\ blocking.file \in 1..MaxTxn
    BY <1>1 DEF IInv, TypeOK, DDLInv
  <1>3. Done' = Done
    BY <1>1 DEF Done
  <1>4. ack' \in [Ackers -> [step : {"idle", "save", "swap"}, p : Position]]
    BY <1>1, <1>2 DEF IInv, TypeOK
  <1>5. TypeOK'
    BY <1>1, <1>2, <1>4 DEF IInv, TypeOK
  <1>6. \A b \in Ackers : ack'[b].step # "idle" => ack'[b].p = blocking
    <2> SUFFICES ASSUME NEW b \in Ackers, ack'[b].step # "idle"
                 PROVE  ack'[b].p = blocking
      OBVIOUS
    <2>1. CASE b = a
      BY <1>1, <2>1 DEF IInv, TypeOK
    <2>2. CASE b # a
      <3>1. ack'[b] = ack[b]
        BY <1>1, <2>2 DEF IInv, TypeOK
      <3> QED BY <3>1 DEF IInv, DDLInv
    <2> QED BY <2>1, <2>2
  <1>7. DDLInv'
    BY <1>1, <1>3, <1>6 DEF IInv, DDLInv
  <1>8. PositionsInv' /\ ExactlyOnce' /\ DDLBarrier'
    BY <1>1, <1>3 DEF IInv, PositionsInv, ExactlyOnce, DDLBarrier
  <1>9. StreamInv'
    BY <1>1, <1>3 DEF IInv, StreamInv
  <1>10. BufferInv' /\ StoppedInv'
    BY <1>1 DEF IInv, BufferInv, StoppedInv, Partial, EmptyBuffer
  <1> QED BY <1>5, <1>7, <1>8, <1>9, <1>10 DEF IInv

\* The acknowledgement moves the checkpoint over the DDL, and over nothing else.
LEMMA AckSaveInv ==
    ASSUME IInv, NEW a \in Ackers, AckSave(a)
    PROVE  IInv'
  <1> USE SourceAssumption, RunnerAssumption
  <1>1. /\ ack[a].step = "save" /\ ckpt' = ack[a].p
        /\ ack' = [ack EXCEPT ![a].step = "swap"]
        /\ UNCHANGED <<binlog, copies, mode, blocking, boundary, up, ti, tk, gset, pos,
                       applied, changes, currentGTID, cancelled, graceful, acked, faults>>
    BY DEF AckSave, source, job, runner
  <1>2. /\ mode = "paused_ddl" /\ ack[a].p = blocking /\ blocking.file \in acked
        /\ blocking = PositionAt(blocking.file) /\ blocking.file \in 1..Len(binlog)
        /\ binlog[blocking.file].kind = "ddl" /\ ckpt # NoPosition
        /\ Done + 1 = blocking.file \/ Done = blocking.file
        /\ blocking \in Position
    BY <1>1 DEF IInv, DDLInv, TypeOK
  <1>3. /\ Done \in StartTxn..Len(binlog) /\ Done \in 1..MaxTxn /\ Len(binlog) \in Nat
        /\ blocking.file \in 1..MaxTxn /\ binlog \in Seq(Entries)
    BY <1>2, CheckpointIsPrefix DEF IInv, TypeOK
  <1>4. ckpt' = blocking /\ ckpt' # NoPosition /\ Done' = blocking.file
    BY <1>1, <1>2, <1>3, PositionAtFacts DEF Done
  <1>5. ~up
    BY <1>2 DEF IInv, StreamInv
  <1>6. /\ ack' \in [Ackers -> [step : {"idle", "save", "swap"}, p : Position]]
        /\ \A b \in Ackers : ack'[b].p = ack[b].p /\ (ack[b].step = "idle" => ack'[b].step = "idle")
    BY <1>1 DEF IInv, TypeOK
  <1>7. TypeOK'
    BY <1>1, <1>2, <1>4, <1>6 DEF IInv, TypeOK
  <1>8. PositionsInv'
    BY <1>1, <1>2, <1>3, <1>4 DEF IInv, PositionsInv
  <1>9. StreamInv' /\ BufferInv' /\ StoppedInv'
    BY <1>1, <1>5 DEF IInv, StreamInv, BufferInv, StoppedInv, EmptyBuffer
  <1>10. DDLInv'
    BY <1>1, <1>2, <1>3, <1>4, <1>6 DEF IInv, DDLInv
  <1>11. Expected(binlog, blocking.file) = Expected(binlog, Done)
    <2>1. CASE Done + 1 = blocking.file
      <3>1. ~Committed(binlog[Done + 1])
        BY <1>2, <2>1 DEF Committed
      <3>2. \A x \in Ids : Expected(binlog, Done + 1)[x] = Expected(binlog, Done)[x] + 0
        BY <1>3, <2>1, <3>1, <1>2, ExpectedNext
      <3>3. \A x \in Ids : Expected(binlog, Done)[x] \in Nat
        BY DEF Expected
      <3>4. \A x \in Ids : Expected(binlog, Done + 1)[x] = Expected(binlog, Done)[x]
        BY <3>2, <3>3
      <3> QED BY <2>1, <3>4 DEF Expected
    <2> QED BY <1>2, <2>1
  <1>12. ExactlyOnce'
    BY <1>1, <1>4, <1>11 DEF IInv, ExactlyOnce
  <1>13. DDLBarrier'
    BY <1>1, <1>2, <1>3, <1>4 DEF IInv, DDLBarrier
  <1> QED BY <1>7, <1>8, <1>9, <1>10, <1>12, <1>13 DEF IInv

\* The only acknowledgement in flight ends the pause.
LEMMA AckSwapInv ==
    ASSUME OneAck, IInv, NEW a \in Ackers, AckSwap(a)
    PROVE  IInv'
  <1> USE SourceAssumption, RunnerAssumption
  <1>1. /\ ack[a].step = "swap"
        /\ ack' = [ack EXCEPT ![a] = Idle]
        /\ UNCHANGED <<binlog, ckpt, copies, boundary, up, ti, tk, gset, pos,
                       applied, changes, currentGTID, cancelled, graceful, acked, faults>>
    BY DEF AckSwap, source, target, runner
  <1>2. mode = "paused_ddl"
    BY <1>1 DEF IInv, DDLInv
  <1>3. mode' = "active" /\ blocking' = NoPosition
    BY <1>2 DEF AckSwap
  <1>4. ~up
    BY <1>2 DEF IInv, StreamInv
  <1>5. NoPosition \in Position
    BY DEF NoPosition, Position
  <1>6. /\ ack' \in [Ackers -> [step : {"idle", "save", "swap"}, p : Position]]
        /\ \A b \in Ackers : ack'[b].step = "idle"
    BY <1>1, <1>5 DEF IInv, TypeOK, OneAck, Idle
  <1>7. Done' = Done
    BY <1>1 DEF Done
  <1>8. TypeOK'
    BY <1>1, <1>3, <1>5, <1>6 DEF IInv, TypeOK
  <1>9. PositionsInv' /\ DDLInv' /\ ExactlyOnce' /\ DDLBarrier'
    BY <1>1, <1>3, <1>6, <1>7 DEF IInv, PositionsInv, DDLInv, ExactlyOnce, DDLBarrier
  <1>10. StreamInv' /\ BufferInv' /\ StoppedInv'
    BY <1>1, <1>4 DEF IInv, StreamInv, BufferInv, StoppedInv, EmptyBuffer
  <1> QED BY <1>8, <1>9, <1>10 DEF IInv

\* A stuttering step keeps the invariant.
LEMMA StutterInv ==
    ASSUME IInv, UNCHANGED vars
    PROVE  IInv'
  <1>1. UNCHANGED <<binlog, ckpt, copies, mode, blocking, boundary, up, ti, tk, gset, pos, applied,
                    changes, currentGTID, cancelled, graceful, ack, acked, faults>>
    BY DEF vars, source, target, job, runner, acks
  <1>2. Done' = Done /\ PositionsInv' /\ DDLInv' /\ ExactlyOnce' /\ DDLBarrier'
    BY <1>1, DurableFrame
  <1>3. TypeOK' /\ StreamInv'
    BY <1>1, <1>2 DEF IInv, TypeOK, StreamInv
  <1>4. BufferInv' /\ StoppedInv'
    BY <1>1 DEF IInv, BufferInv, StoppedInv, Partial, EmptyBuffer
  <1> QED BY <1>2, <1>3, <1>4 DEF IInv

\* Every step of the specification keeps the invariant.
LEMMA StepInv ==
    ASSUME OneAck, NoXA, IInv, [Next]_vars
    PROVE  IInv'
  <1>1. CASE SourceCommit BY <1>1, SourceCommitInv
  <1>2. CASE StartRun BY <1>2, StartRunInv
  <1>3. CASE Deliver
    <2>1. CASE OnGTIDEvent BY <2>1, OnGTIDEventInv
    <2>2. CASE OnRowsEvent BY <2>2, OnRowsEventInv
    <2>3. CASE CommitReplayed BY <2>3, CommitReplayedInv
    <2>4. CASE CommitApply BY <2>4, CommitApplyInv
    <2>5. CASE DDLPause BY <2>5, DDLPauseInv
    <2>6. CASE OnIgnoredClosing BY <2>6, OnIgnoredClosingInv
    <2> QED BY <1>3, <2>1, <2>2, <2>3, <2>4, <2>5, <2>6 DEF Deliver
  <1>4. CASE Publish BY <1>4, PublishInv
  <1>5. CASE Reconnect BY <1>5, ReconnectInv
  <1>6. CASE Cancel BY <1>6, CancelInv
  <1>7. CASE OnCancelled BY <1>7, OnCancelledInv
  <1>8. CASE CommitUnanswered BY <1>8, CommitUnansweredInv
  <1>9. CASE RunError BY <1>9, RunErrorInv
  <1>10. CASE Crash BY <1>10, CrashInv
  <1>11. CASE RequestCutover BY <1>11, RequestCutoverInv
  <1>12. CASE CancelCutover BY <1>12, CancelCutoverInv
  <1>13. CASE \E a \in Ackers : AckRead(a) \/ AckSave(a) \/ AckSwap(a)
    BY <1>13, AckReadInv, AckSaveInv, AckSwapInv
  <1>14. CASE UNCHANGED vars BY <1>14, StutterInv
  <1> QED BY <1>1, <1>2, <1>3, <1>4, <1>5, <1>6, <1>7, <1>8, <1>9, <1>10, <1>11, <1>12,
             <1>13, <1>14 DEF Next
-----------------------------------------------------------------------------
(***************************************************************************)
(* The inductive invariant holds in every reachable state of the runner.   *)
(***************************************************************************)
THEOREM InvariantHolds == ASSUME OneAck, NoXA PROVE Spec => []IInv
  <1>1. Init => IInv
    BY InitIInv
  <1>2. IInv /\ [Next]_vars => IInv'
    BY StepInv
  <1> QED BY <1>1, <1>2, PTL DEF Spec
(***************************************************************************)
(* Every variable of the runner, of the job row and of the target keeps    *)
(* its type.                                                               *)
(***************************************************************************)
THEOREM TypeCorrect == ASSUME OneAck, NoXA PROVE Spec => []TypeOK
  <1>1. IInv => TypeOK
    BY DEF IInv
  <1> QED BY <1>1, InvariantHolds, PTL

(***************************************************************************)
(* Exactly-once: however runs of the runner crash, are cancelled, replay a *)
(* transaction or lose the answer of a commit, the target holds what the   *)
(* entries below its checkpoint committed, once (commit, runner.go).       *)
(***************************************************************************)
THEOREM AppliesExactlyOnce == ASSUME OneAck, NoXA PROVE Spec => []ExactlyOnce
  <1>1. IInv => ExactlyOnce
    BY DEF IInv
  <1> QED BY <1>1, InvariantHolds, PTL

(***************************************************************************)
(* Nothing behind an unacknowledged DDL statement is ever in the target.   *)
(***************************************************************************)
THEOREM DDLIsBarrier == ASSUME OneAck, NoXA PROVE Spec => []DDLBarrier
  <1>1. IInv => DDLBarrier
    BY DEF IInv
  <1> QED BY <1>1, InvariantHolds, PTL

(***************************************************************************)
(* A runner that has reported the cutover boundary as reached has put      *)
(* everything up to it into the target (publish, runner.go).               *)
(***************************************************************************)
THEOREM CutoverIsComplete == ASSUME OneAck, NoXA PROVE Spec => []CutoverComplete
  <1>1. IInv => CutoverComplete
    <2> SUFFICES ASSUME IInv, mode = "cutover_ready", NEW x \in Ids, x[1] <= boundary.file
                 PROVE  copies[x] = Expected(binlog, boundary.file)[x]
      BY DEF CutoverComplete
    <2>1. boundary.file <= Done /\ copies = Expected(binlog, Done)
      BY DEF IInv, PositionsInv, ExactlyOnce
    <2>2. x[1] \in Nat /\ boundary.file \in Nat /\ Done \in Nat
      <3>1. x[1] \in Nat
        BY SourceAssumption DEF Ids
      <3>2. boundary.file \in Nat
        BY SourceAssumption DEF IInv, TypeOK, Position
      <3> QED BY <3>1, <3>2, CheckpointIsPrefix
    <2>3. x[1] <= Done
      BY <2>1, <2>2
    <2> QED BY <2>1, <2>3 DEF Expected
  <1> QED BY <1>1, InvariantHolds, PTL

\* A step never shrinks the prefix of the binlog that the target has: only
\* Apply and the acknowledgement write the checkpoint anew, one entry further.
LEMMA DoneGrows ==
    ASSUME OneAck, NoXA, IInv, [Next]_vars
    PROVE  Done' >= Done /\ (ckpt # NoPosition => ckpt' # NoPosition)
  <1> USE SourceAssumption, RunnerAssumption
  <1>0. Done \in Nat
    BY CheckpointIsPrefix
  <1>1. CASE UNCHANGED ckpt
    BY <1>0, <1>1 DEF Done
  <1>2. CASE StartRun
    <2>1. ckpt' = PositionAt(Done) /\ Done \in 1..MaxTxn
      BY <1>2, CheckpointIsPrefix DEF StartRun
    <2> QED BY <2>1, PositionAtFacts DEF Done
  <1>3. CASE CommitApply \/ CommitUnanswered
    <2>1. Commits /\ ~PositionReached(applied, ClosingPosition) /\ Apply(ClosingPosition) /\ UNCHANGED binlog /\ UNCHANGED acked
      BY <1>3 DEF CommitApply, CommitUnanswered, source, acks
    <2>2. Commits /\ ClosingPosition = PositionAt(ti) /\ ti \in 1..MaxTxn
      BY <2>1, ClosingIsPrefix DEF Commits, AtClosing
    <2> QED BY <1>0, <2>1, <2>2, ApplyExact, PositionAtFacts
  <1>4. ASSUME NEW a \in Ackers, AckSave(a) PROVE Done' >= Done /\ ckpt' # NoPosition
    <2>1. /\ ckpt' = blocking /\ blocking.file \in 1..Len(binlog)
          /\ blocking = PositionAt(blocking.file)
          /\ Done + 1 = blocking.file \/ Done = blocking.file
      BY <1>4 DEF AckSave, IInv, DDLInv
    <2>2. Done' = blocking.file /\ ckpt' # NoPosition
      BY <2>1, PositionAtFacts DEF Done, IInv, TypeOK
    <2> QED BY <1>0, <2>1, <2>2
  <1> QED BY <1>1, <1>2, <1>3, <1>4
          DEF Next, Deliver, vars, source, target, SourceCommit, OnGTIDEvent, OnRowsEvent,
              CommitReplayed, DDLPause, OnIgnoredClosing, Publish, Reconnect, Cancel, OnCancelled,
              RunError, Crash, RequestCutover, CancelCutover, AckRead, AckSwap

(***************************************************************************)
(* The checkpoint that a resume starts from never moves back               *)
(* (SaveCheckpoint and Apply, postgres.go).                                *)
(***************************************************************************)
THEOREM CheckpointNeverMovesBack == ASSUME OneAck, NoXA PROVE Spec => CheckpointMonotone
  <1>1. ASSUME IInv, IInv', [Next]_vars
        PROVE  [ckpt # NoPosition => PositionReached(ckpt', ckpt)]_vars
    <2> SUFFICES ASSUME ckpt # NoPosition PROVE PositionReached(ckpt', ckpt)
      OBVIOUS
    <2>1. ckpt = PositionAt(Done) /\ Done \in 1..MaxTxn
      BY <1>1, CheckpointIsPrefix
    <2>2. Done' >= Done /\ Done' \in 1..MaxTxn
      <3>1. Done' \in StartTxn..Len(binlog') /\ Len(binlog') \in StartTxn..MaxTxn
        BY <1>1 DEF IInv, PositionsInv, TypeOK
      <3> QED BY <3>1, <1>1, DoneGrows, SourceAssumption
    <2>3. ckpt' # NoPosition
      BY <1>1, DoneGrows
    <2>4. ckpt' = PositionAt(Done')
      BY <1>1, <2>3 DEF IInv, PositionsInv, Done
    <2> QED BY <2>1, <2>2, <2>4, ReachedIsOrder
  <1> QED BY <1>1, InvariantHolds, PTL DEF Spec, CheckpointMonotone

(***************************************************************************)
(* The runner implements ReplicatedCopy: seen through binlog, Done and     *)
(* copies, every behaviour is one of a target that always equals the       *)
(* source as of some entry, and only moves forward.                        *)
(***************************************************************************)
THEOREM RunnerImplementsCopy == ASSUME OneAck, NoXA PROVE Spec => ImplementsCopy
  <1>0. Copy!Entries = Entries /\ Copy!Histories = Histories
    BY DEF Copy!Entries, Entries, Copy!Histories, Histories
  <1>e. \A l, n : Copy!Expected(l, n) = Expected(l, n)
    BY DEF Copy!Expected, Expected, Copy!Ids, Ids, Copy!Committed, Committed
  <1>1. Init => Copy!Init
    BY <1>0, <1>e DEF Init, Copy!Init, Done
  <1>2. ASSUME IInv, IInv', [Next]_vars
        PROVE  [Copy!Next]_<<binlog, Done, copies>>
    <2>1. CASE SourceCommit
      <3>1. Done' = Done /\ copies' = copies /\ \E e \in Entries : binlog' = Append(binlog, e)
        BY <2>1 DEF SourceCommit, target, Done
      <3> QED BY <1>0, <3>1 DEF Copy!Next, Copy!Write
    <2>2. CASE UNCHANGED binlog
      <3>1. Done' >= Done /\ Done \in Nat /\ Done' \in Nat /\ Done' <= Len(binlog)
        <4>1. Done' \in StartTxn..Len(binlog') /\ Len(binlog') \in Nat
          BY <1>2, SourceAssumption DEF IInv, PositionsInv, TypeOK
        <4> QED BY <4>1, <1>2, <2>2, DoneGrows, CheckpointIsPrefix, SourceAssumption
      <3>2. copies = Expected(binlog, Done) /\ copies' = Expected(binlog, Done')
        BY <1>2, <2>2 DEF IInv, ExactlyOnce
      <3>3. CASE Done' = Done
        BY <2>2, <3>2, <3>3
      <3>4. CASE Done' # Done
        <4>1. Done' \in (Done + 1)..Len(binlog)
          BY <3>1, <3>4 DEF IInv, TypeOK
        <4> QED BY <1>e, <2>2, <3>2, <4>1 DEF Copy!Next, Copy!Replicate
      <3> QED BY <3>3, <3>4
    <2> QED BY <1>2, <2>1, <2>2
            DEF Next, Deliver, vars, source, StartRun, OnGTIDEvent, OnRowsEvent,
                CommitReplayed, CommitApply, CommitUnanswered, DDLPause, OnIgnoredClosing, Publish,
                Reconnect, Cancel, OnCancelled, RunError, Crash, RequestCutover, CancelCutover,
                AckRead, AckSave, AckSwap
  <1> QED BY <1>1, <1>2, InvariantHolds, PTL DEF Spec, ImplementsCopy, Copy!Spec
=============================================================================
