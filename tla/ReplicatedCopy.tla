--------------------------- MODULE ReplicatedCopy ---------------------------
(***************************************************************************)
(* What an incremental job promises: the target always equals the source   *)
(* as of some entry of its log, and that entry only moves forward.  No     *)
(* buffer, no positions, no failures: these belong to CdcRunner, which     *)
(* implements this specification.                                          *)
(***************************************************************************)
EXTENDS SourceLog

VARIABLES
    log,     \* entries the source has written
    done,    \* number of entries the target has
    copies   \* [Ids -> Nat], the target's content

Init ==
    /\ log \in Histories
    /\ done = StartTxn
    /\ copies = Expected(log, done)

\* The source goes on; the target's content stays what it was.
Write ==
    /\ \E e \in Entries : log' = Append(log, e)
    /\ UNCHANGED <<done, copies>>

\* Some further entries become visible in the target, all at once.
Replicate ==
    /\ done' \in (done + 1)..Len(log)
    /\ copies' = Expected(log, done')
    /\ UNCHANGED log

Next == Write \/ Replicate

Spec == Init /\ [][Next]_<<log, done, copies>>
=============================================================================
