----------------------------- MODULE SourceLog -----------------------------
(***************************************************************************)
(* The MySQL binlog as the incremental job sees it: a sequence of entries  *)
(* (transactions or stand-alone statements), and the rows a target must    *)
(* hold that has replicated its first n entries.                           *)
(***************************************************************************)
EXTENDS Integers, Sequences

CONSTANTS
    StartTxn,   \* entries covered by cfg.Start (the snapshot position)
    MaxTxn,     \* bound: binlog entries
    MaxRows,    \* bound: row events of one entry
    Kinds       \* kinds of entry the source produces

AllKinds == {"xid",         \* InnoDB transaction, closed by an XID event
             "commit",      \* transaction closed by a COMMIT query event
             "rollback",    \* closed by a ROLLBACK query event
             "ddl",         \* DDL that concerns the source database
             "other",       \* any other statement (DDL of another database)
             "xa_prepare",  \* XA START, rows, XA END, XA PREPARE
             "xa_rollback"} \* the later XA ROLLBACK of such a branch

ASSUME SourceAssumption ==
    /\ StartTxn \in Nat \ {0}
    /\ MaxTxn \in Nat /\ StartTxn <= MaxTxn
    /\ MaxRows \in Nat
    /\ Kinds \subseteq AllKinds

\* A row change is named by its entry and its row event.
Ids == (1..MaxTxn) \X (1..MaxRows)

\* rows: number of row events; mine: the ones in a table the job replicates.
Entries == {e \in [kind : Kinds, rows : 0..MaxRows, mine : SUBSET (1..MaxRows)] :
              /\ e.mine \subseteq 1..e.rows
              /\ e.kind \in {"ddl", "other", "xa_rollback"} => e.rows = 0}

\* What is in the binlog before the job's start position.
Histories == [1..StartTxn -> {e \in Entries : e.kind \in {"xid", "commit", "other"}}]

Committed(e) == e.kind \in {"xid", "commit"}

\* How often each row change must be in a target with the first n entries.
Expected(log, n) ==
    [x \in Ids |-> IF /\ x[1] <= n
                      /\ x[1] <= Len(log)
                      /\ Committed(log[x[1]])
                      /\ x[2] \in log[x[1]].mine
                   THEN 1 ELSE 0]
=============================================================================
