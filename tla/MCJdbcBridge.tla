---------------------------- MODULE MCJdbcBridge ----------------------------
(* Instances of JdbcBridge for TLC. *)
EXTENDS JdbcBridge, TLC

CONSTANTS w1, w2, c1, c2

\* Two workers share the first writer; the second writer only opens and closes.
TwoWorkers == c1 :> w1 @@ c2 :> w1

\* One worker for each writer.
OneWorkerEach == c1 :> w1 @@ c2 :> w2

\* A single worker.
OneWorker == c1 :> w1
=============================================================================
