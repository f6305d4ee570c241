----------------------- MODULE MCIncrementalLifecycle -----------------------
(* Instances of IncrementalLifecycle for TLC. *)
EXTENDS IncrementalLifecycle, TLC

\* Thread slots are interchangeable.
SlotSymmetry == Permutations(Threads)
=============================================================================
