------------------------- MODULE MCMigrationRepair -------------------------
(* Instances of MigrationRepair for TLC. *)
EXTENDS MigrationRepair

CONSTANTS h1, h2, r1, r2
=============================================================================
