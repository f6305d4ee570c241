-------------------------- MODULE MCDataMigration --------------------------
(* Three tables in a chain of foreign keys, one of full pages and one with  *)
(* a short one, and a view that reads another view.                         *)
EXTENDS DataMigration

MCTables == 1 .. 3
MCSize == [t \in MCTables |-> IF t = 1 THEN 3 ELSE IF t = 2 THEN 2 ELSE 0]
MCRefs == {<<2, 1>>, <<3, 2>>}
MCViews == 4 .. 5
MCDeps == [v \in MCViews |-> IF v = 4 THEN {1, 5} ELSE {2}]
=============================================================================
