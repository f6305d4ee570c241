---------------------------- MODULE MCBootstrap ----------------------------
(* Instances of Bootstrap for TLC: table 1 has a foreign key to table 2. *)
EXTENDS Bootstrap

OneKey == {<<1, 2>>}
=============================================================================
