--------------------------- MODULE MCCdcRunner ---------------------------
(* Instances of CdcRunner for TLC. *)
EXTENDS CdcRunner
=============================================================================
