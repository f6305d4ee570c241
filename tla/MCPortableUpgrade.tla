-------------------------- MODULE MCPortableUpgrade --------------------------
(* Instance of PortableUpgrade for TLC: two of the program's files and two of  *)
(* the operator's directories stand for all of them.                           *)
EXTENDS PortableUpgrade

MCProgram == {"dbgold", "web"}
MCUser == {"config", "data"}
=============================================================================
