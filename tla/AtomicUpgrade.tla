---------------------------- MODULE AtomicUpgrade ----------------------------
(* What the portable edition promises its operator: the installation is       *)
(* always one whole program with its own data.  It is written only by the      *)
(* server that runs in it, and an upgrade replaces all of it in one step,      *)
(* while no server runs, or leaves it alone.                                   *)
EXTENDS Integers

CONSTANTS Program,   \* the program's files
          User       \* the operator's directories

VARIABLES inst,      \* the installation: the content of every name
          serving    \* a server runs in it

vars == <<inst, serving>>

OneVersion(i) == \A p, q \in Program : i[p] = i[q]

Init == OneVersion(inst) /\ serving = FALSE

OnlyUserData == \A p \in Program : inst'[p] = inst[p]

Start == ~serving /\ serving' = TRUE /\ OnlyUserData
Write == serving /\ UNCHANGED serving /\ OnlyUserData
Stop == serving /\ serving' = FALSE /\ UNCHANGED inst

Upgrade ==
    /\ ~serving /\ UNCHANGED serving
    /\ OneVersion(inst')
    /\ \A p \in Program : inst'[p] > inst[p]

Next == Start \/ Write \/ Stop \/ Upgrade

Spec == Init /\ [][Next]_vars
=============================================================================
