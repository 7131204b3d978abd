----------------------------- MODULE MCLauncher -----------------------------
(* Instances of Launcher for TLC *)
EXTENDS Launcher

CONSTANTS A, B

\* Ranks 0 and 1 share a host; another program has a port on it in between
Hosts == {A, B}
Places == [r \in Rank |-> IF r = 2 THEN B ELSE A]
Others1 == [h \in Hosts |-> IF h = A THEN {2} ELSE {}]
Numbers == [h \in Hosts |-> IF h = A THEN 1 ELSE 2]
=============================================================================
