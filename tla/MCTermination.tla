--------------------------- MODULE MCTermination ---------------------------
(* Instances of Termination for TLC *)
EXTENDS Termination

CONSTANTS u, v

\* A task that crosses to processor 1 submits one for processor 2
Procs == {0, 1, 2}
Parents == [t \in User |-> IF t = u THEN Main ELSE u]
Places == [t \in User |-> IF t = u THEN 1 ELSE 2]
=============================================================================
