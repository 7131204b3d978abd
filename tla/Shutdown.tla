------------------------------ MODULE Shutdown ------------------------------
(***************************************************************************)
(* What the shutdown of an environment promises, with no task or message   *)
(* in sight: in a first phase every processor stops sending tasks, in a    *)
(* second one the processors leave, in any order.                          *)
(***************************************************************************)
CONSTANT Proc

VARIABLES sending,   \* processors that may still send tasks
          running    \* processors that have not been told to leave

vars == <<sending, running>>

Init == sending = Proc /\ running = Proc

StopSending(p) == /\ p \in sending
                  /\ sending' = sending \ {p}
                  /\ UNCHANGED running

Leave(p) == /\ sending = {} /\ p \in running
            /\ running' = running \ {p}
            /\ UNCHANGED sending

Next == \E p \in Proc : StopSending(p) \/ Leave(p)

Spec == Init /\ [][Next]_vars
=============================================================================
