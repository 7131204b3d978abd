------------------------------ MODULE Delivery ------------------------------
(***************************************************************************)
(* What a communication manager promises of SendTask: a task reaches the   *)
(* task manager of the processor it was sent to, once, or not at all.  It  *)
(* promises no order.  Each of the transports implements this.             *)
(***************************************************************************)
EXTENDS Integers

CONSTANTS Proc, Task, DestOf

Everyone == -1    \* as a destination

VARIABLES
    sent,       \* tasks SendTask was called with
    arrived     \* of a processor: how often its task manager was given a task

Init == sent = {} /\ arrived = [p \in Proc |-> [t \in Task |-> 0]]

Send(t) == /\ t \notin sent
           /\ sent' = sent \cup {t}
           /\ UNCHANGED arrived

\* Several may arrive at once: what the processors exchange can hold many
Arrive(p) ==
    \E ts \in SUBSET {t \in sent : DestOf[t] \in {p, Everyone} /\ arrived[p][t] = 0} :
        /\ arrived' = [arrived EXCEPT ![p] = [t \in Task |-> IF t \in ts THEN 1 ELSE @[t]]]
        /\ UNCHANGED sent

Next == \/ \E t \in Task : Send(t)
        \/ \E p \in Proc : Arrive(p)

Spec == Init /\ [][Next]_<<sent, arrived>>
=============================================================================
