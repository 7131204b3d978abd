--------------------------- MODULE MCTaskManager ---------------------------
(* Instances of TaskManager for TLC *)
EXTENDS TaskManager

CONSTANTS a, b, c, stop, confirm, shutdown, A, B

\* A task and a wait task that need both objects, in opposite orders; the first
\* submits one more, which needs both and may be refused, and may come after the
\* shutdown began
MCKind == [t \in Task |-> CASE t = stop -> "stop" [] t = confirm -> "confirm"
                            [] t = shutdown -> "shutdown" [] t = c -> "wait"
                            [] OTHER -> "user"]
MCParent == [t \in Task |-> CASE t = b -> a [] t = confirm -> stop
                              [] t = shutdown -> confirm [] OTHER -> Main]
MCNeeds == [t \in Task |-> CASE t = a -> <<A, B>> [] t = c -> <<B, A>>
                             [] t = b -> <<A, B>> [] OTHER -> <<>>]

\* Tasks and objects are numbered by counters of their own.  The child has the
\* number of the first object and the wait task that of the second, as when the
\* main thread submits the first task and the wait task and has made one more
\* object before these
MCSameId == {<<b, A>>, <<c, B>>}
=============================================================================
