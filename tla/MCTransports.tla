---------------------------- MODULE MCTransports ----------------------------
(* Sockets: two processors send to the third; or one thread sends more messages
   than there are slots, and one to a processor that does not exist.  MPI: two
   processors send to the third.  Files: threads that send both ways, more tasks
   than there are numbers, and a task for everyone, between two processors and
   among three. *)
EXTENDS Transports, TLC
CONSTANTS c1, c2, c3, m1, m2, m3, m4, m5, x

MCProcessor == 0..2
MCHome == (c1 :> 0) @@ (c2 :> 1) @@ (c3 :> 2)
MCDestOf == (m1 :> 1) @@ (m2 :> 1) @@ (m3 :> 0) @@ (m4 :> 1) @@ (m5 :> 1) @@ (x :> -1)
MCSizeOf == [t \in Task |-> IF t = m2 THEN 2 ELSE 1]
Scripts(s, t, u) == (c1 :> s) @@ (c2 :> t) @@ (c3 :> u)
MCJobs == {
    [kind |-> "socket", size |-> 3, script |-> Scripts(<<m1, m2>>, <<>>, <<m4>>)],
    [kind |-> "socket", size |-> 2, script |-> Scripts(<<m1, m2, x, m5>>, <<>>, <<>>)],
    [kind |-> "mpi", size |-> 3, script |-> Scripts(<<m1, x, m2>>, <<>>, <<m4>>)],
    [kind |-> "file", size |-> 2, script |-> Scripts(<<m1, x, m2, m5>>, <<m3>>, <<>>)],
    [kind |-> "file", size |-> 3, script |-> Scripts(<<x, m1>>, <<>>, <<>>)]}
MCSocketJobs == {j \in MCJobs : j.kind = "socket"}
=============================================================================
