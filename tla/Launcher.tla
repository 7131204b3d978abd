------------------------------ MODULE Launcher ------------------------------
(***************************************************************************)
(* The life of a parallel program over sockets, from srun to its end: the  *)
(* launcher srun, the daemon spd of every host, and in every process the   *)
(* main thread (OOPSocket::Init_thread, the barriers, Finalize and the     *)
(* destructor), the receiver thread and the sender threads.                *)
(*                                                                         *)
(* A connection is known by the kind of its first message.  A process may  *)
(* be connected to by srun (its table), by the others (rank 0, BARRIER)    *)
(* and by its daemon (FINALIZE); they wait in the listening queue, whose   *)
(* first element matters once: Init_thread takes it for the table.  What a *)
(* process sends between the barriers is in module SocketComm.             *)
(*                                                                         *)
(* Definitions named Bug... are faults seeded into the definition that     *)
(* follows them, to see the properties fail; nothing uses them otherwise.  *)
(***************************************************************************)
EXTENDS SocketBarrier, Sequences

CONSTANTS
    Host,       \* machines, each with its spd
    HostOf,     \* of a rank, from the host file
    Ports,      \* size of an spd's table (1000 in the code)
    Busy,       \* ports of a host that programs of other launchers hold
    NextPort,   \* numberProcess of the host's spd when srun starts
    SendNumThreads    \* values of SEND_NUM_THREADS (10 in the code)

Port == 0..(Ports - 1)
Nobody == -1      \* of no rank, no port
ASSUME ThreadsAssumption == SendNumThreads \subseteq Nat \ {0}
ASSUME HostAssumption == HostOf \in [Rank -> Host]
ASSUME PortAssumption ==
    /\ Ports \in Nat \ {0} /\ Busy \in [Host -> SUBSET Port] /\ NextPort \in [Host -> Port]
    /\ \A h \in Host : Cardinality({r \in Rank : HostOf[r] = h}) + Cardinality(Busy[h]) <= Ports

VARIABLES
    \* srun
    srun,        \* the phase it is in
    turn,        \* the rank it serves in phases 1 and 2
    pTable,      \* the port of every rank
    totalNp,     \* FINALIZE messages it has counted
    finalized,   \* connections of daemons that it has not accepted
    \* spd of a host
    spd,         \* what it is doing
    spdPort,     \* the port it is doing it for
    spdQueue,    \* its listening queue
    listProcess, \* the rank that has a port, Busy, or Nobody
    numberProcess,
    \* a process
    main,        \* where its main thread is
    sPort,       \* its port
    table,       \* its copy of pTable
    first,       \* kind of the first connection to it
    finalize,    \* the daemon's FINALIZE waits in its queue
    receiver,    \* its receiver thread
    threadRunning,
    mutex,       \* the sender thread that holds OOPSocket's mutex, or Nobody
    sender,      \* its sender threads
    joined       \* how many of them the destructor has joined

launchVars == <<srun, turn, pTable, totalNp, finalized>>
daemonVars == <<spd, spdPort, spdQueue, listProcess, numberProcess>>
senderVars == <<mutex, sender, joined>>
OtherThreads == <<finalize, receiver, threadRunning, senderVars>>
processVars == <<main, sPort, table, first, OtherThreads>>
vars == <<launchVars, daemonVars, processVars, barrierVars>>

TypeOK ==
    /\ BarrierTypeOK
    /\ srun \in {"startup", "await port", "notify", "wait", "done"} /\ turn \in 0..Size
    /\ pTable \in [Rank -> Port \cup {Nobody}] /\ totalNp \in 0..Size /\ finalized \subseteq Rank
    /\ spd \in [Host -> {"accept", "await getport", "reap", "failed"}]
    /\ spdPort \in [Host -> Port \cup {Nobody}]
    /\ spdQueue \in [Host -> Seq([kind : {"STARTUP", "GETPORT", "FINALIZE"}, rank : Rank])]
    /\ \A h \in Host, p \in Port : listProcess[h][p] \in Rank \cup {Nobody, Size}
    /\ numberProcess \in [Host -> Port]
    /\ main \in [Rank -> {"absent", "born", "await port", "unbound", "listening", "running",
                          "joining", "destroying", "joining sender", "gone", "failed"}]
    /\ sPort \in [Rank -> Port \cup {Nobody}]
    /\ table \in [Rank -> [Rank -> Port \cup {Nobody}]]
    /\ first \in [Rank -> {"none", "table", "other"}] /\ finalize \in [Rank -> BOOLEAN]
    /\ receiver \in [Rank -> {"none", "accept", "ended"}]
    /\ threadRunning \in [Rank -> BOOLEAN]
    /\ \A r \in Rank : \E n \in SendNumThreads :
         /\ sender[r] \in [0..(n - 1) -> {"loop", "test", "asleep", "ended"}]
         /\ mutex[r] \in DOMAIN sender[r] \cup {Nobody} /\ joined[r] \in 0..n

\* srun has read the number of processes and the host file, and listens
SrunInit == /\ srun = "startup" /\ turn = 0 /\ pTable = [r \in Rank |-> Nobody]
            /\ totalNp = 0 /\ finalized = {}

\* A daemon listens; its table may hold the ports of programs of other launchers
SpdInit ==
    /\ spd = [h \in Host |-> "accept"] /\ spdPort = [h \in Host |-> Nobody]
    /\ spdQueue = [h \in Host |-> <<>>]
    /\ listProcess = [h \in Host |-> [p \in Port |-> IF p \in Busy[h] THEN Size ELSE Nobody]]
    /\ numberProcess = NextPort

ProcessInit ==
    /\ main = [r \in Rank |-> "absent"] /\ sPort = [r \in Rank |-> Nobody]
    /\ table = [r \in Rank |-> [q \in Rank |-> Nobody]]
    /\ first = [r \in Rank |-> "none"] /\ finalize = [r \in Rank |-> FALSE]
    /\ receiver = [r \in Rank |-> "none"] /\ threadRunning = [r \in Rank |-> TRUE]
    /\ mutex = [r \in Rank |-> Nobody] /\ joined = [r \in Rank |-> 0]
    /\ \E n \in SendNumThreads : sender = [r \in Rank |-> [k \in 0..(n - 1) |-> "loop"]]

Init == BarrierInit /\ SrunInit /\ SpdInit /\ ProcessInit

\* The process of host h that listens on port p
Listening(r) == main[r] \in {"listening", "running", "joining"}
At(h, p) == {r \in Rank : HostOf[r] = h /\ sPort[r] = p /\ Listening(r)}
Call(r, kind) == first' = [first EXCEPT ![r] = IF @ = "none" THEN kind ELSE @]

-----------------------------------------------------------------------------
(* srun                                                                    *)

\* Phase 1: STARTUP to the daemon of the next rank's host
Startup ==
    /\ srun = "startup" /\ turn < Size
    /\ srun' = "await port"
    /\ spdQueue' = [spdQueue EXCEPT ![HostOf[turn]] = Append(@, [kind |-> "STARTUP", rank |-> turn])]
    /\ UNCHANGED <<turn, pTable, totalNp, finalized, spd, spdPort, listProcess, numberProcess,
                   processVars, barrierVars>>

EndStartup ==
    /\ srun = "startup" /\ turn = Size
    /\ srun' = "notify" /\ turn' = 0
    /\ UNCHANGED <<pTable, totalNp, finalized, daemonVars, processVars, barrierVars>>

BugLastRankFirst ==
    LET rank == Size - 1 - turn IN
    /\ srun = "notify" /\ turn < Size
    /\ \E r \in At(HostOf[rank], pTable[rank]) :
         /\ main[r] = "listening"
         /\ Call(r, "table")
         /\ table' = [table EXCEPT ![r] = pTable]
    /\ turn' = turn + 1
    /\ UNCHANGED <<srun, pTable, totalNp, finalized, daemonVars, main, sPort, OtherThreads, barrierVars>>

\* Phase 2: the table to the processes in the order of their ranks; connect is
\* tried until the process listens
Notify ==
    LET rank == turn IN
    /\ srun = "notify" /\ turn < Size
    /\ \E r \in At(HostOf[rank], pTable[rank]) :
         /\ main[r] = "listening"
         /\ Call(r, "table")
         /\ table' = [table EXCEPT ![r] = pTable]
    /\ turn' = turn + 1
    /\ UNCHANGED <<srun, pTable, totalNp, finalized, daemonVars, main, sPort, OtherThreads, barrierVars>>

EndNotify ==
    /\ srun = "notify" /\ turn = Size
    /\ srun' = "wait"
    /\ UNCHANGED <<turn, pTable, totalNp, finalized, daemonVars, processVars, barrierVars>>

BugCountFinalize ==
    /\ srun = "wait"
    /\ \E r \in finalized :
         /\ finalized' = finalized \ {r}
         /\ totalNp' = totalNp + 1
         /\ srun' = IF totalNp = Size THEN "done" ELSE srun
    /\ UNCHANGED <<turn, pTable, daemonVars, processVars, barrierVars>>

\* Phase 3: count the FINALIZE messages
CountFinalize ==
    /\ srun = "wait"
    /\ \E r \in finalized :
         /\ finalized' = finalized \ {r}
         /\ totalNp' = totalNp + 1
         /\ srun' = IF totalNp + 1 = Size THEN "done" ELSE srun
    /\ UNCHANGED <<turn, pTable, daemonVars, processVars, barrierVars>>

-----------------------------------------------------------------------------
(* spd                                                                     *)

Accept(h, state, kind) == /\ spd[h] = state /\ spdQueue[h] # <<>>
                          /\ Head(spdQueue[h]).kind = kind
                          /\ spdQueue' = [spdQueue EXCEPT ![h] = Tail(@)]

\* setPort looks for a free port from numberProcess on, once round the table
Free(h) == {p \in Port : listProcess[h][p] = Nobody}
Distance(h, p) == (p - numberProcess[h] + Ports) % Ports
SetPort(h) == {p \in Free(h) : \A q \in Free(h) : Distance(h, p) <= Distance(h, q)}

BugFollowing(n) == n + 1
Following(n) == (n + 1) % Ports

\* The child runs the program with the arguments srun named
Fork(r) == main' = [main EXCEPT ![r] = "born"]

AcceptStartup(h) ==
    /\ Accept(h, "accept", "STARTUP")
    /\ LET r == Head(spdQueue[h]).rank IN
       \E p \in SetPort(h) :
         /\ listProcess' = [listProcess EXCEPT ![h][p] = r]
         /\ spdPort' = [spdPort EXCEPT ![h] = p]
         /\ Fork(r)
    /\ numberProcess' = [numberProcess EXCEPT ![h] = Following(@)]
    /\ spd' = [spd EXCEPT ![h] = "await getport"]
    /\ UNCHANGED <<launchVars, sPort, table, first, OtherThreads, barrierVars>>

\* The process that asks is taken for the one just started; srun is told too.
\* Anything but GETPORT makes the daemon exit.
AwaitGetPort(h) ==
    /\ spd[h] = "await getport" /\ spdQueue[h] # <<>>
    /\ spdQueue' = [spdQueue EXCEPT ![h] = Tail(@)]
    /\ IF Head(spdQueue[h]).kind = "GETPORT"
       THEN LET r == Head(spdQueue[h]).rank IN
            /\ sPort' = [sPort EXCEPT ![r] = spdPort[h]]
            /\ main' = [main EXCEPT ![r] = "unbound"]
            /\ pTable' = [pTable EXCEPT ![turn] = spdPort[h]]
            /\ srun' = "startup" /\ turn' = turn + 1
            /\ spd' = [spd EXCEPT ![h] = "accept"]
       ELSE /\ spd' = [spd EXCEPT ![h] = "failed"]
            /\ UNCHANGED <<sPort, main, pTable, srun, turn>>
    /\ UNCHANGED <<totalNp, finalized, spdPort, listProcess, numberProcess, table, first, OtherThreads, barrierVars>>

\* The process says its port; a daemon that cannot connect to it exits
AcceptFinalize(h) ==
    /\ Accept(h, "accept", "FINALIZE")
    /\ LET p == sPort[Head(spdQueue[h]).rank] IN
       IF At(h, p) # {}
       THEN \E r \in At(h, p) : /\ Call(r, "other")
                                /\ finalize' = [finalize EXCEPT ![r] = TRUE]
                                /\ spd' = [spd EXCEPT ![h] = "reap"]
                                /\ spdPort' = [spdPort EXCEPT ![h] = p]
       ELSE spd' = [spd EXCEPT ![h] = "failed"] /\ UNCHANGED <<first, finalize, spdPort>>
    /\ UNCHANGED <<launchVars, listProcess, numberProcess, main, sPort, table, receiver,
                   threadRunning, senderVars, barrierVars>>

FreePort(h, p) == listProcess' = [listProcess EXCEPT ![h][p] = Nobody]

\* waitpid, freePort, and FINALIZE to srun
Reap(h) ==
    LET r == listProcess[h][spdPort[h]] IN
    /\ spd[h] = "reap"
    /\ main[r] = "gone"
    /\ FreePort(h, spdPort[h])
    /\ finalized' = finalized \cup {r}
    /\ spd' = [spd EXCEPT ![h] = "accept"]
    /\ UNCHANGED <<srun, turn, pTable, totalNp, spdPort, spdQueue, numberProcess, processVars,
                   barrierVars>>

-----------------------------------------------------------------------------
(* The main thread of a process                                            *)

GoTo(r, here, there) == main[r] = here /\ main' = [main EXCEPT ![r] = there]

\* Init_thread: GETPORT
AskPort(r) ==
    /\ GoTo(r, "born", "await port")
    /\ spdQueue' = [spdQueue EXCEPT ![HostOf[r]] = Append(@, [kind |-> "GETPORT", rank |-> r])]
    /\ UNCHANGED <<launchVars, spd, spdPort, listProcess, numberProcess, sPort, table, first,
                   OtherThreads, barrierVars>>

\* bind and listen, unless the port is another's
IsFree(h, p) == At(h, p) = {} /\ p \notin Busy[h]
Bind(r) ==
    /\ GoTo(r, "unbound", IF IsFree(HostOf[r], sPort[r]) THEN "listening" ELSE "failed")
    /\ UNCHANGED <<launchVars, daemonVars, sPort, table, first, OtherThreads, barrierVars>>

\* The first connection is read as the table; then the receiver is created
AcceptTable(r) ==
    /\ first[r] # "none"
    /\ GoTo(r, "listening", IF first[r] = "table" THEN "running" ELSE "failed")
    /\ receiver' = [receiver EXCEPT ![r] = "accept"]
    /\ UNCHANGED <<launchVars, daemonVars, sPort, table, first, finalize, threadRunning,
                   senderVars, barrierVars>>

BarrierStep(r) ==
    /\ main[r] = "running"
    /\ IF r = 0 THEN Collect \/ RootStep ELSE Leave(r)
    /\ UNCHANGED <<launchVars, daemonVars, processVars>>

\* A process other than rank 0 finds it by the table; a refused connection
\* makes the process exit
EnterBarrier(r) ==
    /\ main[r] = "running"
    /\ IF 0 \in At(HostOf[0], table[r][0])
       THEN Connect(r) /\ Call(0, "other") /\ UNCHANGED main
       ELSE /\ r \in Others /\ MayEnter(r) /\ main' = [main EXCEPT ![r] = "failed"]
            /\ UNCHANGED <<first, barrierVars>>
    /\ UNCHANGED <<launchVars, daemonVars, sPort, table, OtherThreads>>

BugFinalizeBeforeBarrier(r) ==
    /\ entered[r] >= Rounds - 1 /\ inside[r] = "out"
    /\ GoTo(r, "running", "joining")
    /\ spdQueue' = [spdQueue EXCEPT ![HostOf[r]] = Append(@, [kind |-> "FINALIZE", rank |-> r])]
    /\ UNCHANGED <<launchVars, spd, spdPort, listProcess, numberProcess, sPort, table, first,
                   OtherThreads, barrierVars>>

\* Finalize: FINALIZE to the daemon, then the receiver thread is joined
SayFinalize(r) ==
    /\ entered[r] = Rounds /\ inside[r] = "out"
    /\ GoTo(r, "running", "joining")
    /\ spdQueue' = [spdQueue EXCEPT ![HostOf[r]] = Append(@, [kind |-> "FINALIZE", rank |-> r])]
    /\ UNCHANGED <<launchVars, spd, spdPort, listProcess, numberProcess, sPort, table, first,
                   OtherThreads, barrierVars>>

JoinReceiver(r) ==
    /\ receiver[r] = "ended"
    /\ GoTo(r, "joining", "destroying")
    /\ UNCHANGED <<launchVars, daemonVars, sPort, table, first, OtherThreads, barrierVars>>

\* ~OOPSocket joins the senders in turn.  It signals one under the sender's own
\* mutex: the thread wakes, or had tested threadRunning before and sleeps yet.
SignalSender(r) ==
    LET k == joined[r] IN
    /\ k \in DOMAIN sender[r]
    /\ GoTo(r, "destroying", "joining sender")
    /\ \E s \in {"test", "asleep"} :
         sender' = [sender EXCEPT ![r][k] = IF @ = "loop" THEN s ELSE @]
    /\ UNCHANGED <<launchVars, daemonVars, sPort, table, first, finalize, receiver, threadRunning,
                   mutex, joined, barrierVars>>

JoinSender(r) ==
    /\ joined[r] \in DOMAIN sender[r] /\ sender[r][joined[r]] = "ended"
    /\ GoTo(r, "joining sender", "destroying")
    /\ joined' = [joined EXCEPT ![r] = @ + 1]
    /\ UNCHANGED <<launchVars, daemonVars, sPort, table, first, finalize, receiver, threadRunning,
                   mutex, sender, barrierVars>>

Exit(r) ==
    /\ joined[r] \notin DOMAIN sender[r]
    /\ GoTo(r, "destroying", "gone")
    /\ UNCHANGED <<launchVars, daemonVars, sPort, table, first, OtherThreads, barrierVars>>

-----------------------------------------------------------------------------
(* Its receiver and sender threads                                         *)

\* Only rank 0 is sent BARRIER connections
ReceiveBarrier ==
    /\ receiver[0] = "accept" /\ threadRunning[0]
    /\ \E r \in Others : AcceptBarrier(r)
    /\ UNCHANGED <<launchVars, daemonVars, processVars>>

ReceiveFinalize(r) ==
    /\ receiver[r] = "accept" /\ finalize[r]
    /\ finalize' = [finalize EXCEPT ![r] = FALSE]
    /\ threadRunning' = [threadRunning EXCEPT ![r] = FALSE]
    /\ receiver' = [receiver EXCEPT ![r] = "ended"]
    /\ UNCHANGED <<launchVars, daemonVars, main, sPort, table, first, senderVars, barrierVars>>

\* A sender tests threadRunning under OOPSocket's mutex, gives it back, sends
\* what its slot holds or sleeps, under another mutex, and takes the first again.
\* Where it is in that loop matters once the flag has fallen: the test that finds
\* it so ends the thread with the mutex in its hands.
End(r, k) ==
    /\ ~ threadRunning[r] /\ mutex[r] = Nobody
    /\ sender' = [sender EXCEPT ![r][k] = "ended"]
    /\ mutex' = [mutex EXCEPT ![r] = k]
    /\ UNCHANGED <<launchVars, daemonVars, main, sPort, table, first, finalize, receiver,
                   threadRunning, joined, barrierVars>>

\* A thread that need not be signalled: the flag fell in front of its test
SenderComesRound(r, k) == sender[r][k] = "loop" /\ End(r, k)
SenderTest(r, k) == sender[r][k] = "test" /\ End(r, k)

-----------------------------------------------------------------------------
Srun == Startup \/ EndStartup \/ Notify \/ EndNotify \/ CountFinalize
Spd(h) == AcceptStartup(h) \/ AwaitGetPort(h) \/ AcceptFinalize(h) \/ Reap(h)
Process(r) == \/ AskPort(r) \/ Bind(r) \/ AcceptTable(r)
              \/ EnterBarrier(r) \/ BarrierStep(r)
              \/ SayFinalize(r) \/ JoinReceiver(r)
              \/ SignalSender(r) \/ JoinSender(r) \/ Exit(r)
Receiver(r) == ReceiveFinalize(r) \/ (r = 0 /\ ReceiveBarrier)
Sender(r) == \E k \in DOMAIN sender[r] : SenderTest(r, k)

Next == \/ Srun
        \/ \E h \in Host : Spd(h)
        \/ \E r \in Rank : Process(r) \/ Receiver(r) \/ Sender(r)
        \/ \E r \in Rank : \E k \in DOMAIN sender[r] : SenderComesRound(r, k)

\* Every process and every thread runs on
Fairness == /\ WF_vars(Srun)
            /\ \A h \in Host : WF_vars(Spd(h))
            /\ \A r \in Rank : WF_vars(Process(r)) /\ WF_vars(Receiver(r)) /\ WF_vars(Sender(r))

Spec == Init /\ [][Next]_vars /\ Fairness

-----------------------------------------------------------------------------
(* Properties                                                              *)

\* Nobody exits in error: a daemon is never called by another than the process
\* it waits for, no port is given twice, rank 0 listens and has its table
\* before any other process connects to it, and no process is gone when its
\* daemon calls it.
NobodyFails == /\ \A h \in Host : spd[h] # "failed"
               /\ \A r \in Rank : main[r] # "failed"

\* Once Init_thread is through its barrier, a process knows every other by an
\* address where that very process listens, and it does until both have called
\* the last barrier.
RoutesAreRight ==
    \A r, q \in Rank : left[r] >= 1 /\ entered[r] < Rounds =>
                         At(HostOf[q], table[r][q]) = {q}

\* A receiver thread only ends when all have passed the last barrier but for
\* collecting their answers: no connection is left unanswered behind it.
NothingLeftBehind ==
    \A r \in Rank : receiver[r] = "ended" =>
        /\ \A q \in Rank : entered[q] = Rounds
        /\ r = 0 => connected = {} /\ arrived = {}

\* A daemon that waits for a process holds up the other processes of its host,
\* and the job still ends, unless the destructor waits for a sender thread for
\* good: one that tested threadRunning before it fell and went to sleep after the
\* signal, or any but the first to end, which kept the mutex.
Overslept(r) == main[r] = "joining sender" /\ sender[r][joined[r]] = "asleep"
ShutOut(r) == /\ main[r] = "joining sender" /\ sender[r][joined[r]] = "test"
              /\ mutex[r] # Nobody
JobEnds == <>(srun = "done" \/ \E r \in Rank : Overslept(r) \/ ShutOut(r))

\* What srun.c says of totalNp: when it is equal to the number of processes,
\* srun ends.  Every process does send its FINALIZE.
SrunEnds == <>(srun = "done")
=============================================================================
