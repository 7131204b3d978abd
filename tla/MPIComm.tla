------------------------------ MODULE MPIComm ------------------------------
(***************************************************************************)
(* OOPMPICommManager as it is compiled without MTSEND and with BLOCKING:   *)
(* SendTask packs the task and calls MPI_Send; a receive thread, started   *)
(* by ReceiveMessagesBlocking, probes for any message, makes a buffer of   *)
(* its size and receives, again from anyone.  At the end a processor sends *)
(* itself a message with class id -1 to get that thread out of the probe.  *)
(*                                                                         *)
(* MPI, as the code uses it: messages of one processor to another keep     *)
(* their order; MPI_Send returns at once when the library buffers the      *)
(* message, else when it is received; a message longer than the buffer     *)
(* aborts the job.  The four bytes of the last message are buffered.       *)
(***************************************************************************)
EXTENDS Transport

CONSTANT SizeOf    \* of a task: the length of its message

Stop == "stop"     \* the message with class id -1, shorter than a task
None == "none"

ASSUME MPIAssumption == SizeOf \in [Task -> Nat \ {0}] /\ Task \cap {Stop, None} = {}

VARIABLES
    calling,        \* of a caller: where it is in SendTask
    net,            \* messages on their way: net[to][from]
    fKeepReceiving,
    receiving,      \* the receive thread
    probed,         \* the message whose size it asked for
    m_RecvBuffer,   \* the message it received
    main,           \* the thread that waits for the end
    aborted         \* MPI ended the job

sendVars == <<calling, net>>
receiveVars == <<receiving, probed, m_RecvBuffer>>
endVars == <<fKeepReceiving, main, aborted>>
mpiVars == <<sendVars, receiveVars, endVars>>

Message == Task \cup {Stop}
Size(m) == IF m = Stop THEN 0 ELSE SizeOf[m]

MPITypeOK ==
    /\ calling \in [Caller -> {"out", "write", "wait"}]
    /\ \A p, q \in Proc : Elements(net[p][q]) \subseteq Message
    /\ fKeepReceiving \in [Proc -> BOOLEAN]
    /\ receiving \in [Proc -> {"loop", "probe", "receive", "process", "finish", "ended"}]
    /\ {probed, m_RecvBuffer} \subseteq [Proc -> Message \cup {None}]
    /\ main \in [Proc -> {"service", "barrier", "unlock", "stop", "join", "finish", "finalized"}]
    /\ aborted \in BOOLEAN

MPIInit ==
    /\ calling = [c \in Caller |-> "out"]
    /\ net = [p \in Proc |-> [q \in Proc |-> <<>>]]
    /\ fKeepReceiving = [p \in Proc |-> TRUE]
    /\ receiving = [p \in Proc |-> "loop"]
    /\ probed = [p \in Proc |-> None]
    /\ m_RecvBuffer = [p \in Proc |-> None]
    /\ main = [p \in Proc |-> "service"]
    /\ aborted = FALSE

-----------------------------------------------------------------------------
(* SendTask                                                                *)

\* Nothing is sent to a processor that does not exist
MPISendTask(c) ==
    /\ ~ aborted /\ todo[c] # <<>> /\ calling[c] = "out"
    /\ todo' = [todo EXCEPT ![c] = Tail(@)]
    /\ IF DestOf[Head(todo[c])] \in Proc
       THEN calling' = [calling EXCEPT ![c] = "write"]
       ELSE UNCHANGED calling
    /\ UNCHANGED <<submitted, net, receiveVars, endVars>>

BugSendThread(c) ==
    /\ ~ aborted /\ calling[c] = "write"
    /\ \E s \in {"wait", "out"} : calling' = [calling EXCEPT ![c] = s]
    /\ net' = [net EXCEPT ![DestOf[Current(c)]][Home[c]] = <<Current(c)>> \o @]
    /\ UNCHANGED <<todo, submitted, receiveVars, endVars>>

\* Write, and MPI_Send: the library buffers the message or not
MPISend(c) ==
    /\ ~ aborted /\ calling[c] = "write"
    /\ \E s \in {"wait", "out"} : calling' = [calling EXCEPT ![c] = s]
    /\ net' = [net EXCEPT ![DestOf[Current(c)]][Home[c]] = Append(@, Current(c))]
    /\ UNCHANGED <<todo, submitted, receiveVars, endVars>>

-----------------------------------------------------------------------------
(* The receive thread                                                      *)

ReceiverTo(p, here, there) ==
    /\ ~ aborted /\ receiving[p] = here
    /\ receiving' = [receiving EXCEPT ![p] = there]

ReceiveMsgBlocking(p) ==
    /\ ReceiverTo(p, "loop", IF fKeepReceiving[p] THEN "probe" ELSE "ended")
    /\ UNCHANGED <<todo, submitted, sendVars, probed, m_RecvBuffer, endVars>>

Heads(p) == {q \in Proc : net[p][q] # <<>>}

BugCountKept(p) ==
    /\ ReceiverTo(p, "probe", "receive")
    /\ \E q \in Heads(p) :
         probed' = [probed EXCEPT ![p] = IF @ = None THEN Head(net[p][q]) ELSE @]
    /\ UNCHANGED <<todo, submitted, sendVars, m_RecvBuffer, endVars>>

\* Probe and Get_count: any message that has come, and its size
MPIProbe(p) ==
    /\ ReceiverTo(p, "probe", "receive")
    /\ \E q \in Heads(p) : probed' = [probed EXCEPT ![p] = Head(net[p][q])]
    /\ UNCHANGED <<todo, submitted, sendVars, m_RecvBuffer, endVars>>

\* Recv: any message that has come, perhaps a longer one
MPIRecv(p) ==
    /\ receiving[p] = "receive" /\ ~ aborted
    /\ \E q \in Heads(p) :
         LET m == Head(net[p][q]) IN
         IF Size(m) > Size(probed[p])
         THEN /\ aborted' = TRUE
              /\ UNCHANGED <<sendVars, receiving, m_RecvBuffer>>
         ELSE /\ net' = [net EXCEPT ![p][q] = Tail(@)]
              /\ m_RecvBuffer' = [m_RecvBuffer EXCEPT ![p] = m]
              /\ calling' = [c \in Caller |->
                   IF calling[c] = "wait" /\ Current(c) = m THEN "out" ELSE calling[c]]
              /\ receiving' = [receiving EXCEPT ![p] = "process"]
              /\ UNCHANGED aborted
    /\ UNCHANGED <<todo, submitted, probed, fKeepReceiving, main>>

BugStopSubmitted(p) ==
    LET m == m_RecvBuffer[p] IN
    /\ ReceiverTo(p, "process", "loop")
    /\ submitted' = [submitted EXCEPT ![p] = Append(@, m)]
    /\ m_RecvBuffer' = [m_RecvBuffer EXCEPT ![p] = None]
    /\ UNCHANGED <<todo, sendVars, probed, endVars>>

\* Restore and Submit; no object is restored from class id -1
ProcessMessage(p) ==
    LET m == m_RecvBuffer[p] IN
    /\ ReceiverTo(p, "process", IF m = Stop /\ fKeepReceiving[p] THEN "finish" ELSE "loop")
    /\ submitted' = [submitted EXCEPT ![p] = IF m = Stop THEN @ ELSE Append(@, m)]
    /\ m_RecvBuffer' = [m_RecvBuffer EXCEPT ![p] = None]
    /\ UNCHANGED <<todo, sendVars, probed, endVars>>

-----------------------------------------------------------------------------
(* The end: OOPTaskManager::Wait and the destructor                        *)

MainTo(p, here, there) ==
    /\ ~ aborted /\ main[p] = here
    /\ main' = [main EXCEPT ![p] = there]

\* The service thread ends when all of its sends have returned
JoinService(p) ==
    /\ MainTo(p, "service", "barrier")
    /\ \A c \in Caller : Home[c] = p => todo[c] = <<>> /\ calling[c] = "out"
    /\ UNCHANGED <<todo, submitted, sendVars, receiveVars, fKeepReceiving, aborted>>

LeaveBarrier(p) ==
    /\ MainTo(p, "barrier", "unlock")
    /\ \A q \in Proc : main[q] # "service"
    /\ UNCHANGED <<todo, submitted, sendVars, receiveVars, fKeepReceiving, aborted>>

BugFlagForgotten(p) ==
    /\ MainTo(p, "unlock", "stop")
    /\ UNCHANGED <<todo, submitted, sendVars, receiveVars, fKeepReceiving, aborted>>

\* UnlockReceiveBlocking: the flag, then the message to itself, then the join
UnlockReceiveBlocking(p) ==
    /\ MainTo(p, "unlock", "stop")
    /\ fKeepReceiving' = [fKeepReceiving EXCEPT ![p] = FALSE]
    /\ UNCHANGED <<todo, submitted, sendVars, receiveVars, aborted>>

SendStop(p) ==
    /\ MainTo(p, "stop", "join")
    /\ net' = [net EXCEPT ![p][p] = Append(@, Stop)]
    /\ UNCHANGED <<todo, submitted, calling, receiveVars, fKeepReceiving, aborted>>

JoinReceiver(p) ==
    /\ MainTo(p, "join", "finish")
    /\ receiving[p] = "ended"
    /\ UNCHANGED <<todo, submitted, sendVars, receiveVars, fKeepReceiving, aborted>>

Finish(p) ==
    /\ MainTo(p, "finish", "finalized")
    /\ \A q \in Proc : main[q] \in {"finish", "finalized"}
    /\ UNCHANGED <<todo, submitted, sendVars, receiveVars, fKeepReceiving, aborted>>

-----------------------------------------------------------------------------
MPICaller(c) == MPISendTask(c) \/ MPISend(c)
MPIReceiver(p) == ReceiveMsgBlocking(p) \/ MPIProbe(p) \/ MPIRecv(p) \/ ProcessMessage(p)
MPIMain(p) == \/ JoinService(p) \/ LeaveBarrier(p) \/ UnlockReceiveBlocking(p)
              \/ SendStop(p) \/ JoinReceiver(p) \/ Finish(p)

MPINext == \/ \E c \in Caller : MPICaller(c)
           \/ \E p \in Proc : MPIReceiver(p) \/ MPIMain(p)

-----------------------------------------------------------------------------
(* Properties                                                              *)

\* The buffer is too short only when messages of two processors wait for the
\* same receiver, the processor's own last message among them.
TruncationNeedsTwoSenders ==
    aborted => \E p \in Proc : receiving[p] = "receive" /\ Cardinality(Heads(p)) >= 2

\* The message that ends the receive thread is never taken for a broken one,
\* for which the thread itself would wait at the last barrier.
StopIsUnderstood == \A p \in Proc : receiving[p] # "finish"
=============================================================================
