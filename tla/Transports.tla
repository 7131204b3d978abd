----------------------------- MODULE Transports -----------------------------
(***************************************************************************)
(* The three communication managers side by side, under the same callers.  *)
(* A job uses one of them, its "kind"; each implements Delivery.           *)
(***************************************************************************)
EXTENDS SocketComm, MPIComm, FileComm

vars == <<job, todo, submitted, socketVars, mpiVars, fileVars>>

TypeOK == /\ job \in Jobs
          /\ \A p \in Proc : Elements(submitted[p]) \subseteq Task
          /\ SocketTypeOK /\ MPITypeOK /\ FileTypeOK

Init == TransportInit /\ SocketInit /\ MPIInit /\ FileInit

Only(k) == /\ kind = k /\ UNCHANGED job
           /\ k # "socket" => UNCHANGED socketVars
           /\ k # "mpi" => UNCHANGED mpiVars
           /\ k # "file" => UNCHANGED fileVars

CallerStep(c) == \/ Only("socket") /\ SocketCaller(c)
                 \/ Only("mpi") /\ MPICaller(c)
                 \/ Only("file") /\ FileSendTask(c)

ProcessorStep(p) == \/ Only("socket") /\ (SocketReceiver(p) \/ SocketManager(p))
                    \/ Only("mpi") /\ (MPIReceiver(p) \/ MPIMain(p))
                    \/ Only("file") /\ (FileSending(p) \/ FileReceiving(p))

SenderStep(p, k) == Only("socket") /\ SocketSender(p, k)

Next == \/ \E c \in Caller : CallerStep(c)
        \/ \E p \in Proc : ProcessorStep(p)
        \/ \E p \in Proc, k \in Slot : SenderStep(p, k)

\* Some thread that can go on does.  Nothing loops in the first two transports,
\* so all of their threads come as far as they can.
Spec == Init /\ [][Next]_vars /\ WF_vars(Next)

-----------------------------------------------------------------------------
(* Properties                                                              *)

D == INSTANCE Delivery WITH Proc <- Processor, sent <- Sent, arrived <- Arrived

\* Whatever the threads of the three transports do, a task arrives at the
\* processor it was sent to, or at none, and never twice; with files, as long as
\* no processor has taken a number that was not free: then two of its buffers may
\* have one file.
DeliverySpec == D!Init /\ [][(kind = "file" /\ overrun') \/ D!Next]_<<Sent, Arrived>>

\* Unlike the sockets, the other two do keep the order; files under the same
\* condition.
MPIAndFilesKeepOrder == kind # "socket" => overrun \/ InSequence

\* Where a task should arrive; only through files can it be sent to everyone
MeantFor(t) == IF kind = "file" THEN Goals(t, Home[From(t)]) ELSE {DestOf[t]} \cap Proc

\* A task has arrived, or what keeps it back
Settled(t) ==
    \/ \A p \in MeantFor(t) : t \in Elements(submitted[p])
    \/ kind = "socket" /\ (Overwritten(t) \/ \E p \in Proc : SleepsOnAMessage(p))
    \/ kind = "mpi" /\ (aborted \/ \E p \in MeantFor(t) : receiving[p] = "ended")

\* In the end every task that was sent has arrived, unless it had nowhere to
\* go, was put over another in a slot, waits behind a manager that missed its
\* wake-up, or came after the end of the receive thread; nothing else holds a
\* task back.
EverythingSettles == kind # "file" => <>[](\A t \in Sent : Settled(t))

\* A task that went into a file and has not arrived is still in a file: one
\* that is being filled for the destination, or one that was ended and nobody
\* has read; no number is taken again before its file was read, until the
\* numbers of a processor are used up or it takes that of its list.
TasksAreOnDisk ==
    kind = "file" => overrun \/
        \A t \in Sent : \A q \in MeantFor(t) :
            LET p == Home[From(t)] IN
            \/ t \in Elements(submitted[q])
            \/ t \in Elements(files[p][f_buffer[p][q]].tasks)
            \/ \E n \in Number : files[p][n].state = "ended" /\ t \in Elements(files[p][n].tasks)
=============================================================================
