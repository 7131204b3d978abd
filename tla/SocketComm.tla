----------------------------- MODULE SocketComm -----------------------------
(***************************************************************************)
(* OOPSocketCommManager and the sending and receiving half of OOPSocket.   *)
(*                                                                         *)
(* SendTask packs the task and leaves the buffer in one of a few slots,    *)
(* each with a mutex, a condition and a sender thread.  A sender connects  *)
(* to the destination, says SENDRECV and waits for the answer before it    *)
(* sends the data.  The destination's receiver thread puts the envelope in *)
(* receiveBuffer; the communication manager's own thread probes for it,    *)
(* asks its size, and receives.  Nothing here counts notifications: a      *)
(* signal to a thread that does not sleep yet is lost.                     *)
(*                                                                         *)
(* The barriers and the end of the threads are in module Launcher.         *)
(*                                                                         *)
(* Definitions named Bug... are faults seeded into the definition that     *)
(* follows them, to see the properties fail; nothing uses them otherwise.  *)
(***************************************************************************)
EXTENDS Transport

CONSTANT Slots     \* SEND_NUM_THREADS (10 in the code)

Slot == 0..(Slots - 1)
Empty == "empty"   \* no buffer in a slot
Free == "free"     \* of a mutex

ASSUME SocketAssumption == Slots \in Nat \ {0} /\ Caller \cap {"sender", Free} = {}

VARIABLES
    placing,        \* of a caller: where it is in Send(buffer), and its slot
    messages,       \* the buffer in a slot
    slotMutex,      \* who holds the slot's mutex: a caller, or its "sender"
    sender,         \* the slot's thread
    sending,        \* its local copy of the message
    connected,      \* connections a processor's receiver has not accepted
    receiveBuffer,  \* its envelopes
    receiver,       \* its receiver thread
    manager,        \* the thread of its communication manager
    counted         \* the message whose size Get_count gave that thread

slotVars == <<placing, messages, slotMutex, sender, sending>>
receiverVars == <<connected, receiveBuffer, receiver>>
managerVars == <<manager, counted>>
socketVars == <<slotVars, receiverVars, managerVars>>

SocketTypeOK ==
    /\ placing \in [Caller -> [at : {"out", "trying", "blocked", "placing"}, slot : Slot]]
    /\ messages \in [Proc -> [Slot -> Task \cup {Empty}]]
    /\ slotMutex \in [Proc -> [Slot -> Caller \cup {"sender", Free}]]
    /\ sender \in [Proc -> [Slot -> {"ready", "asleep", "waiting", "calling"}]]
    /\ sending \in [Proc -> [Slot -> Task \cup {Empty}]]
    /\ connected \in [Proc -> SUBSET Task]
    /\ \A p \in Proc : Elements(receiveBuffer[p]) \subseteq Task
    /\ receiver \in [Proc -> {"accept", "notify"}]
    /\ manager \in [Proc -> {"probe", "doze", "asleep", "count", "receive", "read", "process"}]
    /\ counted \in [Proc -> Task \cup {Empty}]

\* The sender threads have found their slots empty
SocketInit ==
    /\ placing = [c \in Caller |-> [at |-> "out", slot |-> 0]]
    /\ messages = [p \in Proc |-> [k \in Slot |-> Empty]]
    /\ slotMutex = [p \in Proc |-> [k \in Slot |-> Free]]
    /\ sender = [p \in Proc |-> [k \in Slot |-> "asleep"]]
    /\ sending = [p \in Proc |-> [k \in Slot |-> Empty]]
    /\ connected = [p \in Proc |-> {}]
    /\ receiveBuffer = [p \in Proc |-> <<>>]
    /\ receiver = [p \in Proc |-> "accept"]
    /\ manager = [p \in Proc |-> "probe"]
    /\ counted = [p \in Proc |-> Empty]

-----------------------------------------------------------------------------
(* SendTask, in the thread of the caller                                   *)

\* A task for a processor that does not exist is deleted
SocketSendTask(c) ==
    /\ todo[c] # <<>> /\ placing[c].at = "out"
    /\ todo' = [todo EXCEPT ![c] = Tail(@)]
    /\ IF DestOf[Head(todo[c])] \in Proc
       THEN placing' = [placing EXCEPT ![c] = [at |-> "trying", slot |-> 0]]
       ELSE UNCHANGED placing
    /\ UNCHANGED <<submitted, messages, slotMutex, sender, sending, receiverVars, managerVars>>

BugTakeAnyway(c) ==
    LET p == Home[c] k == placing[c].slot IN
    /\ placing[c].at = "trying"
    /\ slotMutex' = [slotMutex EXCEPT ![p][k] = c]
    /\ placing' = [placing EXCEPT ![c].at = "placing"]
    /\ UNCHANGED <<todo, submitted, messages, sender, sending, receiverVars, managerVars>>

\* Try the mutexes of the slots in turn; after a full round wait for any one
TryLock(c) ==
    LET p == Home[c]
        k == placing[c].slot
        next == (k + 1) % Slots
    IN
    /\ placing[c].at = "trying"
    /\ IF slotMutex[p][k] = Free
       THEN /\ slotMutex' = [slotMutex EXCEPT ![p][k] = c]
            /\ placing' = [placing EXCEPT ![c].at = "placing"]
       ELSE /\ UNCHANGED slotMutex
            /\ \E s \in Slot :
                 /\ next # 0 => s = next
                 /\ placing' = [placing EXCEPT ![c] =
                      [at |-> IF next = 0 THEN "blocked" ELSE "trying", slot |-> s]]
    /\ UNCHANGED <<todo, submitted, messages, sender, sending, receiverVars, managerVars>>

LockAny(c) ==
    /\ placing[c].at = "blocked" /\ slotMutex[Home[c]][placing[c].slot] = Free
    /\ slotMutex' = [slotMutex EXCEPT ![Home[c]][placing[c].slot] = c]
    /\ placing' = [placing EXCEPT ![c].at = "placing"]
    /\ UNCHANGED <<todo, submitted, messages, sender, sending, receiverVars, managerVars>>

BugNobodySignalled(c) ==
    LET p == Home[c] k == placing[c].slot IN
    /\ placing[c].at = "placing"
    /\ messages' = [messages EXCEPT ![p][k] = Current(c)]
    /\ slotMutex' = [slotMutex EXCEPT ![p][k] = Free]
    /\ placing' = [placing EXCEPT ![c].at = "out"]
    /\ UNCHANGED <<todo, submitted, sender, sending, receiverVars, managerVars>>

\* Whatever the slot holds is overwritten; then the thread is signalled
Place(c) ==
    LET p == Home[c] k == placing[c].slot IN
    /\ placing[c].at = "placing"
    /\ messages' = [messages EXCEPT ![p][k] = Current(c)]
    /\ sender' = [sender EXCEPT ![p][k] = IF @ = "asleep" THEN "ready" ELSE @]
    /\ slotMutex' = [slotMutex EXCEPT ![p][k] = Free]
    /\ placing' = [placing EXCEPT ![c].at = "out"]
    /\ UNCHANGED <<todo, submitted, sending, receiverVars, managerVars>>

-----------------------------------------------------------------------------
(* The sender threads                                                      *)

\* Look at the slot under its mutex, and keep the mutex while sending
TakeMessage(p, k) ==
    /\ sender[p][k] = "ready" /\ slotMutex[p][k] = Free
    /\ IF messages[p][k] # Empty
       THEN /\ sender' = [sender EXCEPT ![p][k] = "waiting"]
            /\ slotMutex' = [slotMutex EXCEPT ![p][k] = "sender"]
            /\ sending' = [sending EXCEPT ![p][k] = messages[p][k]]
       ELSE /\ sender' = [sender EXCEPT ![p][k] = "asleep"]
            /\ UNCHANGED <<slotMutex, sending>>
    /\ UNCHANGED <<todo, submitted, placing, messages, receiverVars, managerVars>>

\* One sender of a processor at a time calls the same destination
Call(p, k) ==
    LET dest == DestOf[sending[p][k]] IN
    /\ sender[p][k] = "waiting"
    /\ \A j \in Slot : sender[p][j] = "calling" => DestOf[sending[p][j]] # dest
    /\ sender' = [sender EXCEPT ![p][k] = "calling"]
    /\ connected' = [connected EXCEPT ![dest] = @ \cup {sending[p][k]}]
    /\ UNCHANGED <<todo, submitted, placing, messages, slotMutex, sending, receiveBuffer,
                   receiver, managerVars>>

-----------------------------------------------------------------------------
(* The receiver thread of OOPSocket                                        *)

BugNewestFirst(p) ==
    /\ receiver[p] = "accept"
    /\ \E t \in connected[p] :
         /\ connected' = [connected EXCEPT ![p] = @ \ {t}]
         /\ receiveBuffer' = [receiveBuffer EXCEPT ![p] = <<t>> \o @]
    /\ receiver' = [receiver EXCEPT ![p] = "notify"]
    /\ UNCHANGED <<todo, submitted, slotVars, managerVars>>

AcceptEnvelope(p) ==
    /\ receiver[p] = "accept"
    /\ \E t \in connected[p] :
         /\ connected' = [connected EXCEPT ![p] = @ \ {t}]
         /\ receiveBuffer' = [receiveBuffer EXCEPT ![p] = Append(@, t)]
    /\ receiver' = [receiver EXCEPT ![p] = "notify"]
    /\ UNCHANGED <<todo, submitted, slotVars, managerVars>>

NotifyAll(p) ==
    /\ receiver[p] = "notify"
    /\ receiver' = [receiver EXCEPT ![p] = "accept"]
    /\ manager' = [manager EXCEPT ![p] = IF @ = "asleep" THEN "probe" ELSE @]
    /\ UNCHANGED <<todo, submitted, slotVars, connected, receiveBuffer, counted>>

-----------------------------------------------------------------------------
(* The thread of the communication manager                                 *)

Go(p, here, there) == manager[p] = here /\ manager' = [manager EXCEPT ![p] = there]

\* Probe looks through the buffer under one mutex and goes to sleep under
\* another, without a second look
Probe(p) ==
    /\ Go(p, "probe", IF receiveBuffer[p] = <<>> THEN "doze" ELSE "count")
    /\ UNCHANGED <<todo, submitted, slotVars, receiverVars, counted>>

Doze(p) ==
    /\ Go(p, "doze", "asleep")
    /\ UNCHANGED <<todo, submitted, slotVars, receiverVars, counted>>

\* The size of the first message of the processor Probe found
GetCount(p) ==
    LET buffer == receiveBuffer[p]
        OfSource == {i \in 1..Len(buffer) : Home[From(buffer[i])] = Home[From(Head(buffer))]}
    IN
    /\ Go(p, "count", "receive")
    /\ \E i \in OfSource : /\ \A j \in OfSource : i <= j
                           /\ counted' = [counted EXCEPT ![p] = buffer[i]]
    /\ UNCHANGED <<todo, submitted, slotVars, receiverVars>>

\* Recv takes the first message of any processor, and answers its sender
Recv(p) ==
    /\ Go(p, "receive", "read")
    /\ receiveBuffer' = [receiveBuffer EXCEPT ![p] = Tail(@)]
    /\ UNCHANGED <<todo, submitted, slotVars, connected, receiver, counted>>

\* The sender that was answered: the one that calls and is in no queue
Answered(p, q, k) ==
    /\ sender[q][k] = "calling" /\ DestOf[sending[q][k]] = p
    /\ sending[q][k] \notin connected[p] \cup Elements(receiveBuffer[p])

BugSlotKept(p, q, k) ==
    /\ Answered(p, q, k)
    /\ Go(p, "read", "process")
    /\ counted' = [counted EXCEPT ![p] = sending[q][k]]
    /\ sender' = [sender EXCEPT ![q][k] = "ready"]
    /\ sending' = [sending EXCEPT ![q][k] = Empty]
    /\ slotMutex' = [slotMutex EXCEPT ![q][k] = Free]
    /\ UNCHANGED <<todo, submitted, placing, messages, receiverVars>>

\* The data go through and the connection is closed.  The buffer has the size
\* of the message that was counted, and from now on the data of this one.
Transfer(p, q, k) ==
    /\ Answered(p, q, k)
    /\ Go(p, "read", "process")
    /\ counted' = [counted EXCEPT ![p] = sending[q][k]]
    /\ messages' = [messages EXCEPT ![q][k] = Empty]
    /\ sender' = [sender EXCEPT ![q][k] = "ready"]
    /\ sending' = [sending EXCEPT ![q][k] = Empty]
    /\ slotMutex' = [slotMutex EXCEPT ![q][k] = Free]
    /\ UNCHANGED <<todo, submitted, placing, receiverVars>>

\* Restore and Submit
SubmitReceived(p) ==
    /\ Go(p, "process", "probe")
    /\ submitted' = [submitted EXCEPT ![p] = Append(@, counted[p])]
    /\ counted' = [counted EXCEPT ![p] = Empty]
    /\ UNCHANGED <<todo, slotVars, receiverVars>>

-----------------------------------------------------------------------------
SocketCaller(c) == SocketSendTask(c) \/ TryLock(c) \/ LockAny(c) \/ Place(c)
SocketSender(p, k) == TakeMessage(p, k) \/ Call(p, k)
SocketReceiver(p) == AcceptEnvelope(p) \/ NotifyAll(p)
SocketManager(p) == \/ Probe(p) \/ Doze(p) \/ GetCount(p) \/ Recv(p)
                    \/ \E q \in Proc, k \in Slot : Transfer(p, q, k)
                    \/ SubmitReceived(p)

SocketNext == \/ \E c \in Caller : SocketCaller(c)
              \/ \E p \in Proc : SocketReceiver(p) \/ SocketManager(p)
              \/ \E p \in Proc, k \in Slot : SocketSender(p, k)

-----------------------------------------------------------------------------
(* Properties                                                              *)

\* Between Get_count and Recv other messages arrive.  The message received is
\* still the one the buffer was made for.
BufferFits ==
    \A p \in Proc :
        /\ manager[p] = "receive" => counted[p] = Head(receiveBuffer[p])
        /\ \A q \in Proc, k \in Slot :
             manager[p] = "read" /\ Answered(p, q, k) => sending[q][k] = counted[p]

\* The buffer a sender thread is sending is not replaced under it, however
\* many callers look for a slot.
SendersKeepTheirMessage ==
    \A p \in Proc, k \in Slot :
        sender[p][k] \in {"waiting", "calling"} => messages[p][k] = sending[p][k]

\* A message was put on top of another that no thread had taken
Overwritten(t) ==
    /\ DestOf[t] \in Proc /\ t \in Sent
    /\ t \notin Elements(submitted[DestOf[t]])
    /\ ~ \E c \in Caller : placing[c].at # "out" /\ Current(c) = t
    /\ \A p \in Proc, k \in Slot : t # messages[p][k]
    /\ \A p \in Proc : t # counted[p]

\* A communication manager sleeps beside a message; nothing but the next
\* message wakes it
SleepsOnAMessage(p) == manager[p] = "asleep" /\ receiveBuffer[p] # <<>> /\ receiver[p] = "accept"
=============================================================================
