--------------------------- MODULE SocketBarrier ---------------------------
(***************************************************************************)
(* OOPSocket::Barrier: every other process opens a connection to rank 0    *)
(* and waits on it; rank 0 collects one connection of each and then        *)
(* answers them in the order of their ranks.  The connections reach rank 0 *)
(* through its receiver thread, which may be ahead of Barrier: a process   *)
(* that has its answer can be back with the next round's connection while  *)
(* rank 0 is still answering the others.                                   *)
(*                                                                         *)
(* Connections wait in sets, so that they are served in any order.  Module *)
(* Launcher has the life of the processes around the barriers.             *)
(*                                                                         *)
(* Definitions named Bug... are faults seeded into the definition that     *)
(* follows them, to see the properties fail; nothing uses them otherwise.  *)
(***************************************************************************)
EXTENDS Integers, FiniteSets

CONSTANTS
    Size,     \* number of processes
    Rounds    \* bound: barriers a process calls (the program calls eight)

ASSUME SizeAssumption == Size \in Nat \ {0}
ASSUME RoundsAssumption == Rounds \in Nat

Rank == 0..(Size - 1)
Others == 1..(Size - 1)

VARIABLES
    entered,    \* barriers a process has called
    left,       \* barriers it has come back from
    inside,     \* where it is in Barrier
    connected,  \* BARRIER connections rank 0 has not accepted
    arrived,    \* BARRIER envelopes in rank 0's receiveBuffer
    posts,      \* its semaphore "barrier"
    count,      \* the local "count" of rank 0's Barrier
    cSockets,   \* the connections it has collected
    next,       \* the rank it answers next
    answered    \* answers on their way

barrierVars == <<entered, left, inside, connected, arrived, posts, count, cSockets, next, answered>>

BarrierTypeOK ==
    /\ entered \in [Rank -> Nat] /\ left \in [Rank -> Nat]
    /\ inside \in [Rank -> {"out", "waiting", "collecting", "answering"}]
    /\ connected \subseteq Others /\ arrived \subseteq Others
    /\ cSockets \subseteq Others /\ answered \subseteq Others
    /\ posts \in Nat /\ count \in Nat /\ next \in 1..Size

BarrierInit ==
    /\ entered = [r \in Rank |-> 0] /\ left = [r \in Rank |-> 0]
    /\ inside = [r \in Rank |-> "out"]
    /\ connected = {} /\ arrived = {} /\ cSockets = {} /\ answered = {}
    /\ posts = 0 /\ count = 0 /\ next = 1

-----------------------------------------------------------------------------
MayEnter(r) == inside[r] = "out" /\ entered[r] < Rounds

\* A process other than rank 0 connects and says BARRIER
Connect(r) ==
    /\ r \in Others /\ MayEnter(r)
    /\ entered' = [entered EXCEPT ![r] = @ + 1]
    /\ inside' = [inside EXCEPT ![r] = "waiting"]
    /\ connected' = connected \cup {r}
    /\ UNCHANGED <<left, arrived, posts, count, cSockets, next, answered>>

\* Rank 0's receiver thread pushes the envelope, then posts the semaphore: only
\* Barrier takes BARRIER envelopes, and not before the post.
AcceptBarrier(r) ==
    /\ r \in connected
    /\ connected' = connected \ {r}
    /\ arrived' = arrived \cup {r}
    /\ posts' = posts + 1
    /\ UNCHANGED <<entered, left, inside, count, cSockets, next, answered>>

\* Rank 0 calls Barrier
Collect ==
    /\ MayEnter(0)
    /\ entered' = [entered EXCEPT ![0] = @ + 1]
    /\ inside' = [inside EXCEPT ![0] = "collecting"]
    /\ count' = Size - 1
    /\ cSockets' = {}
    /\ UNCHANGED <<left, connected, arrived, posts, next, answered>>

BugEnvelopeNotErased(r) ==
    /\ inside[0] = "collecting" /\ count > 0 /\ posts > 0 /\ r \in arrived
    /\ posts' = posts - 1
    /\ cSockets' = cSockets \cup {r}
    /\ count' = count - 1
    /\ UNCHANGED <<entered, left, inside, connected, arrived, next, answered>>

\* barrier->Wait() and the scan of the buffer
TakeEnvelope(r) ==
    /\ inside[0] = "collecting" /\ count > 0 /\ posts > 0 /\ r \in arrived
    /\ posts' = posts - 1
    /\ arrived' = arrived \ {r}
    /\ cSockets' = cSockets \cup {r}
    /\ count' = count - 1
    /\ UNCHANGED <<entered, left, inside, connected, next, answered>>

BugAnswerEarly ==
    /\ inside[0] = "collecting" /\ count \in {0, 1}
    /\ inside' = [inside EXCEPT ![0] = "answering"]
    /\ next' = 1
    /\ UNCHANGED <<entered, left, connected, arrived, posts, count, cSockets, answered>>

StartAnswers ==
    /\ inside[0] = "collecting" /\ count = 0
    /\ inside' = [inside EXCEPT ![0] = "answering"]
    /\ next' = 1
    /\ UNCHANGED <<entered, left, connected, arrived, posts, count, cSockets, answered>>

\* cSockets is an uninitialised array: there is nothing to answer to on a
\* connection that was not collected
Answer ==
    /\ inside[0] = "answering" /\ next < Size /\ next \in cSockets
    /\ answered' = answered \cup {next}
    /\ next' = next + 1
    /\ UNCHANGED <<entered, left, inside, connected, arrived, posts, count, cSockets>>

LeaveRoot ==
    /\ inside[0] = "answering" /\ next = Size
    /\ inside' = [inside EXCEPT ![0] = "out"]
    /\ left' = [left EXCEPT ![0] = @ + 1]
    /\ UNCHANGED <<entered, connected, arrived, posts, count, cSockets, next, answered>>

Leave(r) ==
    /\ inside[r] = "waiting" /\ r \in answered
    /\ answered' = answered \ {r}
    /\ inside' = [inside EXCEPT ![r] = "out"]
    /\ left' = [left EXCEPT ![r] = @ + 1]
    /\ UNCHANGED <<entered, connected, arrived, posts, count, cSockets, next>>

-----------------------------------------------------------------------------
RootStep == (\E r \in Others : TakeEnvelope(r)) \/ StartAnswers \/ Answer \/ LeaveRoot

BarrierNext == \/ \E r \in Others : Connect(r) \/ AcceptBarrier(r) \/ Leave(r)
               \/ Collect \/ RootStep

BarrierSpec == BarrierInit /\ [][BarrierNext]_barrierVars

-----------------------------------------------------------------------------
(* Properties                                                              *)

\* Nobody comes back from a barrier that somebody has not called yet, however
\* far the fast processes are ahead with the next one.
NobodyIsAhead == \A p, q \in Rank : left[p] <= entered[q]

\* When rank 0 answers it has collected a connection from each of the others
\* for this very round: the array it answers from has no hole.
EveryAnswerHasItsSocket ==
    inside[0] = "answering" => next..(Size - 1) \subseteq cSockets
=============================================================================
