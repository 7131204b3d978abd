-------------------------- MODULE Transports_proofs --------------------------
(***************************************************************************)
(* The promises of the three transports, for any number of processors,     *)
(* slots, file numbers, callers and tasks, and for any scripts.  Each      *)
(* rests on the invariant of its own transport; the steps of the other two *)
(* leave it alone, since a job has one kind.                               *)
(*                                                                         *)
(* The first part ends with the promises of each transport of its own.     *)
(* The second follows a task on its way through each of them, and ends     *)
(* with what they share: each implements Delivery.                         *)
(***************************************************************************)
EXTENDS Transports, FileComm_proofs, FiniteSetTheorems, SequenceTheorems

-----------------------------------------------------------------------------
(* The receive thread over MPI: it recognises the message that ends it, a  *)
(* receive is too short only for a message of another sender than the      *)
(* probe saw, and the tasks of one thread to one processor are submitted   *)
(* in the order it sent them.                                              *)
(*                                                                         *)
(* The order follows the way of a task: what is submitted comes before the *)
(* message in the buffer, that before those on their way from its sender,  *)
(* and none of them after the last one taken from the script.              *)

MPIKept ==
    /\ calling \in [Caller -> {"out", "write", "wait"}]
    /\ net \in [Proc -> [Proc -> Seq(Message)]]
    /\ fKeepReceiving \in [Proc -> BOOLEAN]
    /\ receiving \in [Proc -> {"loop", "probe", "receive", "process", "finish", "ended"}]
    /\ probed \in [Proc -> Message \cup {None}]
    /\ m_RecvBuffer \in [Proc -> Message \cup {None}]
    /\ main \in [Proc -> {"service", "barrier", "unlock", "stop", "join", "finish", "finalized"}]
    /\ aborted \in BOOLEAN
    /\ submitted \in [Processor -> Seq(Task)]
    /\ \A c \in Caller : calling[c] # "out" => Taken(c) # 0
    /\ \A p \in Proc : receiving[p] = "process" => m_RecvBuffer[p] # None

\* Only a processor that has lowered its flag sends the message that ends its
\* receive thread
Stopping(p) == main[p] \in {"join", "finish", "finalized"}

StopKept(p) ==
    /\ main[p] \in {"stop", "join", "finish", "finalized"} => ~ fKeepReceiving[p]
    /\ \A q \in Proc : \A i \in 1..Len(net[p][q]) : net[p][q][i] = Stop => Stopping(p)
    /\ m_RecvBuffer[p] = Stop => Stopping(p)
    /\ receiving[p] # "finish"

\* The message whose size was asked for is still the first of its sender
ProbeKept(p) ==
    receiving[p] = "receive" =>
        \E q \in Proc : net[p][q] # <<>> /\ probed[p] = Head(net[p][q])

\* The tasks of c, in its order: s submitted, then m in the buffer, then those
\* on the way from its processor
Chain(c, s, m, way, k) ==
    /\ Upto(c, s, k) /\ InOrder(c, s) /\ Upto(c, <<m>>, k) /\ Follows(c, s, <<m>>)
    /\ \A q \in Proc :
         IF q = Home[c]
         THEN /\ Upto(c, way[q], k) /\ InOrder(c, way[q])
              /\ Follows(c, s, way[q]) /\ Follows(c, <<m>>, way[q])
         ELSE Foreign(c, way[q])

\* How many tasks of its script c has given to MPI
Written(c) == IF calling[c] = "write" THEN Taken(c) - 1 ELSE Taken(c)

OrderKept(c, p) == Chain(c, submitted[p], m_RecvBuffer[p], net[p], Written(c))

MPIInv == /\ MPIKept
          /\ \A p \in Proc : StopKept(p) /\ ProbeKept(p)
          /\ TruncationNeedsTwoSenders
          /\ \A c \in Caller, p \in Proc : OrderKept(c, p)

\* The message that ends the thread is no task
LEMMA StopIsNoTask == Stop \notin Task /\ None \notin Task /\ Stop # None
  BY MPIAssumption DEF Stop, None

\* The marks of a message that ends the thread and of no message are in no script
LEMMA NotOfAny == ASSUME job \in Jobs, NEW c \in Caller PROVE Stop \notin Of(c) /\ None \notin Of(c)
  BY PositionOf, StopIsNoTask

\* A message is put on its way after those of its sender
LEMMA ChainSend ==
    ASSUME NEW T, NEW way \in [Proc -> Seq(T)], NEW q \in Proc, NEW t \in T, job \in Jobs,
           NEW c \in Caller, NEW s, NEW m, NEW k \in Int, NEW l \in Int, k <= l,
           Chain(c, s, m, way, k),
           t \in Of(c) => q = Home[c] /\ k < l /\ Position(c, t) = l
    PROVE  Chain(c, s, m, [way EXCEPT ![q] = Append(way[q], t)], l)
<1> DEFINE new == [way EXCEPT ![q] = Append(way[q], t)]
<1>1. /\ new[q] = Append(way[q], t) /\ \A r \in Proc \ {q} : new[r] = way[r]
      /\ way[q] \in Seq(T)
  OBVIOUS
<1>2. /\ Len(new[q]) = Len(way[q]) + 1 /\ Len(way[q]) \in Nat
      /\ new[q][Len(way[q]) + 1] = t
      /\ \A i \in 1..Len(way[q]) : new[q][i] = way[q][i]
  BY <1>1, AppendOf
<1> HIDE DEF new
<1>3. \A u \in Of(c) : Position(c, u) \in Int
  BY PositionOf
<1>4. ASSUME q = Home[c]
      PROVE  /\ Upto(c, new[q], l) /\ InOrder(c, new[q])
             /\ Follows(c, s, new[q]) /\ Follows(c, <<m>>, new[q])
  <2>1. /\ Upto(c, way[q], k) /\ InOrder(c, way[q]) /\ Upto(c, s, k) /\ Upto(c, <<m>>, k)
        /\ Follows(c, s, way[q]) /\ Follows(c, <<m>>, way[q])
    BY <1>4 DEF Chain
  <2>2. Upto(c, new[q], l)
    <3> SUFFICES ASSUME NEW i \in 1..Len(new[q]), new[q][i] \in Of(c)
                 PROVE  Position(c, new[q][i]) <= l
      BY DEF Upto
    <3>1. CASE i \in 1..Len(way[q])
      BY <3>1, <2>1, <1>2, <1>3 DEF Upto
    <3>2. CASE i = Len(way[q]) + 1
      BY <3>2, <1>2, <1>3, <1>4
    <3> QED BY <3>1, <3>2, <1>2
  <2>3. ASSUME NEW x, Upto(c, x, k), NEW i \in 1..Len(x)
        PROVE  Before(c, x[i], t)
    BY <2>3, <1>3, <1>4 DEF Upto, Before
  <2>4. ASSUME NEW x, Upto(c, x, k), Follows(c, x, way[q])
        PROVE  Follows(c, x, new[q])
    <3> SUFFICES ASSUME NEW i \in 1..Len(x), NEW j \in 1..Len(new[q])
                 PROVE  Before(c, x[i], new[q][j])
      BY Zenon DEF Follows
    <3>1. CASE j \in 1..Len(way[q])
      <4>1. Before(c, x[i], way[q][j])
        BY <3>1, <2>4, Zenon DEF Follows
      <4> QED BY <3>1, <4>1, <1>2
    <3>2. CASE j = Len(way[q]) + 1
      BY <3>2, <2>3, <2>4, <1>2
    <3> QED BY <3>1, <3>2, <1>2
  <2>5. InOrder(c, new[q])
    <3> SUFFICES ASSUME NEW i \in 1..Len(new[q]), NEW j \in 1..Len(new[q]), i < j
                 PROVE  Before(c, new[q][i], new[q][j])
      BY DEF InOrder
    <3>1. CASE j \in 1..Len(way[q])
      <4>1. i \in 1..Len(way[q])
        BY <3>1
      <4>2. Before(c, way[q][i], way[q][j])
        BY <3>1, <4>1, <2>1 DEF InOrder
      <4> QED BY <3>1, <4>1, <4>2, <1>2
    <3>2. CASE j = Len(way[q]) + 1
      <4>1. i \in 1..Len(way[q])
        BY <3>2, <1>2
      <4>2. Before(c, way[q][i], t)
        BY <4>1, <2>1, <2>3
      <4> QED BY <3>2, <4>1, <4>2, <1>2
    <3> QED BY <3>1, <3>2, <1>2
  <2>6. Follows(c, s, new[q]) /\ Follows(c, <<m>>, new[q])
    BY <2>1, <2>4
  <2> QED BY <2>2, <2>5, <2>6
<1>5. ASSUME q # Home[c] PROVE Foreign(c, new[q])
  BY <1>2, <1>5 DEF Foreign, Chain
<1>6. \A u : Upto(c, u, k) => Upto(c, u, l)
  BY <1>3 DEF Upto
<1>7. \A r \in Proc :
        IF r = Home[c]
        THEN /\ Upto(c, new[r], l) /\ InOrder(c, new[r])
             /\ Follows(c, s, new[r]) /\ Follows(c, <<m>>, new[r])
        ELSE Foreign(c, new[r])
  BY <1>1, <1>4, <1>5, <1>6 DEF Chain
<1>8. Chain(c, s, m, new, l)
  BY <1>6, <1>7 DEF Chain
<1> QED BY <1>8 DEF new

\* The first message of a processor is received
LEMMA ChainReceive ==
    ASSUME NEW T, NEW way \in [Proc -> Seq(T)], NEW q \in Proc, way[q] # <<>>, job \in Jobs,
           NEW c \in Caller, NEW s, NEW m, NEW k \in Int, Chain(c, s, m, way, k)
    PROVE  Chain(c, s, Head(way[q]), [way EXCEPT ![q] = Tail(way[q])], k)
<1> DEFINE new == [way EXCEPT ![q] = Tail(way[q])]
           h == Head(way[q])
<1>1. /\ new[q] = Tail(way[q]) /\ \A r \in Proc \ {q} : new[r] = way[r]
      /\ way[q] \in Seq(T)
  OBVIOUS
<1>2. /\ h = way[q][1] /\ 1 \in 1..Len(way[q]) /\ Len(new[q]) \in Nat
      /\ \A i \in 1..Len(new[q]) : i + 1 \in 1..Len(way[q]) /\ new[q][i] = way[q][i + 1]
  BY <1>1, TailOf
<1>3. Len(<<h>>) = 1 /\ <<h>>[1] = h
  OBVIOUS
<1> HIDE DEF new, h
<1>4. ASSUME q = Home[c]
      PROVE  /\ Upto(c, <<h>>, k) /\ Follows(c, s, <<h>>) /\ Upto(c, new[q], k)
             /\ InOrder(c, new[q]) /\ Follows(c, s, new[q]) /\ Follows(c, <<h>>, new[q])
  <2>1. Upto(c, way[q], k) /\ InOrder(c, way[q]) /\ Follows(c, s, way[q])
    BY <1>4 DEF Chain
  <2>2. Upto(c, <<h>>, k) /\ Upto(c, new[q], k)
    <3>1. way[q][1] \in Of(c) => Position(c, way[q][1]) <= k
      BY <2>1, <1>2 DEF Upto
    <3>2. \A i \in 1..Len(new[q]) :
            way[q][i + 1] \in Of(c) => Position(c, way[q][i + 1]) <= k
      BY <2>1, <1>2 DEF Upto
    <3>3. \A i \in 1..Len(new[q]) :
            new[q][i] \in Of(c) => Position(c, new[q][i]) <= k
      BY <3>2, <1>2
    <3>4. Upto(c, new[q], k)
      BY <3>3, Zenon DEF Upto
    <3>5. h \in Of(c) => Position(c, h) <= k
      BY <3>1, <1>2, Zenon
    <3>6. \A i \in 1..Len(<<h>>) : <<h>>[i] = h
      BY <1>3
    <3>7. Upto(c, <<h>>, k)
      BY <3>5, <3>6, Zenon DEF Upto
    <3> QED BY <3>4, <3>7
  <2>3. Follows(c, s, <<h>>) /\ Follows(c, s, new[q])
    BY <2>1, <1>2, <1>3 DEF Follows
  <2>4. InOrder(c, new[q]) /\ Follows(c, <<h>>, new[q])
    BY <2>1, <1>2, <1>3 DEF Follows, InOrder
  <2> QED BY <2>2, <2>3, <2>4
<1>5. ASSUME q # Home[c]
      PROVE  /\ Foreign(c, new[q]) /\ Upto(c, <<h>>, k) /\ Follows(c, s, <<h>>)
             /\ \A r : Follows(c, <<h>>, r)
  <2>1. Foreign(c, way[q])
    BY <1>5 DEF Chain
  <2>2. h \notin Of(c) /\ \A i \in 1..Len(new[q]) : new[q][i] \notin Of(c)
    <3>1. \A i \in 1..Len(new[q]) : way[q][i + 1] \notin Of(c)
      BY <2>1, <1>2 DEF Foreign
    <3> QED BY <3>1, <2>1, <1>2 DEF Foreign
  <2>3. Foreign(c, new[q])
    BY <2>2 DEF Foreign
  <2>4. \A i \in 1..Len(<<h>>) : <<h>>[i] \notin Of(c)
    BY <2>2, <1>3
  <2> QED BY <2>3, <2>4 DEF Upto, Follows, Before
<1>6. \A r \in Proc :
        IF r = Home[c]
        THEN /\ Upto(c, new[r], k) /\ InOrder(c, new[r])
             /\ Follows(c, s, new[r]) /\ Follows(c, <<h>>, new[r])
        ELSE Foreign(c, new[r])
  BY <1>1, <1>4, <1>5 DEF Chain
<1>7. Upto(c, <<h>>, k) /\ Follows(c, s, <<h>>)
  BY <1>4, <1>5
<1>8. Chain(c, s, h, new, k)
  BY <1>6, <1>7 DEF Chain
<1> QED BY <1>8 DEF new, h

\* The message is submitted, or found to be no task; the buffer is empty
LEMMA ChainProcess ==
    ASSUME NEW T, NEW s \in Seq(T), NEW m \in T, job \in Jobs,
           NEW c \in Caller, NEW way, NEW k \in Int, Chain(c, s, m, way, k)
    PROVE  Chain(c, Append(s, m), None, way, k) /\ Chain(c, s, None, way, k)
<1>1. /\ Len(Append(s, m)) = Len(s) + 1 /\ Len(s) \in Nat
      /\ Append(s, m)[Len(s) + 1] = m
      /\ \A i \in 1..Len(s) : Append(s, m)[i] = s[i]
  BY AppendOf
<1>2. Len(<<m>>) = 1 /\ <<m>>[1] = m /\ Len(<<None>>) = 1 /\ <<None>>[1] = None
  OBVIOUS
<1>3. \A u \in Of(c) : Position(c, u) \in Int
  BY PositionOf
<1>4. /\ Upto(c, s, k) /\ InOrder(c, s) /\ Upto(c, <<m>>, k) /\ Follows(c, s, <<m>>)
  BY DEF Chain
<1>5. Upto(c, Append(s, m), k)
  BY <1>1, <1>2, <1>4 DEF Upto
<1>6. InOrder(c, Append(s, m))
  BY <1>1, <1>2, <1>3, <1>4 DEF InOrder, Follows, Before
<1>7. None \notin Of(c)
  BY NotOfAny
<1>8. /\ Upto(c, <<None>>, k) /\ \A r : Follows(c, r, <<None>>) /\ Follows(c, <<None>>, r)
  BY <1>2, <1>7 DEF Upto, Follows, Before
<1>9. \A r : Follows(c, s, r) /\ Follows(c, <<m>>, r) => Follows(c, Append(s, m), r)
  BY <1>1, <1>2 DEF Follows
<1> QED BY <1>4, <1>5, <1>6, <1>8, <1>9 DEF Chain

\* The invariant of the MPI manager holds at the start
LEMMA MPIStart == TransportInit /\ MPIInit => MPIInv
<1> SUFFICES ASSUME TransportInit, MPIInit PROVE MPIInv
  OBVIOUS
<1> USE DEF MPIInit, TransportInit
<1>0. job \in Jobs /\ Proc \subseteq Processor
  BY Scripts
<1>1. MPIKept
  <2>1. net \in [Proc -> [Proc -> Seq(Message)]] /\ submitted \in [Processor -> Seq(Task)]
    OBVIOUS
  <2> QED BY <2>1 DEF MPIKept
<1>2. \A p \in Proc : StopKept(p) /\ ProbeKept(p)
  BY StopIsNoTask DEF StopKept, ProbeKept, Stopping
<1>3. TruncationNeedsTwoSenders
  BY DEF TruncationNeedsTwoSenders
<1>4. ASSUME NEW c \in Caller, NEW p \in Proc PROVE OrderKept(c, p)
  <2>1. /\ submitted[p] = <<>> /\ \A q \in Proc : net[p][q] = <<>>
        /\ m_RecvBuffer[p] = None
    BY <1>0
  <2>2. None \notin Of(c)
    BY <1>0, NotOfAny
  <2> QED BY <2>1, <2>2 DEF OrderKept, Chain, Upto, InOrder, Follows, Foreign, Before
<1> QED BY <1>1, <1>2, <1>3, <1>4 DEF MPIInv

\* The order of the messages of the next state, with as many given to MPI as there
\* are then
LEMMA SameMessages ==
    ASSUME ScriptInv, UNCHANGED job, NEW c \in Caller,
           NEW k \in Int, Written(c)' \in Int, k <= Written(c)',
           NEW p \in Proc, Chain(c, submitted'[p], m_RecvBuffer'[p], net'[p], k)
    PROVE  OrderKept(c, p)'
<1>1. Script' = Script /\ Of(c)' = Of(c) /\ Proc' = Proc
  BY DEF Script, Of, Elements, Proc
<1>2. \A t : Position(c, t)' = Position(c, t)
  BY <1>1 DEF Position
<1>3. \A t \in Of(c) : Position(c, t) \in Int
  BY PositionOf DEF ScriptInv
<1>4. PICK l \in Int : l = Written(c)' /\ k <= l
  OBVIOUS
<1>5. \A u : Upto(c, u, k) => Upto(c, u, l)
  BY <1>3, <1>4 DEF Upto
<1>6. Chain(c, submitted'[p], m_RecvBuffer'[p], net'[p], l)
  BY <1>5 DEF Chain
<1> QED BY <1>1, <1>2, <1>4, <1>6 DEF OrderKept, Chain, Upto, InOrder, Follows, Foreign, Before

\* How many tasks of each script have been given to MPI never decreases
Going == \A c \in Caller : Written(c) \in Int /\ Written(c)' \in Int /\ Written(c) <= Written(c)'

\* The order is kept where no message moves
LEMMA QuietMessages ==
    ASSUME MPIInv, ScriptInv, UNCHANGED <<job, submitted, m_RecvBuffer, net>>, Going
    PROVE  \A c \in Caller, p \in Proc : OrderKept(c, p)'
<1> TAKE c \in Caller, p \in Proc
<1>1. Chain(c, submitted[p], m_RecvBuffer[p], net[p], Written(c))
  BY DEF MPIInv, OrderKept
<1>2. submitted'[p] = submitted[p] /\ m_RecvBuffer'[p] = m_RecvBuffer[p] /\ net'[p] = net[p]
  OBVIOUS
<1>3. PICK k \in Int : k = Written(c) /\ k <= Written(c)' /\ Written(c)' \in Int
  BY DEF Going
<1> QED BY <1>1, <1>2, <1>3, SameMessages

\* Nor where no thread writes
LEMMA NobodyWrites ==
    ASSUME ScriptInv, UNCHANGED <<job, todo>>,
           \A c \in Caller : calling'[c] = "write" <=> calling[c] = "write"
    PROVE  Going /\ \A c \in Caller : Written(c)' = Written(c) /\ Written(c) \in Int
<1>1. \A c \in Caller : Taken(c)' = Taken(c) /\ Taken(c) \in Nat
  BY SameTasks DEF ScriptInv
<1> QED BY <1>1 DEF Going, Written

\* SendTask takes the next task; the messages are as they were
LEMMA MPISendTaskKeeps ==
    ASSUME MPIInv, ScriptInv, UNCHANGED job, NEW c \in Caller, MPISendTask(c)
    PROVE  MPIInv'
<1> USE DEF MPIInv, MPISendTask, receiveVars, endVars
<1>0. /\ \A d \in Caller : /\ Taken(d)' >= Taken(d) /\ Taken(d)' \in Nat
                           /\ Taken(d) # 0 => Taken(d)' # 0
      /\ Taken(c)' # 0
  <2>1. /\ ScriptInv' /\ Taken(c)' = Taken(c) + 1 /\ Taken(c)' # 0
        /\ \A d \in Caller \ {c} : Taken(d)' = Taken(d)
    BY NextTask
  <2> QED BY <2>1 DEF ScriptInv
<1>1. MPIKept'
  BY <1>0 DEF MPIKept, Proc
<1>2. \A p \in Proc : StopKept(p)' /\ ProbeKept(p)'
  BY DEF StopKept, Stopping, ProbeKept, Proc
<1>3. TruncationNeedsTwoSenders'
  BY DEF TruncationNeedsTwoSenders
<1>4. \A d \in Caller, p \in Proc : OrderKept(d, p)'
  <2>1. /\ Taken(c)' = Taken(c) + 1 /\ \A d \in Caller \ {c} : Taken(d)' = Taken(d)
        /\ \A d \in Caller : Taken(d) \in Nat
    BY NextTask DEF ScriptInv
  <2>2. /\ calling[c] = "out" /\ calling'[c] \in {"write", "out"}
        /\ \A d \in Caller \ {c} : calling'[d] = calling[d]
    BY DEF MPIKept
  <2>3. Written(c) = Taken(c) /\ Written(c)' \in {Taken(c), Taken(c) + 1}
    BY <2>1, <2>2 DEF Written
  <2>4. \A d \in Caller \ {c} : Written(d)' = Written(d) /\ Written(d) \in Int
    BY <2>1, <2>2 DEF Written
  <2>5. Going
    BY <2>1, <2>3, <2>4 DEF Going
  <2> QED BY <2>5, QuietMessages DEF receiveVars
<1> QED BY <1>1, <1>2, <1>3, <1>4 DEF Proc

\* The probe finds a message, which stays where it is
LEMMA MPIProbeKeeps ==
    ASSUME MPIInv, ScriptInv, UNCHANGED job, NEW r \in Proc, MPIProbe(r)
    PROVE  MPIInv'
<1> USE StopIsNoTask DEF MPIInv, sendVars, receiveVars, endVars, MPIProbe, ReceiverTo
<1>0. UNCHANGED <<job, todo, submitted, m_RecvBuffer, net>>
  OBVIOUS
<1>1. PICK s \in Proc : net[r][s] # <<>> /\ probed' = [probed EXCEPT ![r] = Head(net[r][s])]
  BY DEF Heads
<1>2. Head(net[r][s]) \in Message
  <2>1. net[r][s] \in Seq(Message)
    BY DEF MPIKept
  <2> QED BY <1>1, <2>1
<1>3. MPIKept'
  BY <1>0, <1>1, <1>2, SameTasks DEF MPIKept, Proc
<1>4. \A p \in Proc : StopKept(p)'
  <2>1. \A p \in Proc : receiving'[p] # "finish"
    BY DEF MPIKept, StopKept
  <2>2. UNCHANGED <<main, fKeepReceiving>>
    OBVIOUS
  <2> QED BY <1>0, <2>1, <2>2 DEF StopKept, Stopping, Proc
<1>5. \A p \in Proc : ProbeKept(p)'
  BY <1>1 DEF ProbeKept, MPIKept, Proc
<1>6. TruncationNeedsTwoSenders'
  BY DEF TruncationNeedsTwoSenders
<1>7. \A d \in Caller, p \in Proc : OrderKept(d, p)'
  BY <1>0, QuietMessages, NobodyWrites
<1> QED BY <1>3, <1>4, <1>5, <1>6, <1>7 DEF Proc

\* The receive thread goes round its loop, or ends
LEMMA LoopKeeps ==
    ASSUME MPIInv, ScriptInv, UNCHANGED job, NEW r \in Proc, ReceiveMsgBlocking(r)
    PROVE  MPIInv'
<1> USE StopIsNoTask DEF MPIInv, sendVars, receiveVars, endVars, ReceiveMsgBlocking, ReceiverTo
<1>0. UNCHANGED <<job, todo, submitted, m_RecvBuffer, net>>
  OBVIOUS
<1>1. MPIKept'
  BY <1>0, SameTasks DEF MPIKept, Proc
<1>2. \A p \in Proc : StopKept(p)' /\ ProbeKept(p)'
  BY DEF StopKept, Stopping, ProbeKept, MPIKept, Proc
<1>3. TruncationNeedsTwoSenders'
  BY DEF TruncationNeedsTwoSenders
<1>4. \A d \in Caller, p \in Proc : OrderKept(d, p)'
  BY <1>0, QuietMessages, NobodyWrites
<1> QED BY <1>1, <1>2, <1>3, <1>4 DEF Proc

\* The main thread takes a step to its end; at most the flag goes down
LEMMA MainKeeps ==
    ASSUME MPIInv, ScriptInv, UNCHANGED <<job, todo, submitted, sendVars, receiveVars, aborted>>,
           NEW r \in Proc, NEW here, NEW there, MainTo(r, here, there),
           \/ /\ <<here, there>> \in {<<"service", "barrier">>, <<"barrier", "unlock">>,
                                      <<"join", "finish">>, <<"finish", "finalized">>}
              /\ UNCHANGED fKeepReceiving
           \/ /\ <<here, there>> = <<"unlock", "stop">>
              /\ fKeepReceiving' = [fKeepReceiving EXCEPT ![r] = FALSE]
    PROVE  MPIInv'
<1> USE StopIsNoTask DEF MPIInv, sendVars, receiveVars, MainTo
<1>1. MPIKept'
  <2>1. main' \in [Proc -> {"service", "barrier", "unlock", "stop", "join", "finish", "finalized"}]
        /\ fKeepReceiving' \in [Proc -> BOOLEAN]
    BY DEF MPIKept
  <2>2. \A c \in Caller : Taken(c)' = Taken(c)
    BY SameTasks
  <2> QED BY <2>1, <2>2 DEF MPIKept, Proc
<1>2. \A p \in Proc : StopKept(p)' /\ ProbeKept(p)'
  <2> TAKE p \in Proc
  <2>1. /\ fKeepReceiving'[p] => fKeepReceiving[p]
        /\ main'[p] \in {"stop", "join", "finish", "finalized"} => ~ fKeepReceiving'[p]
        /\ Stopping(p) => Stopping(p)'
    BY DEF StopKept, Stopping, MPIKept
  <2>2. StopKept(p)'
    BY <2>1 DEF StopKept, Proc
  <2>3. ProbeKept(p)'
    BY DEF ProbeKept, Proc
  <2> QED BY <2>2, <2>3
<1>3. TruncationNeedsTwoSenders'
  BY DEF TruncationNeedsTwoSenders
<1>4. \A d \in Caller, p \in Proc : OrderKept(d, p)'
  <2>1. Going
    BY NobodyWrites DEF sendVars
  <2> QED BY <2>1, QuietMessages
<1> QED BY <1>1, <1>2, <1>3, <1>4 DEF Proc

\* The message that ends the receive thread is sent when the flag is down
LEMMA SendStopKeeps ==
    ASSUME MPIInv, ScriptInv, UNCHANGED job, NEW r \in Proc, SendStop(r)
    PROVE  MPIInv'
<1> USE StopIsNoTask DEF MPIInv, receiveVars
<1> DEFINE old == net[r][r]
<1>0. /\ UNCHANGED <<job, todo, submitted, receiving, probed, m_RecvBuffer, fKeepReceiving, calling, aborted>>
      /\ ~ aborted /\ main[r] = "stop" /\ main' = [main EXCEPT ![r] = "join"]
      /\ net' = [net EXCEPT ![r][r] = Append(old, Stop)]
  BY DEF SendStop, MainTo
<1>1. old \in Seq(Message) /\ Stop \in Message
  BY DEF MPIKept, Message
<1>2. /\ net'[r][r] = Append(old, Stop) /\ net' \in [Proc -> [Proc -> Seq(Message)]]
      /\ \A p, q \in Proc : ~(p = r /\ q = r) => net'[p][q] = net[p][q]
  BY <1>0, <1>1, AppendOf DEF MPIKept
<1> HIDE DEF old
<1>3. MPIKept'
  BY <1>0, <1>2, SameTasks DEF MPIKept, Proc
<1>4. ASSUME NEW p \in Proc PROVE StopKept(p)'
  <2>1. ~ fKeepReceiving[r]
    BY <1>0 DEF StopKept
  <2>2. main'[r] = "join" /\ \A q \in Proc : q # r => main'[q] = main[q]
    BY <1>0 DEF MPIKept
  <2>3. ASSUME NEW q \in Proc, NEW i \in 1..Len(net'[p][q]), net'[p][q][i] = Stop
        PROVE  Stopping(p)'
    <3>1. CASE p = r
      BY <3>1, <2>2 DEF Stopping
    <3>2. CASE p # r
      BY <3>2, <2>2, <2>3, <1>2 DEF Stopping, StopKept
    <3> QED BY <3>1, <3>2
  <2>4. StopKept(p) /\ Stopping(r)'
    BY <2>2 DEF Stopping
  <2>5. Stopping(p) => Stopping(p)'
    BY <2>2, <2>4 DEF Stopping
  <2>6. Proc' = Proc
    BY <1>0 DEF Proc
  <2>7. /\ main'[p] \in {"stop", "join", "finish", "finalized"} => ~ fKeepReceiving'[p]
        /\ m_RecvBuffer'[p] = Stop => Stopping(p)'
        /\ receiving'[p] # "finish"
    BY <2>1, <2>2, <2>4, <2>5, <1>0 DEF StopKept
  <2> QED BY <2>3, <2>6, <2>7 DEF StopKept
<1>5. ASSUME NEW p \in Proc PROVE ProbeKept(p)'
  BY <1>0, <1>1, <1>2, AppendOf DEF ProbeKept, Proc, old
<1>6. TruncationNeedsTwoSenders'
  BY <1>0 DEF TruncationNeedsTwoSenders
<1>7. ASSUME NEW c \in Caller, NEW p \in Proc PROVE OrderKept(c, p)'
  <2>0. job \in Jobs /\ Written(c)' = Written(c) /\ Written(c) \in Int
    BY <1>0, NobodyWrites DEF ScriptInv
  <2>1. PICK k \in Int : k = Written(c) /\ Written(c)' = k
    BY <2>0
  <2>2. Chain(c, submitted[p], m_RecvBuffer[p], net[p], k)
    BY <2>1 DEF OrderKept
  <2>3. Chain(c, submitted[p], m_RecvBuffer[p], net'[p], k)
    <3>1. CASE p = r
      <4>1. net[r] \in [Proc -> Seq(Message)] /\ net'[r] = [net[r] EXCEPT ![r] = Append(net[r][r], Stop)]
        BY <1>0 DEF MPIKept, old
      <4>2. Stop \notin Of(c) /\ k <= k
        BY <2>0, NotOfAny
      <4>3. Chain(c, submitted[r], m_RecvBuffer[r], [net[r] EXCEPT ![r] = Append(net[r][r], Stop)], k)
        BY <3>1, <4>1, <4>2, <1>1, <2>0, <2>1, <2>2, ChainSend
      <4> QED BY <3>1, <4>1, <4>3
    <3>2. CASE p # r
      <4>1. net'[p] = net[p]
        BY <1>0, <3>2 DEF MPIKept
      <4> QED BY <4>1, <2>2
    <3> QED BY <3>1, <3>2
  <2>4. Chain(c, submitted'[p], m_RecvBuffer'[p], net'[p], k)
    BY <1>0, <2>3
  <2>5. k <= Written(c)' /\ Written(c)' \in Int
    BY <2>1
  <2>6. UNCHANGED job
    BY <1>0
  <2> HIDE DEF MPIInv
  <2> QED BY <2>1, <2>4, <2>5, <2>6, SameMessages
<1> QED BY <1>3, <1>4, <1>5, <1>6, <1>7 DEF Proc

\* A task is sent by its caller: the newest of its script
LEMMA MPISendKeeps ==
    ASSUME MPIInv, ScriptInv, UNCHANGED job, NEW b \in Caller, MPISend(b)
    PROVE  MPIInv'
<1> USE StopIsNoTask DEF MPIInv
<1> DEFINE t == Current(b)
           here == Home[b]
<1>0. /\ UNCHANGED <<job, todo, submitted, receiving, probed, m_RecvBuffer, fKeepReceiving, main, aborted>>
      /\ ~ aborted /\ calling[b] = "write"
      /\ \E a \in {"wait", "out"} : calling' = [calling EXCEPT ![b] = a]
      /\ net' = [net EXCEPT ![DestOf[t]][here] = Append(@, t)]
  BY DEF MPISend, receiveVars, endVars
<1>1. /\ Taken(b) \in 1..Len(Script[b]) /\ t = Script[b][Taken(b)] /\ t \in Task
  BY <1>0, CurrentIsATask DEF MPIKept
<1>2. /\ \A c \in Caller : Taken(c)' = Taken(c) /\ Taken(c) \in Nat
      /\ job \in Jobs
  BY <1>0, SameTasks DEF ScriptInv
<1>3. /\ t \in Of(b) /\ Position(b, t) = Taken(b) /\ \A c \in Caller \ {b} : t \notin Of(c)
  BY <1>1, <1>2, OnePosition
<1> HIDE DEF t
<1>4. t \in Message /\ t # Stop /\ here \in Proc
  <2>1. \A i \in 1..Len(job.script[b]) : Home[b] < job.size
    BY <1>2, TransportAssumption, Zenon
  <2>2. Home[b] \in Nat /\ job.size \in Nat
    BY <1>2, TransportAssumption
  <2>3. Taken(b) \in 1..Len(job.script[b])
    BY <1>1 DEF Script
  <2> QED BY <1>1, <2>1, <2>2, <2>3 DEF Message, Proc
<1> HIDE DEF here
<1>5. net' \in [Proc -> [Proc -> Seq(Message)]]
  <2>1. net \in [Proc -> [Proc -> Seq(Message)]]
    BY DEF MPIKept
  <2>2. \A p \in Proc : Append(net[p][here], t) \in Seq(Message)
    BY <1>4, <2>1, AppendOf
  <2> QED BY <1>0, <1>4, <2>1, <2>2
<1>6. ASSUME NEW p \in Proc
      PROVE  IF p = DestOf[t]
             THEN net'[p] = [net[p] EXCEPT ![here] = Append(net[p][here], t)]
             ELSE net'[p] = net[p]
  BY <1>0 DEF MPIKept
<1>7. ASSUME NEW p \in Proc, NEW q \in Proc
      PROVE  /\ net[p][q] \in Seq(Message)
             /\ net[p][q] # <<>> => net'[p][q] # <<>> /\ Head(net'[p][q]) = Head(net[p][q])
             /\ \A i \in 1..Len(net'[p][q]) :
                  net'[p][q][i] = Stop => i \in 1..Len(net[p][q]) /\ net[p][q][i] = Stop
  <2>1. net[p][q] \in Seq(Message) /\ net[p] \in [Proc -> Seq(Message)]
    BY DEF MPIKept
  <2>2. CASE p = DestOf[t] /\ q = here
    <3>1. net'[p][q] = Append(net[p][q], t)
      BY <1>4, <1>6, <2>1, <2>2
    <3> QED BY <2>1, <3>1, <1>4, AppendOf
  <2>3. CASE ~(p = DestOf[t] /\ q = here)
    <3>1. net'[p][q] = net[p][q]
      BY <1>6, <2>1, <2>3
    <3> QED BY <2>1, <3>1
  <2> QED BY <2>2, <2>3
<1>8. MPIKept'
  <2>1. \A c \in Caller : calling'[c] # "out" => Taken(c) # 0
    BY <1>0, <1>1 DEF MPIKept
  <2>2. calling' \in [Caller -> {"out", "write", "wait"}]
    BY <1>0 DEF MPIKept
  <2> QED BY <1>0, <1>2, <1>5, <2>1, <2>2 DEF MPIKept, Proc
<1>9. ASSUME NEW p \in Proc PROVE StopKept(p)'
  <2>1. \A q \in Proc : \A i \in 1..Len(net'[p][q]) : net'[p][q][i] = Stop => Stopping(p)
    BY <1>7 DEF StopKept
  <2> QED BY <1>0, <2>1 DEF StopKept, Stopping, Proc
<1>10. ASSUME NEW p \in Proc PROVE ProbeKept(p)'
  BY <1>0, <1>7 DEF ProbeKept, Proc
<1>11. TruncationNeedsTwoSenders'
  BY <1>0 DEF TruncationNeedsTwoSenders
<1>12. ASSUME NEW c \in Caller, NEW p \in Proc PROVE OrderKept(c, p)'
  <2>a. /\ Written(c) \in Int /\ Written(c)' \in Int /\ Written(c) <= Written(c)'
        /\ c = b => Written(c) < Written(c)' /\ Written(c)' = Taken(c)
    <3>1. /\ calling'[b] # "write" /\ \A d \in Caller \ {b} : calling'[d] = calling[d]
      BY <1>0 DEF MPIKept
    <3> QED BY <1>0, <1>2, <3>1 DEF Written
  <2>b. PICK k \in Int, l \in Int : k = Written(c) /\ l = Written(c)'
    BY <2>a
  <2>1. Chain(c, submitted[p], m_RecvBuffer[p], net[p], k)
    BY <2>b DEF OrderKept
  <2>2. Chain(c, submitted[p], m_RecvBuffer[p], net'[p], l)
    <3>1. CASE p = DestOf[t]
      <4>1. net[p] \in [Proc -> Seq(Message)] /\ net'[p] = [net[p] EXCEPT ![here] = Append(net[p][here], t)]
        BY <3>1, <1>6 DEF MPIKept
      <4>2. k <= l /\ (t \in Of(c) => here = Home[c] /\ k < l /\ Position(c, t) = l)
        BY <1>3, <2>a, <2>b DEF here
      <4>3. Chain(c, submitted[p], m_RecvBuffer[p], [net[p] EXCEPT ![here] = Append(net[p][here], t)], l)
        BY <4>1, <4>2, <1>2, <1>4, <2>1, ChainSend
      <4> QED BY <4>1, <4>3
    <3>2. CASE p # DestOf[t]
      <4>1. net'[p] = net[p]
        BY <3>2, <1>6
      <4>2. \A u : Upto(c, u, k) => Upto(c, u, l)
        BY <1>2, <2>a, <2>b, PositionOf DEF Upto
      <4> QED BY <2>1, <4>1, <4>2 DEF Chain
    <3> QED BY <3>1, <3>2
  <2>3. Chain(c, submitted'[p], m_RecvBuffer'[p], net'[p], l)
    BY <1>0, <2>2
  <2>4. l <= l
    OBVIOUS
  <2> QED BY <1>0, <2>b, <2>3, <2>4, SameMessages
<1> QED BY <1>8, <1>9, <1>10, <1>11, <1>12 DEF Proc

\* A set of processors with two members
LEMMA TwoMembers ==
    ASSUME job \in Jobs, NEW S \in SUBSET Proc, NEW p \in S, NEW q \in S, p # q
    PROVE  Cardinality(S) >= 2
<1>1. IsFiniteSet(Proc)
  <2>1. job.size \in Nat
    BY Scripts
  <2>2. 0 \in Int /\ job.size - 1 \in Int
    BY <2>1
  <2>3. IsFiniteSet(0..(job.size - 1))
    BY <2>2, FS_Interval
  <2> QED BY <2>3 DEF Proc
<1>2. IsFiniteSet(S) /\ Cardinality(S) \in Nat
  BY <1>1, FS_Subset, FS_CardinalityType
<1>3. IsFiniteSet({q}) /\ Cardinality({q}) = 1
  BY FS_Singleton
<1>4. IsFiniteSet({q} \cup {p}) /\ Cardinality({q} \cup {p}) = 2
  <2>1. /\ IsFiniteSet({q} \cup {p})
        /\ Cardinality({q} \cup {p}) = IF p \in {q} THEN Cardinality({q}) ELSE Cardinality({q}) + 1
    BY <1>3, FS_AddElement
  <2> QED BY <1>3, <2>1
<1>5. Cardinality({q} \cup {p}) <= Cardinality(S)
  BY <1>2, FS_Subset
<1> QED BY <1>2, <1>4, <1>5

\* The receive is too short only for a message that is not the one probed,
\* and that one is still the first of its sender
LEMMA MPIRecvKeeps ==
    ASSUME MPIInv, ScriptInv, UNCHANGED job, NEW r \in Proc, MPIRecv(r)
    PROVE  MPIInv'
<1> USE StopIsNoTask DEF MPIInv
<1>0. /\ UNCHANGED <<job, todo, submitted, probed, fKeepReceiving, main>>
      /\ ~ aborted /\ receiving[r] = "receive"
      /\ job \in Jobs /\ \A c \in Caller : Taken(c)' = Taken(c) /\ Taken(c) \in Nat
  <2>1. /\ UNCHANGED <<job, todo, submitted, probed, fKeepReceiving, main>>
        /\ ~ aborted /\ receiving[r] = "receive"
    BY DEF MPIRecv
  <2> QED BY <2>1, SameTasks DEF ScriptInv
<1>1. PICK q \in Heads(r) :
        LET m == Head(net[r][q]) IN
        IF Size(m) > Size(probed[r])
        THEN aborted' /\ UNCHANGED <<calling, net, receiving, m_RecvBuffer>>
        ELSE /\ net' = [net EXCEPT ![r][q] = Tail(@)]
             /\ m_RecvBuffer' = [m_RecvBuffer EXCEPT ![r] = m]
             /\ calling' = [c \in Caller |->
                  IF calling[c] = "wait" /\ Current(c) = m THEN "out" ELSE calling[c]]
             /\ receiving' = [receiving EXCEPT ![r] = "process"]
             /\ UNCHANGED aborted
  BY DEF MPIRecv, sendVars
<1> DEFINE m == Head(net[r][q])
<1>2. q \in Proc /\ net[r][q] # <<>> /\ net[r][q] \in Seq(Message) /\ m \in Message
      /\ net[r] \in [Proc -> Seq(Message)]
  <2>1. q \in Proc /\ net[r][q] # <<>>
    BY DEF Heads
  <2>2. net[r][q] \in Seq(Message) /\ net[r] \in [Proc -> Seq(Message)]
    BY <2>1 DEF MPIKept
  <2> QED BY <2>1, <2>2, TailOf
<1>3. CASE Size(m) > Size(probed[r])
  <2>1. aborted' /\ UNCHANGED <<calling, net, receiving, m_RecvBuffer>>
    BY <1>1, <1>3
  <2>2. MPIKept'
    BY <1>0, <2>1 DEF MPIKept, Proc
  <2>3. \A p \in Proc : StopKept(p)' /\ ProbeKept(p)'
    BY <1>0, <2>1 DEF StopKept, Stopping, ProbeKept, Proc
  <2>4. Cardinality(Heads(r)) >= 2
    <3>1. PICK s \in Proc : net[r][s] # <<>> /\ probed[r] = Head(net[r][s])
      BY <1>0 DEF ProbeKept
    <3>2. s # q
      <4>1. CASE s = q
        <5>1. Size(m) > Size(m)
          BY <1>3, <3>1, <4>1
        <5>2. Size(m) \in Nat
          BY <1>2, MPIAssumption DEF Size, Message
        <5> QED BY <5>1, <5>2
      <4> QED BY <4>1
    <3>3. {s, q} \subseteq Heads(r) /\ Heads(r) \subseteq Proc
      BY <1>2, <3>1 DEF Heads
    <3> QED BY <1>0, <3>2, <3>3, TwoMembers
  <2>5. TruncationNeedsTwoSenders'
    <3>1. Heads(r)' = Heads(r) /\ Proc' = Proc
      BY <1>0, <2>1 DEF Heads, Proc
    <3>2. receiving'[r] = "receive" /\ r \in Proc' /\ Cardinality(Heads(r)') >= 2
      BY <1>0, <2>1, <2>4, <3>1
    <3> QED BY <3>2 DEF TruncationNeedsTwoSenders
  <2>6. \A c \in Caller, p \in Proc : OrderKept(c, p)'
    BY <1>0, <2>1, QuietMessages, NobodyWrites
  <2> QED BY <2>2, <2>3, <2>5, <2>6, <1>0 DEF Proc
<1>4. CASE ~(Size(m) > Size(probed[r]))
  <2>1. /\ net' = [net EXCEPT ![r][q] = Tail(net[r][q])]
        /\ m_RecvBuffer' = [m_RecvBuffer EXCEPT ![r] = m]
        /\ calling' = [c \in Caller |->
             IF calling[c] = "wait" /\ Current(c) = m THEN "out" ELSE calling[c]]
        /\ receiving' = [receiving EXCEPT ![r] = "process"]
        /\ UNCHANGED aborted
    BY <1>1, <1>4
  <2>2. /\ m = net[r][q][1] /\ 1 \in 1..Len(net[r][q]) /\ Tail(net[r][q]) \in Seq(Message)
        /\ \A i \in 1..Len(Tail(net[r][q])) :
             i + 1 \in 1..Len(net[r][q]) /\ Tail(net[r][q])[i] = net[r][q][i + 1]
    BY <1>2, TailOf
  <2>3. /\ net'[r] = [net[r] EXCEPT ![q] = Tail(net[r][q])]
        /\ m_RecvBuffer'[r] = m /\ receiving'[r] = "process"
        /\ \A p \in Proc \ {r} : /\ net'[p] = net[p] /\ m_RecvBuffer'[p] = m_RecvBuffer[p]
                                 /\ receiving'[p] = receiving[p]
    BY <1>2, <2>1 DEF MPIKept
  <2> HIDE DEF m
  <2>4. MPIKept'
    <3>1. net' \in [Proc -> [Proc -> Seq(Message)]]
      BY <1>2, <2>1, <2>2 DEF MPIKept
    <3>2. calling' \in [Caller -> {"out", "write", "wait"}]
          /\ \A c \in Caller : calling'[c] # "out" => Taken(c) # 0
      BY <2>1 DEF MPIKept
    <3>3. m # None
      BY <1>2 DEF Message
    <3> QED BY <1>0, <1>2, <2>1, <2>3, <3>1, <3>2, <3>3 DEF MPIKept, Proc
  <2>5. ASSUME NEW p \in Proc PROVE StopKept(p)'
    <3>1. CASE p = r
      <4>1. m = Stop => Stopping(r)
        BY <1>2, <2>2 DEF StopKept
      <4>2. ASSUME NEW s \in Proc, NEW i \in 1..Len(net'[r][s]), net'[r][s][i] = Stop
            PROVE  Stopping(r)
        <5>1. CASE s = q
          <6>1. net'[r][s] = Tail(net[r][q])
            BY <1>2, <2>3, <5>1
          <6> QED BY <1>2, <2>2, <4>2, <6>1 DEF StopKept
        <5>2. CASE s # q
          <6>1. net'[r][s] = net[r][s]
            BY <1>2, <2>3, <5>2
          <6> QED BY <4>2, <6>1 DEF StopKept
        <5> QED BY <5>1, <5>2
      <4>3. /\ main[p] \in {"stop", "join", "finish", "finalized"} => ~ fKeepReceiving[p]
            /\ m_RecvBuffer'[p] = Stop => Stopping(p)
            /\ receiving'[p] # "finish"
        BY <2>3, <3>1, <4>1 DEF StopKept
      <4>4. Stopping(p)' = Stopping(p) /\ Proc' = Proc
        BY <1>0 DEF Stopping, Proc
      <4> QED BY <1>0, <3>1, <4>2, <4>3, <4>4 DEF StopKept
    <3>2. CASE p # r
      BY <1>0, <2>3, <3>2 DEF StopKept, Stopping, Proc
    <3> QED BY <3>1, <3>2
  <2>6. ASSUME NEW p \in Proc PROVE ProbeKept(p)'
    BY <1>0, <2>3 DEF ProbeKept, Proc
  <2>7. TruncationNeedsTwoSenders'
    BY <1>0, <2>1 DEF TruncationNeedsTwoSenders
  <2>8. ASSUME NEW c \in Caller, NEW p \in Proc PROVE OrderKept(c, p)'
    <3>0. PICK k \in Int : k = Written(c) /\ Written(c)' = k
      <4>1. calling'[c] = "write" <=> calling[c] = "write"
        BY <2>1
      <4> QED BY <1>0, <4>1 DEF Written
    <3>1. Chain(c, submitted[p], m_RecvBuffer[p], net[p], k)
      BY <3>0 DEF OrderKept
    <3>2. Chain(c, submitted'[p], m_RecvBuffer'[p], net'[p], k)
      <4>1. CASE p = r
        <5>1. Chain(c, submitted[p], Head(net[p][q]), [net[p] EXCEPT ![q] = Tail(net[p][q])], k)
          BY <1>0, <1>2, <3>1, <4>1, ChainReceive
        <5> QED BY <1>0, <2>3, <4>1, <5>1 DEF m
      <4>2. CASE p # r
        BY <1>0, <2>3, <3>1, <4>2
      <4> QED BY <4>1, <4>2
    <3> QED BY <1>0, <3>0, <3>2, SameMessages
  <2> QED BY <1>0, <2>4, <2>5, <2>6, <2>7, <2>8 DEF Proc
<1> QED BY <1>3, <1>4

\* The flag is down when the message that ends the thread is looked at
LEMMA ProcessMessageKeeps ==
    ASSUME MPIInv, ScriptInv, UNCHANGED job, NEW r \in Proc, ProcessMessage(r)
    PROVE  MPIInv'
<1> USE StopIsNoTask DEF MPIInv
<1> DEFINE m == m_RecvBuffer[r]
<1>0. /\ UNCHANGED <<job, todo, calling, net, probed, fKeepReceiving, main, aborted>>
      /\ ~ aborted /\ receiving[r] = "process"
      /\ job \in Jobs /\ \A c \in Caller : Taken(c)' = Taken(c) /\ Taken(c) \in Nat
      /\ receiving' = [receiving EXCEPT ![r] =
           IF m = Stop /\ fKeepReceiving[r] THEN "finish" ELSE "loop"]
      /\ submitted' = [submitted EXCEPT ![r] = IF m = Stop THEN submitted[r] ELSE Append(submitted[r], m)]
      /\ m_RecvBuffer' = [m_RecvBuffer EXCEPT ![r] = None]
  <2>1. UNCHANGED <<job, todo>>
    BY DEF ProcessMessage
  <2>2. \A c \in Caller : Taken(c)' = Taken(c) /\ Taken(c) \in Nat
    BY <2>1, SameTasks DEF ScriptInv
  <2> QED BY <2>1, <2>2 DEF ProcessMessage, ReceiverTo, sendVars, endVars, ScriptInv
<1>1. m \in Message /\ r \in Processor /\ submitted[r] \in Seq(Task)
  <2>1. r \in Processor
    BY <1>0, Scripts
  <2> QED BY <1>0, <2>1 DEF MPIKept
<1>2. receiving'[r] = "loop" /\ \A p \in Proc \ {r} : receiving'[p] = receiving[p]
  <2>1. m = Stop => ~ fKeepReceiving[r]
    BY DEF StopKept, Stopping
  <2> QED BY <1>0, <2>1 DEF MPIKept
<1>3. /\ submitted'[r] = IF m = Stop THEN submitted[r] ELSE Append(submitted[r], m)
      /\ m_RecvBuffer'[r] = None
      /\ \A p \in Proc \ {r} : submitted'[p] = submitted[p] /\ m_RecvBuffer'[p] = m_RecvBuffer[p]
  <2>1. Proc \subseteq Processor
    BY <1>0, Scripts
  <2> QED BY <1>0, <1>1, <2>1 DEF MPIKept
<1> HIDE DEF m
<1>4. MPIKept'
  <2>1. submitted' \in [Processor -> Seq(Task)]
    <3>1. m # Stop => Append(submitted[r], m) \in Seq(Task)
      BY <1>1, AppendOf DEF Message
    <3> QED BY <1>0, <1>1, <3>1 DEF MPIKept
  <2>2. receiving' \in [Proc -> {"loop", "probe", "receive", "process", "finish", "ended"}]
    BY <1>0 DEF MPIKept
  <2>3. \A p \in Proc : receiving'[p] = "process" => m_RecvBuffer'[p] # None
    <3>1. \A p \in Proc : receiving[p] = "process" => m_RecvBuffer[p] # None
      BY DEF MPIKept
    <3> HIDE DEF MPIInv
    <3> QED BY <3>1, <1>2, <1>3
  <2>4. m_RecvBuffer' \in [Proc -> Message \cup {None}]
    BY <1>0 DEF MPIKept
  <2>5. Proc' = Proc
    BY <1>0 DEF Proc
  <2> HIDE DEF MPIInv
  <2>6. MPIKept
    BY DEF MPIInv
  <2> QED BY <1>0, <2>1, <2>2, <2>3, <2>4, <2>5, <2>6 DEF MPIKept
<1>5. ASSUME NEW p \in Proc PROVE StopKept(p)' /\ ProbeKept(p)'
  BY <1>0, <1>2, <1>3 DEF StopKept, Stopping, ProbeKept, Proc
<1>6. TruncationNeedsTwoSenders'
  BY <1>0 DEF TruncationNeedsTwoSenders
<1>7. ASSUME NEW c \in Caller, NEW p \in Proc PROVE OrderKept(c, p)'
  <2>0. PICK k \in Int : k = Written(c) /\ Written(c)' = k
    BY <1>0 DEF Written
  <2>1. Chain(c, submitted[p], m_RecvBuffer[p], net[p], k)
    BY <2>0 DEF OrderKept
  <2>2. Chain(c, submitted'[p], m_RecvBuffer'[p], net'[p], k)
    <3>1. CASE p = r /\ m # Stop
      <4>1. m \in Task
        BY <1>1, <3>1 DEF Message
      <4>2. Chain(c, Append(submitted[r], m), None, net[r], k)
        BY <1>0, <1>1, <2>1, <3>1, <4>1, ChainProcess DEF m
      <4> QED BY <1>0, <1>3, <3>1, <4>2
    <3>2. CASE p = r /\ m = Stop
      <4>1. Chain(c, submitted[r], None, net[r], k)
        <5>1. submitted[r] \in Seq(Message) /\ m \in Message
          BY <1>1 DEF Message
        <5> QED BY <1>0, <2>1, <3>2, <5>1, ChainProcess DEF m
      <4> QED BY <1>0, <1>3, <3>2, <4>1
    <3>3. CASE p # r
      BY <1>0, <1>3, <2>1, <3>3
    <3> QED BY <3>1, <3>2, <3>3
  <2> QED BY <1>0, <2>0, <2>2, SameMessages
<1> QED BY <1>0, <1>4, <1>5, <1>6, <1>7 DEF Proc

-----------------------------------------------------------------------------
\* Every step of the threads over MPI keeps the invariant
LEMMA MPIKeeps ==
    ASSUME MPIInv, ScriptInv, UNCHANGED job, MPINext PROVE MPIInv' /\ ScriptInv'
<1>1. ASSUME NEW c \in Caller, MPISendTask(c) PROVE MPIInv' /\ ScriptInv'
  <2>1. todo[c] # <<>> /\ todo' = [todo EXCEPT ![c] = Tail(@)]
    BY <1>1 DEF MPISendTask
  <2> QED BY <1>1, <2>1, MPISendTaskKeeps, NextTask
<1>2. ASSUME NEW c \in Caller, MPISend(c) PROVE MPIInv' /\ ScriptInv'
  <2>1. UNCHANGED todo
    BY <1>2 DEF MPISend
  <2> QED BY <1>2, <2>1, MPISendKeeps, SameTasks
<1>3. ASSUME NEW p \in Proc, MPIReceiver(p) PROVE MPIInv' /\ ScriptInv'
  <2>1. UNCHANGED todo
    BY <1>3 DEF MPIReceiver, ReceiveMsgBlocking, MPIProbe, MPIRecv, ProcessMessage
  <2> QED BY <1>3, <2>1, LoopKeeps, MPIProbeKeeps, MPIRecvKeeps, ProcessMessageKeeps, SameTasks
          DEF MPIReceiver
<1>4. ASSUME NEW p \in Proc, MPIMain(p) PROVE MPIInv' /\ ScriptInv'
  <2>1. CASE SendStop(p)
    BY <2>1, SendStopKeeps, SameTasks DEF SendStop
  <2>2. CASE UnlockReceiveBlocking(p)
    BY <2>2, MainKeeps, SameTasks DEF UnlockReceiveBlocking
  <2>3. CASE JoinService(p) \/ LeaveBarrier(p)
    BY <2>3, MainKeeps, SameTasks DEF JoinService, LeaveBarrier
  <2>4. CASE JoinReceiver(p) \/ Finish(p)
    BY <2>4, MainKeeps, SameTasks DEF JoinReceiver, Finish
  <2> QED BY <1>4, <2>1, <2>2, <2>3, <2>4 DEF MPIMain
<1> QED BY <1>1, <1>2, <1>3, <1>4 DEF MPINext, MPICaller

\* Nor is it broken by a step of which MPI sees nothing
LEMMA MPIQuiet == ASSUME MPIInv, ScriptInv, UNCHANGED <<job, todo, submitted, mpiVars>>
                  PROVE  MPIInv' /\ ScriptInv'
<1> USE DEF mpiVars, sendVars, receiveVars, endVars, MPIInv
<1>1. ScriptInv' /\ \A c \in Caller : Taken(c)' = Taken(c)
  BY SameTasks
<1>2. MPIKept'
  BY <1>1 DEF MPIKept, Proc
<1>3. \A p \in Proc : StopKept(p)' /\ ProbeKept(p)'
  BY DEF StopKept, Stopping, ProbeKept, Proc
<1>4. TruncationNeedsTwoSenders'
  BY DEF TruncationNeedsTwoSenders, Heads, Proc
<1>5. \A c \in Caller, p \in Proc : OrderKept(c, p)'
  BY QuietMessages, NobodyWrites
<1> QED BY <1>1, <1>2, <1>3, <1>4, <1>5 DEF Proc

-----------------------------------------------------------------------------
(* The slots of the socket communication manager: the mutex of a slot      *)
(* belongs to its sender for as long as it sends, and to a caller while it *)
(* puts a buffer there.                                                    *)

SlotTypeOK ==
    /\ placing \in [Caller -> [at : {"out", "trying", "blocked", "placing"}, slot : Slot]]
    /\ messages \in [Proc -> [Slot -> Task \cup {Empty}]]
    /\ slotMutex \in [Proc -> [Slot -> Caller \cup {"sender", Free}]]
    /\ sender \in [Proc -> [Slot -> {"ready", "asleep", "waiting", "calling"}]]
    /\ sending \in [Proc -> [Slot -> Task \cup {Empty}]]

\* A sender keeps the mutex of its slot for as long as it has a message, and
\* a caller has the mutex of the slot it is about to fill
SenderHolds(p, k) ==
    sender[p][k] \in {"waiting", "calling"} =>
        slotMutex[p][k] = "sender" /\ messages[p][k] = sending[p][k]

CallerHolds(c) ==
    placing[c].at = "placing" /\ Home[c] \in Proc =>
        slotMutex[Home[c]][placing[c].slot] = c

SlotInv == /\ SlotTypeOK
           /\ \A p \in Proc, k \in Slot : SenderHolds(p, k)
           /\ \A c \in Caller : CallerHolds(c)

\* Slot 0 is a slot, and no caller is taken for a sender or for nobody
LEMMA Holders == /\ 0 \in Slot
                 /\ \A c \in Caller : c # "sender" /\ c # Free
                 /\ "sender" # Free
  BY SocketAssumption DEF Slot, Free

\* At the start every slot is free and empty
LEMMA SlotStart == SocketInit => SlotInv
<1> SUFFICES ASSUME SocketInit PROVE SlotInv
  OBVIOUS
<1>1. SlotTypeOK
  BY Holders DEF SocketInit, SlotTypeOK
<1>2. \A p \in Proc, k \in Slot : SenderHolds(p, k)
  BY DEF SocketInit, SenderHolds
<1>3. \A c \in Caller : CallerHolds(c)
  BY DEF SocketInit, CallerHolds
<1> QED BY <1>1, <1>2, <1>3 DEF SlotInv

\* A caller that enters SendTask begins with slot 0
LEMMA SendTaskKeepsSlots ==
    ASSUME SlotInv, UNCHANGED job, NEW c \in Caller, SocketSendTask(c) PROVE SlotInv'
<1> USE Holders DEF SlotInv, SocketSendTask, Proc
<1>1. SlotTypeOK'
  BY DEF SlotTypeOK
<1>2. \A p \in Proc, k \in Slot : SenderHolds(p, k)'
  BY DEF SenderHolds
<1>3. \A d \in Caller : CallerHolds(d)'
  <2>1. ASSUME NEW d \in Caller, placing'[d].at = "placing"
        PROVE  placing'[d] = placing[d]
    BY <2>1 DEF SlotTypeOK
  <2> QED BY <2>1 DEF CallerHolds
<1> QED BY <1>1, <1>2, <1>3

\* A caller gets the mutex of a slot, goes on to the next one or gives up
LEMMA TryLockKeepsSlots ==
    ASSUME SlotInv, UNCHANGED job, NEW c \in Caller, TryLock(c) PROVE SlotInv'
<1> DEFINE p == Home[c]
           k == placing[c].slot
<1> USE Holders DEF SlotInv, Proc
<1>1. CASE slotMutex[p][k] = Free
  <2>1. /\ slotMutex' = [slotMutex EXCEPT ![p][k] = c]
        /\ placing' = [placing EXCEPT ![c].at = "placing"]
        /\ UNCHANGED <<messages, sender, sending>>
    BY <1>1 DEF TryLock
  <2>2. SlotTypeOK'
    BY <2>1 DEF SlotTypeOK
  <2>3. \A q \in Proc, j \in Slot : SenderHolds(q, j)'
    BY <1>1, <2>1 DEF SenderHolds, SlotTypeOK
  <2>4. \A d \in Caller : CallerHolds(d)'
    BY <1>1, <2>1 DEF CallerHolds, SlotTypeOK
  <2> QED BY <2>2, <2>3, <2>4
<1>2. CASE slotMutex[p][k] # Free
  <2>1. PICK s \in Slot, a \in {"trying", "blocked"} :
            placing' = [placing EXCEPT ![c] = [at |-> a, slot |-> s]]
    BY <1>2 DEF TryLock
  <2>2. UNCHANGED <<slotMutex, messages, sender, sending>>
    BY <1>2 DEF TryLock
  <2>3. SlotTypeOK'
    BY <2>1, <2>2 DEF SlotTypeOK
  <2>4. \A q \in Proc, j \in Slot : SenderHolds(q, j)'
    BY <2>2 DEF SenderHolds
  <2>5. \A d \in Caller : CallerHolds(d)'
    BY <2>1, <2>2 DEF CallerHolds, SlotTypeOK
  <2> QED BY <2>3, <2>4, <2>5
<1> QED BY <1>1, <1>2

\* A caller that gave up waits for the mutex of one slot
LEMMA LockAnyKeepsSlots ==
    ASSUME SlotInv, UNCHANGED job, NEW c \in Caller, LockAny(c) PROVE SlotInv'
<1> USE Holders DEF SlotInv, LockAny, Proc
<1>1. SlotTypeOK'
  BY DEF SlotTypeOK
<1>2. \A p \in Proc, k \in Slot : SenderHolds(p, k)'
  BY DEF SenderHolds, SlotTypeOK
<1>3. \A d \in Caller : CallerHolds(d)'
  BY DEF CallerHolds, SlotTypeOK
<1> QED BY <1>1, <1>2, <1>3

\* The slot a caller fills is not the slot of a sender at work: it has the
\* mutex and the sender has not
LEMMA PlaceKeepsSlots ==
    ASSUME SlotInv, UNCHANGED job, NEW c \in Caller, Place(c), Current(c) \in Task
    PROVE  SlotInv'
<1> USE Holders DEF SlotInv, Place, Proc
<1>1. SlotTypeOK'
  BY ZenonT(60) DEF SlotTypeOK
<1>2. \A p \in Proc, k \in Slot : SenderHolds(p, k)'
  BY DEF SenderHolds, CallerHolds, SlotTypeOK
<1>3. \A d \in Caller : CallerHolds(d)'
  BY DEF CallerHolds, SlotTypeOK
<1> QED BY <1>1, <1>2, <1>3

\* A sender takes the buffer of its slot with the mutex, or falls asleep
LEMMA TakeMessageKeepsSlots ==
    ASSUME SlotInv, UNCHANGED job, NEW p \in Proc, NEW k \in Slot, TakeMessage(p, k)
    PROVE  SlotInv'
<1> USE Holders DEF SlotInv, Proc
<1>1. CASE messages[p][k] # Empty
  <2>1. /\ slotMutex[p][k] = Free
        /\ sender' = [sender EXCEPT ![p][k] = "waiting"]
        /\ slotMutex' = [slotMutex EXCEPT ![p][k] = "sender"]
        /\ sending' = [sending EXCEPT ![p][k] = messages[p][k]]
        /\ UNCHANGED <<placing, messages>>
    BY <1>1 DEF TakeMessage
  <2>2. SlotTypeOK'
    BY <2>1 DEF SlotTypeOK
  <2>3. \A q \in Proc, j \in Slot : SenderHolds(q, j)'
    BY <2>1 DEF SenderHolds, SlotTypeOK
  <2>4. \A d \in Caller : CallerHolds(d)'
    BY <2>1 DEF CallerHolds, SlotTypeOK
  <2> QED BY <2>2, <2>3, <2>4
<1>2. CASE messages[p][k] = Empty
  <2>1. /\ sender' = [sender EXCEPT ![p][k] = "asleep"]
        /\ UNCHANGED <<placing, messages, slotMutex, sending>>
    BY <1>2 DEF TakeMessage
  <2>2. SlotTypeOK'
    BY <2>1 DEF SlotTypeOK
  <2>3. \A q \in Proc, j \in Slot : SenderHolds(q, j)'
    BY <2>1 DEF SenderHolds, SlotTypeOK
  <2>4. \A d \in Caller : CallerHolds(d)'
    BY <2>1 DEF CallerHolds
  <2> QED BY <2>2, <2>3, <2>4
<1> QED BY <1>1, <1>2

\* A sender calls the daemon with the buffer in hand
LEMMA CallKeepsSlots ==
    ASSUME SlotInv, UNCHANGED job, NEW p \in Proc, NEW k \in Slot, Call(p, k)
    PROVE  SlotInv'
<1> USE Holders DEF SlotInv, Call, Proc
<1>1. SlotTypeOK'
  BY DEF SlotTypeOK
<1>2. \A q \in Proc, j \in Slot : SenderHolds(q, j)'
  BY DEF SenderHolds, SlotTypeOK
<1>3. \A d \in Caller : CallerHolds(d)'
  BY DEF CallerHolds
<1> QED BY <1>1, <1>2, <1>3

\* A buffer is transferred: the slot is emptied and its mutex released
LEMMA TransferKeepsSlots ==
    ASSUME SlotInv, UNCHANGED job, NEW p, NEW q \in Proc, NEW k \in Slot, Transfer(p, q, k)
    PROVE  SlotInv'
<1> USE Holders DEF SlotInv, Transfer, Answered, Proc
<1>1. SlotTypeOK'
  BY DEF SlotTypeOK
<1>2. \A r \in Proc, j \in Slot : SenderHolds(r, j)'
  BY DEF SenderHolds, SlotTypeOK
<1>3. \A d \in Caller : CallerHolds(d)'
  BY DEF CallerHolds, SenderHolds, SlotTypeOK
<1> QED BY <1>1, <1>2, <1>3

\* Nothing else touches the slots
LEMMA OtherwiseSlotsKept ==
    ASSUME SlotInv, UNCHANGED <<job, slotVars>> PROVE SlotInv'
  BY DEF SlotInv, SlotTypeOK, SenderHolds, CallerHolds, slotVars, Proc

-----------------------------------------------------------------------------
\* A caller that is in Send has taken a task from its script
SocketInv == /\ SlotInv /\ ScriptInv
             /\ \A c \in Caller : placing[c].at # "out" => Taken(c) # 0

\* The invariant of the socket manager holds at the start
LEMMA SocketStart == TransportInit /\ SocketInit => SocketInv
<1> SUFFICES ASSUME TransportInit, SocketInit PROVE SocketInv
  OBVIOUS
<1>1. \A c \in Caller : placing[c].at = "out"
  BY DEF SocketInit
<1> QED BY <1>1, SlotStart, ScriptStart DEF SocketInv

\* Every step of the threads over sockets keeps the invariant
LEMMA SocketKeeps == ASSUME SocketInv, UNCHANGED job, SocketNext PROVE SocketInv'
<1> USE DEF SocketInv
<1>1. ASSUME NEW c \in Caller, SocketSendTask(c) PROVE SocketInv'
  <2>1. todo[c] # <<>> /\ todo' = [todo EXCEPT ![c] = Tail(@)]
    BY <1>1 DEF SocketSendTask
  <2>2. /\ ScriptInv' /\ Taken(c)' # 0 /\ \A d \in Caller \ {c} : Taken(d)' = Taken(d)
    BY <2>1, NextTask
  <2>3. \A d \in Caller \ {c} : placing'[d] = placing[d]
    BY <1>1 DEF SocketSendTask, SlotInv, SlotTypeOK
  <2> QED BY <1>1, <2>2, <2>3, SendTaskKeepsSlots
<1>2. ASSUME UNCHANGED todo, SlotInv',
             \A c \in Caller : placing'[c].at # "out" => placing[c].at # "out"
      PROVE  SocketInv'
  BY <1>2, SameTasks
<1>3. ASSUME NEW c \in Caller, TryLock(c) \/ LockAny(c) PROVE SocketInv'
  <2>1. SlotInv' /\ UNCHANGED todo
    BY <1>3, TryLockKeepsSlots, LockAnyKeepsSlots DEF TryLock, LockAny
  <2>2. \A d \in Caller : placing'[d].at # "out" => placing[d].at # "out"
    BY <1>3 DEF TryLock, LockAny, SlotInv, SlotTypeOK
  <2> QED BY <1>2, <2>1, <2>2
<1>4. ASSUME NEW c \in Caller, Place(c) PROVE SocketInv'
  <2>1. Current(c) \in Task
    BY <1>4, CurrentIsATask DEF Place
  <2>2. SlotInv' /\ UNCHANGED todo
    BY <1>4, <2>1, PlaceKeepsSlots DEF Place
  <2>3. \A d \in Caller : placing'[d].at # "out" => placing[d].at # "out"
    BY <1>4 DEF Place, SlotInv, SlotTypeOK
  <2> QED BY <1>2, <2>2, <2>3
<1>5. ASSUME NEW p \in Proc, NEW k \in Slot, SocketSender(p, k) PROVE SocketInv'
  <2>1. SlotInv' /\ UNCHANGED <<todo, placing>>
    BY <1>5, TakeMessageKeepsSlots, CallKeepsSlots DEF SocketSender, TakeMessage, Call
  <2> QED BY <1>2, <2>1
<1>6. ASSUME NEW p \in Proc, SocketReceiver(p) PROVE SocketInv'
  <2>1. UNCHANGED <<todo, placing, slotVars>>
    BY <1>6 DEF SocketReceiver, AcceptEnvelope, NotifyAll, slotVars
  <2> QED BY <1>2, <2>1, OtherwiseSlotsKept
<1>7. ASSUME NEW p \in Proc, SocketManager(p) PROVE SocketInv'
  <2>1. CASE \E q \in Proc, k \in Slot : Transfer(p, q, k)
    <3>1. SlotInv' /\ UNCHANGED <<todo, placing>>
      BY <2>1, TransferKeepsSlots DEF Transfer
    <3> QED BY <1>2, <3>1
  <2>2. CASE Probe(p) \/ Doze(p) \/ GetCount(p) \/ Recv(p) \/ SubmitReceived(p)
    <3>1. UNCHANGED <<todo, placing, slotVars>>
      BY <2>2 DEF Probe, Doze, GetCount, Recv, SubmitReceived, slotVars
    <3> QED BY <1>2, <3>1, OtherwiseSlotsKept
  <2> QED BY <1>7, <2>1, <2>2 DEF SocketManager
<1> QED BY <1>1, <1>3, <1>4, <1>5, <1>6, <1>7 DEF SocketNext, SocketCaller

-----------------------------------------------------------------------------
(* The three transports together                                           *)

\* Nothing was ever done with files
FilesEmpty == \A p \in Proc : names[p] = <<>> /\ working[p].at # "crashed"

\* A transport that is not used stays as it was
TransportsInv ==
    /\ ScriptInv /\ SlotInv
    /\ kind = "socket" => SocketInv
    /\ IF kind = "mpi" THEN MPIInv ELSE ~ aborted /\ \A p \in Proc : receiving[p] # "finish"
    /\ IF kind = "file" THEN FileTyped /\ (overrun \/ FileInv) ELSE FilesEmpty

\* The invariant holds at the start
LEMMA TransportsStart == Init => TransportsInv
<1> SUFFICES ASSUME Init PROVE TransportsInv
  OBVIOUS
<1>1. ScriptInv /\ SlotInv /\ SocketInv /\ MPIInv /\ FileInv
  BY ScriptStart, SlotStart, SocketStart, MPIStart, FileOrderStart DEF Init
<1>2. ~ aborted /\ \A p \in Proc : receiving[p] # "finish"
  BY DEF Init, MPIInit
<1>3. FilesEmpty /\ FileTyped
  BY TypedStart DEF Init, FileInit, FilesEmpty, Idle
<1> QED BY <1>1, <1>2, <1>3 DEF TransportsInv

\* The transports a job does not use are left alone
LEMMA OthersKept ==
    ASSUME TransportsInv, UNCHANGED job
    PROVE  /\ UNCHANGED socketVars => SlotInv'
           /\ UNCHANGED mpiVars /\ kind # "mpi" => ~ aborted' /\ \A p \in Proc : receiving'[p] # "finish"
           /\ UNCHANGED fileVars /\ kind # "file" => FilesEmpty'
           /\ Proc' = Proc /\ kind' = kind
<1>1. UNCHANGED socketVars => SlotInv'
  BY OtherwiseSlotsKept DEF TransportsInv, socketVars
<1>2. UNCHANGED mpiVars /\ kind # "mpi" => ~ aborted' /\ \A p \in Proc : receiving'[p] # "finish"
  BY DEF TransportsInv, mpiVars, receiveVars, endVars
<1>3. UNCHANGED fileVars /\ kind # "file" => FilesEmpty'
  BY DEF TransportsInv, FilesEmpty, fileVars, Proc
<1> QED BY <1>1, <1>2, <1>3 DEF Proc, kind

\* A step that leaves the files alone keeps their types
LEMMA FilesAlone ==
    ASSUME FileTyped, UNCHANGED <<job, submitted, fileVars>> PROVE FileTyped'
<1>1. Proc' = Proc
  BY DEF Proc
<1> QED BY <1>1 DEF FileTyped, fileVars, Work, ListLine, Names

\* Every step is one of the transport the job uses
LEMMA StepOfOne ==
    ASSUME Next
    PROVE  \/ Only("socket") /\ SocketNext
           \/ Only("mpi") /\ MPINext
           \/ Only("file") /\ FileNext
<1>1. ASSUME NEW c \in Caller, CallerStep(c)
      PROVE  \/ Only("socket") /\ SocketNext
             \/ Only("mpi") /\ MPINext
             \/ Only("file") /\ FileNext
  BY <1>1, Zenon DEF CallerStep, SocketNext, MPINext, FileNext
<1>2. ASSUME NEW p \in Proc, ProcessorStep(p)
      PROVE  \/ Only("socket") /\ SocketNext
             \/ Only("mpi") /\ MPINext
             \/ Only("file") /\ FileNext
  BY <1>2, Zenon DEF ProcessorStep, SocketNext, MPINext, FileNext
<1>3. ASSUME NEW p \in Proc, NEW k \in Slot, SenderStep(p, k)
      PROVE  Only("socket") /\ SocketNext
  BY <1>3, Zenon DEF SenderStep, SocketNext
<1> QED BY <1>1, <1>2, <1>3, Zenon DEF Next

\* And no step breaks it
LEMMA TransportsStep == TransportsInv /\ [Next]_vars => TransportsInv'
<1> SUFFICES ASSUME TransportsInv, [Next]_vars PROVE TransportsInv'
  OBVIOUS
<1>1. CASE Only("socket") /\ SocketNext
  <2>1. kind = "socket" /\ UNCHANGED <<job, mpiVars, fileVars>>
    BY <1>1 DEF Only
  <2>2. SocketInv'
    BY <1>1, <2>1, SocketKeeps DEF TransportsInv
  <2> QED BY <2>1, <2>2, OthersKept DEF TransportsInv, SocketInv
<1>2. CASE Only("mpi") /\ MPINext
  <2>1. kind = "mpi" /\ UNCHANGED <<job, socketVars, fileVars>>
    BY <1>2 DEF Only
  <2>2. MPIInv' /\ ScriptInv'
    BY <1>2, <2>1, MPIKeeps DEF TransportsInv
  <2> QED BY <2>1, <2>2, OthersKept DEF TransportsInv
<1>3. CASE Only("file") /\ FileNext
  <2>1. kind = "file" /\ UNCHANGED <<job, socketVars, mpiVars>>
    BY <1>3 DEF Only
  <2>2. overrun' \/ FileInv'
    BY <1>3, <2>1, FileKeeps, OverrunStays DEF TransportsInv
  <2>3. FileTyped' /\ ScriptInv'
    BY <1>3, <2>1, FileTypesKeep DEF TransportsInv
  <2> QED BY <2>1, <2>2, <2>3, OthersKept DEF TransportsInv
<1>4. CASE UNCHANGED vars
  <2>1. UNCHANGED <<job, todo, submitted, socketVars, mpiVars, fileVars>>
    BY <1>4 DEF vars
  <2>2. ScriptInv' /\ SlotInv' /\ \A c \in Caller : Taken(c)' = Taken(c)
    BY <2>1, SameTasks, OthersKept DEF TransportsInv
  <2>3. kind = "socket" => SocketInv'
    BY <2>1, <2>2 DEF TransportsInv, SocketInv, socketVars, slotVars
  <2>4. kind = "mpi" => MPIInv'
    BY <2>1, MPIQuiet DEF TransportsInv
  <2>5. kind = "file" => FileTyped' /\ (overrun' \/ FileInv')
    <3>1. FileInv => FileInv'
      BY <2>1, FileQuiet
    <3>2. FileTyped => FileTyped'
      BY <2>1, FilesAlone
    <3> QED BY <2>1, <3>1, <3>2, OverrunStays DEF TransportsInv
  <2> QED BY <2>1, <2>2, <2>3, <2>4, <2>5, OthersKept DEF TransportsInv
<1> QED BY <1>1, <1>2, <1>3, <1>4, StepOfOne

\* What the invariant says of each transport
LEMMA TransportsPromise ==
    TransportsInv => /\ SendersKeepTheirMessage /\ StopIsUnderstood
                     /\ TruncationNeedsTwoSenders /\ OnlyEndedFilesAreRead
                     /\ MPIAndFilesKeepOrder
<1> SUFFICES ASSUME TransportsInv
             PROVE  /\ SendersKeepTheirMessage /\ StopIsUnderstood
                    /\ TruncationNeedsTwoSenders /\ OnlyEndedFilesAreRead
                    /\ MPIAndFilesKeepOrder
  OBVIOUS
<1>0. job \in Jobs /\ kind \in {"socket", "mpi", "file"}
  BY Scripts DEF TransportsInv, ScriptInv
<1>1. SendersKeepTheirMessage
  BY DEF TransportsInv, SlotInv, SenderHolds, SendersKeepTheirMessage
<1>2. StopIsUnderstood /\ TruncationNeedsTwoSenders
  BY DEF TransportsInv, MPIInv, StopKept, StopIsUnderstood, TruncationNeedsTwoSenders
<1>3. OnlyEndedFilesAreRead
  <2>1. CASE kind = "file"
    <3>1. FileInv => OnlyEndedFilesAreRead
      BY NumbersAreEnough DEF FileInv
    <3> QED BY <2>1, <3>1 DEF TransportsInv, OnlyEndedFilesAreRead
  <2>2. CASE kind # "file"
    BY <2>2 DEF TransportsInv, FilesEmpty, OnlyEndedFilesAreRead
  <2> QED BY <2>1, <2>2
<1>4. MPIAndFilesKeepOrder
  <2>1. CASE kind = "file"
    <3>1. FileInv => InSequence
      BY <1>0, OrderOfFiles DEF FileInv
    <3> QED BY <2>1, <3>1 DEF TransportsInv, MPIAndFilesKeepOrder
  <2>2. CASE kind = "mpi"
    <3>1. \A c \in Caller, p \in Proc : InOrder(c, submitted[p])
      BY <2>2 DEF TransportsInv, MPIInv, OrderKept, Chain
    <3>2. InSequence
      BY <1>0, <3>1, OrderIsEnough
    <3> QED BY <3>2 DEF MPIAndFilesKeepOrder
  <2> QED BY <1>0, <2>1, <2>2 DEF MPIAndFilesKeepOrder
<1> QED BY <1>1, <1>2, <1>3, <1>4

-----------------------------------------------------------------------------
\* The buffer a sender thread of the socket manager has in hand stays in its
\* slot until it has sent it: it keeps the mutex of the slot while it sends.
THEOREM SlotsAreSafe == Spec => []SendersKeepTheirMessage
<1>1. TransportsInv => SendersKeepTheirMessage
  BY TransportsPromise
<1> QED BY <1>1, TransportsStart, TransportsStep, PTL DEF Spec

\* The message that ends the receive thread over MPI comes when its flag is
\* down, so that it is never taken for a broken one.
THEOREM StopNeverConfused == Spec => []StopIsUnderstood
<1>1. TransportsInv => StopIsUnderstood
  BY TransportsPromise
<1> QED BY <1>1, TransportsStart, TransportsStep, PTL DEF Spec

\* MPI aborts on a receive that is too short only when messages of two senders
\* are there: the probe and the receive name no sender.
THEOREM OneSenderIsSafe == Spec => []TruncationNeedsTwoSenders
<1>1. TransportsInv => TruncationNeedsTwoSenders
  BY TransportsPromise
<1> QED BY <1>1, TransportsStart, TransportsStep, PTL DEF Spec

\* Until a processor takes a number that is not free for messages, the files a
\* list names are ended, nobody fills them any more, and no reader crashes.
THEOREM FilesAreSafe == Spec => []OnlyEndedFilesAreRead
<1>1. TransportsInv => OnlyEndedFilesAreRead
  BY TransportsPromise
<1> QED BY <1>1, TransportsStart, TransportsStep, PTL DEF Spec

\* Over MPI, and over files until a processor takes a number that is not free for
\* messages, the tasks one thread sends to one processor are submitted there in
\* the order it sent them.
THEOREM OrderIsKept == Spec => []MPIAndFilesKeepOrder
<1>1. TransportsInv => MPIAndFilesKeepOrder
  BY TransportsPromise
<1> QED BY <1>1, TransportsStart, TransportsStep, PTL DEF Spec

-----------------------------------------------------------------------------
(* What has been sent and what has arrived.                                *)

\* A task is sent when its caller has taken it from its script
SentDef == \A t : t \in Sent <=> \E c \in Caller : t \in Of(c) /\ Position(c, t) <= Taken(c)
\* Sent as the scripts tell it
LEMMA SentIs == ScriptInv => SentDef
<1> SUFFICES ASSUME ScriptInv PROVE SentDef
  OBVIOUS
<1>1. ASSUME NEW c \in Caller, NEW t
      PROVE  t \in Elements(Script[c]) \ Elements(todo[c])
               <=> t \in Of(c) /\ Position(c, t) <= Taken(c)
  <2>1. /\ Len(Script[c]) \in Nat /\ Len(todo[c]) \in Nat /\ Taken(c) \in Nat
        /\ Len(todo[c]) = Len(Script[c]) - Taken(c)
        /\ \A i \in 1..Len(todo[c]) : todo[c][i] = Script[c][Taken(c) + i]
    <3>1. Script[c] \in Seq(Task) /\ todo[c] \in Seq(Task) /\ Taken(c) \in Nat
      BY Scripts DEF ScriptInv
    <3> QED BY <3>1 DEF ScriptInv, Taken
  <2>2. ASSUME t \in Of(c), t \in Elements(todo[c]) PROVE ~ (Position(c, t) <= Taken(c))
    <3>1. PICK i \in 1..Len(todo[c]) : t = todo[c][i]
      BY <2>2 DEF Elements
    <3>2. Taken(c) + i \in 1..Len(Script[c]) /\ t = Script[c][Taken(c) + i]
      BY <2>1, <3>1
    <3>3. Position(c, t) = Taken(c) + i
      BY <3>2, OnePosition DEF ScriptInv
    <3> QED BY <2>1, <3>3
  <2>3. ASSUME t \in Of(c), ~ (Position(c, t) <= Taken(c)) PROVE t \in Elements(todo[c])
    <3>1. Position(c, t) \in 1..Len(Script[c]) /\ Script[c][Position(c, t)] = t
      BY <2>3, PositionOf DEF ScriptInv
    <3>2. PICK i \in 1..Len(todo[c]) : Position(c, t) = Taken(c) + i
      <4>1. Position(c, t) - Taken(c) \in 1..Len(todo[c])
        BY <2>1, <2>3, <3>1
      <4> QED BY <2>1, <3>1, <4>1
    <3>3. todo[c][i] = t
      BY <2>1, <3>1, <3>2
    <3> QED BY <3>3 DEF Elements
  <2>4. t \in Elements(Script[c]) <=> t \in Of(c)
    BY DEF Of
  <2> QED BY <2>2, <2>3, <2>4
<1> QED BY <1>1 DEF Sent, SentDef

\* The task a caller takes is a new one
LEMMA SendsOne ==
    ASSUME ScriptInv, UNCHANGED job, NEW c \in Caller, todo[c] # <<>>,
           todo' = [todo EXCEPT ![c] = Tail(@)]
    PROVE  /\ Sent' = Sent \cup {Head(todo[c])} /\ Head(todo[c]) \notin Sent
           /\ Head(todo[c]) \in Task /\ Head(todo[c]) \in Of(c)
           /\ Current(c)' = Head(todo[c])
           /\ \A d \in Caller \ {c} : Current(d)' = Current(d)
<1> DEFINE t == Head(todo[c])
<1>1. /\ ScriptInv' /\ Taken(c)' = Taken(c) + 1 /\ Taken(c)' # 0
      /\ Taken(c)' \in 1..Len(Script[c])
      /\ Script[c][Taken(c)'] = t /\ t \in Task
      /\ \A d \in Caller \ {c} : Taken(d)' = Taken(d)
  BY NextTask
<1>2. /\ t \in Of(c) /\ Position(c, t) = Taken(c)' /\ \A d \in Caller \ {c} : t \notin Of(d)
  BY <1>1, OnePosition DEF ScriptInv
<1>3. /\ Script' = Script /\ \A d : Of(d)' = Of(d) /\ \A s : Position(d, s)' = Position(d, s)
  BY DEF Script, Of, Elements, Position
<1>4. \A s : s \in Sent' <=> \E d \in Caller : s \in Of(d) /\ Position(d, s) <= Taken(d)'
  <2>1. ScriptInv' => SentDef'
    BY SentIs, PTL
  <2> QED BY <1>1, <1>3, <2>1 DEF SentDef
<1> HIDE DEF t
<1>5. Taken(c) \in Nat /\ \A d \in Caller : \A s \in Of(d) : Position(d, s) \in Int
  BY PositionOf DEF ScriptInv
<1>6. t \notin Sent
  BY <1>1, <1>2, <1>5, SentIs DEF SentDef
<1>7. ASSUME NEW s PROVE s \in Sent' <=> s \in Sent \/ s = t
  <2>1. ASSUME NEW d \in Caller, s \in Of(d)
        PROVE  Position(d, s) <= Taken(d)' <=> Position(d, s) <= Taken(d) \/ s = t
    <3>1. CASE d # c
      BY <1>1, <1>2, <2>1, <3>1
    <3>2. CASE d = c
      <4>1. Position(c, s) = Taken(c)' => s = t
        <5>1. Script[c][Position(c, s)] = s
          BY <2>1, <3>2, PositionOf DEF ScriptInv
        <5> QED BY <1>1, <5>1
      <4> QED BY <1>1, <1>2, <1>5, <2>1, <3>2, <4>1
    <3> QED BY <3>1, <3>2
  <2>2. t \in Sent'
    BY <1>1, <1>2, <1>4, <1>5
  <2> QED BY <1>4, <2>1, <2>2, SentIs DEF SentDef
<1>8. Sent' = Sent \cup {t}
  BY <1>7
<1>9. Current(c)' = t /\ \A d \in Caller \ {c} : Current(d)' = Current(d)
  <2>1. \A d : Current(d) = Script[d][Taken(d)] /\ Current(d)' = Script'[d][Taken(d)']
    BY DEF Current, Taken
  <2> QED BY <1>1, <1>3, <2>1
<1> QED BY <1>1, <1>2, <1>6, <1>8, <1>9 DEF t

\* No task is taken
LEMMA SendsNone == ASSUME UNCHANGED <<job, todo>>
                   PROVE  Sent' = Sent /\ \A c : Current(c)' = Current(c)
  BY DEF Sent, Current, Script, Elements

\* What a caller is sending was taken by it and by no other
LEMMA CurrentIsSent ==
    ASSUME ScriptInv, NEW c \in Caller, Taken(c) # 0
    PROVE  /\ Current(c) \in Sent /\ Current(c) \in Of(c) /\ Current(c) \in Task
           /\ \A d \in Caller \ {c} : Taken(d) # 0 => Current(d) # Current(c)
<1>1. \A d \in Caller : Taken(d) # 0 => /\ Current(d) = Script[d][Taken(d)]
                                        /\ Taken(d) \in 1..Len(Script[d])
  BY CurrentIsATask
<1>2. /\ Current(c) \in Of(c) /\ Position(c, Current(c)) = Taken(c)
      /\ \A d \in Caller \ {c} : Current(c) \notin Of(d)
  BY <1>1, OnePosition DEF ScriptInv
<1>3. Current(c) \in Sent
  <2>1. Position(c, Current(c)) <= Taken(c)
    BY <1>2 DEF ScriptInv
  <2> QED BY <1>2, <2>1, SentIs DEF SentDef
<1>4. \A d \in Caller : Taken(d) # 0 => Current(d) \in Of(d)
  BY <1>1, OnePosition DEF ScriptInv
<1> QED BY <1>2, <1>3, <1>4, CurrentIsATask

\* What is sent is of the tasks
LEMMA SentAreTasks == ASSUME ScriptInv PROVE Sent \subseteq Task
  BY SentIs, PositionOf DEF ScriptInv, SentDef

\* A sequence that holds nothing twice
Once(s) == \A i, j \in 1..Len(s) : s[i] = s[j] => i = j

\* A sequence of tasks that were sent, in the order of every caller
LEMMA OrderedIsOnce ==
    ASSUME ScriptInv, NEW s, Len(s) \in Nat, \A c \in Caller : InOrder(c, s),
           Elements(s) \subseteq Sent
    PROVE  Once(s)
<1> SUFFICES ASSUME NEW i \in 1..Len(s), NEW j \in 1..Len(s), s[i] = s[j], i # j PROVE FALSE
  BY DEF Once
<1>1. PICK c \in Caller : s[i] \in Of(c)
  BY SentIs DEF Elements, SentDef
<1>2. Position(c, s[i]) \in Int
  BY <1>1, PositionOf DEF ScriptInv
<1>3. Before(c, s[i], s[j]) \/ Before(c, s[j], s[i])
  BY DEF InOrder
<1> QED BY <1>1, <1>2, <1>3 DEF Before

-----------------------------------------------------------------------------
(* The steps of Delivery.                                                  *)

\* How often a sequence that holds nothing twice holds t
LEMMA CountOf ==
    ASSUME NEW s, Len(s) \in Nat, Once(s), NEW t
    PROVE  Cardinality({i \in 1..Len(s) : s[i] = t}) = IF t \in Elements(s) THEN 1 ELSE 0
<1> DEFINE S == {i \in 1..Len(s) : s[i] = t}
<1>1. CASE t \in Elements(s)
  <2>1. PICK k \in 1..Len(s) : s[k] = t
    BY <1>1 DEF Elements
  <2>2. S = {k}
    BY <2>1 DEF Once
  <2> QED BY <1>1, <2>2, FS_Singleton
<1>2. CASE t \notin Elements(s)
  <2>1. S = {}
    BY <1>2 DEF Elements
  <2> QED BY <1>2, <2>1, FS_EmptySet
<1> QED BY <1>1, <1>2

\* Two sequences joined hold what either holds
LEMMA ElementsOfConcat ==
    ASSUME NEW s \in Seq(Task), NEW t \in Seq(Task)
    PROVE  Elements(s \o t) = Elements(s) \cup Elements(t)
<1>1. /\ Len(s) \in Nat /\ Len(t) \in Nat /\ Len(s \o t) = Len(s) + Len(t)
      /\ \A i \in 1..Len(s) : (s \o t)[i] = s[i]
      /\ \A i \in 1..Len(t) : (s \o t)[Len(s) + i] = t[i]
      /\ \A i \in 1..Len(s \o t) : i \in 1..Len(s) \/ \E j \in 1..Len(t) : i = Len(s) + j
  BY ConcatOf
<1>2. ASSUME NEW x \in Elements(s \o t) PROVE x \in Elements(s) \cup Elements(t)
  BY <1>1 DEF Elements
<1>3. ASSUME NEW i \in 1..Len(s) PROVE s[i] \in Elements(s \o t)
  <2>1. i \in 1..Len(s \o t)
    BY <1>1
  <2> QED BY <1>1, <2>1 DEF Elements
<1>4. ASSUME NEW i \in 1..Len(t) PROVE t[i] \in Elements(s \o t)
  <2>1. Len(s) + i \in 1..Len(s \o t)
    BY <1>1
  <2> QED BY <1>1, <2>1 DEF Elements
<1> QED BY <1>2, <1>3, <1>4 DEF Elements

\* Two sequences that hold nothing twice when joined have nothing in common
LEMMA ConcatOnce ==
    ASSUME NEW s \in Seq(Task), NEW t \in Seq(Task), Once(s \o t)
    PROVE  Elements(s) \cap Elements(t) = {}
<1>1. /\ Len(s) \in Nat /\ Len(t) \in Nat /\ Len(s \o t) = Len(s) + Len(t)
      /\ \A i \in 1..Len(s) : (s \o t)[i] = s[i]
      /\ \A i \in 1..Len(t) : (s \o t)[Len(s) + i] = t[i]
  BY ConcatOf
<1>2. ASSUME NEW i \in 1..Len(s), NEW j \in 1..Len(t), s[i] = t[j] PROVE FALSE
  <2>1. i \in 1..Len(s \o t) /\ Len(s) + j \in 1..Len(s \o t) /\ i # Len(s) + j
    BY <1>1
  <2> QED BY <1>1, <1>2, <2>1 DEF Once
<1> QED BY <1>2 DEF Elements

\* What was submitted was sent there, and nothing twice
Delivered(p) == /\ Once(submitted[p])
                /\ \A t \in Elements(submitted[p]) : t \in Sent /\ DestOf[t] \in {p, D!Everyone}

\* Submitting tasks that were sent there, none of them a second time, is the
\* arrival of Delivery
LEMMA SubmitIsArrive ==
    ASSUME submitted \in [Processor -> Seq(Task)], NEW p \in Processor, NEW s \in Seq(Task),
           submitted' = [submitted EXCEPT ![p] = @ \o s], Sent' = Sent, Sent \subseteq Task,
           Delivered(p), Once(submitted'[p]),
           \A t \in Elements(s) : t \in Sent /\ DestOf[t] \in {p, D!Everyone}
    PROVE  D!Arrive(p)
<1>1. /\ submitted[p] \in Seq(Task) /\ submitted'[p] = submitted[p] \o s
      /\ \A q \in Processor \ {p} : submitted'[q] = submitted[q]
  OBVIOUS
<1>2. /\ Elements(submitted'[p]) = Elements(submitted[p]) \cup Elements(s)
      /\ Elements(submitted[p]) \cap Elements(s) = {}
      /\ Len(submitted[p]) \in Nat /\ Len(submitted'[p]) \in Nat
  BY <1>1, ElementsOfConcat, ConcatOnce, ConcatOf
<1> DEFINE ts == Elements(s)
           Count(x, t) == Cardinality({i \in 1..Len(x) : x[i] = t})
<1>3. ASSUME NEW t
      PROVE  /\ Count(submitted[p], t) = IF t \in Elements(submitted[p]) THEN 1 ELSE 0
             /\ Count(submitted'[p], t) = IF t \in Elements(submitted'[p]) THEN 1 ELSE 0
  <2>1. ASSUME NEW x, Len(x) \in Nat, Once(x)
        PROVE  Count(x, t) = IF t \in Elements(x) THEN 1 ELSE 0
    BY <2>1, CountOf
  <2> HIDE DEF Count
  <2>2. Once(submitted[p])
    BY DEF Delivered
  <2> QED BY <1>2, <2>1, <2>2
<1> HIDE DEF Count
<1>4. /\ Arrived = [q \in Processor |-> [t \in Task |-> Count(submitted[q], t)]]
      /\ Arrived' = [q \in Processor |-> [t \in Task |-> Count(submitted'[q], t)]]
  BY DEF Arrived, Count
<1>5. ts \in SUBSET {t \in Sent : DestOf[t] \in {p, D!Everyone} /\ Arrived[p][t] = 0}
  <2> SUFFICES ASSUME NEW t \in ts PROVE Arrived[p][t] = 0 /\ t \in Sent
    OBVIOUS
  <2>1. t \in Task /\ t \notin Elements(submitted[p])
    BY <1>2
  <2> QED BY <1>3, <1>4, <2>1
<1>6. [t \in Task |-> Count(submitted'[p], t)]
        = [t \in Task |-> IF t \in ts THEN 1 ELSE Count(submitted[p], t)]
  BY <1>2, <1>3
<1>7. Arrived' = [Arrived EXCEPT ![p] = [t \in Task |-> IF t \in ts THEN 1 ELSE @[t]]]
  <2>1. \A q \in Processor \ {p} : [t \in Task |-> Count(submitted'[q], t)]
                                     = [t \in Task |-> Count(submitted[q], t)]
    BY <1>1
  <2>2. [t \in Task |-> IF t \in ts THEN 1 ELSE Arrived[p][t]] = [t \in Task |-> Count(submitted'[p], t)]
    BY <1>4, <1>6
  <2> HIDE DEF ts
  <2> QED BY <1>4, <2>1, <2>2
<1> HIDE DEF ts
<1> QED BY <1>5, <1>7 DEF D!Arrive

\* Taking a task from a script is the sending of Delivery
LEMMA TakingIsSending ==
    ASSUME ScriptInv, UNCHANGED <<job, submitted>>, NEW c \in Caller, todo[c] # <<>>,
           todo' = [todo EXCEPT ![c] = Tail(@)]
    PROVE  D!Next
<1>1. /\ Sent' = Sent \cup {Head(todo[c])} /\ Head(todo[c]) \notin Sent /\ Head(todo[c]) \in Task
  BY SendsOne
<1>2. Arrived' = Arrived
  BY DEF Arrived
<1> QED BY <1>1, <1>2 DEF D!Next, D!Send

-----------------------------------------------------------------------------
(* The way of a message over sockets: a caller, a slot, the call of its    *)
(* sender, the list of calls, the buffer of the receiver, the manager.     *)

ReceiverTypes ==
    /\ connected \in [Proc -> SUBSET Task]
    /\ receiveBuffer \in [Proc -> Seq(Task)]
    /\ receiver \in [Proc -> {"accept", "notify"}]
    /\ manager \in [Proc -> {"probe", "doze", "asleep", "count", "receive", "read", "process"}]
    /\ counted \in [Proc -> Task \cup {Empty}]

Handed(c) == placing[c].at # "out"

\* A task on its way to a processor of the job: sent, not in the hands of a
\* caller, and not submitted
Travels(t) == /\ t \in Sent /\ DestOf[t] \in Proc /\ t \notin Elements(submitted[DestOf[t]])
              /\ \A c \in Caller : Handed(c) => t # Current(c)

AtWork(p, k) == sender[p][k] \in {"waiting", "calling"}
CallsFor(p, k, t) == sender[p][k] = "calling" /\ sending[p][k] = t
Called(t) == \E q \in Proc, k \in Slot : CallsFor(q, k, t)
Queued(p) == connected[p] \cup Elements(receiveBuffer[p])

CallerKept(c) ==
    Handed(c) => /\ DestOf[Current(c)] \in Proc
                 /\ Current(c) \notin Elements(submitted[DestOf[Current(c)]])

SlotKept(p, k) ==
    /\ messages[p][k] # Empty => Travels(messages[p][k])
    /\ IF AtWork(p, k) THEN sending[p][k] # Empty ELSE sending[p][k] = Empty

OneSlot(p, k, q, j) == messages[p][k] = messages[q][j] /\ messages[p][k] # Empty => p = q /\ k = j

\* A message that calls p waits in one place: not accepted, in the buffer, or
\* to be read
BufferKept(p) ==
    /\ Once(receiveBuffer[p]) /\ connected[p] \cap Elements(receiveBuffer[p]) = {}
    /\ \A t \in Queued(p) : DestOf[t] = p /\ Called(t)
    /\ \A q \in Proc, k \in Slot :
         Answered(p, q, k) => manager[p] = "read" /\ counted[p] = sending[q][k]

ManagerKept(p) ==
    /\ manager[p] \in {"count", "receive"} => receiveBuffer[p] # <<>>
    /\ manager[p] = "receive" => counted[p] = Head(receiveBuffer[p])
    /\ manager[p] = "read" => /\ counted[p] \notin Queued(p)
                              /\ DestOf[counted[p]] = p /\ Called(counted[p])
    /\ manager[p] = "process" => /\ counted[p] # Empty /\ DestOf[counted[p]] = p
                                 /\ Travels(counted[p])
                                 /\ \A q \in Proc, k \in Slot : messages[q][k] # counted[p]

WayInv == /\ ReceiverTypes /\ submitted \in [Processor -> Seq(Task)]
          /\ \A c \in Caller : CallerKept(c)
          /\ \A p \in Proc, k \in Slot : SlotKept(p, k)
          /\ \A p, q \in Proc, k, j \in Slot : OneSlot(p, k, q, j)
          /\ \A p \in Proc : BufferKept(p) /\ ManagerKept(p) /\ Delivered(p)

\* What is sent is still on its way when no task is submitted or handed over
LEMMA StillTravels ==
    ASSUME UNCHANGED <<job, submitted>>, Sent \subseteq Sent', NEW t, Travels(t),
           \A c \in Caller : Handed(c)' /\ Current(c)' = t => Handed(c) /\ Current(c) = t
    PROVE  Travels(t)'
<1>1. /\ t \in Sent' /\ DestOf[t] \in Proc' /\ t \notin Elements(submitted[DestOf[t]])'
  BY DEF Travels, Proc, Elements
<1>2. \A c \in Caller : Handed(c)' => t # Current(c)'
  BY DEF Travels
<1> QED BY <1>1, <1>2 DEF Travels

\* Nothing of a queue or of the manager depends on the slots but the calls
LEMMA SameQueues ==
    ASSUME WayInv, UNCHANGED <<job, submitted, receiverVars, managerVars>>,
           \A q \in Proc, k \in Slot : /\ sender[q][k] = "calling" <=> sender'[q][k] = "calling"
                                       /\ sender[q][k] = "calling" => sending'[q][k] = sending[q][k],
           Sent \subseteq Sent', NEW p \in Proc
    PROVE  /\ BufferKept(p)' /\ Delivered(p)'
           /\ manager[p] # "process" => ManagerKept(p)'
<1>1. /\ UNCHANGED <<connected, receiveBuffer, manager, counted>> /\ Proc' = Proc
      /\ Queued(p)' = Queued(p)
  BY DEF receiverVars, managerVars, Proc, Queued, Elements
<1>2. \A t : Called(t)' <=> Called(t)
  BY <1>1 DEF Called, CallsFor
<1>3. \A q \in Proc, k \in Slot : Answered(p, q, k)' => Answered(p, q, k) /\ sending'[q][k] = sending[q][k]
  BY <1>1 DEF Answered, Queued, Elements
<1>4. Once(receiveBuffer[p])' /\ Elements(receiveBuffer[p])' = Elements(receiveBuffer[p])
  BY <1>1 DEF WayInv, BufferKept, Once, Elements
<1>5. BufferKept(p)'
  BY <1>1, <1>2, <1>3, <1>4 DEF WayInv, BufferKept
<1>6. Delivered(p)'
  BY DEF WayInv, Delivered, Once, Elements
<1>7. manager[p] # "process" => ManagerKept(p)'
  BY <1>1, <1>2 DEF WayInv, ManagerKept
<1> QED BY <1>5, <1>6, <1>7

\* A caller takes a task: no processor has it
LEMMA SendTaskKeepsWay ==
    ASSUME SocketInv, WayInv, UNCHANGED job, NEW c \in Caller, SocketSendTask(c) PROVE WayInv'
<1>0. /\ todo[c] # <<>> /\ placing[c].at = "out" /\ todo' = [todo EXCEPT ![c] = Tail(@)]
      /\ UNCHANGED <<job, submitted, messages, slotMutex, sender, sending, receiverVars, managerVars>>
      /\ IF DestOf[Head(todo[c])] \in Proc
         THEN placing' = [placing EXCEPT ![c] = [at |-> "trying", slot |-> 0]]
         ELSE UNCHANGED placing
  BY DEF SocketSendTask
<1> DEFINE t == Head(todo[c])
<1>1. /\ Sent' = Sent \cup {t} /\ t \notin Sent /\ t \in Task /\ Current(c)' = t
      /\ \A d \in Caller \ {c} : Current(d)' = Current(d)
  BY <1>0, SendsOne DEF SocketInv
<1> HIDE DEF t
<1>2. /\ \A d \in Caller \ {c} : Handed(d)' = Handed(d)
      /\ Handed(c)' => DestOf[t] \in Proc
  BY <1>0 DEF Handed, SocketInv, SlotInv, SlotTypeOK, t
<1>3. Proc' = Proc
  BY DEF Proc
<1>4. \A s : Travels(s) => Travels(s)'
  <2> SUFFICES ASSUME NEW s, Travels(s) PROVE Travels(s)'
    OBVIOUS
  <2>1. s \in Sent
    BY DEF Travels
  <2>2. \A d \in Caller : Handed(d)' /\ Current(d)' = s => Handed(d) /\ Current(d) = s
    BY <1>1, <1>2, <2>1
  <2>3. Sent \subseteq Sent'
    BY <1>1
  <2> QED BY <1>0, <2>2, <2>3, StillTravels
<1>5. \A p \in Proc : BufferKept(p)' /\ Delivered(p)' /\ (manager[p] # "process" => ManagerKept(p)')
  <2>1. /\ Sent \subseteq Sent' /\ UNCHANGED <<job, submitted, receiverVars, managerVars>>
        /\ \A q \in Proc, k \in Slot : sender'[q][k] = sender[q][k] /\ sending'[q][k] = sending[q][k]
    BY <1>0, <1>1
  <2> QED BY <2>1, SameQueues
<1>6. \A p \in Proc : manager[p] = "process" => ManagerKept(p)'
  BY <1>0, <1>3, <1>4 DEF WayInv, ManagerKept, managerVars
<1>7. \A p \in Proc, k \in Slot : SlotKept(p, k)'
  BY <1>0, <1>4 DEF WayInv, SlotKept, AtWork
<1>8. \A p, q \in Proc, k, j \in Slot : OneSlot(p, k, q, j)'
  BY <1>0 DEF WayInv, OneSlot
<1>9. \A d \in Caller : CallerKept(d)'
  <2> TAKE d \in Caller
  <2>1. CASE d = c
    <3>1. DestOf[t] \in Proc => t \notin Elements(submitted[DestOf[t]])
      BY <1>1 DEF WayInv, Delivered
    <3> QED BY <1>0, <1>1, <1>2, <1>3, <2>1, <3>1 DEF CallerKept, Elements
  <2>2. CASE d # c
    BY <1>0, <1>1, <1>2, <1>3, <2>2 DEF WayInv, CallerKept, Elements
  <2> QED BY <2>1, <2>2
<1>10. ReceiverTypes' /\ submitted' \in [Processor -> Seq(Task)]
  BY <1>0, <1>3 DEF WayInv, ReceiverTypes, receiverVars, managerVars
<1> QED BY <1>3, <1>5, <1>6, <1>7, <1>8, <1>9, <1>10 DEF WayInv

\* A caller looks for a slot
LEMMA LockingKeepsWay ==
    ASSUME SocketInv, WayInv, UNCHANGED job, NEW c \in Caller, TryLock(c) \/ LockAny(c) PROVE WayInv'
<1>0. UNCHANGED <<job, todo, submitted, messages, sender, sending, receiverVars, managerVars>>
  BY DEF TryLock, LockAny
<1>1. \A d \in Caller : Handed(d)' = Handed(d) /\ Current(d)' = Current(d)
  <2>1. \A d \in Caller : placing'[d].at # "out" <=> placing[d].at # "out"
    <3>1. CASE TryLock(c)
      <4>1. placing \in [Caller -> [at : {"out", "trying", "blocked", "placing"}, slot : Slot]]
        BY DEF SocketInv, SlotInv, SlotTypeOK
      <4>2. \/ placing' = [placing EXCEPT ![c].at = "placing"]
            \/ \E s \in Slot, a \in {"blocked", "trying"} :
                 placing' = [placing EXCEPT ![c] = [at |-> a, slot |-> s]]
        BY <3>1 DEF TryLock
      <4>3. placing[c].at # "out"
        BY <3>1 DEF TryLock
      <4> QED BY <4>1, <4>2, <4>3
    <3>2. CASE LockAny(c)
      BY <3>2 DEF LockAny, SocketInv, SlotInv, SlotTypeOK
    <3> QED BY <3>1, <3>2
  <2> QED BY <1>0, <2>1, SendsNone DEF Handed
<1>2. Sent' = Sent /\ Proc' = Proc
  BY <1>0, SendsNone DEF Proc
<1>3. \A s : Travels(s) => Travels(s)'
  <2>1. Sent \subseteq Sent'
    BY <1>2
  <2> QED BY <1>0, <1>1, <2>1, StillTravels
<1>4. \A p \in Proc : BufferKept(p)' /\ Delivered(p)' /\ (manager[p] # "process" => ManagerKept(p)')
  <2>1. /\ Sent \subseteq Sent'
        /\ \A q \in Proc, k \in Slot : sender'[q][k] = sender[q][k] /\ sending'[q][k] = sending[q][k]
    BY <1>0, <1>2
  <2> QED BY <1>0, <2>1, SameQueues
<1>5. \A p \in Proc : manager[p] = "process" => ManagerKept(p)'
  BY <1>0, <1>2, <1>3 DEF WayInv, ManagerKept, managerVars
<1>6. \A p \in Proc, k \in Slot : SlotKept(p, k)'
  BY <1>0, <1>3 DEF WayInv, SlotKept, AtWork
<1>7. \A p, q \in Proc, k, j \in Slot : OneSlot(p, k, q, j)'
  BY <1>0 DEF WayInv, OneSlot
<1>8. \A d \in Caller : CallerKept(d)'
  BY <1>0, <1>1, <1>2 DEF WayInv, CallerKept, Elements
<1>9. ReceiverTypes' /\ submitted' \in [Processor -> Seq(Task)]
  BY <1>0, <1>2 DEF WayInv, ReceiverTypes, receiverVars, managerVars
<1> QED BY <1>2, <1>4, <1>5, <1>6, <1>7, <1>8, <1>9 DEF WayInv

\* A task in a slot was in the hands of its caller and nowhere else
LEMMA PlaceKeepsWay ==
    ASSUME SocketInv, WayInv, UNCHANGED job, NEW c \in Caller, Place(c), Home[c] \in Proc
    PROVE  WayInv'
<1>p. PICK p \in Proc, k \in Slot, t \in Task :
        /\ p = Home[c] /\ k = placing[c].slot /\ t = Current(c)
        /\ Taken(c) # 0 /\ Handed(c)
  <2>1. placing[c].slot \in Slot /\ Taken(c) # 0 /\ Handed(c)
    BY DEF Place, Handed, SocketInv, SlotInv, SlotTypeOK
  <2>2. Current(c) \in Task
    BY <2>1, CurrentIsATask DEF SocketInv
  <2> QED BY <2>1, <2>2
<1>0. /\ UNCHANGED <<job, todo, submitted, sending, receiverVars, managerVars>>
      /\ placing[c].at = "placing" /\ placing' = [placing EXCEPT ![c].at = "out"]
      /\ messages' = [messages EXCEPT ![p][k] = t]
      /\ sender' = [sender EXCEPT ![p][k] = IF sender[p][k] = "asleep" THEN "ready" ELSE sender[p][k]]
  BY <1>p DEF Place
<1>1. /\ slotMutex[p][k] = c /\ c # "sender" /\ ~ AtWork(p, k)
  <2>1. slotMutex[p][k] = c /\ c # "sender"
    BY <1>p, <1>0, Holders DEF SocketInv, SlotInv, CallerHolds
  <2>2. ~ AtWork(p, k)
    BY <2>1 DEF SocketInv, SlotInv, SenderHolds, AtWork
  <2> QED BY <2>1, <2>2
<1>2. /\ t \in Sent /\ DestOf[t] \in Proc /\ t \notin Elements(submitted[DestOf[t]])
      /\ \A d \in Caller \ {c} : Taken(d) # 0 => Current(d) # t
  BY <1>p, CurrentIsSent DEF SocketInv, WayInv, CallerKept
<1>3. Sent' = Sent /\ Proc' = Proc /\ \A d : Current(d)' = Current(d)
  BY <1>0, SendsNone DEF Proc
<1>4. ~ Handed(c)' /\ \A d \in Caller \ {c} : Handed(d)' = Handed(d)
  BY <1>0 DEF Handed, SocketInv, SlotInv, SlotTypeOK
<1>5. /\ messages'[p][k] = t
      /\ \A q \in Proc, j \in Slot : ~(q = p /\ j = k) => /\ messages'[q][j] = messages[q][j]
                                                          /\ sender'[q][j] = sender[q][j]
      /\ ~ AtWork(p, k)'
  <2>1. /\ messages \in [Proc -> [Slot -> Task \cup {Empty}]]
        /\ sender \in [Proc -> [Slot -> {"ready", "asleep", "waiting", "calling"}]]
    BY DEF SocketInv, SlotInv, SlotTypeOK
  <2>2. /\ messages'[p][k] = t
        /\ sender'[p][k] = IF sender[p][k] = "asleep" THEN "ready" ELSE sender[p][k]
    BY <1>0, <1>1, <2>1
  <2>3. \A q \in Proc, j \in Slot : ~(q = p /\ j = k) => /\ messages'[q][j] = messages[q][j]
                                                          /\ sender'[q][j] = sender[q][j]
    BY <1>0, <1>1, <2>1
  <2>4. ~ AtWork(p, k)'
    BY <1>1, <2>2 DEF AtWork
  <2> QED BY <2>2, <2>3, <2>4
<1>6. \A s : Travels(s) => Travels(s)' /\ s # t
  <2>1. \A s : Travels(s) => s # t
    BY <1>p DEF Travels
  <2>2. Sent \subseteq Sent' /\ \A d \in Caller : Handed(d)' => Handed(d) /\ Current(d)' = Current(d)
    BY <1>3, <1>4
  <2> QED BY <1>0, <2>1, <2>2, StillTravels
<1>7. Travels(t)'
  <2>1. \A d \in Caller : Handed(d)' => t # Current(d)'
    BY <1>2, <1>3, <1>4 DEF SocketInv, Handed
  <2>2. DestOf[t] \in Proc' /\ t \in Sent' /\ t \notin Elements(submitted'[DestOf[t]])
    BY <1>0, <1>2, <1>3
  <2> QED BY <1>3, <2>1, <2>2 DEF Travels, Elements
<1>8. \A q \in Proc : BufferKept(q)' /\ Delivered(q)' /\ (manager[q] # "process" => ManagerKept(q)')
  <2>1. /\ Sent \subseteq Sent'
        /\ \A q \in Proc, j \in Slot : /\ sender'[q][j] = "calling" <=> sender[q][j] = "calling"
                                       /\ sending'[q][j] = sending[q][j]
    BY <1>0, <1>1, <1>3, <1>5 DEF AtWork
  <2> QED BY <1>0, <2>1, SameQueues
<1>9. \A q \in Proc : manager[q] = "process" => ManagerKept(q)'
  <2> SUFFICES ASSUME NEW q \in Proc, manager[q] = "process" PROVE ManagerKept(q)'
    OBVIOUS
  <2>1. UNCHANGED <<manager, counted>> /\ Travels(counted[q]) /\ counted[q] # t
    BY <1>0, <1>6 DEF WayInv, ManagerKept, managerVars
  <2> QED BY <1>3, <1>5, <1>6, <2>1 DEF WayInv, ManagerKept
<1>10. \A q \in Proc, j \in Slot : SlotKept(q, j)'
  <2> TAKE q \in Proc, j \in Slot
  <2>1. CASE q = p /\ j = k
    <3>1. sending'[p][k] = Empty
      BY <1>0, <1>1 DEF WayInv, SlotKept
    <3> QED BY <1>5, <1>7, <2>1, <3>1 DEF SlotKept
  <2>2. CASE ~(q = p /\ j = k)
    BY <1>0, <1>5, <1>6, <2>2 DEF WayInv, SlotKept, AtWork
  <2> QED BY <2>1, <2>2
<1>11. \A q, r \in Proc, i, j \in Slot : OneSlot(q, i, r, j)'
  <2>1. \A q \in Proc, j \in Slot : ~(q = p /\ j = k) => messages'[q][j] = Empty \/ messages'[q][j] # t
    BY <1>5, <1>6 DEF WayInv, SlotKept
  <2> TAKE q, r \in Proc, i, j \in Slot
  <2>2. OneSlot(q, i, r, j)
    BY DEF WayInv
  <2> QED BY <1>5, <2>1, <2>2 DEF OneSlot
<1>12. \A d \in Caller : CallerKept(d)'
  BY <1>0, <1>3, <1>4 DEF WayInv, CallerKept, Elements
<1>13. ReceiverTypes' /\ submitted' \in [Processor -> Seq(Task)]
  BY <1>0, <1>3 DEF WayInv, ReceiverTypes, receiverVars, managerVars
<1> QED BY <1>3, <1>8, <1>9, <1>10, <1>11, <1>12, <1>13 DEF WayInv

\* A sender takes the message of its slot
LEMMA TakeMessageKeepsWay ==
    ASSUME SocketInv, WayInv, UNCHANGED job, NEW p \in Proc, NEW k \in Slot, TakeMessage(p, k)
    PROVE  WayInv'
<1>0. /\ UNCHANGED <<job, todo, submitted, placing, messages, receiverVars, managerVars>>
      /\ sender[p][k] = "ready"
      /\ IF messages[p][k] # Empty
         THEN /\ sender' = [sender EXCEPT ![p][k] = "waiting"]
              /\ sending' = [sending EXCEPT ![p][k] = messages[p][k]]
         ELSE sender' = [sender EXCEPT ![p][k] = "asleep"] /\ UNCHANGED sending
  BY DEF TakeMessage
<1>1. /\ sender \in [Proc -> [Slot -> {"ready", "asleep", "waiting", "calling"}]]
      /\ sending \in [Proc -> [Slot -> Task \cup {Empty}]]
  BY DEF SocketInv, SlotInv, SlotTypeOK
<1>2. /\ \A q \in Proc, j \in Slot : ~(q = p /\ j = k) => /\ sending'[q][j] = sending[q][j]
                                                          /\ sender'[q][j] = sender[q][j]
      /\ IF messages[p][k] # Empty
         THEN sender'[p][k] = "waiting" /\ sending'[p][k] = messages[p][k]
         ELSE sender'[p][k] = "asleep" /\ sending'[p][k] = sending[p][k]
  BY <1>0, <1>1
<1>3. /\ Sent' = Sent /\ Proc' = Proc /\ \A d : Current(d)' = Current(d) /\ Handed(d)' = Handed(d)
  BY <1>0, SendsNone DEF Proc, Handed
<1>4. \A s : Travels(s) => Travels(s)'
  <2>1. Sent \subseteq Sent'
    BY <1>3
  <2> QED BY <1>0, <1>3, <2>1, StillTravels
<1>5. \A q \in Proc : BufferKept(q)' /\ Delivered(q)' /\ (manager[q] # "process" => ManagerKept(q)')
  <2>1. /\ Sent \subseteq Sent'
        /\ \A q \in Proc, j \in Slot : /\ sender[q][j] = "calling" <=> sender'[q][j] = "calling"
                                       /\ sender[q][j] = "calling" => sending'[q][j] = sending[q][j]
    BY <1>0, <1>2, <1>3
  <2> QED BY <1>0, <2>1, SameQueues
<1>6. \A q \in Proc : manager[q] = "process" => ManagerKept(q)'
  BY <1>0, <1>3, <1>4 DEF WayInv, ManagerKept, managerVars
<1>7. \A q \in Proc, j \in Slot : SlotKept(q, j)'
  <2> TAKE q \in Proc, j \in Slot
  <2>1. SlotKept(q, j) /\ (messages[q][j] # Empty => Travels(messages[q][j])')
    BY <1>0, <1>4 DEF WayInv, SlotKept
  <2>2. CASE q = p /\ j = k
    BY <1>0, <1>2, <2>1, <2>2 DEF SlotKept, AtWork
  <2>3. CASE ~(q = p /\ j = k)
    BY <1>0, <1>2, <2>1, <2>3 DEF SlotKept, AtWork
  <2> QED BY <2>2, <2>3
<1>8. \A q, r \in Proc, i, j \in Slot : OneSlot(q, i, r, j)'
  BY <1>0 DEF WayInv, OneSlot
<1>9. \A d \in Caller : CallerKept(d)'
  BY <1>0, <1>3 DEF WayInv, CallerKept, Elements
<1>10. ReceiverTypes' /\ submitted' \in [Processor -> Seq(Task)]
  BY <1>0, <1>3 DEF WayInv, ReceiverTypes, receiverVars, managerVars
<1> QED BY <1>3, <1>5, <1>6, <1>7, <1>8, <1>9, <1>10 DEF WayInv

\* Two senders that work have two messages
LEMMA OneSender ==
    ASSUME SocketInv, WayInv, NEW p \in Proc, NEW k \in Slot, AtWork(p, k),
           NEW q \in Proc, NEW j \in Slot, AtWork(q, j), sending[p][k] = sending[q][j]
    PROVE  p = q /\ k = j
<1>1. /\ messages[p][k] = sending[p][k] /\ messages[q][j] = sending[q][j]
      /\ sending[p][k] # Empty
  BY DEF SocketInv, SlotInv, SenderHolds, AtWork, WayInv, SlotKept
<1>2. OneSlot(p, k, q, j)
  BY DEF WayInv
<1> QED BY <1>1, <1>2 DEF OneSlot

\* A sender has a task for a processor of the job
LEMMA WorkOf ==
    ASSUME SocketInv, WayInv, NEW p \in Proc, NEW k \in Slot, AtWork(p, k)
    PROVE  /\ sending[p][k] \in Task /\ sending[p][k] # Empty /\ Travels(sending[p][k])
           /\ DestOf[sending[p][k]] \in Proc /\ messages[p][k] = sending[p][k]
<1>1. messages[p][k] = sending[p][k] /\ sending[p][k] # Empty /\ Travels(sending[p][k])
  BY DEF SocketInv, SlotInv, SenderHolds, AtWork, WayInv, SlotKept
<1>2. sending[p][k] \in Task \cup {Empty}
  BY DEF SocketInv, SlotInv, SlotTypeOK
<1> QED BY <1>1, <1>2 DEF Travels

\* The callers and the slots as they were
LEMMA SameWay ==
    ASSUME WayInv, UNCHANGED <<job, todo, submitted, placing, messages>>
    PROVE  /\ Proc' = Proc /\ Sent' = Sent /\ \A t : Travels(t)' <=> Travels(t)
           /\ submitted' \in [Processor -> Seq(Task)]
           /\ \A c \in Caller : CallerKept(c)'
           /\ \A p, q \in Proc, k, j \in Slot : OneSlot(p, k, q, j)'
           /\ \A p \in Proc : Delivered(p)'
<1>1. /\ Proc' = Proc /\ Sent' = Sent /\ \A d : Current(d)' = Current(d) /\ Handed(d)' = Handed(d)
  BY SendsNone DEF Proc, Handed
<1>2. \A t : Travels(t)' <=> Travels(t)
  BY <1>1 DEF Travels, Elements
<1>3. \A c \in Caller : CallerKept(c)'
  BY <1>1 DEF WayInv, CallerKept, Elements
<1>4. \A p \in Proc : Delivered(p)'
  BY <1>1 DEF WayInv, Delivered, Once, Elements
<1> QED BY <1>1, <1>2, <1>3, <1>4 DEF WayInv, OneSlot

\* The message a sender calls with is in no queue
LEMMA CallKeepsWay ==
    ASSUME SocketInv, WayInv, UNCHANGED job, NEW p \in Proc, NEW k \in Slot, Call(p, k)
    PROVE  WayInv'
<1>0. PICK t \in Task, dest \in Proc :
        /\ t = sending[p][k] /\ dest = DestOf[t] /\ t # Empty /\ sender[p][k] = "waiting"
        /\ UNCHANGED <<job, todo, submitted, placing, messages, sending, receiveBuffer, receiver, managerVars>>
        /\ sender' = [sender EXCEPT ![p][k] = "calling"]
        /\ connected' = [connected EXCEPT ![dest] = connected[dest] \cup {t}]
  <2>1. AtWork(p, k)
    BY DEF Call, AtWork
  <2> QED BY <2>1, WorkOf DEF Call
<1>1. /\ \A q \in Proc, j \in Slot : ~(q = p /\ j = k) => sender'[q][j] = sender[q][j]
      /\ sender'[p][k] = "calling"
      /\ connected'[dest] = connected[dest] \cup {t}
      /\ \A q \in Proc \ {dest} : connected'[q] = connected[q]
      /\ connected' \in [Proc -> SUBSET Task]
  BY <1>0 DEF SocketInv, SlotInv, SlotTypeOK, WayInv, ReceiverTypes
<1>2. \A s : Called(s) => s # t
  <2> SUFFICES ASSUME NEW q \in Proc, NEW j \in Slot, CallsFor(q, j, t) PROVE FALSE
    BY DEF Called
  <2>1. AtWork(q, j) /\ AtWork(p, k) /\ sending[q][j] = sending[p][k] /\ sender[q][j] = "calling"
    BY <1>0 DEF CallsFor, AtWork
  <2>2. q = p /\ j = k
    BY <2>1, OneSender
  <2> QED BY <1>0, <2>1, <2>2
<1>3. \A s : Called(s)' <=> Called(s) \/ s = t
  <2>0. Proc' = Proc
    BY <1>0 DEF Proc
  <2>1. \A q \in Proc, j \in Slot : \A s :
          CallsFor(q, j, s)' <=> CallsFor(q, j, s) \/ (q = p /\ j = k /\ s = t)
    BY <1>0, <1>1 DEF CallsFor
  <2> QED BY <2>0, <2>1 DEF Called
<1>4. /\ Proc' = Proc /\ \A s : Travels(s)' <=> Travels(s)
      /\ submitted' \in [Processor -> Seq(Task)]
      /\ \A c \in Caller : CallerKept(c)'
      /\ \A q, r \in Proc, i, j \in Slot : OneSlot(q, i, r, j)'
      /\ \A q \in Proc : Delivered(q)'
  BY <1>0, SameWay
<1>5. /\ Queued(dest)' = Queued(dest) \cup {t} /\ \A q \in Proc \ {dest} : Queued(q)' = Queued(q)
  BY <1>0, <1>1 DEF Queued, Elements
<1>6. \A q \in Proc : BufferKept(q)'
  <2> TAKE q \in Proc
  <2>1. BufferKept(q) /\ receiveBuffer'[q] = receiveBuffer[q] /\ UNCHANGED <<manager, counted>>
    BY <1>0 DEF WayInv, managerVars
  <2>2. t \notin Queued(q)
    BY <1>2, <2>1 DEF BufferKept
  <2>3. Once(receiveBuffer'[q]) /\ connected'[q] \cap Elements(receiveBuffer'[q]) = {}
    BY <1>1, <2>1, <2>2 DEF BufferKept, Queued
  <2>4. \A s \in Queued(q)' : DestOf[s] = q /\ Called(s)'
    BY <1>0, <1>3, <1>5, <2>1 DEF BufferKept
  <2>5. ASSUME NEW r \in Proc, NEW j \in Slot, Answered(q, r, j)'
        PROVE  manager[q] = "read" /\ counted[q] = sending[r][j]
    <3>1. ~(r = p /\ j = k)
      BY <1>0, <1>1, <1>5, <2>5 DEF Answered, Queued
    <3>2. Answered(q, r, j)
      BY <1>0, <1>1, <1>5, <2>5, <3>1 DEF Answered, Queued
    <3> QED BY <2>1, <3>2 DEF BufferKept
  <2> QED BY <1>0, <1>4, <2>1, <2>3, <2>4, <2>5 DEF BufferKept, Once, Elements, Queued
<1>7. \A q \in Proc : ManagerKept(q)'
  <2> TAKE q \in Proc
  <2>1. ManagerKept(q) /\ receiveBuffer'[q] = receiveBuffer[q] /\ UNCHANGED <<manager, counted, messages>>
    BY <1>0 DEF WayInv, managerVars
  <2>2. manager[q] = "read" => /\ counted[q] \notin Queued(q)' /\ Called(counted[q])'
    BY <1>2, <1>3, <1>5, <2>1 DEF ManagerKept
  <2> QED BY <1>4, <2>1, <2>2 DEF ManagerKept
<1>8. \A q \in Proc, j \in Slot : SlotKept(q, j)'
  <2> TAKE q \in Proc, j \in Slot
  <2>1. SlotKept(q, j) /\ (messages[q][j] # Empty => Travels(messages[q][j])')
    BY <1>0, <1>4 DEF WayInv, SlotKept
  <2>2. CASE q = p /\ j = k
    BY <1>0, <1>1, <2>1, <2>2 DEF SlotKept, AtWork
  <2>3. CASE ~(q = p /\ j = k)
    BY <1>0, <1>1, <2>1, <2>3 DEF SlotKept, AtWork
  <2> QED BY <2>2, <2>3
<1>9. ReceiverTypes'
  BY <1>0, <1>1, <1>4 DEF WayInv, ReceiverTypes, managerVars
<1> QED BY <1>4, <1>6, <1>7, <1>8, <1>9 DEF WayInv

\* A step of the receiver or of the manager of a processor p, which lets the rest be
LEMMA QueueStep ==
    ASSUME SocketInv, WayInv, UNCHANGED <<job, todo, submitted, slotVars>>, NEW p \in Proc,
           ReceiverTypes', BufferKept(p)', ManagerKept(p)',
           \A q \in Proc \ {p} : /\ connected'[q] = connected[q] /\ receiveBuffer'[q] = receiveBuffer[q]
                                 /\ manager'[q] = manager[q] /\ counted'[q] = counted[q]
    PROVE  WayInv'
<1>1. UNCHANGED <<placing, messages, sender, sending>>
  BY DEF slotVars
<1>2. /\ Proc' = Proc /\ \A s : Travels(s)' <=> Travels(s)
      /\ submitted' \in [Processor -> Seq(Task)]
      /\ \A c \in Caller : CallerKept(c)'
      /\ \A q, r \in Proc, i, j \in Slot : OneSlot(q, i, r, j)'
      /\ \A q \in Proc : Delivered(q)'
  BY <1>1, SameWay
<1>3. \A s : Called(s)' <=> Called(s)
  BY <1>1, <1>2 DEF Called, CallsFor
<1>4. ASSUME NEW q \in Proc \ {p} PROVE BufferKept(q)' /\ ManagerKept(q)'
  <2>1. /\ BufferKept(q) /\ ManagerKept(q) /\ receiveBuffer'[q] = receiveBuffer[q]
        /\ manager'[q] = manager[q] /\ counted'[q] = counted[q] /\ Queued(q)' = Queued(q)
    BY DEF WayInv, Queued, Elements
  <2>2. BufferKept(q)'
    <3>1. \A r \in Proc, j \in Slot : Answered(q, r, j)' <=> Answered(q, r, j)
      BY <1>1, <2>1 DEF Answered, Queued
    <3>2. Once(receiveBuffer[q])' /\ (connected[q] \cap Elements(receiveBuffer[q]))' = {}
      BY <2>1 DEF BufferKept, Once, Elements
    <3>3. \A t \in Queued(q)' : DestOf[t] = q /\ Called(t)'
      BY <1>3, <2>1 DEF BufferKept
    <3> QED BY <1>1, <1>2, <2>1, <3>1, <3>2, <3>3 DEF BufferKept
  <2>3. ManagerKept(q)'
    BY <1>1, <1>2, <1>3, <2>1 DEF ManagerKept
  <2> QED BY <2>2, <2>3
<1>5. \A q \in Proc : BufferKept(q)' /\ ManagerKept(q)'
  BY <1>4
<1>6. \A q \in Proc, j \in Slot : SlotKept(q, j)'
  BY <1>1, <1>2 DEF WayInv, SlotKept, AtWork
<1> QED BY <1>2, <1>5, <1>6 DEF WayInv

\* A call is accepted into the buffer
LEMMA AcceptKeepsWay ==
    ASSUME SocketInv, WayInv, UNCHANGED job, NEW p \in Proc, AcceptEnvelope(p) PROVE WayInv'
<1>0. PICK t \in connected[p] :
        /\ UNCHANGED <<job, todo, submitted, slotVars, manager, counted>>
        /\ connected' = [connected EXCEPT ![p] = @ \ {t}]
        /\ receiveBuffer' = [receiveBuffer EXCEPT ![p] = Append(@, t)]
        /\ receiver' = [receiver EXCEPT ![p] = "notify"]
  BY DEF AcceptEnvelope, managerVars
<1>1. receiveBuffer[p] \in Seq(Task) /\ t \in Task
  BY DEF WayInv, ReceiverTypes
<1>2. /\ connected'[p] = connected[p] \ {t} /\ receiveBuffer'[p] = Append(receiveBuffer[p], t)
      /\ \A q \in Proc \ {p} : connected'[q] = connected[q] /\ receiveBuffer'[q] = receiveBuffer[q]
  BY <1>0 DEF WayInv, ReceiverTypes
<1>3. /\ receiveBuffer'[p] \in Seq(Task) /\ receiveBuffer'[p] # <<>>
      /\ Elements(receiveBuffer'[p]) = Elements(receiveBuffer[p]) \cup {t}
      /\ receiveBuffer[p] # <<>> => Head(receiveBuffer'[p]) = Head(receiveBuffer[p])
      /\ t \notin Elements(receiveBuffer[p]) /\ Once(receiveBuffer'[p])
  <2>1. /\ Append(receiveBuffer[p], t) \in Seq(Task)
        /\ Len(Append(receiveBuffer[p], t)) = Len(receiveBuffer[p]) + 1
        /\ Append(receiveBuffer[p], t)[Len(receiveBuffer[p]) + 1] = t
        /\ Append(receiveBuffer[p], t) # <<>> /\ Len(receiveBuffer[p]) \in Nat
        /\ \A i \in 1..Len(receiveBuffer[p]) : Append(receiveBuffer[p], t)[i] = receiveBuffer[p][i]
        /\ receiveBuffer[p] # <<>> => Head(Append(receiveBuffer[p], t)) = Head(receiveBuffer[p])
    BY <1>1, AppendOf
  <2>2. t \notin Elements(receiveBuffer[p]) /\ Once(receiveBuffer[p])
    BY DEF WayInv, BufferKept
  <2>3. Once(Append(receiveBuffer[p], t))
    BY <2>1, <2>2 DEF Once, Elements
  <2>4. Elements(Append(receiveBuffer[p], t)) = Elements(receiveBuffer[p]) \cup {t}
    <3>1. ASSUME NEW i \in 1..Len(receiveBuffer[p]) PROVE i \in 1..Len(Append(receiveBuffer[p], t))
      BY <2>1
    <3>2. Len(receiveBuffer[p]) + 1 \in 1..Len(Append(receiveBuffer[p], t))
      BY <2>1
    <3> QED BY <2>1, <3>1, <3>2 DEF Elements
  <2> QED BY <1>2, <2>1, <2>2, <2>3, <2>4
<1>4. Queued(p)' = Queued(p)
  BY <1>2, <1>3 DEF Queued, Elements
<1>5. /\ UNCHANGED <<sender, sending, messages, placing>> /\ Proc' = Proc /\ \A s : Called(s)' <=> Called(s)
      /\ \A s : Travels(s)' <=> Travels(s)
  BY <1>0, SameWay DEF slotVars, Called, CallsFor, Proc
<1>6. BufferKept(p)'
  <2>1. BufferKept(p)
    BY DEF WayInv
  <2>2. connected'[p] \cap Elements(receiveBuffer'[p]) = {}
    BY <1>2, <1>3, <2>1 DEF BufferKept
  <2>3. \A r \in Proc, j \in Slot : Answered(p, r, j)' <=> Answered(p, r, j)
    BY <1>4, <1>5 DEF Answered, Queued
  <2> QED BY <1>0, <1>3, <1>4, <1>5, <2>1, <2>2, <2>3 DEF BufferKept, Once, Elements
<1>7. ManagerKept(p)'
  BY <1>0, <1>2, <1>3, <1>4, <1>5 DEF WayInv, ManagerKept
<1>8. ReceiverTypes'
  BY <1>0, <1>3, <1>5 DEF WayInv, ReceiverTypes
<1> QED BY <1>0, <1>2, <1>6, <1>7, <1>8, QueueStep

\* The manager looks at the buffer, sleeps, is woken, or asks for the size
LEMMA LookingKeepsWay ==
    ASSUME SocketInv, WayInv, UNCHANGED job, NEW p \in Proc,
           NotifyAll(p) \/ Probe(p) \/ Doze(p) \/ GetCount(p)
    PROVE  WayInv'
<1>0. UNCHANGED <<job, todo, submitted, slotVars, connected, receiveBuffer>>
  BY DEF NotifyAll, Probe, Doze, GetCount, receiverVars
<1>1. /\ receiver' \in [Proc -> {"accept", "notify"}]
      /\ \A q \in Proc \ {p} : manager'[q] = manager[q] /\ counted'[q] = counted[q]
  <2>1. \/ UNCHANGED <<receiver, counted>> \/ NotifyAll(p) \/ GetCount(p)
    BY DEF Probe, Doze, receiverVars
  <2>2. manager \in [Proc -> {"probe", "doze", "asleep", "count", "receive", "read", "process"}]
        /\ receiver \in [Proc -> {"accept", "notify"}] /\ counted \in [Proc -> Task \cup {Empty}]
    BY DEF WayInv, ReceiverTypes
  <2>3. CASE NotifyAll(p)
    BY <2>2, <2>3 DEF NotifyAll
  <2>4. CASE Probe(p) \/ Doze(p)
    BY <2>2, <2>4 DEF Probe, Doze, Go, receiverVars
  <2>5. CASE GetCount(p)
    BY <2>2, <2>5 DEF GetCount, Go, receiverVars
  <2> QED BY <2>3, <2>4, <2>5
<1>2. /\ manager'[p] \in {"count", "receive"} => receiveBuffer[p] # <<>>
      /\ manager'[p] = "receive" => counted'[p] = Head(receiveBuffer[p])
      /\ manager'[p] \in {"read", "process"} => manager'[p] = manager[p] /\ counted'[p] = counted[p]
      /\ manager[p] = "read" => manager'[p] = "read"
  <2>2. /\ manager \in [Proc -> {"probe", "doze", "asleep", "count", "receive", "read", "process"}]
        /\ counted \in [Proc -> Task \cup {Empty}] /\ receiveBuffer[p] \in Seq(Task)
        /\ ManagerKept(p)
    BY DEF WayInv, ReceiverTypes
  <2>3. CASE NotifyAll(p)
    BY <2>2, <2>3 DEF NotifyAll, ManagerKept
  <2>4. CASE Probe(p) \/ Doze(p)
    BY <2>2, <2>4 DEF Probe, Doze, Go
  <2>5. CASE GetCount(p)
    <3> DEFINE S == {i \in 1..Len(receiveBuffer[p]) :
                       Home[From(receiveBuffer[p][i])] = Home[From(Head(receiveBuffer[p]))]}
    <3>1. manager[p] = "count" /\ manager'[p] = "receive" /\ receiveBuffer[p] # <<>>
      BY <2>2, <2>5 DEF GetCount, Go, ManagerKept
    <3>2. PICK i \in S : (\A j \in S : i <= j) /\ counted' = [counted EXCEPT ![p] = receiveBuffer[p][i]]
      BY <2>5 DEF GetCount
    <3>3. /\ Head(receiveBuffer[p]) = receiveBuffer[p][1] /\ 1 \in 1..Len(receiveBuffer[p])
      BY <2>2, <3>1, TailOf
    <3>4. 1 \in S
      BY <3>3
    <3>5. i = 1
      <4>1. i \in 1..Len(receiveBuffer[p])
        OBVIOUS
      <4>2. i <= 1
        BY <3>2, <3>4
      <4> HIDE DEF S
      <4> QED BY <4>1, <4>2
    <3>6. counted'[p] = receiveBuffer[p][1]
      BY <2>2, <3>2, <3>5
    <3> QED BY <3>1, <3>3, <3>6
  <2> QED BY <2>3, <2>4, <2>5
<1>3. counted' \in [Proc -> Task \cup {Empty}] /\ manager' \in [Proc -> {"probe", "doze", "asleep", "count", "receive", "read", "process"}]
  <2>2. /\ manager \in [Proc -> {"probe", "doze", "asleep", "count", "receive", "read", "process"}]
        /\ counted \in [Proc -> Task \cup {Empty}] /\ receiveBuffer[p] \in Seq(Task)
    BY DEF WayInv, ReceiverTypes
  <2>3. CASE NotifyAll(p)
    BY <2>2, <2>3 DEF NotifyAll
  <2>4. CASE Probe(p) \/ Doze(p)
    BY <2>2, <2>4 DEF Probe, Doze, Go
  <2>5. CASE GetCount(p)
    <3>1. PICK i \in 1..Len(receiveBuffer[p]) : counted' = [counted EXCEPT ![p] = receiveBuffer[p][i]]
      BY <2>5 DEF GetCount
    <3>2. receiveBuffer[p][i] \in Task
      BY <2>2
    <3> QED BY <2>2, <2>5, <3>1, <3>2 DEF GetCount, Go
  <2> QED BY <2>3, <2>4, <2>5
<1>4. /\ UNCHANGED <<sender, sending, messages, placing>> /\ Proc' = Proc /\ \A s : Called(s)' <=> Called(s)
      /\ \A s : Travels(s)' <=> Travels(s)
      /\ Queued(p)' = Queued(p)
  BY <1>0, SameWay DEF slotVars, Called, CallsFor, Proc, Queued, Elements
<1>5. BufferKept(p)'
  <2>1. BufferKept(p) /\ UNCHANGED <<receiveBuffer, connected, sender, sending>>
    BY <1>0, <1>4 DEF WayInv
  <2>2. \A r \in Proc, j \in Slot :
          Answered(p, r, j)' => /\ Answered(p, r, j) /\ sending'[r][j] = sending[r][j]
                                /\ manager'[p] = "read" /\ counted'[p] = counted[p]
    <3>1. \A r \in Proc, j \in Slot : Answered(p, r, j)' => Answered(p, r, j)
      BY <2>1 DEF Answered, Elements
    <3>2. \A r \in Proc, j \in Slot : Answered(p, r, j) => manager[p] = "read"
      BY <2>1 DEF BufferKept
    <3>3. manager[p] = "read" => manager'[p] = "read" /\ counted'[p] = counted[p]
      BY <1>2
    <3> QED BY <2>1, <3>1, <3>2, <3>3
  <2>3. Once(receiveBuffer'[p]) /\ connected'[p] \cap Elements(receiveBuffer'[p]) = {}
    BY <2>1 DEF BufferKept
  <2>4. \A t \in Queued(p)' : DestOf[t] = p /\ Called(t)'
    BY <1>4, <2>1 DEF BufferKept
  <2>5. \A r \in Proc, j \in Slot : Answered(p, r, j)' => manager'[p] = "read" /\ counted'[p] = sending'[r][j]
    BY <2>1, <2>2 DEF BufferKept
  <2> QED BY <1>4, <2>3, <2>4, <2>5 DEF BufferKept, Once, Elements
<1>6. ManagerKept(p)'
  <2>1. ManagerKept(p) /\ receiveBuffer' = receiveBuffer /\ messages' = messages
    BY <1>0, <1>4 DEF WayInv
  <2>2. manager'[p] = "read" => /\ counted'[p] \notin Queued(p)'
                                /\ DestOf[counted'[p]] = p /\ Called(counted[p])'
    BY <1>2, <1>4, <2>1 DEF ManagerKept
  <2>3. manager'[p] = "process" => /\ counted'[p] # Empty /\ DestOf[counted'[p]] = p
                                   /\ Travels(counted[p])'
                                   /\ \A q \in Proc, k \in Slot : messages'[q][k] # counted'[p]
    BY <1>2, <1>4, <2>1 DEF ManagerKept
  <2> QED BY <1>2, <1>4, <2>1, <2>2, <2>3 DEF ManagerKept
<1>7. ReceiverTypes'
  BY <1>0, <1>1, <1>3, <1>4 DEF WayInv, ReceiverTypes
<1> QED BY <1>0, <1>1, <1>5, <1>6, <1>7, QueueStep

\* The message that was counted is taken from the buffer
LEMMA RecvKeepsWay ==
    ASSUME SocketInv, WayInv, UNCHANGED job, NEW p \in Proc, Recv(p) PROVE WayInv'
<1>0. /\ UNCHANGED <<job, todo, submitted, slotVars, connected, receiver, counted>>
      /\ manager[p] = "receive" /\ manager' = [manager EXCEPT ![p] = "read"]
      /\ receiveBuffer' = [receiveBuffer EXCEPT ![p] = Tail(receiveBuffer[p])]
  BY DEF Recv, Go
<1>1. /\ receiveBuffer[p] \in Seq(Task) /\ receiveBuffer[p] # <<>>
      /\ counted[p] = Head(receiveBuffer[p]) /\ BufferKept(p)
  BY <1>0 DEF WayInv, ReceiverTypes, ManagerKept
<1>2. /\ manager'[p] = "read" /\ receiveBuffer'[p] = Tail(receiveBuffer[p])
      /\ \A q \in Proc \ {p} : manager'[q] = manager[q] /\ receiveBuffer'[q] = receiveBuffer[q]
  BY <1>0 DEF WayInv, ReceiverTypes
<1>3. /\ Elements(receiveBuffer[p]) = Elements(receiveBuffer'[p]) \cup {counted[p]}
      /\ counted[p] \notin Elements(receiveBuffer'[p]) /\ Once(receiveBuffer'[p])
      /\ receiveBuffer'[p] \in Seq(Task)
  <2>1. /\ counted[p] = receiveBuffer[p][1] /\ Len(receiveBuffer[p]) \in Nat \ {0}
        /\ receiveBuffer'[p] \in Seq(Task) /\ Len(receiveBuffer'[p]) = Len(receiveBuffer[p]) - 1
        /\ \A i \in 1..Len(receiveBuffer'[p]) :
             i + 1 \in 1..Len(receiveBuffer[p]) /\ receiveBuffer'[p][i] = receiveBuffer[p][i + 1]
    BY <1>1, <1>2, TailOf
  <2>2. Once(receiveBuffer[p])
    BY <1>1 DEF BufferKept
  <2>3. Once(receiveBuffer'[p])
    <3> SUFFICES ASSUME NEW i \in 1..Len(receiveBuffer'[p]), NEW j \in 1..Len(receiveBuffer'[p]),
                        receiveBuffer'[p][i] = receiveBuffer'[p][j]
                 PROVE  i = j
      BY DEF Once
    <3>1. /\ i + 1 \in 1..Len(receiveBuffer[p]) /\ j + 1 \in 1..Len(receiveBuffer[p])
          /\ receiveBuffer[p][i + 1] = receiveBuffer[p][j + 1]
      BY <2>1
    <3>2. i + 1 = j + 1
      BY <2>2, <3>1, Zenon DEF Once
    <3> QED BY <3>2
  <2>4. counted[p] \notin Elements(receiveBuffer'[p])
    <3> SUFFICES ASSUME NEW i \in 1..Len(receiveBuffer'[p]), receiveBuffer'[p][i] = counted[p] PROVE FALSE
      BY DEF Elements
    <3>1. 1 \in 1..Len(receiveBuffer[p]) /\ i + 1 = 1
      BY <2>1, <2>2 DEF Once
    <3> QED BY <3>1
  <2>5. \A i \in 1..Len(receiveBuffer[p]) : i = 1 \/ \E j \in 1..Len(receiveBuffer'[p]) : i = j + 1
    <3> TAKE i \in 1..Len(receiveBuffer[p])
    <3>1. i = 1 \/ (i - 1 \in 1..Len(receiveBuffer'[p]) /\ i = (i - 1) + 1)
      BY <2>1
    <3> QED BY <3>1
  <2>6. ASSUME NEW s \in Elements(receiveBuffer[p]) PROVE s \in Elements(receiveBuffer'[p]) \cup {counted[p]}
    <3>1. PICK i \in 1..Len(receiveBuffer[p]) : s = receiveBuffer[p][i]
      BY DEF Elements
    <3> QED BY <2>1, <2>5, <3>1 DEF Elements
  <2>7. ASSUME NEW s \in Elements(receiveBuffer'[p]) \cup {counted[p]} PROVE s \in Elements(receiveBuffer[p])
    <3>1. 1 \in 1..Len(receiveBuffer[p])
      BY <2>1
    <3> QED BY <2>1, <3>1 DEF Elements
  <2> QED BY <2>1, <2>3, <2>4, <2>6, <2>7
<1>4. /\ Queued(p) = Queued(p)' \cup {counted[p]} /\ counted[p] \notin Queued(p)'
      /\ Queued(p)' = connected[p] \cup Elements(receiveBuffer'[p])
  <2>1. Queued(p)' = connected[p] \cup Elements(receiveBuffer'[p])
    BY <1>0 DEF Queued, Elements
  <2>2. counted[p] \notin connected[p]
    BY <1>1, <1>3 DEF BufferKept
  <2> QED BY <1>3, <2>1, <2>2 DEF Queued
<1>5. /\ UNCHANGED <<sender, sending, messages, placing>> /\ Proc' = Proc
      /\ \A s : Called(s)' <=> Called(s)
      /\ \A s : Travels(s)' <=> Travels(s)
  BY <1>0, SameWay DEF slotVars, Called, CallsFor, Proc
<1>6. BufferKept(p)'
  <2>1. ASSUME NEW r \in Proc, NEW j \in Slot, Answered(p, r, j)'
        PROVE  manager'[p] = "read" /\ counted'[p] = sending'[r][j]
    <3>1. /\ sender[r][j] = "calling" /\ DestOf[sending[r][j]] = p
          /\ sending[r][j] \notin Queued(p)'
      BY <1>4, <1>5, <2>1 DEF Answered, Queued
    <3>2. ~ Answered(p, r, j)
      BY <1>0, <1>1 DEF BufferKept
    <3>3. sending[r][j] = counted[p]
      BY <1>4, <3>1, <3>2 DEF Answered, Queued
    <3> QED BY <1>0, <1>2, <1>5, <3>3
  <2>2. connected'[p] \cap Elements(receiveBuffer'[p]) = {}
    BY <1>0, <1>1, <1>3 DEF BufferKept
  <2>3. \A t \in Queued(p)' : DestOf[t] = p /\ Called(t)'
    BY <1>1, <1>4, <1>5 DEF BufferKept
  <2> QED BY <1>3, <1>5, <2>1, <2>2, <2>3 DEF BufferKept, Once, Elements
<1>7. ManagerKept(p)'
  <2>1. DestOf[counted[p]] = p /\ Called(counted[p])
    BY <1>1, <1>4 DEF BufferKept
  <2>2. counted'[p] = counted[p] /\ counted'[p] \notin Queued(p)' /\ Called(counted[p])'
    BY <1>0, <1>4, <1>5, <2>1
  <2> QED BY <1>2, <2>1, <2>2 DEF ManagerKept
<1>8. ReceiverTypes'
  BY <1>0, <1>3, <1>5 DEF WayInv, ReceiverTypes
<1> QED BY <1>0, <1>2, <1>6, <1>7, <1>8, QueueStep

\* The data of the message that was counted go through; its slot is empty
LEMMA TransferKeepsWay ==
    ASSUME SocketInv, WayInv, UNCHANGED job, NEW p \in Proc, NEW q \in Proc, NEW k \in Slot,
           Transfer(p, q, k)
    PROVE  WayInv'
<1>0. PICK t \in Task :
        /\ t = sending[q][k] /\ t # Empty /\ Travels(t) /\ DestOf[t] = p /\ messages[q][k] = t
        /\ sender[q][k] = "calling" /\ t \notin Queued(p)
        /\ manager[p] = "read" /\ counted[p] = t
        /\ UNCHANGED <<job, todo, submitted, placing, receiverVars>>
        /\ manager' = [manager EXCEPT ![p] = "process"]
        /\ counted' = [counted EXCEPT ![p] = t]
        /\ messages' = [messages EXCEPT ![q][k] = Empty]
        /\ sender' = [sender EXCEPT ![q][k] = "ready"]
        /\ sending' = [sending EXCEPT ![q][k] = Empty]
  <2>1. AtWork(q, k) /\ Answered(p, q, k)
    BY DEF Transfer, Answered, AtWork
  <2>2. manager[p] = "read" /\ counted[p] = sending[q][k]
    BY <2>1 DEF WayInv, BufferKept
  <2> QED BY <2>1, <2>2, WorkOf DEF Transfer, Answered, Go, Queued
<1>1. /\ messages'[q][k] = Empty /\ sending'[q][k] = Empty /\ sender'[q][k] = "ready"
      /\ \A r \in Proc, j \in Slot : ~(r = q /\ j = k) =>
           /\ messages'[r][j] = messages[r][j] /\ sending'[r][j] = sending[r][j]
           /\ sender'[r][j] = sender[r][j]
  BY <1>0 DEF SocketInv, SlotInv, SlotTypeOK
<1>2. /\ manager'[p] = "process" /\ counted'[p] = t
      /\ \A r \in Proc \ {p} : manager'[r] = manager[r] /\ counted'[r] = counted[r]
  BY <1>0 DEF WayInv, ReceiverTypes
<1>3. /\ Proc' = Proc /\ Sent' = Sent /\ \A d : Current(d)' = Current(d) /\ Handed(d)' = Handed(d)
  BY <1>0, SendsNone DEF Proc, Handed
<1>4. \A s : Travels(s)' <=> Travels(s)
  BY <1>0, <1>3 DEF Travels, Elements
<1>5. \A s : Called(s) /\ s # t => Called(s)'
  BY <1>0, <1>1, <1>3 DEF Called, CallsFor
<1>6. \A r \in Proc : /\ Queued(r)' = Queued(r) /\ receiveBuffer'[r] = receiveBuffer[r]
                      /\ connected'[r] = connected[r]
  BY <1>0 DEF Queued, Elements, receiverVars
<1>7. \A r \in Proc, j \in Slot : ~(r = q /\ j = k) => messages[r][j] # t
  <2> SUFFICES ASSUME NEW r \in Proc, NEW j \in Slot, messages[r][j] = t PROVE r = q /\ j = k
    OBVIOUS
  <2>1. OneSlot(q, k, r, j)
    BY DEF WayInv
  <2> QED BY <1>0, <2>1 DEF OneSlot
<1>8. \A r \in Proc : BufferKept(r)'
  <2> TAKE r \in Proc
  <2>1. BufferKept(r)
    BY DEF WayInv
  <2>2. \A s \in Queued(r)' : DestOf[s] = r /\ Called(s)'
    <3> SUFFICES ASSUME NEW s \in Queued(r) PROVE DestOf[s] = r /\ Called(s)'
      BY <1>6
    <3>1. DestOf[s] = r /\ Called(s)
      BY <2>1 DEF BufferKept
    <3>2. s # t
      BY <1>0, <3>1
    <3> QED BY <1>5, <3>1, <3>2
  <2>3. ASSUME NEW o \in Proc, NEW j \in Slot, Answered(r, o, j)'
        PROVE  manager'[r] = "read" /\ counted'[r] = sending'[o][j]
    <3>1. ~(o = q /\ j = k)
      BY <1>1, <2>3 DEF Answered
    <3>2. Answered(r, o, j) /\ sending'[o][j] = sending[o][j]
      BY <1>1, <1>6, <2>3, <3>1 DEF Answered, Queued
    <3>3. manager[r] = "read" /\ counted[r] = sending[o][j]
      BY <2>1, <3>2 DEF BufferKept
    <3>4. r # p
      <4> SUFFICES ASSUME r = p PROVE FALSE
        OBVIOUS
      <4>1. sending[o][j] = sending[q][k] /\ AtWork(o, j) /\ AtWork(q, k)
        BY <1>0, <3>2, <3>3 DEF AtWork, Answered
      <4> QED BY <3>1, <4>1, OneSender
    <3> QED BY <1>2, <3>2, <3>3, <3>4
  <2>4. Once(receiveBuffer'[r]) /\ connected'[r] \cap Elements(receiveBuffer'[r]) = {}
    BY <1>6, <2>1 DEF BufferKept
  <2> QED BY <1>3, <2>2, <2>3, <2>4 DEF BufferKept, Once, Elements
<1>9. \A r \in Proc : ManagerKept(r)'
  <2> TAKE r \in Proc
  <2>1. ManagerKept(r)
    BY DEF WayInv
  <2>2. CASE r = p
    <3>1. \A o \in Proc, j \in Slot : messages'[o][j] # t
      BY <1>0, <1>1, <1>7
    <3> QED BY <1>0, <1>2, <1>3, <1>4, <2>2, <3>1 DEF ManagerKept
  <2>3. CASE r # p
    <3>1. manager'[r] = manager[r] /\ counted'[r] = counted[r]
      BY <1>2, <2>3
    <3>2. manager[r] = "read" => Called(counted[r]) /\ counted[r] # t
      BY <1>0, <2>1, <2>3 DEF ManagerKept
    <3>3. manager[r] = "read" => Called(counted[r])' /\ counted'[r] \notin Queued(r)'
      BY <1>5, <1>6, <2>1, <3>1, <3>2 DEF ManagerKept
    <3>4. manager[r] = "process" => \A o \in Proc, j \in Slot : messages'[o][j] # counted[r]
      BY <1>1, <2>1 DEF ManagerKept
    <3> QED BY <1>3, <1>4, <1>6, <2>1, <3>1, <3>3, <3>4 DEF ManagerKept
  <2> QED BY <2>2, <2>3
<1>10. \A r \in Proc, j \in Slot : SlotKept(r, j)'
  <2> TAKE r \in Proc, j \in Slot
  <2>1. CASE r = q /\ j = k
    BY <1>1, <2>1 DEF SlotKept, AtWork
  <2>2. CASE ~(r = q /\ j = k)
    BY <1>1, <1>4, <2>2 DEF WayInv, SlotKept, AtWork
  <2> QED BY <2>1, <2>2
<1>11. \A r, o \in Proc, i, j \in Slot : OneSlot(r, i, o, j)'
  <2> TAKE r, o \in Proc, i, j \in Slot
  <2>1. OneSlot(r, i, o, j)
    BY DEF WayInv
  <2> QED BY <1>1, <2>1 DEF OneSlot
<1>12. \A d \in Caller : CallerKept(d)'
  BY <1>0, <1>3 DEF WayInv, CallerKept, Elements
<1>13. \A r \in Proc : Delivered(r)'
  BY <1>0, <1>3 DEF WayInv, Delivered, Once, Elements
<1>14. ReceiverTypes' /\ submitted' \in [Processor -> Seq(Task)]
  BY <1>0, <1>3 DEF WayInv, ReceiverTypes, receiverVars
<1> QED BY <1>3, <1>8, <1>9, <1>10, <1>11, <1>12, <1>13, <1>14 DEF WayInv

\* A sequence with a task more
LEMMA ElementsOfAppend ==
    ASSUME NEW s \in Seq(Task), NEW t \in Task
    PROVE  Elements(Append(s, t)) = Elements(s) \cup {t}
<1>1. /\ Len(Append(s, t)) = Len(s) + 1 /\ Len(s) \in Nat
      /\ Append(s, t)[Len(s) + 1] = t /\ \A i \in 1..Len(s) : Append(s, t)[i] = s[i]
  BY AppendOf
<1>2. 1..(Len(s) + 1) = 1..Len(s) \cup {Len(s) + 1}
  BY <1>1
<1> QED BY <1>1, <1>2 DEF Elements

\* And it was not among them
LEMMA AppendOnce ==
    ASSUME NEW s \in Seq(Task), NEW t \in Task, Once(s), t \notin Elements(s)
    PROVE  Once(Append(s, t)) /\ Elements(Append(s, t)) = Elements(s) \cup {t}
<1>1. /\ Len(Append(s, t)) = Len(s) + 1 /\ Append(s, t)[Len(s) + 1] = t /\ Len(s) \in Nat
      /\ \A i \in 1..Len(s) : Append(s, t)[i] = s[i]
  BY AppendOf
<1> QED BY <1>1, ElementsOfAppend DEF Once, Elements

\* A single task that was sent to p is submitted there
LEMMA OneArrives ==
    ASSUME ScriptInv, submitted \in [Processor -> Seq(Task)], UNCHANGED <<job, todo>>,
           NEW p \in Processor, NEW t \in Task, Delivered(p),
           t \in Sent, t \notin Elements(submitted[p]), DestOf[t] \in {p, D!Everyone},
           submitted' = [submitted EXCEPT ![p] = Append(submitted[p], t)]
    PROVE  D!Arrive(p) /\ Delivered(p)' /\ submitted' \in [Processor -> Seq(Task)]
<1>1. /\ submitted'[p] = Append(submitted[p], t) /\ submitted[p] \in Seq(Task)
      /\ Append(submitted[p], t) = submitted[p] \o <<t>> /\ <<t>> \in Seq(Task)
      /\ Append(submitted[p], t) \in Seq(Task)
  BY AppendIsConcat, AppendOf
<1>2. Once(submitted'[p]) /\ Elements(submitted'[p]) = Elements(submitted[p]) \cup {t}
  BY <1>1, AppendOnce DEF Delivered
<1>3. Sent' = Sent /\ Sent \subseteq Task
  BY SendsNone, SentAreTasks
<1>4. \A u \in Elements(<<t>>) : u \in Sent /\ DestOf[u] \in {p, D!Everyone}
  BY DEF Elements
<1>5. D!Arrive(p)
  <2>1. submitted' = [submitted EXCEPT ![p] = @ \o <<t>>]
    BY <1>1
  <2> QED BY <1>1, <1>2, <1>3, <1>4, <2>1, SubmitIsArrive
<1>6. Delivered(p)'
  <2>1. Once(submitted'[p])
    BY <1>2
  <2>2. \A u \in Elements(submitted'[p]) : u \in Sent' /\ DestOf[u] \in {p, D!Everyone}
    BY <1>2, <1>3 DEF Delivered
  <2> QED BY <2>1, <2>2 DEF Delivered, Once, Elements, D!Everyone
<1> QED BY <1>1, <1>5, <1>6

\* The message in hand is submitted
LEMMA SubmitReceivedKeepsWay ==
    ASSUME SocketInv, WayInv, UNCHANGED job, NEW p \in Proc, SubmitReceived(p)
    PROVE  WayInv' /\ D!Arrive(p)
<1>0. PICK t \in Task :
        /\ t = counted[p] /\ t # Empty /\ Travels(t) /\ DestOf[t] = p
        /\ \A q \in Proc, k \in Slot : messages[q][k] # t
        /\ UNCHANGED <<job, todo, slotVars, receiverVars>> /\ manager[p] = "process"
        /\ manager' = [manager EXCEPT ![p] = "probe"]
        /\ submitted' = [submitted EXCEPT ![p] = Append(submitted[p], t)]
        /\ counted' = [counted EXCEPT ![p] = Empty]
  <2>1. manager[p] = "process"
    BY DEF SubmitReceived, Go
  <2>2. /\ counted[p] # Empty /\ DestOf[counted[p]] = p /\ Travels(counted[p])
        /\ \A q \in Proc, k \in Slot : messages[q][k] # counted[p]
    BY <2>1 DEF WayInv, ManagerKept
  <2>3. counted[p] \in Task
    BY <2>2 DEF WayInv, ReceiverTypes
  <2> QED BY <2>1, <2>2, <2>3 DEF SubmitReceived, Go
<1>1. /\ t \in Sent /\ t \notin Elements(submitted[p]) /\ \A c \in Caller : Handed(c) => t # Current(c)
      /\ p \in Processor
  BY <1>0, Scripts DEF Travels, SocketInv, ScriptInv
<1>2. D!Arrive(p) /\ Delivered(p)' /\ submitted' \in [Processor -> Seq(Task)]
  BY <1>0, <1>1, OneArrives DEF WayInv, SocketInv
<1>3. /\ manager'[p] = "probe" /\ counted'[p] = Empty /\ submitted'[p] = Append(submitted[p], t)
      /\ \A r \in Proc \ {p} : /\ manager'[r] = manager[r] /\ counted'[r] = counted[r]
                               /\ submitted'[r] = submitted[r]
  <2>1. Proc \subseteq Processor
    BY Scripts DEF SocketInv, ScriptInv
  <2> QED BY <1>0, <1>1, <2>1 DEF WayInv, ReceiverTypes
<1>4. Elements(submitted'[p]) = Elements(submitted[p]) \cup {t}
  BY <1>1, <1>3, AppendOnce DEF WayInv, Delivered
<1>5. /\ UNCHANGED <<placing, messages, sender, sending>> /\ Proc' = Proc /\ Sent' = Sent
      /\ \A d : Current(d)' = Current(d) /\ Handed(d)' = Handed(d)
  BY <1>0, SendsNone DEF Proc, Handed, slotVars
<1>6. \A r \in Proc : \A s : s # t => (s \in Elements(submitted'[r]) <=> s \in Elements(submitted[r]))
  BY <1>3, <1>4
<1>7. \A s : s # t /\ Travels(s) => Travels(s)'
  <2> SUFFICES ASSUME NEW s, s # t, Travels(s) PROVE Travels(s)'
    OBVIOUS
  <2>1. s \notin Elements(submitted'[DestOf[s]])
    BY <1>6 DEF Travels
  <2> QED BY <1>5, <2>1 DEF Travels, Elements
<1>8. \A r \in Proc : /\ Queued(r)' = Queued(r) /\ receiveBuffer'[r] = receiveBuffer[r]
                      /\ connected'[r] = connected[r]
  BY <1>0 DEF Queued, Elements, receiverVars
<1>9. \A s : Called(s)' <=> Called(s)
  BY <1>5 DEF Called, CallsFor
<1>10. \A r \in Proc : BufferKept(r)'
  <2> TAKE r \in Proc
  <2>1. BufferKept(r)
    BY DEF WayInv
  <2>2. ASSUME NEW o \in Proc, NEW j \in Slot, Answered(r, o, j)'
        PROVE  manager'[r] = "read" /\ counted'[r] = sending'[o][j]
    <3>1. Answered(r, o, j)
      BY <1>5, <1>8, <2>2 DEF Answered, Queued
    <3>2. manager[r] = "read" /\ counted[r] = sending[o][j]
      BY <2>1, <3>1 DEF BufferKept
    <3> QED BY <1>0, <1>3, <1>5, <3>2
  <2>3. Once(receiveBuffer'[r]) /\ connected'[r] \cap Elements(receiveBuffer'[r]) = {}
    BY <1>8, <2>1 DEF BufferKept
  <2>4. \A s \in Queued(r)' : DestOf[s] = r /\ Called(s)'
    BY <1>8, <1>9, <2>1 DEF BufferKept
  <2> QED BY <1>5, <2>2, <2>3, <2>4 DEF BufferKept, Once, Elements
<1>11. \A r \in Proc : ManagerKept(r)'
  <2> TAKE r \in Proc
  <2>1. CASE r = p
    BY <1>3, <2>1 DEF ManagerKept
  <2>2. CASE r # p
    <3>1. manager'[r] = manager[r] /\ counted'[r] = counted[r] /\ ManagerKept(r) /\ receiveBuffer'[r] = receiveBuffer[r]
      BY <1>3, <1>8, <2>2 DEF WayInv
    <3>2. manager[r] = "process" => Travels(counted[r])'
      <4>1. manager[r] = "process" => Travels(counted'[r]) /\ counted'[r] # t
        BY <1>0, <2>2, <3>1 DEF ManagerKept
      <4> QED BY <1>7, <4>1
    <3> QED BY <1>5, <1>8, <1>9, <3>1, <3>2 DEF ManagerKept
  <2> QED BY <2>1, <2>2
<1>12. \A r \in Proc, j \in Slot : SlotKept(r, j)'
  BY <1>0, <1>5, <1>7 DEF WayInv, SlotKept, AtWork
<1>13. \A r, o \in Proc, i, j \in Slot : OneSlot(r, i, o, j)'
  BY <1>5 DEF WayInv, OneSlot
<1>14. \A d \in Caller : CallerKept(d)'
  <2> TAKE d \in Caller
  <2> SUFFICES ASSUME Handed(d) PROVE CallerKept(d)'
    BY <1>5 DEF CallerKept
  <2>1. DestOf[Current(d)] \in Proc /\ Current(d) \notin Elements(submitted[DestOf[Current(d)]]) /\ Current(d) # t
    BY <1>1 DEF WayInv, CallerKept
  <2>2. Current(d) \notin Elements(submitted'[DestOf[Current(d)]])
    BY <1>6, <2>1
  <2> QED BY <1>5, <2>1, <2>2 DEF CallerKept, Elements
<1>15. \A r \in Proc : Delivered(r)'
  <2> TAKE r \in Proc
  <2>1. CASE r = p
    BY <1>2, <2>1
  <2>2. CASE r # p
    <3>1. submitted'[r] = submitted[r] /\ Delivered(r)
      BY <1>3, <2>2 DEF WayInv
    <3> QED BY <1>5, <3>1 DEF Delivered, Once, Elements
  <2> QED BY <2>1, <2>2
<1>16. ReceiverTypes'
  BY <1>0, <1>5 DEF WayInv, ReceiverTypes, receiverVars
<1> QED BY <1>2, <1>5, <1>10, <1>11, <1>12, <1>13, <1>14, <1>15, <1>16 DEF WayInv

\* A caller that has sent something is on a processor of the job
LEMMA HomeOfSender ==
    ASSUME ScriptInv, NEW c \in Caller, Taken(c) # 0 PROVE Home[c] \in Proc
<1>1. \A i \in 1..Len(job.script[c]) : Home[c] < job.size
  BY TransportAssumption, Zenon DEF ScriptInv
<1>2. Home[c] \in Nat /\ job.size \in Nat
  BY TransportAssumption, Scripts DEF ScriptInv
<1>3. Taken(c) \in 1..Len(job.script[c])
  BY CurrentIsATask DEF Script
<1> QED BY <1>1, <1>2, <1>3 DEF Proc

\* A step of Delivery, or one it does not see
Delivers == D!Next \/ UNCHANGED <<Sent, Arrived>>

\* A step in which no task is taken or submitted
LEMMA NothingArrives == ASSUME UNCHANGED <<job, todo, submitted>> PROVE Delivers
<1>1. Sent' = Sent
  BY SendsNone
<1>2. Arrived' = Arrived
  BY DEF Arrived
<1> QED BY <1>1, <1>2 DEF Delivers

\* At the start no message is on its way
LEMMA WayStart == TransportInit /\ SocketInit => WayInv
<1> SUFFICES ASSUME TransportInit, SocketInit PROVE WayInv
  OBVIOUS
<1> USE DEF TransportInit, SocketInit
<1>0. Proc \subseteq Processor
  BY Scripts
<1>1. ReceiverTypes /\ submitted \in [Processor -> Seq(Task)]
  <2>1. receiveBuffer \in [Proc -> Seq(Task)] /\ submitted \in [Processor -> Seq(Task)]
    OBVIOUS
  <2> QED BY <2>1 DEF ReceiverTypes
<1>2. \A c \in Caller : CallerKept(c)
  BY DEF CallerKept, Handed
<1>3. \A p \in Proc, k \in Slot : SlotKept(p, k)
  BY DEF SlotKept, AtWork
<1>4. \A p, q \in Proc, k, j \in Slot : OneSlot(p, k, q, j)
  BY DEF OneSlot
<1>5. \A p \in Proc : BufferKept(p)
  <2> TAKE p \in Proc
  <2>1. receiveBuffer[p] = <<>> /\ connected[p] = {} /\ Elements(receiveBuffer[p]) = {}
    BY DEF Elements
  <2>2. \A q \in Proc, k \in Slot : ~ Answered(p, q, k)
    BY DEF Answered
  <2> QED BY <2>1, <2>2 DEF BufferKept, Once, Queued
<1>6. \A p \in Proc : ManagerKept(p)
  BY DEF ManagerKept
<1>7. \A p \in Proc : Delivered(p)
  BY <1>0 DEF Delivered, Once, Elements
<1> QED BY <1>1, <1>2, <1>3, <1>4, <1>5, <1>6, <1>7 DEF WayInv

\* Every step of the threads over sockets keeps the messages on their way, and
\* is a step of Delivery
LEMMA WayKeeps ==
    ASSUME SocketInv, WayInv, UNCHANGED job, SocketNext PROVE WayInv' /\ Delivers
<1>1. ASSUME NEW c \in Caller, SocketCaller(c) PROVE WayInv' /\ Delivers
  <2>1. CASE SocketSendTask(c)
    <3>1. D!Next
      BY <2>1, TakingIsSending DEF SocketSendTask, SocketInv
    <3> QED BY <2>1, <3>1, SendTaskKeepsWay DEF Delivers
  <2>2. CASE TryLock(c) \/ LockAny(c)
    <3>1. Delivers
      BY <2>2, NothingArrives DEF TryLock, LockAny
    <3> QED BY <2>2, <3>1, LockingKeepsWay
  <2>3. CASE Place(c)
    <3>1. Home[c] \in Proc
      BY <2>3, HomeOfSender DEF Place, SocketInv
    <3>2. Delivers
      BY <2>3, NothingArrives DEF Place
    <3> QED BY <2>3, <3>1, <3>2, PlaceKeepsWay
  <2> QED BY <1>1, <2>1, <2>2, <2>3 DEF SocketCaller
<1>2. ASSUME NEW p \in Proc, SocketReceiver(p) \/ SocketManager(p) PROVE WayInv' /\ Delivers
  <2>1. CASE AcceptEnvelope(p)
    <3>1. Delivers
      BY <2>1, NothingArrives DEF AcceptEnvelope
    <3> QED BY <2>1, <3>1, AcceptKeepsWay
  <2>2. CASE NotifyAll(p) \/ Probe(p) \/ Doze(p) \/ GetCount(p)
    <3>1. Delivers
      BY <2>2, NothingArrives DEF NotifyAll, Probe, Doze, GetCount
    <3> QED BY <2>2, <3>1, LookingKeepsWay
  <2>3. CASE Recv(p)
    <3>1. Delivers
      BY <2>3, NothingArrives DEF Recv
    <3> QED BY <2>3, <3>1, RecvKeepsWay
  <2>4. ASSUME NEW q \in Proc, NEW k \in Slot, Transfer(p, q, k) PROVE WayInv' /\ Delivers
    <3>1. Delivers
      BY <2>4, NothingArrives DEF Transfer
    <3> QED BY <2>4, <3>1, TransferKeepsWay
  <2>5. CASE SubmitReceived(p)
    <3>1. WayInv' /\ D!Arrive(p) /\ p \in Processor
      BY <2>5, SubmitReceivedKeepsWay, Scripts DEF SocketInv, ScriptInv
    <3> QED BY <3>1 DEF Delivers, D!Next
  <2> QED BY <1>2, <2>1, <2>2, <2>3, <2>4, <2>5 DEF SocketReceiver, SocketManager
<1>3. ASSUME NEW p \in Proc, NEW k \in Slot, SocketSender(p, k) PROVE WayInv' /\ Delivers
  <2>1. CASE TakeMessage(p, k)
    <3>1. Delivers
      BY <2>1, NothingArrives DEF TakeMessage
    <3> QED BY <2>1, <3>1, TakeMessageKeepsWay
  <2>2. CASE Call(p, k)
    <3>1. Delivers
      BY <2>2, NothingArrives DEF Call
    <3> QED BY <2>2, <3>1, CallKeepsWay
  <2> QED BY <1>3, <2>1, <2>2 DEF SocketSender
<1> QED BY <1>1, <1>2, <1>3 DEF SocketNext

\* Nor is the way lost when nothing moves
LEMMA WayQuiet ==
    ASSUME WayInv, UNCHANGED <<job, todo, submitted, socketVars>> PROVE WayInv'
<1>1. UNCHANGED <<placing, messages, sender, sending, connected, receiveBuffer, receiver, manager, counted>>
  BY DEF socketVars, slotVars, receiverVars, managerVars
<1>2. /\ Proc' = Proc /\ Sent' = Sent /\ \A t : Travels(t)' <=> Travels(t)
      /\ submitted' \in [Processor -> Seq(Task)]
      /\ \A c \in Caller : CallerKept(c)'
      /\ \A p, q \in Proc, k, j \in Slot : OneSlot(p, k, q, j)'
      /\ \A p \in Proc : Delivered(p)'
  BY <1>1, SameWay
<1>3. \A p \in Proc : BufferKept(p)' /\ (manager[p] # "process" => ManagerKept(p)')
  <2>1. Sent \subseteq Sent'
    BY <1>2
  <2>2. \A q \in Proc, k \in Slot : /\ sender[q][k] = "calling" <=> sender'[q][k] = "calling"
                                    /\ sender[q][k] = "calling" => sending'[q][k] = sending[q][k]
    BY <1>1
  <2> QED BY <2>1, <2>2, SameQueues DEF socketVars
<1>4. \A p \in Proc : manager[p] = "process" => ManagerKept(p)'
  BY <1>1, <1>2 DEF WayInv, ManagerKept
<1>5. \A p \in Proc, k \in Slot : SlotKept(p, k)'
  BY <1>1, <1>2 DEF WayInv, SlotKept, AtWork
<1>6. ReceiverTypes'
  BY <1>1, <1>2 DEF WayInv, ReceiverTypes
<1> QED BY <1>2, <1>3, <1>4, <1>5, <1>6 DEF WayInv

-----------------------------------------------------------------------------
(* The way of a message over MPI                                           *)

\* A message is one of those that were sent to p, or no task
Meant(p, m) == m \in Task => m \in Sent /\ DestOf[m] = p

MPIMeant ==
    \A p \in Proc :
        /\ Meant(p, m_RecvBuffer[p])
        /\ \A q \in Proc : \A i \in 1..Len(net[p][q]) : Meant(p, net[p][q][i])
        /\ Delivered(p)

\* More may be sent
LEMMA StillDelivered ==
    ASSUME NEW p, Delivered(p), submitted'[p] = submitted[p], Sent \subseteq Sent'
    PROVE  Delivered(p)'
  BY DEF Delivered, Once, Elements

\* Nothing moves over MPI
LEMMA StillMeant ==
    ASSUME MPIMeant, UNCHANGED <<job, submitted, net, m_RecvBuffer>>, Sent \subseteq Sent'
    PROVE  MPIMeant'
<1>1. Proc' = Proc
  BY DEF Proc
<1>2. \A p \in Proc : Delivered(p)'
  BY StillDelivered DEF MPIMeant
<1>3. \A p \in Proc : Meant(p, m_RecvBuffer[p])'
  BY DEF MPIMeant, Meant
<1>4. \A p, q \in Proc : \A i \in 1..Len(net[p][q]) : Meant(p, net[p][q][i])'
  BY DEF MPIMeant, Meant
<1> QED BY <1>1, <1>2, <1>3, <1>4 DEF MPIMeant

\* A message is put on its way to where it was sent
LEMMA SendIsMeant ==
    ASSUME MPIInv, ScriptInv, MPIMeant, UNCHANGED <<job, todo, submitted, m_RecvBuffer>>,
           NEW m \in Message, NEW dest, NEW here, m \in Task => m \in Sent /\ DestOf[m] = dest,
           net' = [net EXCEPT ![dest][here] = Append(@, m)]
    PROVE  MPIMeant'
<1>1. Proc' = Proc /\ Sent' = Sent
  BY SendsNone DEF Proc
<1>2. \A p \in Proc : Delivered(p)' /\ Meant(p, m_RecvBuffer[p])'
  BY <1>1, StillDelivered DEF MPIMeant, Meant
<1>3. ASSUME NEW p \in Proc, NEW q \in Proc, NEW i \in 1..Len(net'[p][q])
      PROVE  net'[p][q][i] \in Task => net'[p][q][i] \in Sent /\ DestOf[net'[p][q][i]] = p
  <2>0. net \in [Proc -> [Proc -> Seq(Message)]]
    BY DEF MPIInv, MPIKept
  <2>1. CASE p = dest /\ q = here
    <3>1. net'[p][q] = Append(net[p][q], m) /\ net[p][q] \in Seq(Message)
      BY <2>0, <2>1
    <3>2. /\ Len(net'[p][q]) = Len(net[p][q]) + 1 /\ Len(net[p][q]) \in Nat
          /\ net'[p][q][Len(net[p][q]) + 1] = m
          /\ \A j \in 1..Len(net[p][q]) : net'[p][q][j] = net[p][q][j]
      BY <3>1, AppendOf
    <3>3. i \in 1..Len(net[p][q]) \/ i = Len(net[p][q]) + 1
      BY <3>2
    <3> QED BY <2>1, <3>2, <3>3 DEF MPIMeant, Meant
  <2>2. CASE ~(p = dest /\ q = here)
    <3>1. net'[p][q] = net[p][q]
      BY <2>0, <2>2
    <3> QED BY <3>1 DEF MPIMeant, Meant
  <2> QED BY <2>1, <2>2
<1>4. \A p, q \in Proc : \A i \in 1..Len(net'[p][q]) : Meant(p, net[p][q][i])'
  BY <1>1, <1>3 DEF Meant
<1> QED BY <1>1, <1>2, <1>4 DEF MPIMeant

\* A message is received as it was sent
LEMMA RecvIsMeant ==
    ASSUME MPIInv, ScriptInv, MPIMeant, UNCHANGED <<job, todo, submitted>>,
           NEW p \in Proc, NEW q \in Proc, net[p][q] # <<>>,
           net' = [net EXCEPT ![p][q] = Tail(@)],
           m_RecvBuffer' = [m_RecvBuffer EXCEPT ![p] = Head(net[p][q])]
    PROVE  MPIMeant'
<1>1. Proc' = Proc /\ Sent' = Sent
  BY SendsNone DEF Proc
<1>2. \A r \in Proc : Delivered(r)'
  BY <1>1, StillDelivered DEF MPIMeant
<1>3. /\ net \in [Proc -> [Proc -> Seq(Message)]] /\ m_RecvBuffer \in [Proc -> Message \cup {None}]
  BY DEF MPIInv, MPIKept
<1>4. /\ Head(net[p][q]) = net[p][q][1] /\ 1 \in 1..Len(net[p][q])
      /\ \A i \in 1..Len(Tail(net[p][q])) :
           i + 1 \in 1..Len(net[p][q]) /\ Tail(net[p][q])[i] = net[p][q][i + 1]
  BY <1>3, TailOf
<1>5. ASSUME NEW r \in Proc PROVE Meant(r, m_RecvBuffer[r])'
  <2>1. m_RecvBuffer'[r] = IF r = p THEN net[p][q][1] ELSE m_RecvBuffer[r]
    BY <1>3, <1>4
  <2>2. Meant(r, m_RecvBuffer[r]) /\ Meant(p, net[p][q][1])
    BY <1>4 DEF MPIMeant
  <2> QED BY <1>1, <2>1, <2>2 DEF Meant
<1>6. ASSUME NEW r \in Proc, NEW s \in Proc, NEW i \in 1..Len(net'[r][s]),
             NEW m, m = net'[r][s][i]
      PROVE  Meant(r, m)
  <2>1. CASE r = p /\ s = q
    <3>1. net'[r][s] = Tail(net[p][q])
      BY <1>3, <2>1
    <3>2. i + 1 \in 1..Len(net[p][q]) /\ m = net[p][q][i + 1]
      BY <1>4, <1>6, <3>1
    <3>3. Meant(p, net[p][q][i + 1])
      BY <3>2 DEF MPIMeant
    <3> QED BY <2>1, <3>2, <3>3
  <2>2. CASE ~(r = p /\ s = q)
    <3>1. net'[r][s] = net[r][s]
      BY <1>3, <2>2
    <3> QED BY <1>6, <3>1 DEF MPIMeant
  <2> QED BY <2>1, <2>2
<1>7. \A r, s \in Proc : \A i \in 1..Len(net'[r][s]) : Meant(r, net[r][s][i])'
  BY <1>1, <1>6 DEF Meant
<1> QED BY <1>1, <1>2, <1>5, <1>7 DEF MPIMeant

\* The task in the buffer was not submitted before
LEMMA BufferIsNew ==
    ASSUME MPIInv, ScriptInv, NEW p \in Proc, m_RecvBuffer[p] \in Sent
    PROVE  m_RecvBuffer[p] \notin Elements(submitted[p])
<1> SUFFICES ASSUME NEW i \in 1..Len(submitted[p]), submitted[p][i] = m_RecvBuffer[p] PROVE FALSE
  BY DEF Elements
<1>1. PICK c \in Caller : m_RecvBuffer[p] \in Of(c)
  BY SentIs DEF SentDef
<1>2. Follows(c, submitted[p], <<m_RecvBuffer[p]>>)
  BY DEF MPIInv, OrderKept, Chain
<1>3. Before(c, submitted[p][i], m_RecvBuffer[p])
  BY <1>2 DEF Follows
<1>4. Position(c, m_RecvBuffer[p]) \in Int
  BY <1>1, PositionOf DEF ScriptInv
<1> QED BY <1>1, <1>3, <1>4 DEF Before

\* The task in the buffer of the receive thread arrives
LEMMA ProcessIsArrive ==
    ASSUME MPIInv, ScriptInv, MPIMeant, UNCHANGED job, NEW p \in Proc, ProcessMessage(p)
    PROVE  MPIMeant' /\ Delivers
<1> DEFINE m == m_RecvBuffer[p]
<1>0. /\ UNCHANGED <<job, todo, net>> /\ receiving[p] = "process"
      /\ submitted' = [submitted EXCEPT ![p] = IF m = Stop THEN submitted[p] ELSE Append(submitted[p], m)]
      /\ m_RecvBuffer' = [m_RecvBuffer EXCEPT ![p] = None]
  BY DEF ProcessMessage, ReceiverTo, sendVars
<1>1. /\ submitted \in [Processor -> Seq(Task)] /\ m_RecvBuffer \in [Proc -> Message \cup {None}]
      /\ m \in Message
  BY <1>0 DEF MPIInv, MPIKept
<1>2. Proc' = Proc /\ Sent' = Sent /\ p \in Processor /\ Proc \subseteq Processor
  BY <1>0, SendsNone, Scripts DEF Proc, ScriptInv
<1>3. \A r \in Proc : Meant(r, m_RecvBuffer[r])'
  BY <1>0, <1>1, <1>2, StopIsNoTask DEF MPIMeant, Meant
<1>4. \A r, q \in Proc : \A i \in 1..Len(net[r][q]) : Meant(r, net[r][q][i])'
  BY <1>0, <1>2 DEF MPIMeant, Meant
<1>5. Delivers /\ \A r \in Proc : Delivered(r)'
  <2>1. CASE m = Stop
    <3>1. submitted' = submitted
      BY <1>0, <1>1, <2>1
    <3> QED BY <1>0, <1>2, <3>1, StillDelivered, NothingArrives DEF MPIMeant
  <2>2. CASE m # Stop
    <3>1. PICK t \in Task : t = m
      BY <1>1, <2>2 DEF Message
    <3>2. t \in Sent /\ DestOf[t] = p
      BY <3>1 DEF MPIMeant, Meant
    <3>3. t \notin Elements(submitted[p])
      BY <3>1, <3>2, BufferIsNew
    <3>4. submitted' = [submitted EXCEPT ![p] = Append(submitted[p], t)]
      BY <1>0, <2>2, <3>1
    <3>5. D!Arrive(p) /\ Delivered(p)'
      BY <1>0, <1>1, <1>2, <3>2, <3>3, <3>4, OneArrives DEF MPIMeant
    <3>6. \A r \in Proc \ {p} : Delivered(r)'
      BY <1>1, <1>2, <3>4, StillDelivered DEF MPIMeant
    <3> QED BY <1>2, <3>5, <3>6 DEF Delivers, D!Next
  <2> QED BY <2>1, <2>2
<1> QED BY <1>0, <1>2, <1>3, <1>4, <1>5 DEF MPIMeant

-----------------------------------------------------------------------------
\* At the start nothing is on its way over MPI
LEMMA MeantStart == TransportInit /\ MPIInit => MPIMeant
<1> SUFFICES ASSUME TransportInit, MPIInit PROVE MPIMeant
  OBVIOUS
<1>1. Proc \subseteq Processor
  BY Scripts DEF TransportInit
<1>2. \A p \in Proc : submitted[p] = <<>> /\ m_RecvBuffer[p] = None /\ \A q \in Proc : net[p][q] = <<>>
  BY <1>1 DEF TransportInit, MPIInit
<1> QED BY <1>2, StopIsNoTask DEF MPIMeant, Meant, Delivered, Once, Elements

\* Every step over MPI is one of Delivery
LEMMA MeantKeeps ==
    ASSUME MPIInv, ScriptInv, MPIMeant, UNCHANGED job, MPINext PROVE MPIMeant' /\ Delivers
<1>0. ASSUME UNCHANGED <<todo, submitted, net, m_RecvBuffer>> PROVE MPIMeant' /\ Delivers
  <2>1. Sent \subseteq Sent'
    BY <1>0, SendsNone
  <2> QED BY <1>0, <2>1, StillMeant, NothingArrives
<1>1. ASSUME NEW c \in Caller, MPISendTask(c) PROVE MPIMeant' /\ Delivers
  <2>1. /\ todo[c] # <<>> /\ todo' = [todo EXCEPT ![c] = Tail(@)]
        /\ UNCHANGED <<submitted, net, m_RecvBuffer>>
    BY <1>1 DEF MPISendTask, receiveVars
  <2>2. Sent \subseteq Sent'
    BY <2>1, SendsOne
  <2> QED BY <2>1, <2>2, StillMeant, TakingIsSending DEF Delivers
<1>2. ASSUME NEW c \in Caller, MPISend(c) PROVE MPIMeant' /\ Delivers
  <2>1. /\ UNCHANGED <<todo, submitted, m_RecvBuffer>>
        /\ net' = [net EXCEPT ![DestOf[Current(c)]][Home[c]] = Append(@, Current(c))]
        /\ calling[c] = "write"
    BY <1>2 DEF MPISend, receiveVars
  <2>2. Current(c) \in Sent /\ Current(c) \in Message
    BY <2>1, CurrentIsSent DEF MPIInv, MPIKept, Message
  <2>3. MPIMeant'
    BY <2>1, <2>2, SendIsMeant
  <2> QED BY <2>1, <2>3, NothingArrives
<1>3. ASSUME NEW p \in Proc, MPIRecv(p) PROVE MPIMeant' /\ Delivers
  <2>0. UNCHANGED <<todo, submitted>>
    BY <1>3 DEF MPIRecv
  <2>1. PICK q \in Proc :
          /\ net[p][q] # <<>>
          /\ \/ UNCHANGED <<net, m_RecvBuffer>>
             \/ /\ net' = [net EXCEPT ![p][q] = Tail(@)]
                /\ m_RecvBuffer' = [m_RecvBuffer EXCEPT ![p] = Head(net[p][q])]
    BY <1>3 DEF MPIRecv, Heads, sendVars
  <2>2. CASE UNCHANGED <<net, m_RecvBuffer>>
    BY <1>0, <2>0, <2>2
  <2>3. CASE /\ net' = [net EXCEPT ![p][q] = Tail(@)]
             /\ m_RecvBuffer' = [m_RecvBuffer EXCEPT ![p] = Head(net[p][q])]
    BY <2>0, <2>1, <2>3, RecvIsMeant, NothingArrives
  <2> QED BY <2>1, <2>2, <2>3
<1>4. ASSUME NEW p \in Proc, ReceiveMsgBlocking(p) \/ MPIProbe(p) PROVE MPIMeant' /\ Delivers
  BY <1>0, <1>4 DEF ReceiveMsgBlocking, MPIProbe, sendVars
<1>5. ASSUME NEW p \in Proc, SendStop(p) PROVE MPIMeant' /\ Delivers
  <2>1. /\ UNCHANGED <<todo, submitted, m_RecvBuffer>> /\ Stop \in Message /\ Stop \notin Task
        /\ net' = [net EXCEPT ![p][p] = Append(@, Stop)]
    BY <1>5, StopIsNoTask DEF SendStop, receiveVars, Message
  <2> QED BY <2>1, SendIsMeant, NothingArrives
<1>6. ASSUME NEW p \in Proc,
             \/ JoinService(p) \/ LeaveBarrier(p) \/ UnlockReceiveBlocking(p)
             \/ JoinReceiver(p) \/ Finish(p)
      PROVE  MPIMeant' /\ Delivers
  BY <1>0, <1>6 DEF JoinService, LeaveBarrier, UnlockReceiveBlocking, JoinReceiver, Finish,
                    sendVars, receiveVars
<1> QED BY <1>1, <1>2, <1>3, <1>4, <1>5, <1>6, ProcessIsArrive
        DEF MPINext, MPICaller, MPIReceiver, MPIMain

-----------------------------------------------------------------------------
(* The way of a task through files                                         *)

\* The file n of o goes to q: it is filled for q, or is the next to be named
\* in its list, or a name there that is still to be read means it
Bound(o, n, q) ==
    \/ n = f_buffer[o][q]
    \/ working[o].at = "name" /\ working[o].number = n /\ working[o].next = q
    \/ \E i \in 1..Len(names[q]) : Waiting(q, i) /\ names[q][i] = [of |-> o, number |-> n]

\* What is in such a file was sent to q
Addressed(o, n, q) ==
    o # q /\ Bound(o, n, q) => \A t \in Elements(files[o][n].tasks) : t \in Sent /\ q \in Goals(t, o)

\* A task that o sent to q was submitted there, or is in the file that is filled
\* for q, or in one that was ended and goes to nobody else
Kept(o, t, q) ==
    \/ t \in Elements(submitted[q])
    \/ \E n \in Number :
         /\ t \in Elements(files[o][n].tasks)
         /\ \/ n = f_buffer[o][q]
            \/ files[o][n].state = "ended" /\ \A r \in Proc : Bound(o, n, r) => r = q

FilesMeant ==
    /\ \A o, q \in Proc, n \in Number : Addressed(o, n, q)
    /\ \A t \in Sent, o \in Proc : o = Home[From(t)] => \A q \in Goals(t, o) : Kept(o, t, q)
    /\ \A p \in Proc : Delivered(p)

\* Where a task of a script comes from
LEMMA OriginOf == ASSUME ScriptInv, NEW c \in Caller, NEW t \in Of(c) PROVE From(t) = c
<1>1. Position(c, t) \in 1..Len(Script[c]) /\ Script[c][Position(c, t)] = t
  BY PositionOf DEF ScriptInv
<1>2. \A d \in Caller : t \in Elements(Script[d]) <=> d = c
  BY <1>1, OnePosition DEF Of, ScriptInv
<1> QED BY <1>2 DEF From

\* What was sent was sent by a processor of the job
LEMMA SenderIsThere ==
    ASSUME ScriptInv, NEW t \in Sent
    PROVE  From(t) \in Caller /\ t \in Of(From(t)) /\ Home[From(t)] \in Proc
<1>1. PICK c \in Caller : t \in Of(c) /\ Position(c, t) <= Taken(c)
  BY SentIs DEF SentDef
<1>2. Taken(c) \in Nat /\ Position(c, t) \in 1..Len(Script[c])
  BY <1>1, PositionOf DEF ScriptInv
<1>3. Taken(c) # 0
  BY <1>1, <1>2
<1> QED BY <1>1, <1>3, OriginOf, HomeOfSender

\* What the next state has to keep
LEMMA MeantAgain ==
    ASSUME ScriptInv, UNCHANGED job, Sent \subseteq Sent',
           \A o, q \in Proc, n \in Number : Addressed(o, n, q)',
           \A t \in Sent', o \in Proc : o = Home[From(t)] => \A q \in Goals(t, o) : Kept(o, t, q)',
           \A p \in Proc : Delivered(p)'
    PROVE  FilesMeant'
<1>1. Proc' = Proc /\ \A t : From(t)' = From(t)
  BY DEF Proc, From, Script
<1>2. \A t, o : Goals(t, o)' = Goals(t, o)
  BY <1>1 DEF Goals
<1> QED BY <1>1, <1>2 DEF FilesMeant

\* A step that leaves the files as they are, and lets no file go where it did
\* not go before
LEMMA SameFilesMeant ==
    ASSUME ScriptInv, FilesMeant, UNCHANGED <<job, todo, submitted, files, f_buffer>>,
           \A o, q \in Proc, n \in Number : Bound(o, n, q)' => Bound(o, n, q)
    PROVE  FilesMeant' /\ Delivers
<1>1. Proc' = Proc /\ Sent' = Sent /\ \A t, o : Goals(t, o)' = Goals(t, o)
  BY SendsNone DEF Proc, Goals
<1>2. \A o, q \in Proc, n \in Number : Addressed(o, n, q)'
  BY <1>1 DEF FilesMeant, Addressed
<1>3. ASSUME NEW t \in Sent, NEW o \in Proc, o = Home[From(t)], NEW q \in Goals(t, o)
      PROVE  Kept(o, t, q)'
  <2>1. Kept(o, t, q)
    BY <1>3 DEF FilesMeant
  <2> QED BY <1>1, <2>1 DEF Kept
<1>4. \A p \in Proc : Delivered(p)'
  BY <1>1, StillDelivered DEF FilesMeant
<1>5. Delivers
  BY NothingArrives
<1> QED BY <1>1, <1>2, <1>3, <1>4, <1>5, MeantAgain

\* No file goes where it did not go before when the names that wait waited, and
\* what is to be named was
LEMMA FewerBound ==
    ASSUME UNCHANGED f_buffer,
           \A p \in Proc : working'[p].at = "name" => working'[p] = working[p],
           \A p \in Proc : \A i : Waiting(p, i)' => Waiting(p, i) /\ names'[p][i] = names[p][i]
    PROVE  \A o, q \in Proc, n \in Number : Bound(o, n, q)' => Bound(o, n, q)
<1> SUFFICES ASSUME NEW o \in Proc, NEW q \in Proc, NEW n \in Number, Bound(o, n, q)'
             PROVE  Bound(o, n, q)
  OBVIOUS
<1>1. CASE n = f_buffer'[o][q]
  BY <1>1 DEF Bound
<1>2. CASE working'[o].at = "name" /\ working'[o].number = n /\ working'[o].next = q
  BY <1>2 DEF Bound
<1>3. CASE \E i \in 1..Len(names'[q]) : Waiting(q, i)' /\ names'[q][i] = [of |-> o, number |-> n]
  <2>1. PICK i : Waiting(q, i)' /\ names'[q][i] = [of |-> o, number |-> n]
    BY <1>3
  <2>2. Waiting(q, i) /\ names[q][i] = [of |-> o, number |-> n]
    BY <2>1
  <2>3. i \in 1..Len(names[q])
    BY <2>2 DEF Waiting
  <2> QED BY <2>2, <2>3 DEF Bound
<1> QED BY <1>1, <1>2, <1>3 DEF Bound

\* A processor begins or ends to work with its lists
LEMMA WorkIsMeant ==
    ASSUME FileInv, FilesMeant, UNCHANGED job, NEW r \in Proc,
           \/ SendMessages(r) \/ NothingToSend(r) \/ AllSent(r)
           \/ OpenList(r) \/ EndOfList(r) \/ UsualEmptyList(r)
    PROVE  FilesMeant' /\ Delivers
<1>0. FileKept /\ ScriptInv /\ UNCHANGED <<todo, submitted, files, f_buffer>>
  BY DEF FileInv, NumbersInv, SendMessages, NothingToSend, AllSent, OpenList, EndOfList,
         UsualEmptyList
<1>1. /\ \A p \in Proc \ {r} : working'[p] = working[p] /\ names'[p] = names[p]
      /\ working'[r] = working[r] \/ working'[r].at # "name"
  BY <1>0 DEF SendMessages, NothingToSend, AllSent, OpenList, EndOfList, UsualEmptyList,
                FileKept, Idle
<1>2. ASSUME NEW i, Waiting(r, i)' PROVE Waiting(r, i) /\ names'[r][i] = names[r][i]
  <2>1. CASE SendMessages(r) \/ NothingToSend(r) \/ AllSent(r)
    BY <2>1, <1>0, <1>2 DEF SendMessages, NothingToSend, AllSent, Waiting, FileKept, Idle
  <2>2. CASE OpenList(r)
    BY <2>2, <1>0, <1>2 DEF OpenList, Waiting, FileKept
  <2>3. CASE EndOfList(r)
    <3>1. working'[r].at = "empty"
      BY <2>3, <1>0 DEF EndOfList, FileKept
    <3> QED BY <3>1, <1>2 DEF Waiting
  <2>4. CASE UsualEmptyList(r)
    <3>1. names'[r] = <<>>
      BY <2>4, <1>0 DEF UsualEmptyList, FileKept
    <3> QED BY <3>1, <1>2 DEF Waiting
  <2> QED BY <2>1, <2>2, <2>3, <2>4
<1>3. \A p \in Proc : \A i : Waiting(p, i)' => Waiting(p, i) /\ names'[p][i] = names[p][i]
  BY <1>1, <1>2 DEF Waiting
<1>4. \A o, q \in Proc, n \in Number : Bound(o, n, q)' => Bound(o, n, q)
  BY <1>0, <1>1, <1>3, FewerBound
<1> QED BY <1>0, <1>4, SameFilesMeant

\* The name is added to the list of who it goes to
LEMMA AddNameIsMeant ==
    ASSUME FileInv, FilesMeant, UNCHANGED job, NEW r \in Proc, AddName(r)
    PROVE  FilesMeant' /\ Delivers
<1>0. /\ ScriptInv /\ FileKept /\ Naming(r)
      /\ UNCHANGED <<todo, submitted, files, f_buffer>> /\ working[r].at = "name"
  BY DEF FileInv, NumbersInv, AddName
<1>1. PICK s, name : s = working[r].next /\ name = [of |-> r, number |-> working[r].number]
  OBVIOUS
<1>2. s \in Proc /\ name \in Names /\ names[s] \in Seq(Names)
  BY <1>0, <1>1 DEF Naming, FileKept, Names
<1>3. /\ names'[s] = Append(names[s], name) /\ \A p \in Proc \ {s} : names'[p] = names[p]
      /\ working'[r].at = "send" /\ \A p \in Proc \ {r} : working'[p] = working[p]
  BY <1>0, <1>1, <1>2 DEF AddName, FileKept
<1>4. /\ Len(names'[s]) = Len(names[s]) + 1 /\ Len(names[s]) \in Nat
      /\ names'[s][Len(names[s]) + 1] = name
      /\ \A i \in 1..Len(names[s]) : names'[s][i] = names[s][i]
  BY <1>2, <1>3, AppendOf
<1>5. ASSUME NEW o \in Proc, NEW q \in Proc, NEW n \in Number, Bound(o, n, q)'
      PROVE  Bound(o, n, q)
  <2>1. CASE n = f_buffer'[o][q]
    BY <1>0, <2>1 DEF Bound
  <2>2. CASE working'[o].at = "name" /\ working'[o].number = n /\ working'[o].next = q
    BY <1>3, <2>2 DEF Bound
  <2>3. CASE \E i \in 1..Len(names'[q]) : Waiting(q, i)' /\ names'[q][i] = [of |-> o, number |-> n]
    <3>1. PICK i \in 1..Len(names'[q]) : Waiting(q, i)' /\ names'[q][i] = [of |-> o, number |-> n]
      BY <2>3
    <3>2. CASE q = s /\ i = Len(names[s]) + 1
      <4>1. [of |-> o, number |-> n] = [of |-> r, number |-> working[r].number]
        BY <1>1, <1>4, <3>1, <3>2
      <4>2. o = r /\ n = working[r].number
        BY <4>1
      <4> QED BY <1>0, <1>1, <3>2, <4>2 DEF Bound
    <3>3. CASE ~(q = s /\ i = Len(names[s]) + 1)
      <4>1. i \in 1..Len(names[q]) /\ names'[q][i] = names[q][i]
        BY <1>3, <1>4, <3>1, <3>3
      <4>2. Waiting(q, i)
        BY <1>0, <1>3, <3>1, <4>1 DEF Waiting
      <4> QED BY <3>1, <4>1, <4>2 DEF Bound
    <3> QED BY <3>2, <3>3
  <2> QED BY <1>5, <2>1, <2>2, <2>3 DEF Bound
<1> QED BY <1>0, <1>5, SameFilesMeant

\* A file that is open goes to nobody but who it is filled for
LEMMA OpenGoesTo ==
    ASSUME NumbersInv, NEW o \in Proc, NEW n \in Number, files[o][n].state = "open",
           NEW q \in Proc, Bound(o, n, q)
    PROVE  n = f_buffer[o][q]
<1>1. CASE working[o].at = "name" /\ working[o].number = n
  BY <1>1 DEF NumbersInv, Naming
<1>2. ASSUME NEW i \in 1..Len(names[q]), Waiting(q, i), names[q][i] = [of |-> o, number |-> n]
      PROVE  FALSE
  BY <1>2 DEF NumbersInv, Named
<1> QED BY <1>1, <1>2 DEF Bound

\* The file is ended, and goes to who it was filled for; the new one is empty
LEMMA EndFileIsMeant ==
    ASSUME FileInv, FilesMeant, UNCHANGED job, NEW r \in Proc, UsualEndFile(r)
    PROVE  FilesMeant' /\ Delivers
<1>0. /\ ScriptInv /\ NumbersInv /\ FileKept /\ Filling(r) /\ Proc' = Proc
      /\ UNCHANGED <<todo, submitted, names, listExists>>
  BY DEF FileInv, NumbersInv, UsualEndFile, Proc
<1>1. PICK q, n, new : q = working[r].next /\ n = f_buffer[r][q] /\ new = NewNumber(r, n)
  OBVIOUS
<1>2. working[r].at = "send" /\ q \in Proc \ {r}
  BY <1>1 DEF UsualEndFile
<1>3. /\ FreeNumber(r, n) # {} /\ new # 0
      /\ files' = [files EXCEPT ![r][n].state = "ended", ![r][new] = Fresh]
      /\ f_buffer' = [f_buffer EXCEPT ![r][q] = new]
      /\ working' = [working EXCEPT ![r] = [at |-> "name", next |-> q, number |-> n]]
  BY <1>1 DEF UsualEndFile
<1>4. q \in Proc \ {r} /\ n \in Number /\ n # 0 /\ files[r][n].state = "open"
  BY <1>0, <1>1, <1>2 DEF Filling, FileKept
<1>5. new \in Number /\ new # 0 /\ files[r][new].state = "absent" /\ new # n
  BY <1>0, <1>1, <1>3, <1>4, NewIsFree
<1>6. /\ working'[r] = [at |-> "name", next |-> q, number |-> n]
      /\ \A p \in Proc \ {r} : working'[p] = working[p]
      /\ f_buffer'[r][q] = new /\ \A s \in Proc \ {q} : f_buffer'[r][s] = f_buffer[r][s]
      /\ \A p \in Proc \ {r} : f_buffer'[p] = f_buffer[p]
  BY <1>0, <1>3, <1>4 DEF FileKept
<1>7. /\ files'[r][n].state = "ended" /\ files'[r][new].tasks = <<>>
      /\ files'[r][n].tasks = files[r][n].tasks
      /\ \A m \in Number \ {n, new} : files'[r][m] = files[r][m]
      /\ \A p \in Proc \ {r} : files'[p] = files[p]
  <2>1. files[r] \in [Number -> Content] /\ files[r][n] \in Content
    BY <1>0, <1>4 DEF FileKept
  <2>2. files'[r][new] = Fresh
    BY <1>0, <1>3, <1>4, <1>5, <2>1 DEF FileKept
  <2> QED BY <1>0, <1>3, <1>4, <1>5, <2>1, <2>2 DEF FileKept, Content, Fresh
<1>8. \A p \in Proc : \A i : Waiting(p, i)' <=> Waiting(p, i)
  BY <1>0, <1>2, <1>6 DEF Waiting
<1>9. ASSUME NEW o \in Proc, NEW m \in Number, ~(o = r /\ m = new), NEW s \in Proc, Bound(o, m, s)'
      PROVE  Bound(o, m, s)
  <2>1. CASE m = f_buffer'[o][s]
    BY <1>6, <1>9, <2>1 DEF Bound
  <2>2. CASE working'[o].at = "name" /\ working'[o].number = m /\ working'[o].next = s
    BY <1>1, <1>6, <2>2 DEF Bound
  <2>3. CASE \E i \in 1..Len(names'[s]) : Waiting(s, i)' /\ names'[s][i] = [of |-> o, number |-> m]
    BY <1>0, <1>8, <2>3 DEF Bound
  <2> QED BY <1>9, <2>1, <2>2, <2>3 DEF Bound
<1>10. /\ Sent' = Sent /\ Delivers /\ \A t, o : Goals(t, o)' = Goals(t, o)
      /\ \A p \in Proc : Delivered(p)'
  <2>1. Sent' = Sent
    BY <1>0, SendsNone
  <2> QED BY <1>0, <2>1, NothingArrives, StillDelivered DEF FilesMeant, Goals
<1>11. ASSUME NEW o \in Proc, NEW s \in Proc, NEW m \in Number PROVE Addressed(o, m, s)'
  <2>1. CASE o = r /\ m = new
    BY <1>7, <2>1 DEF Addressed, Elements
  <2>2. CASE ~(o = r /\ m = new)
    <3>1. files'[o][m].tasks = files[o][m].tasks
      BY <1>7, <2>2
    <3>2. Bound(o, m, s)' => Bound(o, m, s)
      BY <1>9, <2>2
    <3> QED BY <1>10, <3>1, <3>2 DEF FilesMeant, Addressed
  <2> QED BY <2>1, <2>2
<1>12. ASSUME NEW t \in Sent, NEW o \in Proc, o = Home[From(t)], NEW s \in Goals(t, o)
      PROVE  Kept(o, t, s)'
  <2>0. s \in Proc \ {o} /\ Kept(o, t, s)
    BY <1>12 DEF FilesMeant, Goals
  <2>1. CASE t \in Elements(submitted[s])
    BY <1>0, <2>1 DEF Kept
  <2>2. CASE t \notin Elements(submitted[s])
    <3>1. PICK m \in Number :
            /\ t \in Elements(files[o][m].tasks)
            /\ \/ m = f_buffer[o][s]
               \/ files[o][m].state = "ended" /\ \A u \in Proc : Bound(o, m, u) => u = s
      BY <2>0, <2>2 DEF Kept
    <3>2. ~(o = r /\ m = new)
      <4>1. o = r /\ m = f_buffer[o][s] => files[r][m].state = "open"
        BY <1>0, <2>0 DEF Filling
      <4> QED BY <1>5, <3>1, <4>1
    <3>3. /\ files'[o][m].tasks = files[o][m].tasks
          /\ files[o][m].state = "ended" => files'[o][m].state = "ended"
      BY <1>7, <3>2
    <3>4. CASE files[o][m].state = "ended" /\ \A u \in Proc : Bound(o, m, u) => u = s
      <4>1. \A u \in Proc : Bound(o, m, u)' => u = s
        BY <1>9, <3>2, <3>4
      <4> QED BY <1>0, <3>1, <3>3, <3>4, <4>1 DEF Kept
    <3>5. CASE m = f_buffer[o][s] /\ ~(o = r /\ s = q)
      <4>1. m = f_buffer'[o][s]
        BY <1>6, <2>0, <3>5
      <4> QED BY <3>1, <3>3, <4>1 DEF Kept
    <3>6. CASE m = f_buffer[o][s] /\ o = r /\ s = q
      <4>1. m = n /\ files'[o][m].state = "ended"
        BY <1>1, <1>7, <3>6
      <4>2. ASSUME NEW u \in Proc, Bound(o, m, u)' PROVE u = s
        <5>1. n = f_buffer[r][u]
          BY <1>0, <1>4, <1>9, <3>2, <3>6, <4>1, <4>2, OpenGoesTo
        <5> QED BY <1>0, <1>1, <1>4, <3>6, <5>1 DEF Filling
      <4> QED BY <1>0, <3>1, <3>3, <4>1, <4>2 DEF Kept
    <3> QED BY <3>1, <3>4, <3>5, <3>6
  <2> QED BY <2>1, <2>2
<1> QED BY <1>0, <1>10, <1>11, <1>12, MeantAgain

\* The task goes into the file of each processor it is sent to
LEMMA SendTaskIsMeant ==
    ASSUME FileInv, FilesMeant, UNCHANGED job, NEW c \in Caller, UsualSendTask(c)
    PROVE  FilesMeant' /\ Delivers
<1>0. /\ ScriptInv /\ NumbersInv /\ FileKept /\ Proc' = Proc
      /\ UNCHANGED <<submitted, names, f_buffer, working>>
      /\ todo[c] # <<>> /\ todo' = [todo EXCEPT ![c] = Tail(@)]
  BY DEF FileInv, NumbersInv, UsualSendTask, Proc
<1>1. PICK o, t : o = Home[c] /\ t = Head(todo[c])
  OBVIOUS
<1>2. /\ Sent' = Sent \cup {t} /\ t \in Task /\ t \in Of(c) /\ o \in Proc /\ From(t) = c
  BY <1>0, <1>1, SendsOne, HomeIsThere, OriginOf
<1>3. /\ \A p \in Proc \ {o} : files'[p] = files[p]
      /\ \A n \in Number : files'[o][n] =
           IF \E q \in Goals(t, o) : n = f_buffer[o][q] THEN WithTask(files[o][n], t) ELSE files[o][n]
  <2>1. files' = [files EXCEPT ![o] = [n \in Number |->
          IF \E q \in Goals(t, o) : n = f_buffer[o][q] THEN WithTask(files[o][n], t) ELSE files[o][n]]]
    BY <1>1, Zenon DEF UsualSendTask
  <2> QED BY <1>0, <1>2, <2>1 DEF FileKept
<1>4. ASSUME NEW n \in Number
      PROVE  /\ WithTask(files[o][n], t).state = files[o][n].state
             /\ Elements(WithTask(files[o][n], t).tasks) = Elements(files[o][n].tasks) \cup {t}
  <2>1. files[o][n].tasks \in Seq(Task)
    BY <1>0, <1>2 DEF FileKept, Content
  <2> QED BY <1>2, <2>1, ElementsOfAppend DEF WithTask
<1>5. Goals(t, o) \subseteq Proc \ {o} /\ \A s, p : Goals(s, p)' = Goals(s, p)
  BY <1>0 DEF Goals
<1>6. \A p, q \in Proc, n \in Number : Bound(p, n, q)' <=> Bound(p, n, q)
  BY <1>0 DEF Bound, Waiting
<1>7. ASSUME NEW p \in Proc, NEW n \in Number
      PROVE  /\ files'[p][n].state = files[p][n].state
             /\ Elements(files[p][n].tasks) \subseteq Elements(files'[p][n].tasks)
             /\ \/ files'[p][n] = files[p][n]
                \/ /\ p = o /\ \E q \in Goals(t, o) : n = f_buffer[o][q]
                   /\ Elements(files'[p][n].tasks) = Elements(files[p][n].tasks) \cup {t}
  <2>1. CASE p # o
    BY <1>3, <2>1
  <2>2. CASE p = o
    BY <1>3, <1>4, <2>2
  <2> QED BY <2>1, <2>2
<1>8. ASSUME NEW p \in Proc, NEW q \in Proc, NEW n \in Number PROVE Addressed(p, n, q)'
  <2> SUFFICES ASSUME p # q, Bound(p, n, q), NEW s \in Elements(files'[p][n].tasks)
               PROVE  s \in Sent' /\ q \in Goals(s, p)
    BY <1>5, <1>6 DEF Addressed
  <2>1. CASE s \in Elements(files[p][n].tasks)
    BY <1>2, <2>1 DEF FilesMeant, Addressed
  <2>2. CASE s \notin Elements(files[p][n].tasks)
    <3>1. PICK r \in Goals(t, o) : p = o /\ n = f_buffer[o][r] /\ s = t
      BY <1>7, <2>2
    <3>2. r \in Proc \ {o} /\ files[o][n].state = "open"
      BY <1>0, <1>2, <1>5, <3>1 DEF NumbersInv, Filling
    <3>3. n = f_buffer[o][q]
      BY <1>0, <3>1, <3>2, OpenGoesTo
    <3>4. q = r
      <4>1. Filling(o) /\ q \in Proc \ {o}
        BY <1>0, <1>2, <3>1 DEF NumbersInv
      <4>2. f_buffer[o][q] = f_buffer[o][r]
        BY <3>1, <3>3
      <4> QED BY <3>2, <4>1, <4>2 DEF Filling
    <3> QED BY <1>2, <3>1, <3>4
  <2> QED BY <2>1, <2>2
<1>9. ASSUME NEW s \in Sent', NEW p \in Proc, p = Home[From(s)], NEW q \in Goals(s, p)
      PROVE  Kept(p, s, q)'
  <2>1. CASE s = t
    <3>1. PICK n : n = f_buffer[o][q]
      OBVIOUS
    <3>2. p = o /\ n \in Number /\ f_buffer'[o][q] = n
      BY <1>0, <1>1, <1>2, <1>5, <1>9, <2>1, <3>1 DEF FileKept
    <3>3. files'[o][n] = WithTask(files[o][n], t)
      BY <1>3, <1>9, <2>1, <3>1, <3>2
    <3>4. t \in Elements(files'[o][n].tasks)
      BY <1>4, <3>2, <3>3
    <3> QED BY <2>1, <3>2, <3>4 DEF Kept
  <2>2. CASE s # t
    <3>1. Kept(p, s, q)
      BY <1>2, <1>9, <2>2 DEF FilesMeant
    <3>2. CASE s \in Elements(submitted[q])
      BY <1>0, <3>2 DEF Kept
    <3>3. CASE \E n \in Number :
                 /\ s \in Elements(files[p][n].tasks)
                 /\ \/ n = f_buffer[p][q]
                    \/ files[p][n].state = "ended" /\ \A r \in Proc : Bound(p, n, r) => r = q
      <4>1. PICK n \in Number :
                 /\ s \in Elements(files[p][n].tasks)
                 /\ \/ n = f_buffer[p][q]
                    \/ files[p][n].state = "ended" /\ \A r \in Proc : Bound(p, n, r) => r = q
        BY <3>3
      <4>2. s \in Elements(files'[p][n].tasks) /\ files'[p][n].state = files[p][n].state
        BY <1>7, <4>1
      <4>3. (\A r \in Proc : Bound(p, n, r) => r = q) => \A r \in Proc : Bound(p, n, r)' => r = q
        BY <1>6
      <4> QED BY <1>0, <4>1, <4>2, <4>3 DEF Kept
    <3> QED BY <3>1, <3>2, <3>3 DEF Kept
  <2> QED BY <2>1, <2>2
<1>10. \A p \in Proc : Delivered(p)'
  BY <1>0, <1>2, StillDelivered DEF FilesMeant
<1>11. Delivers
  BY <1>0, TakingIsSending DEF Delivers
<1> QED BY <1>0, <1>2, <1>8, <1>9, <1>10, <1>11, MeantAgain

\* A file is read by who it goes to, and its tasks arrive
LEMMA ReadFileIsMeant ==
    ASSUME FileInv, FileInv', FilesMeant, UNCHANGED job, NEW r \in Proc, UsualReadFile(r)
    PROVE  FilesMeant' /\ Delivers
<1>0. /\ ScriptInv /\ NumbersInv /\ FileKept /\ Filling(r) /\ Proc' = Proc /\ job \in Jobs
      /\ UNCHANGED <<todo, names, f_buffer>>
      /\ working[r].at = "read" /\ working[r].next <= Len(names[r])
  BY DEF FileInv, NumbersInv, ScriptInv, UsualReadFile, Proc
<1>1. PICK i, o, n : i = working[r].next /\ o = names[r][i].of /\ n = names[r][i].number
  OBVIOUS
<1>2. i \in 1..Len(names[r]) /\ i \in Nat /\ Waiting(r, i)
  <2>1. i \in Nat /\ Len(names[r]) \in Nat /\ i # 0
    BY <1>0, <1>1 DEF FileKept, Filling
  <2>2. i \in 1..Len(names[r]) /\ i >= i
    BY <1>0, <1>1, <2>1
  <2> QED BY <1>0, <1>1, <2>1, <2>2 DEF Waiting
<1>3. /\ o \in Proc \ {r} /\ n \in Number /\ files[o][n].state = "ended"
      /\ names[r][i] = [of |-> o, number |-> n] /\ Bound(o, n, r)
      /\ files[o][n].tasks \in Seq(Task)
  <2>1. Named(r, i) /\ names[r][i] \in Names /\ o \in Proc /\ n \in Number
    BY <1>0, <1>1, <1>2, NameOf DEF NumbersInv
  <2>2. o # r /\ files[o][n].state = "ended"
    BY <1>1, <1>2, <2>1 DEF Named
  <2>3. names[r][i] = [of |-> o, number |-> n]
    BY <1>1, <2>1 DEF Names
  <2>4. files[o][n] \in Content
    BY <1>0, <2>1 DEF FileKept
  <2> QED BY <1>2, <2>1, <2>2, <2>3, <2>4 DEF Bound, Content
<1>4. PICK f : f = files[o][n].tasks
  OBVIOUS
<1>5. /\ submitted' = [submitted EXCEPT ![r] = submitted[r] \o f] /\ f \in Seq(Task)
      /\ submitted'[r] = submitted[r] \o f /\ \A p \in Proc \ {r} : submitted'[p] = submitted[p]
      /\ submitted \in [Processor -> Seq(Task)] /\ r \in Processor /\ Proc \subseteq Processor
  <2>1. submitted \in [Processor -> Seq(Task)] /\ r \in Processor /\ Proc \subseteq Processor
    BY <1>0, Scripts DEF FileKept
  <2>2. submitted' = [submitted EXCEPT ![r] = submitted[r] \o f]
    BY <1>1, <1>4 DEF UsualReadFile
  <2> QED BY <1>3, <1>4, <2>1, <2>2
<1>6. /\ files'[o][n].tasks = <<>>
      /\ \A p \in Proc, m \in Number : ~(p = o /\ m = n) => files'[p][m] = files[p][m]
  <2>1. files' = [files EXCEPT ![o][n] = Absent]
    BY <1>1 DEF UsualReadFile
  <2>2. files'[o][n] = Absent
    BY <1>0, <1>3, <2>1 DEF FileKept
  <2>3. \A p \in Proc, m \in Number : ~(p = o /\ m = n) => files'[p][m] = files[p][m]
    BY <1>0, <1>3, <2>1 DEF FileKept
  <2> QED BY <2>2, <2>3 DEF Absent
<1>7. /\ working'[r].at = "read" /\ working'[r].next = i + 1
      /\ \A p \in Proc \ {r} : working'[p] = working[p]
  BY <1>0, <1>1 DEF UsualReadFile, FileKept
<1>8. \A p, q \in Proc, m \in Number : Bound(p, m, q)' => Bound(p, m, q)
  <2>1. \A p \in Proc : \A j : Waiting(p, j)' => Waiting(p, j) /\ names'[p][j] = names[p][j]
    <3>1. ASSUME NEW j, Waiting(r, j)' PROVE Waiting(r, j)
      <4>1. j \in 1..Len(names[r]) /\ j >= i + 1
        BY <1>0, <1>7, <3>1 DEF Waiting
      <4>2. j >= i
        BY <1>2, <4>1
      <4> QED BY <1>0, <1>1, <4>1, <4>2 DEF Waiting
    <3>2. ASSUME NEW p \in Proc \ {r}, NEW j, Waiting(p, j)' PROVE Waiting(p, j)
      BY <1>0, <1>7, <3>2 DEF Waiting
    <3> QED BY <1>0, <3>1, <3>2
  <2>2. \A p \in Proc : working'[p].at = "name" => working'[p] = working[p]
    BY <1>7
  <2> QED BY <1>0, <2>1, <2>2, FewerBound
<1>9. Sent' = Sent /\ Sent \subseteq Task /\ \A s, p : Goals(s, p)' = Goals(s, p)
  BY <1>0, SendsNone, SentAreTasks DEF Goals
<1>10. ASSUME NEW p \in Proc, NEW q \in Proc, NEW m \in Number PROVE Addressed(p, m, q)'
  <2>1. CASE p = o /\ m = n
    BY <1>6, <2>1 DEF Addressed, Elements
  <2>2. CASE ~(p = o /\ m = n)
    BY <1>6, <1>8, <1>9, <2>2 DEF FilesMeant, Addressed
  <2> QED BY <2>1, <2>2
<1>11. Elements(submitted'[r]) = Elements(submitted[r]) \cup Elements(f)
  BY <1>5, ElementsOfConcat
<1>12. ASSUME NEW t \in Sent, NEW p \in Proc, p = Home[From(t)], NEW q \in Goals(t, p)
       PROVE  Kept(p, t, q)'
  <2>0. q \in Proc /\ Kept(p, t, q)
    BY <1>12 DEF FilesMeant, Goals
  <2>1. CASE t \in Elements(submitted[q])
    BY <1>5, <1>11, <2>0, <2>1 DEF Kept
  <2>2. CASE t \notin Elements(submitted[q])
    <3>1. PICK m \in Number :
            /\ t \in Elements(files[p][m].tasks)
            /\ \/ m = f_buffer[p][q]
               \/ files[p][m].state = "ended" /\ \A s \in Proc : Bound(p, m, s) => s = q
      BY <2>0, <2>2 DEF Kept
    <3>2. CASE p = o /\ m = n
      <4>1. q \in Proc \ {o} /\ Filling(o)
        BY <1>0, <1>3, <1>12, <3>2 DEF Goals, NumbersInv
      <4>2. n # f_buffer[o][q]
        BY <1>3, <4>1 DEF Filling
      <4>3. r = q
        BY <1>3, <3>1, <3>2, <4>2
      <4> QED BY <1>4, <1>11, <3>1, <3>2, <4>3 DEF Kept
    <3>3. CASE ~(p = o /\ m = n)
      <4>1. files'[p][m] = files[p][m]
        BY <1>6, <3>3
      <4> QED BY <1>0, <1>8, <3>1, <4>1 DEF Kept
    <3> QED BY <3>2, <3>3
  <2> QED BY <2>1, <2>2
<1>13. ASSUME NEW t \in Elements(f) PROVE t \in Sent /\ DestOf[t] \in {r, D!Everyone}
  <2>1. t \in Sent /\ r \in Goals(t, o)
    BY <1>3, <1>4 DEF FilesMeant, Addressed
  <2> QED BY <2>1 DEF Goals, D!Everyone, Everyone
<1>14. \A c \in Caller : InOrder(c, submitted'[r])
  <2>1. (job \in Jobs)' /\ \A c \in Caller : FileOrder(c)'
    BY <1>0 DEF FileInv
  <2>2. (job \in Jobs /\ (\A c \in Caller : FileOrder(c))
           => \A c \in Caller, p \in Proc : InOrder(c, submitted[p]))'
    BY FilesInOrder, PTL
  <2>3. \A c \in Caller, p \in Proc' : InOrder(c, submitted[p])'
    BY <2>1, <2>2
  <2>4. \A c \in Caller : Of(c)' = Of(c) /\ \A s : Position(c, s)' = Position(c, s)
    BY DEF Of, Script, Elements, Position
  <2> QED BY <1>0, <2>3, <2>4 DEF InOrder, Before
<1>15. /\ Once(submitted'[r]) /\ \A t \in Elements(submitted'[r]) :
                                   t \in Sent /\ DestOf[t] \in {r, D!Everyone}
  <2>1. \A t \in Elements(submitted'[r]) : t \in Sent /\ DestOf[t] \in {r, D!Everyone}
    BY <1>11, <1>13 DEF FilesMeant, Delivered
  <2>2. Len(submitted'[r]) \in Nat
    BY <1>5, ConcatOf
  <2> QED BY <1>0, <1>14, <2>1, <2>2, OrderedIsOnce
<1>16. Delivers
  <2>1. D!Arrive(r)
    BY <1>5, <1>9, <1>13, <1>15, SubmitIsArrive DEF FilesMeant
  <2> QED BY <1>5, <2>1 DEF Delivers, D!Next
<1>17. ASSUME NEW p \in Proc PROVE Delivered(p)'
  <2>1. CASE p = r
    BY <1>9, <1>15, <2>1 DEF Delivered, Once, Elements
  <2>2. CASE p # r
    BY <1>5, <1>9, <2>2, StillDelivered DEF FilesMeant
  <2> QED BY <2>1, <2>2
<1> QED BY <1>0, <1>9, <1>10, <1>12, <1>16, <1>17, MeantAgain

\* At the start nothing was sent
LEMMA NothingSent == TransportInit => Sent = {}
<1> SUFFICES ASSUME TransportInit PROVE Sent = {}
  OBVIOUS
<1>1. \A c : todo[c] = Script[c]
  BY DEF TransportInit, Script
<1> QED BY <1>1 DEF Sent

\* At the start no file has a task
LEMMA FilesStart == TransportInit /\ FileInit => FilesMeant
<1> SUFFICES ASSUME TransportInit, FileInit PROVE FilesMeant
  OBVIOUS
<1>1. Sent = {} /\ Proc \subseteq Processor
  BY NothingSent, Scripts DEF TransportInit
<1>2. \A p \in Proc, n \in Number : files[p][n].tasks = <<>>
  <2>1. Fresh.tasks = <<>> /\ Absent.tasks = <<>>
    BY DEF Absent, Fresh
  <2>2. \A p \in Proc, n \in Number :
          files[p][n] = IF n \in 1..(job.size - 1) THEN Fresh ELSE Absent
    BY DEF FileInit
  <2> QED BY <2>1, <2>2, Zenon
<1>3. \A p, q \in Proc, n \in Number : Addressed(p, n, q)
  BY <1>2 DEF Addressed, Elements
<1>4. \A p \in Proc : Delivered(p)
  BY <1>1 DEF TransportInit, Delivered, Once, Elements
<1> QED BY <1>1, <1>3, <1>4 DEF FilesMeant

\* Every step with files is one of Delivery, until one overruns
LEMMA FilesStep ==
    ASSUME FileInv, FilesMeant, UNCHANGED job, FileNext, ~ overrun'
    PROVE  FilesMeant' /\ Delivers
<1>0. NumbersInv /\ ScriptInv /\ FileInv'
  BY FileKeeps DEF FileInv
<1>1. ASSUME NEW c \in Caller, FileSendTask(c) PROVE FilesMeant' /\ Delivers
  BY <1>0, <1>1, SendTaskIsUsual, SendTaskIsMeant
<1>2. ASSUME NEW p \in Proc, FileSending(p) PROVE FilesMeant' /\ Delivers
  BY <1>0, <1>2, WorkIsMeant, EndFileIsUsual, EndFileIsMeant, AddNameIsMeant DEF FileSending
<1>3. ASSUME NEW p \in Proc, FileReceiving(p) PROVE FilesMeant' /\ Delivers
  BY <1>0, <1>3, WorkIsMeant, ReadFileIsUsual, ReadFileIsMeant, NoNameIsRead,
     EmptyListIsUsual DEF FileReceiving
<1> QED BY <1>1, <1>2, <1>3 DEF FileNext

\* Nothing moves with files
LEMMA FilesStill ==
    ASSUME FileInv, FilesMeant, UNCHANGED <<job, todo, submitted, fileVars>> PROVE FilesMeant'
<1>1. UNCHANGED <<files, names, f_buffer, working>> /\ ScriptInv
  BY DEF fileVars, FileInv
<1>2. \A p \in Proc : \A i : Waiting(p, i)' => Waiting(p, i) /\ names'[p][i] = names[p][i]
  BY <1>1 DEF Waiting
<1>3. \A o, q \in Proc, n \in Number : Bound(o, n, q)' => Bound(o, n, q)
  BY <1>1, <1>2, FewerBound
<1> QED BY <1>1, <1>3, SameFilesMeant

-----------------------------------------------------------------------------
(* All three transports: the one the job uses, and the two that stay as    *)
(* they were at the start.                                                 *)

DeliveryInv ==
    /\ TransportsInv
    /\ IF kind = "socket" THEN WayInv ELSE SocketInit
    /\ IF kind = "mpi" THEN MPIMeant ELSE MPIInit
    /\ IF kind = "file" THEN overrun \/ FilesMeant ELSE FileInit

\* It holds at the start, which is the start of Delivery
LEMMA DeliveryStart == Init => DeliveryInv /\ D!Init
<1> SUFFICES ASSUME Init PROVE DeliveryInv /\ D!Init
  OBVIOUS
<1>1. DeliveryInv
  BY TransportsStart, WayStart, MeantStart, FilesStart DEF Init, DeliveryInv
<1>2. \A p \in Processor : submitted[p] = <<>>
  BY DEF Init, TransportInit
<1>3. \A p \in Processor, t \in Task : Cardinality({i \in 1..Len(submitted[p]) : submitted[p][i] = t}) = 0
  <2> TAKE p \in Processor, t \in Task
  <2>1. {i \in 1..Len(submitted[p]) : submitted[p][i] = t} = {}
    BY <1>2
  <2> QED BY <2>1, FS_EmptySet
<1>4. Arrived = [p \in Processor |-> [t \in Task |-> 0]]
  BY <1>3 DEF Arrived
<1> QED BY <1>1, <1>4, NothingSent DEF D!Init, Init

\* What a job does not use stays at its start
LEMMA UnusedStay ==
    ASSUME UNCHANGED job
    PROVE  /\ SocketInit /\ UNCHANGED socketVars => SocketInit'
           /\ MPIInit /\ UNCHANGED mpiVars => MPIInit'
           /\ FileInit /\ UNCHANGED fileVars => FileInit'
<1>0. Proc' = Proc
  BY DEF Proc
<1>1. SocketInit /\ UNCHANGED socketVars => SocketInit'
  BY <1>0 DEF SocketInit, socketVars, slotVars, receiverVars, managerVars
<1>2. MPIInit /\ UNCHANGED mpiVars => MPIInit'
  BY <1>0 DEF MPIInit, mpiVars, sendVars, receiveVars, endVars
<1>3. FileInit /\ UNCHANGED fileVars => FileInit'
  BY <1>0 DEF FileInit, fileVars
<1> QED BY <1>1, <1>2, <1>3

\* Every step keeps it and is one of Delivery, or one that Delivery does not
\* see, or one with files from an overrun on
LEMMA DeliveryStep ==
    DeliveryInv /\ [Next]_vars
        => DeliveryInv' /\ [(kind = "file" /\ overrun') \/ D!Next]_<<Sent, Arrived>>
<1> SUFFICES ASSUME DeliveryInv, [Next]_vars
             PROVE  DeliveryInv' /\ [(kind = "file" /\ overrun') \/ D!Next]_<<Sent, Arrived>>
  OBVIOUS
<1>0. TransportsInv /\ TransportsInv'
  BY TransportsStep DEF DeliveryInv
<1>1. UNCHANGED job => kind' = kind
  BY DEF kind
<1>2. CASE Only("socket") /\ SocketNext
  <2>1. kind = "socket" /\ UNCHANGED <<job, mpiVars, fileVars>>
    BY <1>2 DEF Only
  <2>2. WayInv' /\ Delivers
    BY <1>0, <1>2, <2>1, WayKeeps DEF DeliveryInv, TransportsInv
  <2> QED BY <1>0, <1>1, <2>1, <2>2, UnusedStay DEF DeliveryInv, Delivers
<1>3. CASE Only("mpi") /\ MPINext
  <2>1. kind = "mpi" /\ UNCHANGED <<job, socketVars, fileVars>>
    BY <1>3 DEF Only
  <2>2. MPIMeant' /\ Delivers
    BY <1>0, <1>3, <2>1, MeantKeeps DEF DeliveryInv, TransportsInv
  <2> QED BY <1>0, <1>1, <2>1, <2>2, UnusedStay DEF DeliveryInv, Delivers
<1>4. CASE Only("file") /\ FileNext
  <2>1. kind = "file" /\ UNCHANGED <<job, socketVars, mpiVars>> /\ kind' = kind
    BY <1>1, <1>4 DEF Only
  <2>2. ~ overrun' => FileInv /\ FilesMeant
    BY <1>0, <1>4, <2>1, OverrunStays DEF TransportsInv, DeliveryInv
  <2>3. ~ overrun' => FilesMeant' /\ Delivers
    BY <1>4, <2>1, <2>2, FilesStep
  <2> QED BY <1>0, <2>1, <2>3, UnusedStay DEF DeliveryInv, Delivers
<1>5. CASE UNCHANGED vars
  <2>1. UNCHANGED <<job, todo, submitted, socketVars, mpiVars, fileVars>>
    BY <1>5 DEF vars
  <2>2. Sent' = Sent /\ Arrived' = Arrived
    BY <2>1, SendsNone DEF Arrived
  <2>3. WayInv => WayInv'
    BY <2>1, WayQuiet
  <2>4. MPIMeant => MPIMeant'
    BY <2>1, <2>2, StillMeant DEF mpiVars, sendVars, receiveVars
  <2>5. kind = "file" => overrun' \/ FilesMeant'
    BY <1>0, <2>1, FilesStill, OverrunStays DEF TransportsInv, DeliveryInv
  <2> QED BY <1>0, <1>1, <2>1, <2>2, <2>3, <2>4, <2>5, UnusedStay DEF DeliveryInv
<1> QED BY <1>2, <1>3, <1>4, <1>5, StepOfOne

\* What the invariant says of the sockets
LEMMA SocketTypes == DeliveryInv => SocketTypeOK /\ BufferFits
<1> SUFFICES ASSUME DeliveryInv PROVE SocketTypeOK /\ BufferFits
  OBVIOUS
<1>1. SlotTypeOK
  BY DEF DeliveryInv, TransportsInv, SlotInv
<1>2. ReceiverTypes
  <2>1. CASE kind = "socket"
    BY <2>1 DEF DeliveryInv, WayInv
  <2>2. CASE kind # "socket"
    <3>1. SocketInit
      BY <2>2 DEF DeliveryInv
    <3>2. receiveBuffer \in [Proc -> Seq(Task)]
      BY <3>1 DEF SocketInit
    <3> QED BY <3>1, <3>2 DEF SocketInit, ReceiverTypes
  <2> QED BY <2>1, <2>2
<1>3. \A p \in Proc : Elements(receiveBuffer[p]) \subseteq Task
  <2> TAKE p \in Proc
  <2>1. receiveBuffer[p] \in Seq(Task)
    BY <1>2 DEF ReceiverTypes
  <2> QED BY <2>1 DEF Elements
<1>4. BufferFits
  <2>1. CASE kind = "socket"
    <3>1. \A p \in Proc : BufferKept(p) /\ ManagerKept(p)
      BY <2>1 DEF DeliveryInv, WayInv
    <3> QED BY <3>1 DEF BufferFits, BufferKept, ManagerKept
  <2>2. CASE kind # "socket"
    BY <2>2 DEF DeliveryInv, SocketInit, BufferFits
  <2> QED BY <2>1, <2>2
<1> QED BY <1>1, <1>2, <1>3, <1>4 DEF SocketTypeOK, SlotTypeOK, ReceiverTypes

\* Over MPI
LEMMA MPITypes == DeliveryInv => MPITypeOK
<1> SUFFICES ASSUME DeliveryInv PROVE MPITypeOK
  OBVIOUS
<1>1. CASE kind = "mpi"
  <2>1. MPIKept
    BY <1>1 DEF DeliveryInv, TransportsInv, MPIInv
  <2>2. ASSUME NEW p \in Proc, NEW q \in Proc PROVE Elements(net[p][q]) \subseteq Message
    <3>1. net[p][q] \in Seq(Message)
      BY <2>1 DEF MPIKept
    <3> QED BY <3>1 DEF Elements
  <2> QED BY <2>1, <2>2 DEF MPIKept, MPITypeOK
<1>2. CASE kind # "mpi"
  <2>1. MPIInit
    BY <1>2 DEF DeliveryInv
  <2>2. \A p, q \in Proc : Elements(net[p][q]) = {}
    BY <2>1 DEF MPIInit, Elements
  <2> QED BY <2>1, <2>2 DEF MPIInit, MPITypeOK
<1> QED BY <1>1, <1>2

\* And with files
LEMMA FileTypes == DeliveryInv => FileTypeOK
<1> SUFFICES ASSUME DeliveryInv PROVE FileTypeOK
  OBVIOUS
<1>0. job \in Jobs
  BY DEF DeliveryInv, TransportsInv, ScriptInv
<1>1. CASE kind = "file"
  <2>1. FileTyped
    BY <1>1 DEF DeliveryInv, TransportsInv
  <2>2. ASSUME NEW p \in Proc
        PROVE  Elements(names[p]) \subseteq [of : Proc, number : Number] \cup {NoName}
    <3>1. names[p] \in Seq(ListLine)
      BY <2>1 DEF FileTyped
    <3>2. \A i \in 1..Len(names[p]) : names[p][i] \in ListLine
      BY <3>1
    <3> QED BY <3>2 DEF Elements, ListLine, Names
  <2>3. \A p \in Proc : \A n \in Number :
          files[p][n].state \in {"absent", "open", "ended", "headless"}
    BY <2>1 DEF FileTyped, AnyContent
  <2>4. \A p \in Proc : working[p].at \in {"out", "read", "empty", "send", "name", "crashed"}
    BY <2>1 DEF FileTyped, Work
  <2> QED BY <2>1, <2>2, <2>3, <2>4 DEF FileTyped, FileTypeOK
<1>2. CASE kind # "file"
  <2>1. FileInit
    BY <1>2 DEF DeliveryInv
  <2>2. \A p \in Proc : \A n \in Number : files[p][n].state \in {"absent", "open"}
    <3>1. Fresh.state = "open" /\ Absent.state = "absent"
      BY DEF Absent, Fresh
    <3>2. \A p \in Proc, n \in Number :
            files[p][n] = IF n \in 1..(job.size - 1) THEN Fresh ELSE Absent
      BY <2>1 DEF FileInit
    <3> QED BY <3>1, <3>2, Zenon
  <2>3. f_buffer \in [Proc -> [Proc -> Number]]
    <3>1. \A p, q \in Proc : (IF q = p THEN 0 ELSE IF q < p THEN q + 1 ELSE q) \in Number
      BY <1>0, Sizes DEF Proc, Number
    <3> QED BY <2>1, <3>1 DEF FileInit
  <2>4. \A p \in Proc : Elements(names[p]) = {} /\ working[p].at = "out"
    BY <2>1 DEF FileInit, Elements, Idle
  <2> QED BY <2>1, <2>2, <2>3, <2>4 DEF FileInit, FileTypeOK
<1> QED BY <1>1, <1>2

\* The types of all of them
LEMMA AllTypes == DeliveryInv => TypeOK
<1> SUFFICES ASSUME DeliveryInv PROVE TypeOK
  OBVIOUS
<1>1. job \in Jobs
  BY DEF DeliveryInv, TransportsInv, ScriptInv
<1>2. Proc \subseteq Processor /\ kind \in {"socket", "mpi", "file"}
  BY <1>1, Scripts
<1>3. submitted \in [Processor -> Seq(Task)]
  <2>1. CASE kind = "socket"
    BY <2>1 DEF DeliveryInv, WayInv
  <2>2. CASE kind = "mpi"
    BY <2>2 DEF DeliveryInv, TransportsInv, MPIInv, MPIKept
  <2>3. CASE kind = "file"
    BY <2>3 DEF DeliveryInv, TransportsInv, FileTyped
  <2> QED BY <1>2, <2>1, <2>2, <2>3
<1>4. \A p \in Proc : Elements(submitted[p]) \subseteq Task
  <2> TAKE p \in Proc
  <2>1. submitted[p] \in Seq(Task)
    BY <1>2, <1>3
  <2> QED BY <2>1 DEF Elements
<1> QED BY <1>1, <1>4, SocketTypes, MPITypes, FileTypes DEF TypeOK

\* A file that holds what has not arrived is there
LEMMA KeptOnDisk == DeliveryInv => TasksAreOnDisk
<1> SUFFICES ASSUME DeliveryInv, kind = "file", ~ overrun, NEW t \in Sent, NEW q \in MeantFor(t),
                    NEW p, p = Home[From(t)]
             PROVE  \/ t \in Elements(submitted[q])
                    \/ t \in Elements(files[p][f_buffer[p][q]].tasks)
                    \/ \E n \in Number : files[p][n].state = "ended" /\ t \in Elements(files[p][n].tasks)
  BY DEF TasksAreOnDisk
<1>1. q \in Goals(t, p) /\ FilesMeant /\ p \in Proc
  BY SenderIsThere DEF MeantFor, DeliveryInv, TransportsInv
<1>2. Kept(p, t, q)
  BY <1>1 DEF FilesMeant
<1> QED BY <1>2 DEF Kept

-----------------------------------------------------------------------------
\* Every variable of the three transports keeps its type.
THEOREM TransportTypes == Spec => []TypeOK
  BY AllTypes, DeliveryStart, DeliveryStep, PTL DEF Spec

\* The manager of the sockets makes its buffer for the first message of the list
\* and, when it comes to read, the message it answers is the one it counted.
THEOREM BuffersFit == Spec => []BufferFits
  BY SocketTypes, DeliveryStart, DeliveryStep, PTL DEF Spec

\* Until a processor takes a number that is not free for messages, a task that went
\* into a file is submitted at its destination, or in the file that is being
\* filled for it, or in one that was ended and is not read.
THEOREM NothingLeavesTheDisk == Spec => []TasksAreOnDisk
  BY KeptOnDisk, DeliveryStart, DeliveryStep, PTL DEF Spec

\* Sockets, MPI and files implement Delivery: a task arrives only at the
\* processor it was sent to, and there at most once; files do until a processor
\* takes a number that is not free for messages.
THEOREM TransportsDeliver == Spec => DeliverySpec
  BY DeliveryStart, DeliveryStep, PTL DEF Spec, DeliverySpec, D!Spec
=============================================================================
