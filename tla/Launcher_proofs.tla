--------------------------- MODULE Launcher_proofs ---------------------------
(***************************************************************************)
(* Nobody comes back from a barrier of OOPSocket that somebody has not     *)
(* called yet, for any number of processes and of rounds: first of the     *)
(* barrier alone, then of the life of the processes in module Launcher,    *)
(* each step of which is a step of the barrier or leaves it alone; then    *)
(* that nobody exits in error in that life, that the addresses are right   *)
(* and that nothing is left behind at its end.                             *)
(*                                                                         *)
(* The invariant counts.  With k the barriers rank 0 has come back from,   *)
(* each other process has been answered k times, or k + 1 if rank 0 has    *)
(* just answered it; and it waits exactly as long as its connection is in  *)
(* one of four places: not accepted, in the receiver's buffer, collected   *)
(* and not yet answered, or answered.                                      *)
(***************************************************************************)
EXTENDS Launcher, FiniteSetTheorems, TLAPS

Pending == {r \in cSockets : \/ inside[0] = "collecting"
                             \/ inside[0] = "answering" /\ r >= next}

One(condition) == IF condition THEN 1 ELSE 0

\* Where a process and its connection can be
Placed(r) == /\ inside[r] \in {"out", "waiting"}
             /\ inside[r] = "waiting" <=> r \in connected \cup arrived \cup Pending \cup answered
             /\ r \in connected => r \notin arrived \cup Pending \cup answered
             /\ r \in arrived => r \notin Pending \cup answered
             /\ r \in Pending => r \notin answered

Counted(r) ==
    /\ entered[r] = left[r] + One(inside[r] = "waiting")
    /\ left[r] + One(r \in answered) = left[0] + One(inside[0] = "answering" /\ r < next)

RootCounted ==
    /\ inside[0] \in {"out", "collecting", "answering"}
    /\ entered[0] = left[0] + One(inside[0] # "out")
    /\ inside[0] = "collecting" => Cardinality(cSockets) + count = Size - 1
    /\ inside[0] = "answering" => cSockets = Others

BarrierInv == /\ BarrierTypeOK
              /\ RootCounted
              /\ \A r \in Others : Placed(r) /\ Counted(r)

-----------------------------------------------------------------------------
\* The ranks: rank 0 is not among the others
LEMMA Ranks == /\ Rank = {0} \cup Others /\ 0 \in Rank /\ 0 \notin Others
               /\ Others \subseteq Rank /\ Others \subseteq Nat
               /\ IsFiniteSet(Others) /\ Cardinality(Others) = Size - 1
<1>1. IsFiniteSet(1..(Size - 1)) /\ Cardinality(1..(Size - 1)) = Size - 1
  BY FS_Interval, SizeAssumption
<1> QED BY <1>1, SizeAssumption DEF Rank, Others

\* With as many connections as there are others, each has one
LEMMA AllCollected ==
    ASSUME NEW S \in SUBSET Others, Cardinality(S) = Size - 1
    PROVE  S = Others
  BY Ranks, FS_Subset

\* The invariant at the start: everybody is out of the barrier, uncounted
LEMMA BarrierStart == BarrierInit => BarrierInv
<1> SUFFICES ASSUME BarrierInit PROVE BarrierInv
  OBVIOUS
<1>1. BarrierTypeOK
  BY SizeAssumption, Ranks DEF BarrierInit, BarrierTypeOK
<1>2. RootCounted
  BY Ranks DEF BarrierInit, RootCounted, One
<1>3. \A r \in Others : Placed(r) /\ Counted(r)
  BY Ranks DEF BarrierInit, Placed, Counted, Pending, One
<1> QED BY <1>1, <1>2, <1>3 DEF BarrierInv

\* The invariant is what the property says, and more
LEMMA BarrierInvIsEnough == BarrierInv => NobodyIsAhead /\ EveryAnswerHasItsSocket
<1> SUFFICES ASSUME BarrierInv PROVE NobodyIsAhead /\ EveryAnswerHasItsSocket
  OBVIOUS
<1> USE DEF BarrierInv, One
<1>t. /\ entered \in [Rank -> Nat] /\ left \in [Rank -> Nat] /\ next \in 1..Size
  BY DEF BarrierTypeOK
<1>1. \A r \in Others : left[r] <= left[0] + One(inside[0] = "answering")
  BY <1>t, Ranks DEF Counted
<1>2. \A r \in Others : left[0] + One(inside[0] = "answering") <= entered[r]
  <2> TAKE r \in Others
  <2>1. CASE inside[0] = "answering" /\ r >= next
    <3>1. r \in Pending /\ inside[r] = "waiting" /\ r \notin answered
      BY <2>1 DEF Pending, RootCounted, Placed
    <3> QED BY <2>1, <3>1, <1>t, Ranks DEF Counted
  <2>2. CASE ~(inside[0] = "answering" /\ r >= next)
    <3>1. r \in answered => inside[r] = "waiting"
      BY DEF Placed
    <3> QED BY <2>2, <3>1, <1>t, Ranks DEF Counted
  <2> QED BY <2>1, <2>2
<1>3. left[0] <= entered[0] /\ left[0] + One(inside[0] = "answering") <= entered[0]
  BY <1>t, Ranks DEF RootCounted
<1>4. NobodyIsAhead
  BY <1>1, <1>2, <1>3, <1>t, Ranks DEF NobodyIsAhead
<1>5. EveryAnswerHasItsSocket
  BY <1>t, SizeAssumption DEF EveryAnswerHasItsSocket, RootCounted, Others
<1> QED BY <1>4, <1>5

-----------------------------------------------------------------------------
\* Each step of the barrier keeps the invariant
LEMMA ConnectKeeps ==
    ASSUME BarrierInv, NEW r \in Others, Connect(r) PROVE BarrierInv'
<1> USE Ranks DEF BarrierInv, Connect, MayEnter
<1>1. BarrierTypeOK'
  BY DEF BarrierTypeOK
<1>2. RootCounted'
  BY DEF RootCounted, BarrierTypeOK, One
<1>3. Pending' = Pending
  BY DEF Pending, BarrierTypeOK
<1>4. ASSUME NEW q \in Others PROVE Placed(q)'
  BY <1>3 DEF Placed, BarrierTypeOK
<1>5. ASSUME NEW q \in Others PROVE Counted(q)'
  BY DEF Counted, BarrierTypeOK, One
<1> QED BY <1>1, <1>2, <1>4, <1>5

LEMMA AcceptKeeps ==
    ASSUME BarrierInv, NEW r \in Others, AcceptBarrier(r) PROVE BarrierInv'
<1> USE Ranks DEF BarrierInv, AcceptBarrier
<1>1. BarrierTypeOK'
  BY DEF BarrierTypeOK
<1>2. RootCounted'
  BY DEF RootCounted
<1>3. Pending' = Pending
  BY DEF Pending
<1>4. ASSUME NEW q \in Others PROVE Placed(q)'
  BY <1>3 DEF Placed
<1>5. ASSUME NEW q \in Others PROVE Counted(q)'
  BY DEF Counted
<1> QED BY <1>1, <1>2, <1>4, <1>5

LEMMA LeaveKeeps ==
    ASSUME BarrierInv, NEW r \in Others, Leave(r) PROVE BarrierInv'
<1> USE Ranks DEF BarrierInv, Leave
<1>1. BarrierTypeOK'
  BY DEF BarrierTypeOK
<1>2. RootCounted'
  BY DEF RootCounted, BarrierTypeOK, One
<1>3. Pending' = Pending
  BY DEF Pending, BarrierTypeOK
<1>4. ASSUME NEW q \in Others PROVE Placed(q)'
  BY <1>3 DEF Placed, BarrierTypeOK
<1>5. ASSUME NEW q \in Others PROVE Counted(q)'
  BY DEF Counted, BarrierTypeOK, One
<1> QED BY <1>1, <1>2, <1>4, <1>5

LEMMA CollectKeeps == ASSUME BarrierInv, Collect PROVE BarrierInv'
<1> USE Ranks DEF BarrierInv, Collect, MayEnter
<1>1. BarrierTypeOK'
  BY SizeAssumption DEF BarrierTypeOK
<1>2. RootCounted'
  BY FS_EmptySet, SizeAssumption DEF RootCounted, BarrierTypeOK, One
<1>3. Pending = {} /\ Pending' = {}
  BY DEF Pending, BarrierTypeOK
<1>4. ASSUME NEW q \in Others PROVE Placed(q)'
  BY <1>3 DEF Placed, BarrierTypeOK
<1>5. ASSUME NEW q \in Others PROVE Counted(q)'
  BY DEF Counted, BarrierTypeOK, One
<1> QED BY <1>1, <1>2, <1>4, <1>5

LEMMA TakeKeeps ==
    ASSUME BarrierInv, NEW r \in Others, TakeEnvelope(r) PROVE BarrierInv'
<1> USE Ranks DEF BarrierInv, TakeEnvelope
<1>1. BarrierTypeOK'
  BY DEF BarrierTypeOK
<1>2. r \notin cSockets /\ Pending = cSockets /\ Pending' = cSockets \cup {r}
  BY DEF Pending, Placed
<1>3. RootCounted'
  <2>1. IsFiniteSet(cSockets)
    BY FS_Subset DEF BarrierTypeOK
  <2>2. Cardinality(cSockets \cup {r}) = Cardinality(cSockets) + 1 /\ Cardinality(cSockets) \in Nat
    BY <2>1, <1>2, FS_AddElement, FS_CardinalityType
  <2> QED BY <2>2, SizeAssumption DEF RootCounted, BarrierTypeOK, One
<1>4. ASSUME NEW q \in Others PROVE Placed(q)'
  BY <1>2 DEF Placed
<1>5. ASSUME NEW q \in Others PROVE Counted(q)'
  BY DEF Counted
<1> QED BY <1>1, <1>3, <1>4, <1>5

LEMMA StartKeeps == ASSUME BarrierInv, StartAnswers PROVE BarrierInv'
<1> USE Ranks DEF BarrierInv, StartAnswers
<1>1. BarrierTypeOK'
  BY SizeAssumption DEF BarrierTypeOK
<1>2. cSockets = Others
  <2>1. Cardinality(cSockets) \in Nat
    BY FS_Subset, FS_CardinalityType DEF BarrierTypeOK
  <2>2. Cardinality(cSockets) = Size - 1
    BY <2>1 DEF RootCounted
  <2> QED BY <2>2, AllCollected DEF BarrierTypeOK
<1>3. RootCounted'
  BY <1>2 DEF RootCounted, BarrierTypeOK, One
<1>4. Pending = Others /\ Pending' = Others
  BY <1>2 DEF Pending, BarrierTypeOK, Others
<1>5. ASSUME NEW q \in Others PROVE Placed(q)'
  BY <1>4 DEF Placed, BarrierTypeOK
<1>6. ASSUME NEW q \in Others PROVE Counted(q)'
  <2>1. ~(q < 1)
    BY DEF Others
  <2> QED BY <2>1 DEF Counted, BarrierTypeOK, One
<1> QED BY <1>1, <1>3, <1>5, <1>6

LEMMA AnswerKeeps == ASSUME BarrierInv, Answer PROVE BarrierInv'
<1> USE Ranks DEF BarrierInv, Answer
<1>1. BarrierTypeOK'
  BY SizeAssumption DEF BarrierTypeOK
<1>2. RootCounted'
  BY DEF RootCounted
<1>3. next \in Pending /\ Pending' = Pending \ {next}
  <2>1. \A q \in Others : q >= next + 1 <=> q >= next /\ q # next
    BY SizeAssumption DEF Others, BarrierTypeOK
  <2>2. next >= next
    BY DEF BarrierTypeOK
  <2>3. inside' = inside /\ cSockets' = cSockets /\ cSockets \subseteq Others
    BY DEF BarrierTypeOK
  <2> QED BY <2>1, <2>2, <2>3 DEF Pending
<1>4. ASSUME NEW q \in Others PROVE Placed(q)'
  BY <1>3 DEF Placed, BarrierTypeOK
<1>5. ASSUME NEW q \in Others PROVE Counted(q)'
  <2>1. next \notin answered
    BY <1>3 DEF Placed, BarrierTypeOK
  <2>2. q < next + 1 <=> q < next \/ q = next
    BY DEF BarrierTypeOK
  <2> QED BY <2>1, <2>2 DEF Counted, BarrierTypeOK, One
<1> QED BY <1>1, <1>2, <1>4, <1>5

LEMMA LeaveRootKeeps == ASSUME BarrierInv, LeaveRoot PROVE BarrierInv'
<1> USE Ranks DEF BarrierInv, LeaveRoot
<1>1. BarrierTypeOK'
  BY DEF BarrierTypeOK
<1>2. RootCounted'
  BY DEF RootCounted, BarrierTypeOK, One
<1>3. \A q \in Others : q < next /\ ~(q >= next)
  BY SizeAssumption DEF Others
<1>4. Pending = {} /\ Pending' = {}
  <2>1. cSockets \subseteq Others /\ cSockets' = cSockets
    BY DEF BarrierTypeOK
  <2>2. inside[0] = "answering" /\ inside'[0] = "out"
    BY DEF BarrierTypeOK
  <2> QED BY <2>1, <2>2, <1>3 DEF Pending
<1>5. ASSUME NEW q \in Others PROVE Placed(q)'
  BY <1>4 DEF Placed, BarrierTypeOK
<1>6. ASSUME NEW q \in Others PROVE Counted(q)'
  BY <1>3 DEF Counted, BarrierTypeOK, One
<1> QED BY <1>1, <1>2, <1>5, <1>6

LEMMA StutterKeeps == ASSUME BarrierInv, UNCHANGED barrierVars PROVE BarrierInv'
  BY DEF BarrierInv, barrierVars, BarrierTypeOK, RootCounted, Placed, Counted, Pending

LEMMA BarrierStepKeeps == BarrierInv /\ [BarrierNext]_barrierVars => BarrierInv'
<1> SUFFICES ASSUME BarrierInv, [BarrierNext]_barrierVars PROVE BarrierInv'
  OBVIOUS
<1>1. ASSUME NEW r \in Others, Connect(r) PROVE BarrierInv'
  BY <1>1, ConnectKeeps
<1>2. ASSUME NEW r \in Others, AcceptBarrier(r) PROVE BarrierInv'
  BY <1>2, AcceptKeeps
<1>3. ASSUME NEW r \in Others, Leave(r) PROVE BarrierInv'
  BY <1>3, LeaveKeeps
<1>4. ASSUME NEW r \in Others, TakeEnvelope(r) PROVE BarrierInv'
  BY <1>4, TakeKeeps
<1>5. CASE Collect
  BY <1>5, CollectKeeps
<1>6. CASE StartAnswers
  BY <1>6, StartKeeps
<1>7. CASE Answer
  BY <1>7, AnswerKeeps
<1>8. CASE LeaveRoot
  BY <1>8, LeaveRootKeeps
<1>9. CASE UNCHANGED barrierVars
  BY <1>9, StutterKeeps
<1> QED BY <1>1, <1>2, <1>3, <1>4, <1>5, <1>6, <1>7, <1>8, <1>9 DEF BarrierNext, RootStep

\* Of Barrier by itself, for any number of processes and rounds: nobody comes
\* back early, and rank 0 never answers from a hole of its array.
THEOREM BarrierIsSafe == BarrierSpec => [](NobodyIsAhead /\ EveryAnswerHasItsSocket)
  BY BarrierStart, BarrierStepKeeps, BarrierInvIsEnough, PTL DEF BarrierSpec

-----------------------------------------------------------------------------
\* A step of a process, of srun or of a daemon is one of the barrier or leaves
\* the barrier as it is
LEMMA ProcessStep == ASSUME NEW r \in Rank, Process(r)
                     PROVE  [BarrierNext]_barrierVars
<1>1. CASE EnterBarrier(r)
  <2>1. CASE 0 \in At(HostOf[0], table[r][0])
    BY <1>1, <2>1 DEF EnterBarrier, BarrierNext, Connect
  <2>2. CASE 0 \notin At(HostOf[0], table[r][0])
    BY <1>1, <2>2 DEF EnterBarrier
  <2> QED BY <2>1, <2>2
<1>2. CASE BarrierStep(r)
  <2>1. CASE r = 0
    BY <1>2, <2>1 DEF BarrierStep, BarrierNext
  <2>2. CASE r # 0
    BY <1>2, <2>2, Ranks DEF BarrierStep, BarrierNext
  <2> QED BY <2>1, <2>2
<1>3. CASE AskPort(r) \/ Bind(r) \/ AcceptTable(r)
  BY <1>3 DEF AskPort, Bind, AcceptTable
<1>4. CASE SayFinalize(r) \/ JoinReceiver(r)
  BY <1>4 DEF SayFinalize, JoinReceiver
<1>5. CASE SignalSender(r) \/ JoinSender(r) \/ Exit(r)
  BY <1>5 DEF SignalSender, JoinSender, Exit
<1> QED BY <1>1, <1>2, <1>3, <1>4, <1>5 DEF Process

LEMMA LauncherStep == [Next]_vars => [BarrierNext]_barrierVars
<1> SUFFICES ASSUME [Next]_vars PROVE [BarrierNext]_barrierVars
  OBVIOUS
<1>1. CASE Srun
  BY <1>1 DEF Srun, Startup, EndStartup, Notify, EndNotify, CountFinalize
<1>2. ASSUME NEW h \in Host, Spd(h) PROVE [BarrierNext]_barrierVars
  BY <1>2 DEF Spd, AcceptStartup, AwaitGetPort, AcceptFinalize, Reap
<1>3. ASSUME NEW r \in Rank, Process(r) PROVE [BarrierNext]_barrierVars
  BY <1>3, ProcessStep
<1>4. ASSUME NEW r \in Rank, Receiver(r) PROVE [BarrierNext]_barrierVars
  <2>1. CASE ReceiveFinalize(r)
    BY <2>1 DEF ReceiveFinalize
  <2>2. CASE ReceiveBarrier
    BY <2>2 DEF ReceiveBarrier, BarrierNext
  <2> QED BY <1>4, <2>1, <2>2 DEF Receiver
<1>5. ASSUME NEW r \in Rank, Sender(r) PROVE [BarrierNext]_barrierVars
  BY <1>5 DEF Sender, SenderTest, End
<1>6. ASSUME NEW r \in Rank, NEW k \in DOMAIN sender[r], SenderComesRound(r, k)
      PROVE  [BarrierNext]_barrierVars
  BY <1>6 DEF SenderComesRound, End
<1>7. CASE UNCHANGED vars
  BY <1>7 DEF vars
<1> QED BY <1>1, <1>2, <1>3, <1>4, <1>5, <1>6, <1>7 DEF Next

\* Of whole programs, from srun to their end: nobody comes back from a barrier
\* that somebody has not called yet.
THEOREM LauncherKeepsBarriers == Spec => []NobodyIsAhead
<1>1. Init => BarrierInit
  BY DEF Init
<1>2. Spec => BarrierSpec
  BY <1>1, LauncherStep, PTL DEF Spec, BarrierSpec
<1>3. BarrierSpec => []NobodyIsAhead
  BY BarrierIsSafe, PTL
<1> QED BY <1>2, <1>3, PTL

\* Of whole programs: the array rank 0 answers from has no hole.
THEOREM LauncherAnswersAll == Spec => []EveryAnswerHasItsSocket
<1>1. Init => BarrierInit
  BY DEF Init
<1>2. Spec => BarrierSpec
  BY <1>1, LauncherStep, PTL DEF Spec, BarrierSpec
<1>3. BarrierSpec => []EveryAnswerHasItsSocket
  BY BarrierIsSafe, PTL
<1> QED BY <1>2, <1>3, PTL

-----------------------------------------------------------------------------
(* The life of the processes.  srun starts one rank after the other, so that   *)
(* only one daemon is busy and nobody but the last rank has no port; later a   *)
(* daemon only hears FINALIZE, from processes that join their receiver.        *)

Past == {"running", "joining", "destroying", "joining sender", "gone"}
Finishing == Past \ {"running"}
Starting == srun \in {"startup", "await port"}
HasPort(r) == Starting => r < turn
HasTable(r) == \/ srun = "notify" /\ r < turn
               \/ srun \in {"wait", "done"}

SrunTypes ==
    /\ srun \in {"startup", "await port", "notify", "wait", "done"} /\ turn \in 0..Size
    /\ pTable \in [Rank -> Port \cup {Nobody}] /\ totalNp \in 0..Size /\ finalized \subseteq Rank
    /\ srun = "await port" => turn < Size
    /\ srun # "done" => totalNp < Size

DaemonTypes ==
    /\ spd \in [Host -> {"accept", "await getport", "reap"}]
    /\ spdPort \in [Host -> Port \cup {Nobody}]
    /\ spdQueue \in [Host -> Seq([kind : {"STARTUP", "GETPORT", "FINALIZE"}, rank : Rank])]
    /\ listProcess \in [Host -> [Port -> Rank \cup {Nobody, Size}]]
    /\ numberProcess \in [Host -> Port]

ProcessTypes ==
    /\ main \in [Rank -> {"absent", "born", "await port", "unbound", "listening"} \cup Past]
    /\ sPort \in [Rank -> Port \cup {Nobody}]
    /\ table \in [Rank -> [Rank -> Port \cup {Nobody}]]
    /\ first \in [Rank -> {"none", "table", "other"}] /\ finalize \in [Rank -> BOOLEAN]
    /\ receiver \in [Rank -> {"none", "accept", "ended"}]
    /\ threadRunning \in [Rank -> BOOLEAN]

SendersOf(n) == [0..(n - 1) -> {"loop", "test", "asleep", "ended"}]
SenderTypes ==
    /\ sender \in [Rank -> UNION {SendersOf(n) : n \in SendNumThreads}]
    /\ mutex \in [Rank -> Nat \cup {Nobody}] /\ joined \in [Rank -> Nat]
    /\ \A r \in Rank : \E n \in SendNumThreads :
         /\ sender[r] \in SendersOf(n)
         /\ mutex[r] \in 0..(n - 1) \cup {Nobody} /\ joined[r] \in 0..n

\* A process that was started keeps its port until the daemon has reaped it
PortKept(r) ==
    IF HasPort(r)
    THEN /\ sPort[r] \in Port /\ pTable[r] = sPort[r]
         /\ main[r] \in {"unbound", "listening"} \cup Past
         /\ main[r] # "gone" => listProcess[HostOf[r]][sPort[r]] = r
    ELSE /\ sPort[r] = Nobody
         /\ main[r] \in {"absent", "born", "await port"}
         /\ main[r] # "absent" => srun = "await port" /\ r = turn

\* Nobody runs without the table, which was the first connection
TableKept(r) ==
    IF HasTable(r)
    THEN first[r] = "table" /\ table[r] = pTable /\ main[r] \in {"listening"} \cup Past
    ELSE first[r] = "none" /\ main[r] \notin Past

\* The barriers are called by running processes, and all of them before the end
EndKept(r) ==
    /\ entered[r] <= Rounds
    /\ entered[r] > 0 => main[r] \in Past
    /\ main[r] \in Finishing => entered[r] = Rounds /\ inside[r] = "out"
    /\ finalize[r] \/ receiver[r] = "ended" => main[r] \in Finishing

\* The daemon of the rank that is being started
Given(h) == /\ spd[h] = "await getport" /\ spdPort[h] \in Port
            /\ listProcess[h][spdPort[h]] = turn
Said(k) == [kind |-> k, rank |-> turn]
StartKept(h) ==
    \/ main[turn] = "absent" /\ spd[h] = "accept" /\ spdQueue[h] = <<Said("STARTUP")>>
    \/ main[turn] = "born" /\ Given(h) /\ spdQueue[h] = <<>>
    \/ main[turn] = "await port" /\ Given(h) /\ spdQueue[h] = <<Said("GETPORT")>>

\* Any other: those that say FINALIZE wait for the daemon to call them
SaysFinalize(h, m) ==
    /\ m.kind = "FINALIZE" /\ HostOf[m.rank] = h
    /\ main[m.rank] = "joining" /\ ~ finalize[m.rank] /\ receiver[m.rank] # "ended"
EndQueue(h) ==
    /\ \A i \in 1..Len(spdQueue[h]) : SaysFinalize(h, spdQueue[h][i])
    /\ \A i, k \in 1..Len(spdQueue[h]) : spdQueue[h][i].rank = spdQueue[h][k].rank => i = k
Reaps(h) == /\ spd[h] = "reap" /\ spdPort[h] \in Port
            /\ listProcess[h][spdPort[h]] \in Rank
AtRest(h) == /\ spd[h] = "accept" \/ Reaps(h)
             /\ Starting => spd[h] = "accept" /\ spdQueue[h] = <<>>
             /\ EndQueue(h)

Starts(h) == srun = "await port" /\ h = HostOf[turn]
DaemonKept(h) == /\ \A p \in Busy[h] : listProcess[h][p] = Size
                 /\ IF Starts(h) THEN StartKept(h) ELSE AtRest(h)

LaunchTypes == SrunTypes /\ DaemonTypes /\ ProcessTypes /\ SenderTypes
LaunchInv == /\ LaunchTypes
             /\ \A r \in Rank : PortKept(r) /\ TableKept(r) /\ EndKept(r)
             /\ \A h \in Host : DaemonKept(h)

\* The bounds and sets of the constants
LEMMA Launched == /\ HostOf \in [Rank -> Host] /\ Nobody \notin Port /\ Nobody \notin Rank
                  /\ Size \notin Rank /\ Size \in Nat \ {0} /\ Rank \subseteq Nat
                  /\ Rounds \in Nat /\ Port \subseteq Nat /\ Ports \in Nat \ {0}
                  /\ \A r \in Rank : HostOf[r] \in Host
  BY SizeAssumption, RoundsAssumption, HostAssumption, PortAssumption DEF Rank, Port, Nobody

\* The rank that is served
LEMMA TurnIsARank == ASSUME SrunTypes, turn < Size 
                 PROVE  turn \in Rank /\ HostOf[turn] \in Host /\ turn \in Nat /\ ~ (turn < turn)
<1>1. turn \in 0..Size
  BY DEF SrunTypes
<1>2. turn \in Rank
  BY <1>1, SizeAssumption DEF Rank
<1>3. turn \in Nat /\ ~ (turn < turn)
  BY <1>1, SizeAssumption
<1> QED BY <1>2, <1>3, Launched

\* The messages to the daemons
Records == [kind : {"STARTUP", "GETPORT", "FINALIZE"}, rank : Rank]

\* A message more in the queue of a daemon, and one less
LEMMA AddRecord ==
    ASSUME DaemonTypes, NEW h \in Host, NEW r \in Rank, NEW k \in {"STARTUP", "GETPORT", "FINALIZE"},
           spdQueue' = [spdQueue EXCEPT ![h] = Append(@, [kind |-> k, rank |-> r])]
    PROVE  /\ spdQueue' \in [Host -> Seq(Records)]
           /\ spdQueue'[h] = Append(spdQueue[h], [kind |-> k, rank |-> r])
           /\ spdQueue[h] = <<>> => spdQueue'[h] = <<[kind |-> k, rank |-> r]>>
           /\ \A g \in Host \ {h} : spdQueue'[g] = spdQueue[g]
<1> DEFINE m == [kind |-> k, rank |-> r]
<1>1. m \in Records
  BY DEF Records
<1>2. spdQueue \in [Host -> Seq(Records)]
  BY DEF DaemonTypes, Records
<1> HIDE DEF m
<1>3. Append(spdQueue[h], m) \in Seq(Records)
  BY <1>1, <1>2
<1>6. spdQueue[h] = <<>> => Append(spdQueue[h], m) = <<m>>
  OBVIOUS
<1>4. spdQueue' = [spdQueue EXCEPT ![h] = Append(spdQueue[h], m)]
  BY DEF m
<1>5. /\ spdQueue' \in [Host -> Seq(Records)]
      /\ spdQueue'[h] = Append(spdQueue[h], m)
      /\ \A g \in Host \ {h} : spdQueue'[g] = spdQueue[g]
  BY <1>2, <1>3, <1>4
<1> QED BY <1>5, <1>6 DEF m

\* Sequences: the first element and the rest
LEMMA FirstOf ==
    ASSUME NEW S, NEW s \in Seq(S), s # <<>>
    PROVE  /\ 1 \in 1..Len(s) /\ Head(s) = s[1] /\ Head(s) \in S
           /\ Tail(s) \in Seq(S) /\ Len(Tail(s)) = Len(s) - 1
           /\ \A i \in 1..Len(Tail(s)) : Tail(s)[i] = s[i + 1] /\ i + 1 \in 1..Len(s)
  OBVIOUS

LEMMA OnlyOne ==
    ASSUME NEW h, NEW m, spdQueue[h] = <<m>>
    PROVE  Head(spdQueue[h]) = m /\ Tail(spdQueue[h]) = <<>>
<1>1. Head(<<m>>) = m
  OBVIOUS
<1>2. Tail(<<m>>) = <<>>
  OBVIOUS
<1> QED BY <1>1, <1>2

\* numberProcess stays in the table
LEMMA InPort == ASSUME NEW n \in Port PROVE Following(n) \in Port
<1>1. n \in 0..(Ports - 1) /\ Ports \in Nat \ {0}
  BY Launched DEF Port
<1>2. (n + 1) % Ports \in 0..(Ports - 1)
  BY <1>1
<1> QED BY <1>2 DEF Following, Port

\* An empty queue has no one who says FINALIZE
LEMMA NoQueue == ASSUME NEW h, spdQueue'[h] = <<>> PROVE EndQueue(h)'
<1>1. 1..Len(spdQueue'[h]) = {}
  OBVIOUS
<1> QED BY <1>1 DEF EndQueue

\* What is said of the rank that is served
LEMMA SaidIs == ASSUME NEW k PROVE Said(k).kind = k /\ Said(k).rank = turn
  BY DEF Said

LEMMA TakeRecord ==
    ASSUME DaemonTypes, NEW h \in Host, spdQueue[h] # <<>>,
           spdQueue' = [spdQueue EXCEPT ![h] = Tail(@)]
    PROVE  /\ spdQueue' \in [Host -> Seq(Records)]
           /\ spdQueue'[h] = Tail(spdQueue[h])
           /\ 1 \in 1..Len(spdQueue[h]) /\ Head(spdQueue[h]) = spdQueue[h][1] /\ Head(spdQueue[h]) \in Records
           /\ \A g \in Host \ {h} : spdQueue'[g] = spdQueue[g]
<1>1. spdQueue \in [Host -> Seq(Records)]
  BY DEF DaemonTypes, Records
<1>2. Tail(spdQueue[h]) \in Seq(Records) /\ 1 \in 1..Len(spdQueue[h]) /\ Head(spdQueue[h]) = spdQueue[h][1] /\ Head(spdQueue[h]) \in Records
  BY <1>1, FirstOf
<1> QED BY <1>1, <1>2

\* Every message in a queue is of a rank
LEMMA RecordOf ==
    ASSUME DaemonTypes, NEW g \in Host, NEW i \in 1..Len(spdQueue[g])
    PROVE  spdQueue[g][i] \in Records /\ spdQueue[g][i].rank \in Rank
<1>1. spdQueue[g] \in Seq(Records)
  BY DEF DaemonTypes, Records
<1>2. spdQueue[g][i] \in Records
  BY <1>1
<1> QED BY <1>2 DEF Records

\* The last barrier: a process that has come back from it was answered, and so
\* every other has called it; no connection is left at rank 0.
LEMMA LastBarrier ==
    ASSUME BarrierInv, \A q \in Rank : entered[q] <= Rounds,
           NEW r \in Rank, entered[r] = Rounds, inside[r] = "out"
    PROVE  /\ \A q \in Rank : entered[q] = Rounds
           /\ r = 0 => connected = {} /\ arrived = {}
<1> USE DEF BarrierInv, BarrierTypeOK, One
<1>1. left[r] = Rounds
  BY Ranks, Launched DEF RootCounted, Counted
<1>2. \A q \in Rank : entered[q] = Rounds
  BY <1>1, BarrierInvIsEnough, Launched DEF NobodyIsAhead
<1>3. ASSUME r = 0, NEW q \in Others PROVE q \notin connected /\ q \notin arrived
  <2>1. left[q] + One(q \in answered) = Rounds /\ left[q] + One(inside[q] = "waiting") = Rounds
    BY <1>1, <1>2, <1>3, Ranks, Launched DEF Counted
  <2>2. inside[q] = "waiting" => q \in answered
    BY <2>1, Ranks, Launched
  <2> QED BY <2>2 DEF Placed
<1> QED BY <1>2, <1>3

\* Only one process can be called at the port of a process that has one.
LEMMA OneAtPort ==
    ASSUME NEW q \in Rank, \A r \in Rank : PortKept(r), sPort[q] \in Port, Listening(q)
    PROVE  At(HostOf[q], sPort[q]) = {q}
<1>1. q \in At(HostOf[q], sPort[q])
  BY DEF At
<1>2. ASSUME NEW r \in At(HostOf[q], sPort[q]) PROVE r = q
  <2>1. /\ r \in Rank /\ HostOf[r] = HostOf[q] /\ sPort[r] = sPort[q]
        /\ main[r] # "gone" /\ main[q] # "gone"
    BY DEF At, Listening
  <2>2. HasPort(r) /\ HasPort(q)
    BY <2>1, Launched DEF PortKept
  <2> QED BY <2>1, <2>2 DEF PortKept
<1> QED BY <1>1, <1>2

\* The invariant at the start
LEMMA LaunchStart == Init => LaunchInv
<1> SUFFICES ASSUME Init PROVE LaunchInv
  OBVIOUS
<1> USE Launched DEF Init, BarrierInit, SrunInit, SpdInit, ProcessInit
<1>1. SrunTypes
  BY DEF SrunTypes
<1>2. DaemonTypes
  BY PortAssumption DEF DaemonTypes
<1>3. ProcessTypes
  BY DEF ProcessTypes
<1>4. SenderTypes
  <2>1. PICK n \in SendNumThreads : sender = [r \in Rank |-> [k \in 0..(n - 1) |-> "loop"]]
    OBVIOUS
  <2>2. n \in Nat \ {0}
    BY ThreadsAssumption
  <2>3. [k \in 0..(n - 1) |-> "loop"] \in SendersOf(n)
    BY DEF SendersOf
  <2>4. sender \in [Rank -> UNION {SendersOf(m) : m \in SendNumThreads}]
    BY <2>1, <2>3
  <2>5. /\ mutex \in [Rank -> Nat \cup {Nobody}] /\ joined \in [Rank -> Nat]
        /\ \A r \in Rank : mutex[r] = Nobody /\ joined[r] = 0 /\ sender[r] \in SendersOf(n)
    BY <2>1, <2>3
  <2>6. ASSUME NEW r \in Rank
        PROVE  /\ sender[r] \in SendersOf(n)
               /\ mutex[r] \in 0..(n - 1) \cup {Nobody} /\ joined[r] \in 0..n
    <3>1. sender[r] \in SendersOf(n) /\ mutex[r] = Nobody /\ joined[r] = 0
      BY <2>5
    <3>2. 0 \in 0..n
      BY <2>2
    <3> QED BY <3>1, <3>2
  <2> QED BY <2>4, <2>5, <2>6 DEF SenderTypes
<1>5. ASSUME NEW r \in Rank PROVE PortKept(r) /\ TableKept(r) /\ EndKept(r)
  BY DEF PortKept, TableKept, EndKept, HasPort, HasTable, Starting, Past, Finishing
<1>6. ASSUME NEW h \in Host PROVE DaemonKept(h)
  <2>1. spdQueue[h] = <<>> /\ spd[h] = "accept" /\ ~ Starts(h)
    BY DEF Starts
  <2>2. \A p \in Busy[h] : listProcess[h][p] = Size
    BY PortAssumption
  <2> QED BY <2>1, <2>2 DEF DaemonKept, AtRest, EndQueue
<1> QED BY <1>1, <1>2, <1>3, <1>4, <1>5, <1>6 DEF LaunchInv, LaunchTypes

\* Steps of srun
LEMMA SrunKeeps == ASSUME LaunchInv, Srun PROVE LaunchInv'
<1> USE Launched DEF LaunchInv, LaunchTypes
<1>1. CASE Startup
  <2> USE <1>1 DEF Startup
  <2>u. UNCHANGED <<processVars, barrierVars>> /\ UNCHANGED <<turn, pTable, listProcess, spd, spdPort>>
    OBVIOUS
  <2> USE <2>u DEF processVars, OtherThreads, barrierVars, senderVars
  <2>t. turn \in Rank /\ HostOf[turn] \in Host /\ ~ (turn < turn)
    BY TurnIsARank
  <2>q. /\ spdQueue' \in [Host -> Seq(Records)]
        /\ spdQueue[HostOf[turn]] = <<>> => spdQueue'[HostOf[turn]] = <<Said("STARTUP")>>
        /\ \A g \in Host \ {HostOf[turn]} : spdQueue'[g] = spdQueue[g]
    BY <2>t, AddRecord DEF Said
  <2>1. SrunTypes'
    BY DEF SrunTypes
  <2>2. DaemonTypes'
    <3>1. spdQueue' \in [Host -> Seq([kind : {"STARTUP", "GETPORT", "FINALIZE"}, rank : Rank])]
      BY <2>q DEF Records
    <3> QED BY <3>1, <2>u DEF DaemonTypes
  <2>3. ProcessTypes' /\ SenderTypes'
    BY DEF ProcessTypes, SenderTypes
  <2>4. ASSUME NEW r \in Rank PROVE (PortKept(r) /\ TableKept(r) /\ EndKept(r))'
    BY DEF PortKept, TableKept, EndKept, HasPort, HasTable, Starting
  <2>5. ASSUME NEW h \in Host PROVE DaemonKept(h)'
    <3>0. \A p \in Busy[h] : listProcess[h][p] = Size
      BY DEF DaemonKept
    <3>1. AtRest(h) /\ spd[h] = "accept" /\ spdQueue[h] = <<>>
      BY DEF DaemonKept, Starts, AtRest, Starting
    <3>2. CASE h = HostOf[turn]
      <4>1. main[turn] = "absent"
        <5>1. ~ HasPort(turn) /\ PortKept(turn)
          BY <2>t DEF HasPort, Starting
        <5> QED BY <5>1 DEF PortKept
      <4>2. spdQueue'[h] = <<Said("STARTUP")>>
        BY <3>1, <3>2, <2>q
      <4> QED BY <3>0, <3>1, <3>2, <4>1, <4>2 DEF DaemonKept, Starts, StartKept, Said
    <3>3. CASE h # HostOf[turn]
      <4>1. spdQueue'[h] = spdQueue[h]
        BY <3>3, <2>q
      <4>2. EndQueue(h)'
        BY <3>1, <4>1, NoQueue
      <4> QED BY <3>0, <3>1, <3>3, <4>1, <4>2 DEF DaemonKept, Starts, AtRest
    <3> QED BY <3>2, <3>3
  <2> QED BY <2>1, <2>2, <2>3, <2>4, <2>5
<1>2. CASE EndStartup
  <2> USE <1>2 DEF EndStartup, daemonVars, processVars, OtherThreads, barrierVars, senderVars
  <2>1. SrunTypes'
    BY DEF SrunTypes
  <2>2. DaemonTypes' /\ ProcessTypes' /\ SenderTypes'
    BY DEF DaemonTypes, ProcessTypes, SenderTypes
  <2>4. ASSUME NEW r \in Rank PROVE (PortKept(r) /\ TableKept(r) /\ EndKept(r))'
    <3>1. r < turn /\ ~ (r < turn')
      BY DEF Rank
    <3>2. PortKept(r)'
      BY <3>1 DEF PortKept, HasPort, Starting
    <3>3. TableKept(r)'
      BY <3>1 DEF TableKept, HasTable
    <3> QED BY <3>2, <3>3 DEF EndKept
  <2>5. ASSUME NEW h \in Host PROVE DaemonKept(h)'
    <3>1. AtRest(h) /\ (\A p \in Busy[h] : listProcess[h][p] = Size)
      BY DEF DaemonKept, Starts
    <3>2. AtRest(h)'
      BY <3>1 DEF AtRest, EndQueue, SaysFinalize, Starting, Reaps
    <3> QED BY <3>1, <3>2 DEF DaemonKept, Starts
  <2> QED BY <2>1, <2>2, <2>4, <2>5
<1>3. CASE Notify
  <2>1. PICK q \in At(HostOf[turn], pTable[turn]) :
          /\ main[q] = "listening" /\ Call(q, "table") /\ table' = [table EXCEPT ![q] = pTable]
    BY <1>3 DEF Notify
  <2> USE <1>3 DEF Notify, daemonVars, OtherThreads, barrierVars, senderVars
  <2>t. turn \in Rank /\ q \in Rank
    BY <2>1 DEF SrunTypes, Rank, At
  <2>2. q = turn
    <3>1. sPort[turn] = pTable[turn] /\ sPort[q] = pTable[turn] /\ HostOf[q] = HostOf[turn]
      BY <2>1, <2>t DEF PortKept, HasPort, Starting, At
    <3>2. PortKept(q) /\ PortKept(turn) /\ HasPort(q) /\ HasPort(turn) /\ TableKept(turn)
      BY <2>t DEF HasPort, Starting
    <3>3. main[turn] # "gone"
      <4>1. ~ HasTable(turn)
        BY <2>t DEF HasTable
      <4> QED BY <3>2, <4>1 DEF TableKept, Past
    <3> QED BY <2>1, <3>1, <3>2, <3>3 DEF PortKept
  <2>3. SrunTypes'
    BY DEF SrunTypes
  <2>4. DaemonTypes' /\ SenderTypes'
    BY DEF DaemonTypes, SenderTypes
  <2>5. ProcessTypes'
    <3>1. table' \in [Rank -> [Rank -> Port \cup {Nobody}]]
      BY <2>1, <2>t DEF ProcessTypes, SrunTypes
    <3>2. first' \in [Rank -> {"none", "table", "other"}]
      BY <2>1, <2>t DEF ProcessTypes, Call
    <3> QED BY <3>1, <3>2 DEF ProcessTypes
  <2>6. ASSUME NEW r \in Rank PROVE (PortKept(r) /\ EndKept(r))'
    BY DEF PortKept, EndKept, HasPort, Starting
  <2>7. ASSUME NEW r \in Rank PROVE TableKept(r)'
    <3>1. CASE r = turn
      <4>1. ~ HasTable(turn) /\ HasTable(r)'
        BY <2>t, <3>1 DEF HasTable
      <4>2. first[turn] = "none"
        BY <2>t, <4>1 DEF TableKept
      <4> QED BY <2>1, <2>2, <2>t, <3>1, <4>1, <4>2 DEF TableKept, Call, ProcessTypes
    <3>2. CASE r # turn
      <4>1. HasTable(r)' = HasTable(r)
        BY <3>2, <2>t DEF HasTable
      <4>2. first'[r] = first[r] /\ table'[r] = table[r]
        BY <2>1, <2>2, <3>2 DEF Call, ProcessTypes
      <4> QED BY <4>1, <4>2 DEF TableKept
    <3> QED BY <3>1, <3>2
  <2>8. ASSUME NEW h \in Host PROVE DaemonKept(h)'
    BY DEF DaemonKept, Starts, AtRest, EndQueue, SaysFinalize, Starting, Reaps
  <2> QED BY <2>3, <2>4, <2>5, <2>6, <2>7, <2>8
<1>4. CASE EndNotify
  <2> USE <1>4 DEF EndNotify, daemonVars, processVars, OtherThreads, barrierVars, senderVars
  <2>1. SrunTypes'
    BY DEF SrunTypes
  <2>2. DaemonTypes' /\ ProcessTypes' /\ SenderTypes'
    BY DEF DaemonTypes, ProcessTypes, SenderTypes
  <2>4. ASSUME NEW r \in Rank PROVE (PortKept(r) /\ TableKept(r) /\ EndKept(r))'
    BY DEF PortKept, TableKept, EndKept, HasPort, HasTable, Starting, Rank
  <2>5. ASSUME NEW h \in Host PROVE DaemonKept(h)'
    BY DEF DaemonKept, Starts, AtRest, EndQueue, SaysFinalize, Starting, Reaps
  <2> QED BY <2>1, <2>2, <2>4, <2>5
<1>5. CASE CountFinalize
  <2> USE <1>5 DEF CountFinalize, daemonVars, processVars, OtherThreads, barrierVars, senderVars
  <2>1. SrunTypes'
    BY DEF SrunTypes
  <2>2. DaemonTypes' /\ ProcessTypes' /\ SenderTypes'
    BY DEF DaemonTypes, ProcessTypes, SenderTypes
  <2>4. ASSUME NEW r \in Rank PROVE (PortKept(r) /\ TableKept(r) /\ EndKept(r))'
    BY DEF PortKept, TableKept, EndKept, HasPort, HasTable, Starting
  <2>5. ASSUME NEW h \in Host PROVE DaemonKept(h)'
    BY DEF DaemonKept, Starts, AtRest, EndQueue, SaysFinalize, Starting, Reaps
  <2> QED BY <2>1, <2>2, <2>4, <2>5
<1> QED BY <1>1, <1>2, <1>3, <1>4, <1>5 DEF Srun

\* A daemon forks a process, for the rank that srun named
LEMMA AcceptStartupKeeps ==
    ASSUME LaunchInv, NEW h \in Host, AcceptStartup(h) PROVE LaunchInv'
<1>u. UNCHANGED <<srun, turn, pTable, totalNp, finalized, sPort, table, first>> /\
      UNCHANGED <<finalize, receiver, threadRunning, mutex, sender, joined, entered, inside>>
  BY DEF AcceptStartup, launchVars, OtherThreads, senderVars, barrierVars
<1>v. LaunchTypes /\ SrunTypes /\ DaemonTypes /\ ProcessTypes /\ SenderTypes
  BY DEF LaunchInv, LaunchTypes
<1>1. /\ spd[h] = "accept" /\ spdQueue[h] # <<>> /\ Head(spdQueue[h]).kind = "STARTUP"
      /\ spdQueue' = [spdQueue EXCEPT ![h] = Tail(@)]
      /\ numberProcess' = [numberProcess EXCEPT ![h] = Following(@)]
      /\ spd' = [spd EXCEPT ![h] = "await getport"]
  BY DEF AcceptStartup, Accept
<1>2. Starts(h) /\ StartKept(h)
  <2>1. ASSUME AtRest(h) PROVE FALSE
    <3>1. 1 \in 1..Len(spdQueue[h]) /\ Head(spdQueue[h]) = spdQueue[h][1]
      BY <1>1, <1>v, TakeRecord
    <3> QED BY <1>1, <2>1, <3>1 DEF AtRest, EndQueue, SaysFinalize
  <2> QED BY <2>1 DEF LaunchInv, DaemonKept
<1>3. spdQueue[h] = <<Said("STARTUP")>> /\ main[turn] = "absent"
  BY <1>1, <1>2 DEF StartKept, Given
<1>4. /\ turn < Size /\ srun = "await port" /\ h = HostOf[turn]
      /\ turn \in Rank /\ ~ (turn < turn) /\ turn \in Nat
  BY <1>2, <1>v, TurnIsARank DEF Starts, SrunTypes
<1>5. PICK p \in SetPort(h) : /\ listProcess' = [listProcess EXCEPT ![h][p] = turn]
                              /\ spdPort' = [spdPort EXCEPT ![h] = p]
                              /\ main' = [main EXCEPT ![turn] = "born"]
  <2>1. Head(spdQueue[h]).rank = turn
    BY <1>3, OnlyOne, SaidIs
  <2> QED BY <2>1 DEF AcceptStartup, Fork
<1>6. p \in Port /\ listProcess[h][p] = Nobody
  BY DEF SetPort, Free
<1>7. spdQueue'[h] = <<>> /\ spdQueue' \in [Host -> Seq(Records)] /\ \A g \in Host \ {h} : spdQueue'[g] = spdQueue[g]
  <2>1. Tail(spdQueue[h]) = <<>>
    BY <1>3, OnlyOne
  <2> QED BY <2>1, <1>1, <1>v, TakeRecord
<1>p. \A g \in Host : \A q \in Port :
        listProcess'[g][q] = IF g = h /\ q = p THEN turn ELSE listProcess[g][q]
  BY <1>5, <1>6, <1>v DEF DaemonTypes
<1>8. SrunTypes' /\ SenderTypes'
  BY <1>u, <1>v DEF SrunTypes, SenderTypes
<1>9. DaemonTypes'
  <2>1. Following(numberProcess[h]) \in Port
    BY <1>v, InPort DEF DaemonTypes
  <2>2. listProcess' \in [Host -> [Port -> Rank \cup {Nobody, Size}]]
    BY <1>4, <1>5, <1>6, <1>v DEF DaemonTypes
  <2>3. spdQueue' \in [Host -> Seq([kind : {"STARTUP", "GETPORT", "FINALIZE"}, rank : Rank])]
    BY <1>7 DEF Records
  <2>4. spdPort' \in [Host -> Port \cup {Nobody}]
    BY <1>5, <1>6, <1>v DEF DaemonTypes
  <2> QED BY <2>1, <2>2, <2>3, <2>4, <1>1, <1>v DEF DaemonTypes
<1>10. ProcessTypes'
  BY <1>u, <1>v, <1>4, <1>5 DEF ProcessTypes
<1>11. ASSUME NEW r \in Rank PROVE (PortKept(r) /\ TableKept(r) /\ EndKept(r))'
  <2>1. PortKept(r) /\ TableKept(r) /\ EndKept(r)
    BY DEF LaunchInv
  <2>2. CASE r = turn
    <3>1. main'[r] = "born" /\ ~ HasPort(r) /\ ~ HasPort(r)' /\ ~ HasTable(r) /\ ~ HasTable(r)'
      BY <1>u, <1>v, <1>4, <1>5, <2>2 DEF ProcessTypes, HasPort, Starting, HasTable
    <3>2. entered[r] = 0 \/ ~ (entered[r] > 0)
      BY <2>1, <2>2, <1>3 DEF EndKept, Past
    <3> QED BY <1>u, <1>3, <1>4, <2>1, <2>2, <3>1 DEF PortKept, TableKept, EndKept, Past, Finishing
  <2>3. CASE r # turn
    <3>1. main'[r] = main[r]
      BY <1>v, <1>5, <2>3 DEF ProcessTypes
    <3>2. TableKept(r)' /\ EndKept(r)'
      BY <1>u, <2>1, <3>1 DEF TableKept, EndKept, HasTable
    <3>3. ASSUME sPort[r] \in Port, listProcess[HostOf[r]][sPort[r]] = r
          PROVE  listProcess'[HostOf[r]][sPort[r]] = r
      BY <1>p, <1>6, <3>3, Launched
    <3>4. PortKept(r)'
      BY <1>u, <2>1, <3>1, <3>3 DEF PortKept, HasPort, Starting
    <3> QED BY <3>2, <3>4
  <2> QED BY <2>2, <2>3
<1>12. ASSUME NEW g \in Host PROVE DaemonKept(g)'
  <2>1. DaemonKept(g)
    BY DEF LaunchInv
  <2>2. CASE g = h
    <3>1. \A q \in Busy[g] : listProcess'[g][q] = Size
      <4>1. ASSUME NEW q \in Busy[g] PROVE q \in Port /\ listProcess[g][q] = Size
        BY <2>1, PortAssumption DEF DaemonKept
      <4>2. Size # Nobody
        BY Launched DEF Nobody
      <4> QED BY <4>1, <4>2, <1>p, <1>6
    <3>2. /\ spd'[h] = "await getport" /\ spdPort'[h] = p /\ listProcess'[h][p] = turn
          /\ main'[turn] = "born"
      BY <1>v, <1>p, <1>1, <1>4, <1>5, <1>6 DEF DaemonTypes, ProcessTypes
    <3>3. StartKept(h)'
      BY <3>2, <1>6, <1>7, <1>u DEF StartKept, Given
    <3> QED BY <1>u, <1>2, <2>2, <3>1, <3>3 DEF DaemonKept, Starts
  <2>3. CASE g # h
    <3>1. ~ Starts(g) /\ ~ Starts(g)' /\ Starting
      BY <1>u, <1>4, <2>3 DEF Starts, Starting
    <3>2. spdQueue[g] = <<>> /\ spd[g] = "accept"
      BY <2>1, <3>1 DEF DaemonKept, AtRest
    <3>3. spdQueue'[g] = <<>> /\ spd'[g] = "accept" /\ listProcess'[g] = listProcess[g]
      BY <1>1, <1>5, <1>6, <1>7, <1>v, <2>3, <3>2 DEF DaemonTypes
    <3>4. AtRest(g)'
      BY <3>3, NoQueue DEF AtRest
    <3> QED BY <2>1, <3>1, <3>3, <3>4 DEF DaemonKept
  <2> QED BY <2>2, <2>3
<1> QED BY <1>8, <1>9, <1>10, <1>11, <1>12 DEF LaunchInv, LaunchTypes

\* The process just started is told its port, and srun too
LEMMA AwaitGetPortKeeps ==
    ASSUME LaunchInv, NEW h \in Host, AwaitGetPort(h) PROVE LaunchInv'
<1>u. /\ UNCHANGED <<totalNp, finalized, spdPort, listProcess, numberProcess, table, first>>
      /\ UNCHANGED <<finalize, receiver, threadRunning, mutex, sender, joined, entered, inside>>
  BY DEF AwaitGetPort, OtherThreads, senderVars, barrierVars
<1>v. LaunchTypes /\ SrunTypes /\ DaemonTypes /\ ProcessTypes /\ SenderTypes
  BY DEF LaunchInv, LaunchTypes
<1>1. /\ spd[h] = "await getport" /\ spdQueue[h] # <<>>
      /\ spdQueue' = [spdQueue EXCEPT ![h] = Tail(@)]
  BY DEF AwaitGetPort
<1>2. Starts(h) /\ StartKept(h)
  BY <1>1 DEF LaunchInv, DaemonKept, AtRest, Reaps
<1>3. spdQueue[h] = <<Said("GETPORT")>> /\ main[turn] = "await port" /\ Given(h)
  BY <1>1, <1>2 DEF StartKept
<1>4. /\ turn < Size /\ srun = "await port" /\ h = HostOf[turn]
      /\ turn \in Rank /\ ~ (turn < turn) /\ turn \in Nat
  BY <1>2, <1>v, TurnIsARank DEF Starts, SrunTypes
<1>5. /\ sPort' = [sPort EXCEPT ![turn] = spdPort[h]]
      /\ main' = [main EXCEPT ![turn] = "unbound"]
      /\ pTable' = [pTable EXCEPT ![turn] = spdPort[h]]
      /\ srun' = "startup" /\ turn' = turn + 1
      /\ spd' = [spd EXCEPT ![h] = "accept"]
  <2>0. Head(spdQueue[h]) = Said("GETPORT")
    BY <1>3, OnlyOne
  <2>1. Head(spdQueue[h]).kind = "GETPORT" /\ Head(spdQueue[h]).rank = turn
    BY <2>0, SaidIs
  <2> QED BY <2>1 DEF AwaitGetPort
<1>t. turn' = turn + 1 /\ turn < turn' /\ \A r \in Nat : r # turn => (r < turn') = (r < turn)
  <2>1. turn' = turn + 1 /\ turn \in Nat
    BY <1>4, <1>5
  <2>2. \A r \in Nat : r # turn => (r < turn + 1) = (r < turn)
    BY <2>1
  <2> QED BY <2>1, <2>2
<1>6. spdPort[h] \in Port /\ listProcess[h][spdPort[h]] = turn
  BY <1>3 DEF Given
<1>7. spdQueue'[h] = <<>> /\ spdQueue' \in [Host -> Seq(Records)] /\ \A g \in Host \ {h} : spdQueue'[g] = spdQueue[g]
  <2>1. Tail(spdQueue[h]) = <<>>
    BY <1>3, OnlyOne
  <2> QED BY <2>1, <1>1, <1>v, TakeRecord
<1>8. SrunTypes'
  <2>1. turn + 1 \in 0..Size
    <3>1. turn \in Nat /\ Size \in Nat /\ turn < Size
      BY <1>4, Launched
    <3> QED BY <3>1
  <2>2. pTable' \in [Rank -> Port \cup {Nobody}]
    BY <1>v, <1>4, <1>5, <1>6 DEF SrunTypes
  <2> QED BY <1>u, <1>v, <1>4, <1>5, <2>1, <2>2 DEF SrunTypes
<1>9. DaemonTypes'
  <2>1. spdQueue' \in [Host -> Seq([kind : {"STARTUP", "GETPORT", "FINALIZE"}, rank : Rank])]
    BY <1>7 DEF Records
  <2> QED BY <2>1, <1>u, <1>v, <1>5 DEF DaemonTypes
<1>10. ProcessTypes' /\ SenderTypes'
  BY <1>u, <1>v, <1>4, <1>5, <1>6 DEF ProcessTypes, SenderTypes
<1>11. ASSUME NEW r \in Rank PROVE (PortKept(r) /\ TableKept(r) /\ EndKept(r))'
  <2>1. PortKept(r) /\ TableKept(r) /\ EndKept(r) /\ r \in Nat
    BY Launched DEF LaunchInv
  <2>2. CASE r = turn
    <3>1. /\ main'[r] = "unbound" /\ sPort'[r] = spdPort[h] /\ pTable'[r] = spdPort[h]
          /\ HasPort(r)' /\ ~ HasTable(r) /\ ~ HasTable(r)'
      <4>1. main'[r] = "unbound" /\ sPort'[r] = spdPort[h] /\ pTable'[r] = spdPort[h]
        BY <1>v, <1>4, <1>5, <2>2 DEF ProcessTypes, SrunTypes
      <4>2. r < turn'
        BY <1>t, <2>2
      <4> QED BY <4>1, <4>2, <1>4, <1>5 DEF HasPort, HasTable
    <3> QED BY <1>u, <1>3, <1>4, <1>6, <2>1, <2>2, <3>1
            DEF PortKept, TableKept, EndKept, Past, Finishing
  <2>3. CASE r # turn
    <3>1. main'[r] = main[r] /\ sPort'[r] = sPort[r] /\ pTable'[r] = pTable[r]
      BY <1>v, <1>5, <2>3 DEF ProcessTypes, SrunTypes
    <3>2. HasPort(r)' = HasPort(r) /\ ~ HasTable(r) /\ ~ HasTable(r)'
      <4>1. (r < turn') = (r < turn)
        BY <1>t, <2>1, <2>3
      <4> QED BY <4>1, <1>4, <1>5 DEF HasPort, Starting, HasTable
    <3>3. TableKept(r)' /\ EndKept(r)'
      BY <1>u, <2>1, <3>1, <3>2 DEF TableKept, EndKept
    <3>4. PortKept(r)'
      BY <1>u, <1>4, <2>1, <2>3, <3>1, <3>2 DEF PortKept
    <3> QED BY <3>3, <3>4
  <2> QED BY <2>2, <2>3
<1>12. ASSUME NEW g \in Host PROVE DaemonKept(g)'
  <2>1. DaemonKept(g)
    BY DEF LaunchInv
  <2>2. spdQueue'[g] = <<>> /\ spd'[g] = "accept"
    <3>1. CASE g = h
      BY <1>5, <1>7, <1>v, <3>1 DEF DaemonTypes
    <3>2. CASE g # h
      <4>1. spdQueue[g] = <<>> /\ spd[g] = "accept"
        BY <2>1, <3>2, <1>4 DEF DaemonKept, AtRest, Starts, Starting
      <4> QED BY <1>5, <1>7, <1>v, <3>2, <4>1 DEF DaemonTypes
    <3> QED BY <3>1, <3>2
  <2>3. AtRest(g)' /\ ~ Starts(g)'
    BY <1>5, <2>2, NoQueue DEF AtRest, Starts
  <2> QED BY <1>u, <2>1, <2>3 DEF DaemonKept
<1> QED BY <1>8, <1>9, <1>10, <1>11, <1>12 DEF LaunchInv, LaunchTypes

\* A daemon calls a process that said FINALIZE
LEMMA AcceptFinalizeKeeps ==
    ASSUME LaunchInv, NEW h \in Host, AcceptFinalize(h) PROVE LaunchInv'
<1>u. /\ UNCHANGED <<srun, turn, pTable, totalNp, finalized, sPort, table, main>>
      /\ UNCHANGED <<listProcess, numberProcess, receiver, threadRunning, mutex, sender, joined>>
      /\ UNCHANGED <<entered, inside>>
  BY DEF AcceptFinalize, launchVars, senderVars, barrierVars
<1>v. LaunchTypes /\ SrunTypes /\ DaemonTypes /\ ProcessTypes /\ SenderTypes
  BY DEF LaunchInv, LaunchTypes
<1>i. \A r \in Rank : PortKept(r) /\ TableKept(r) /\ EndKept(r)
  BY DEF LaunchInv
<1> DEFINE m == Head(spdQueue[h])
           r == m.rank
<1>1. /\ spd[h] = "accept" /\ spdQueue[h] # <<>> /\ m.kind = "FINALIZE"
      /\ spdQueue' = [spdQueue EXCEPT ![h] = Tail(@)]
  BY DEF AcceptFinalize, Accept
<1>2. m = spdQueue[h][1] /\ 1 \in 1..Len(spdQueue[h]) /\ m \in Records
  BY <1>1, <1>v, TakeRecord
<1>3. ~ Starts(h) /\ AtRest(h)
  <2>1. ASSUME StartKept(h) PROVE FALSE
    <3>1. spdQueue[h] = <<Said("STARTUP")>> \/ spdQueue[h] = <<Said("GETPORT")>>
      BY <1>1, <2>1 DEF StartKept
    <3>2. m.kind = "STARTUP" \/ m.kind = "GETPORT"
      BY <3>1, OnlyOne, SaidIs
    <3> QED BY <1>1, <3>2
  <2> QED BY <2>1 DEF LaunchInv, DaemonKept
<1>4. /\ r \in Rank /\ HostOf[r] = h /\ main[r] = "joining" /\ ~ finalize[r]
      /\ receiver[r] # "ended"
  <2>1. SaysFinalize(h, m)
    BY <1>2, <1>3 DEF AtRest, EndQueue
  <2> QED BY <2>1, <1>2 DEF SaysFinalize, Records
<1> HIDE DEF m
<1>5. /\ sPort[r] \in Port /\ HasPort(r) /\ HasTable(r) /\ first[r] = "table" /\ ~ Starting
      /\ listProcess[h][sPort[r]] = r
  <2>1. PortKept(r) /\ TableKept(r)
    BY <1>i, <1>4
  <2>2. HasTable(r)
    BY <2>1, <1>4 DEF TableKept, Past
  <2>3. HasPort(r) /\ ~ Starting
    BY <2>2 DEF HasPort, HasTable, Starting
  <2> QED BY <1>4, <2>1, <2>2, <2>3 DEF PortKept, TableKept
<1>6. At(h, sPort[r]) = {r}
  <2>1. Listening(r)
    BY <1>4 DEF Listening
  <2> QED BY <2>1, <1>i, <1>4, <1>5, OneAtPort
<1>7. /\ first' = first
      /\ finalize' = [finalize EXCEPT ![r] = TRUE]
      /\ spd' = [spd EXCEPT ![h] = "reap"]
      /\ spdPort' = [spdPort EXCEPT ![h] = sPort[r]]
  <2>1. PICK q \in At(h, sPort[r]) : /\ Call(q, "other")
                                     /\ finalize' = [finalize EXCEPT ![q] = TRUE]
                                     /\ spd' = [spd EXCEPT ![h] = "reap"]
                                     /\ spdPort' = [spdPort EXCEPT ![h] = sPort[r]]
    BY <1>6 DEF AcceptFinalize, m
  <2>2. q = r
    BY <1>6
  <2>3. first' = first
    BY <2>1, <2>2, <1>4, <1>5, <1>v DEF Call, ProcessTypes
  <2> QED BY <2>1, <2>2, <2>3
<1>8. /\ spdQueue' \in [Host -> Seq(Records)] /\ \A g \in Host \ {h} : spdQueue'[g] = spdQueue[g]
      /\ spdQueue'[h] = Tail(spdQueue[h])
  BY <1>1, <1>v, TakeRecord
<1>9. SrunTypes' /\ SenderTypes' /\ ProcessTypes'
  BY <1>u, <1>v, <1>4, <1>7 DEF SrunTypes, SenderTypes, ProcessTypes
<1>10. DaemonTypes'
  <2>1. spdQueue' \in [Host -> Seq([kind : {"STARTUP", "GETPORT", "FINALIZE"}, rank : Rank])]
    BY <1>8 DEF Records
  <2> QED BY <2>1, <1>u, <1>v, <1>5, <1>7 DEF DaemonTypes
<1>11. ASSUME NEW q \in Rank PROVE (PortKept(q) /\ TableKept(q) /\ EndKept(q))'
  <2>1. PortKept(q)' /\ TableKept(q)'
    BY <1>u, <1>i, <1>7 DEF PortKept, TableKept, HasPort, HasTable, Starting
  <2>2. finalize'[q] => finalize[q] \/ q = r
    BY <1>v, <1>4, <1>7 DEF ProcessTypes
  <2>3. EndKept(q)'
    BY <1>u, <1>i, <1>4, <2>2 DEF EndKept, Past, Finishing
  <2> QED BY <2>1, <2>3
<1>12. ASSUME NEW g \in Host PROVE DaemonKept(g)'
  <2>1. DaemonKept(g)
    BY DEF LaunchInv
  <2>2. ~ Starts(g) /\ ~ Starts(g)' /\ ~ Starting'
    BY <1>u, <1>5 DEF Starts, Starting
  <2>3. AtRest(g)
    BY <2>1, <2>2 DEF DaemonKept
  <2>4. EndQueue(g) /\ spdQueue[g] \in Seq(Records) /\ spdQueue'[g] \in Seq(Records)
    BY <2>3, <1>8, <1>v DEF AtRest, DaemonTypes, Records
  <2>5. CASE g # h
    <3>1. spdQueue'[g] = spdQueue[g] /\ spd'[g] = spd[g] /\ spdPort'[g] = spdPort[g]
      BY <2>5, <1>7, <1>8, <1>v DEF DaemonTypes
    <3>2. ASSUME NEW i \in 1..Len(spdQueue[g]) PROVE SaysFinalize(g, spdQueue[g][i])'
      <4>1. SaysFinalize(g, spdQueue[g][i]) /\ spdQueue[g][i].rank # r
        BY <2>4, <2>5, <1>4 DEF EndQueue, SaysFinalize
      <4>2. finalize'[spdQueue[g][i].rank] = finalize[spdQueue[g][i].rank]
        <5>1. spdQueue[g][i].rank \in Rank
          BY <1>v, RecordOf
        <5> QED BY <5>1, <4>1, <1>7, <1>v DEF ProcessTypes
      <4> QED BY <4>1, <4>2, <3>1, <1>u DEF SaysFinalize
    <3>3. EndQueue(g)'
      BY <2>4, <3>1, <3>2 DEF EndQueue
    <3> QED BY <2>1, <2>2, <2>3, <3>1, <3>3, <1>u DEF DaemonKept, AtRest, Reaps
  <2>6. CASE g = h
    <3>1. /\ Len(spdQueue'[h]) = Len(spdQueue[h]) - 1
          /\ \A i \in 1..Len(spdQueue'[h]) :
               spdQueue'[h][i] = spdQueue[h][i + 1] /\ i + 1 \in 1..Len(spdQueue[h])
      <4>1. spdQueue[h] \in Seq(Records)
        BY <2>4, <2>6
      <4> QED BY <4>1, <1>1, <1>8, FirstOf
    <3>2. ASSUME NEW i \in 1..Len(spdQueue'[h]) PROVE SaysFinalize(h, spdQueue[h][i])'
      <4>1. SaysFinalize(h, spdQueue[h][i + 1]) /\ spdQueue[h][i + 1].rank # r
        <5>1. i + 1 # 1 /\ i + 1 \in 1..Len(spdQueue[h])
          BY <3>1
        <5> QED BY <5>1, <1>2, <2>4, <2>6 DEF EndQueue
      <4>2. finalize'[spdQueue[h][i + 1].rank] = finalize[spdQueue[h][i + 1].rank]
        <5>1. spdQueue[h][i + 1].rank \in Rank
          BY <3>1, <1>v, RecordOf
        <5> QED BY <5>1, <4>1, <1>7, <1>v DEF ProcessTypes
      <4> QED BY <4>1, <4>2, <3>1, <1>u DEF SaysFinalize
    <3>3. ASSUME NEW i \in 1..Len(spdQueue'[h]), NEW k \in 1..Len(spdQueue'[h]),
                 spdQueue'[h][i].rank = spdQueue'[h][k].rank
          PROVE  i = k
      <4>1. i + 1 = k + 1
        <5>1. spdQueue[h][i + 1].rank = spdQueue[h][k + 1].rank
          BY <3>1, <3>3
        <5>2. i + 1 \in 1..Len(spdQueue[h]) /\ k + 1 \in 1..Len(spdQueue[h])
          BY <3>1
        <5> QED BY <5>1, <5>2, <2>4, <2>6 DEF EndQueue
      <4> QED BY <4>1
    <3>4. EndQueue(h)'
      BY <3>2, <3>3 DEF EndQueue
    <3>5. Reaps(h)'
      BY <1>4, <1>5, <1>7, <1>u, <1>v DEF Reaps, DaemonTypes
    <3>6. \A p \in Busy[h] : listProcess'[h][p] = Size
      BY <2>1, <2>6, <1>u DEF DaemonKept
    <3> QED BY <2>2, <2>6, <3>4, <3>5, <3>6 DEF DaemonKept, AtRest
  <2> QED BY <2>5, <2>6
<1> QED BY <1>9, <1>10, <1>11, <1>12 DEF LaunchInv, LaunchTypes

\* A daemon has waited for the end of a process and frees its port
LEMMA ReapKeeps ==
    ASSUME LaunchInv, NEW h \in Host, Reap(h) PROVE LaunchInv'
<1> DEFINE r == listProcess[h][spdPort[h]]
<1>u. /\ UNCHANGED <<srun, turn, pTable, totalNp, spdPort, spdQueue, numberProcess>>
      /\ UNCHANGED <<main, sPort, table, first, finalize, receiver, threadRunning>>
      /\ UNCHANGED <<mutex, sender, joined, entered, inside>>
  BY DEF Reap, processVars, OtherThreads, senderVars, barrierVars
<1>v. LaunchTypes /\ SrunTypes /\ DaemonTypes /\ ProcessTypes /\ SenderTypes
  BY DEF LaunchInv, LaunchTypes
<1>1. /\ spd[h] = "reap" /\ main[r] = "gone" /\ finalized' = finalized \cup {r}
      /\ listProcess' = [listProcess EXCEPT ![h][spdPort[h]] = Nobody]
      /\ spd' = [spd EXCEPT ![h] = "accept"]
  BY DEF Reap, FreePort
<1> HIDE DEF r
<1>2. ~ Starts(h) /\ AtRest(h) /\ Reaps(h) /\ ~ Starting
  BY <1>1 DEF LaunchInv, DaemonKept, StartKept, Given, AtRest
<1>3. spdPort[h] \in Port /\ r \in Rank /\ listProcess[h][spdPort[h]] = r
  BY <1>2 DEF Reaps, r
<1>p. \A g \in Host : \A q \in Port :
        listProcess'[g][q] = IF g = h /\ q = spdPort[h] THEN Nobody ELSE listProcess[g][q]
  BY <1>1, <1>3, <1>v DEF DaemonTypes
<1>4. SrunTypes' /\ SenderTypes' /\ ProcessTypes'
  BY <1>u, <1>v, <1>1, <1>3 DEF SrunTypes, SenderTypes, ProcessTypes
<1>5. DaemonTypes'
  <2>1. listProcess' \in [Host -> [Port -> Rank \cup {Nobody, Size}]]
    BY <1>1, <1>3, <1>v DEF DaemonTypes
  <2> QED BY <2>1, <1>u, <1>1, <1>v DEF DaemonTypes
<1>6. ASSUME NEW q \in Rank PROVE (PortKept(q) /\ TableKept(q) /\ EndKept(q))'
  <2>1. PortKept(q) /\ TableKept(q) /\ EndKept(q)
    BY DEF LaunchInv
  <2>2. ASSUME sPort[q] \in Port, main[q] # "gone", listProcess[HostOf[q]][sPort[q]] = q
        PROVE  listProcess'[HostOf[q]][sPort[q]] = q
    BY <2>2, <1>1, <1>3, <1>p, Launched
  <2>3. PortKept(q)'
    BY <2>1, <2>2, <1>u DEF PortKept, HasPort, Starting
  <2> QED BY <2>1, <2>3, <1>u DEF TableKept, EndKept, HasTable
<1>7. ASSUME NEW g \in Host PROVE DaemonKept(g)'
  <2>1. DaemonKept(g)
    BY DEF LaunchInv
  <2>2. ~ Starts(g) /\ ~ Starts(g)' /\ ~ Starting'
    BY <1>u, <1>2 DEF Starts, Starting
  <2>3. AtRest(g)
    BY <2>1, <2>2 DEF DaemonKept
  <2>4. EndQueue(g)'
    BY <2>3, <1>u DEF AtRest, EndQueue, SaysFinalize
  <2>5. \A p \in Busy[g] : listProcess'[g][p] = Size
    <3>1. ASSUME NEW p \in Busy[g] PROVE p \in Port /\ listProcess[g][p] = Size
      BY <2>1, PortAssumption DEF DaemonKept
    <3>2. ASSUME NEW p \in Busy[g] PROVE ~ (g = h /\ p = spdPort[h])
      BY <3>1, <1>3, Launched
    <3> QED BY <3>1, <3>2, <1>p
  <2>6. spd'[g] = "accept" \/ Reaps(g)'
    <3>1. CASE g = h
      BY <3>1, <1>1, <1>v DEF DaemonTypes
    <3>2. CASE g # h
      <4>1. spd'[g] = spd[g] /\ listProcess'[g] = listProcess[g]
        BY <3>2, <1>1, <1>v DEF DaemonTypes
      <4> QED BY <4>1, <2>3, <1>u DEF AtRest, Reaps
    <3> QED BY <3>1, <3>2
  <2> QED BY <2>2, <2>4, <2>5, <2>6 DEF DaemonKept, AtRest
<1> QED BY <1>4, <1>5, <1>6, <1>7 DEF LaunchInv, LaunchTypes

\* The main thread asks its daemon for a port
LEMMA AskPortKeeps ==
    ASSUME LaunchInv, NEW r \in Rank, AskPort(r) PROVE LaunchInv'
<1>u. /\ UNCHANGED <<srun, turn, pTable, totalNp, finalized, spd, spdPort, listProcess, numberProcess>>
      /\ UNCHANGED <<sPort, table, first, finalize, receiver, threadRunning, mutex, sender, joined>>
      /\ UNCHANGED <<entered, inside>>
  BY DEF AskPort, launchVars, OtherThreads, senderVars, barrierVars
<1>v. LaunchTypes /\ SrunTypes /\ DaemonTypes /\ ProcessTypes /\ SenderTypes
  BY DEF LaunchInv, LaunchTypes
<1>1. /\ main[r] = "born" /\ main' = [main EXCEPT ![r] = "await port"]
      /\ spdQueue' = [spdQueue EXCEPT ![HostOf[r]] = Append(@, [kind |-> "GETPORT", rank |-> r])]
  BY DEF AskPort, GoTo
<1>2. srun = "await port" /\ r = turn /\ ~ HasPort(r) /\ Starting
  BY <1>1 DEF LaunchInv, PortKept, Past, Starting
<1>3. /\ spdQueue' \in [Host -> Seq(Records)]
      /\ spdQueue[HostOf[r]] = <<>> => spdQueue'[HostOf[r]] = <<Said("GETPORT")>>
      /\ \A g \in Host \ {HostOf[r]} : spdQueue'[g] = spdQueue[g]
  BY <1>1, <1>2, <1>v, AddRecord, Launched DEF Said
<1>4. SrunTypes' /\ SenderTypes' /\ ProcessTypes'
  BY <1>u, <1>v, <1>1 DEF SrunTypes, SenderTypes, ProcessTypes
<1>5. DaemonTypes'
  <2>1. spdQueue' \in [Host -> Seq([kind : {"STARTUP", "GETPORT", "FINALIZE"}, rank : Rank])]
    BY <1>3 DEF Records
  <2> QED BY <2>1, <1>u, <1>v DEF DaemonTypes
<1>6. ASSUME NEW q \in Rank PROVE (PortKept(q) /\ TableKept(q) /\ EndKept(q))'
  <2>1. PortKept(q) /\ TableKept(q) /\ EndKept(q)
    BY DEF LaunchInv
  <2>2. main'[q] = IF q = r THEN "await port" ELSE main[q]
    BY <1>1, <1>v DEF ProcessTypes
  <2>3. PortKept(q)'
    BY <1>u, <1>1, <1>2, <2>1, <2>2 DEF PortKept, HasPort, Starting, Past
  <2>4. TableKept(q)'
    <3>1. main'[q] \in Past <=> main[q] \in Past
      <4>1. CASE q = r
        <5>1. main[q] = "born" /\ main'[q] = "await port"
          BY <4>1, <1>1, <2>2
        <5> QED BY <5>1 DEF Past
      <4>2. CASE q # r
        BY <4>2, <2>2
      <4> QED BY <4>1, <4>2
    <3>2. ~ HasTable(q) /\ ~ HasTable(q)'
      BY <1>2, <1>u DEF HasTable
    <3> QED BY <3>1, <3>2, <1>u, <2>1 DEF TableKept
  <2>5. EndKept(q)'
    <3>1. (main'[q] \in Past <=> main[q] \in Past) /\ (main'[q] \in Finishing <=> main[q] \in Finishing)
      <4>1. CASE q = r
        <5>1. main[q] = "born" /\ main'[q] = "await port"
          BY <4>1, <1>1, <2>2
        <5> QED BY <5>1 DEF Past, Finishing
      <4>2. CASE q # r
        BY <4>2, <2>2
      <4> QED BY <4>1, <4>2
    <3> QED BY <3>1, <1>u, <2>1 DEF EndKept
  <2> QED BY <2>3, <2>4, <2>5
<1>7. ASSUME NEW h \in Host PROVE DaemonKept(h)'
  <2>1. DaemonKept(h)
    BY DEF LaunchInv
  <2>2. CASE h = HostOf[r]
    <3>1. Starts(h) /\ Starts(h)'
      BY <1>2, <1>u, <2>2 DEF Starts
    <3>2. spdQueue[h] = <<>> /\ Given(h)
      BY <2>1, <3>1, <1>1, <1>2 DEF DaemonKept, StartKept
    <3>3. main'[turn] = "await port" /\ spdQueue'[h] = <<Said("GETPORT")>>
      BY <3>2, <1>1, <1>2, <1>3, <1>v, <2>2 DEF ProcessTypes
    <3>4. StartKept(h)'
      BY <3>2, <3>3, <1>u DEF StartKept, Given, Said
    <3> QED BY <2>1, <3>1, <3>4, <1>u DEF DaemonKept
  <2>3. CASE h # HostOf[r]
    <3>1. ~ Starts(h) /\ ~ Starts(h)'
      BY <1>2, <1>u, <2>3 DEF Starts
    <3>2. spdQueue[h] = <<>> /\ spd[h] = "accept"
      BY <2>1, <3>1, <1>2 DEF DaemonKept, AtRest
    <3>3. spdQueue'[h] = <<>> /\ spd'[h] = "accept"
      BY <3>2, <1>3, <1>u, <2>3
    <3>4. AtRest(h)'
      BY <3>3, NoQueue DEF AtRest
    <3> QED BY <2>1, <3>1, <3>4, <1>u DEF DaemonKept
  <2> QED BY <2>2, <2>3
<1> QED BY <1>4, <1>5, <1>6, <1>7 DEF LaunchInv, LaunchTypes

\* What the daemons know of a process does not change while its main thread is
\* neither started nor waiting for a port nor joining
LEMMA DaemonsKept ==
    ASSUME LaunchInv, NEW r \in Rank, NEW there,
           main[r] \notin {"absent", "born", "await port", "joining"},
           main' = [main EXCEPT ![r] = there],
           UNCHANGED <<srun, turn, spd, spdPort, spdQueue, listProcess, finalize>>,
           \A q \in Rank \ {r} : receiver'[q] = receiver[q]
    PROVE  \A h \in Host : DaemonKept(h)'
<1>v. ProcessTypes /\ DaemonTypes /\ SrunTypes
  BY DEF LaunchInv, LaunchTypes
<1> SUFFICES ASSUME NEW h \in Host PROVE DaemonKept(h)'
  OBVIOUS
<1>1. DaemonKept(h)
  BY DEF LaunchInv
<1>2. CASE Starts(h)
  <2>1. main'[turn] = main[turn]
    <3>1. StartKept(h)
      BY <1>1, <1>2 DEF DaemonKept
    <3>2. turn # r
      BY <3>1 DEF StartKept
    <3>3. turn \in Rank
      BY <1>v, <1>2, TurnIsARank DEF Starts, SrunTypes
    <3> QED BY <3>2, <3>3, <1>v DEF ProcessTypes
  <2> QED BY <1>1, <1>2, <2>1 DEF DaemonKept, Starts, StartKept, Given, Said
<1>3. CASE ~ Starts(h)
  <2>1. AtRest(h) /\ ~ Starts(h)'
    BY <1>1, <1>3 DEF DaemonKept, Starts
  <2>2. ASSUME NEW i \in 1..Len(spdQueue[h]) PROVE SaysFinalize(h, spdQueue[h][i])'
    <3>1. SaysFinalize(h, spdQueue[h][i]) /\ spdQueue[h][i].rank \in Rank
      BY <2>1, <1>v, RecordOf DEF AtRest, EndQueue
    <3>2. spdQueue[h][i].rank # r
      BY <3>1 DEF SaysFinalize
    <3>3. /\ main'[spdQueue[h][i].rank] = main[spdQueue[h][i].rank]
          /\ receiver'[spdQueue[h][i].rank] = receiver[spdQueue[h][i].rank]
      BY <3>1, <3>2, <1>v DEF ProcessTypes
    <3> QED BY <3>1, <3>3 DEF SaysFinalize
  <2>3. EndQueue(h)'
    BY <2>1, <2>2 DEF AtRest, EndQueue
  <2> QED BY <1>1, <2>1, <2>3 DEF DaemonKept, AtRest, Reaps, Starting
<1> QED BY <1>2, <1>3

\* Nor in a step of none of them
LEMMA DaemonsQuiet ==
    ASSUME LaunchInv, UNCHANGED <<main, finalize, receiver>>,
           UNCHANGED <<srun, turn, spd, spdPort, spdQueue, listProcess>>
    PROVE  \A h \in Host : DaemonKept(h)'
<1> SUFFICES ASSUME NEW h \in Host PROVE DaemonKept(h)'
  OBVIOUS
<1>1. DaemonKept(h)
  BY DEF LaunchInv
<1>2. Starts(h)' = Starts(h) /\ (StartKept(h) => StartKept(h)')
  BY DEF Starts, StartKept, Given, Said
<1>3. EndQueue(h) => EndQueue(h)'
  BY DEF EndQueue, SaysFinalize
<1>4. AtRest(h) => AtRest(h)'
  BY <1>3 DEF AtRest, Reaps, Starting
<1> QED BY <1>1, <1>2, <1>4 DEF DaemonKept

\* bind finds the port free
LEMMA BindKeeps == ASSUME LaunchInv, NEW r \in Rank, Bind(r) PROVE LaunchInv'
<1>u. /\ UNCHANGED <<srun, turn, pTable, totalNp, finalized>>
      /\ UNCHANGED <<spd, spdPort, spdQueue, listProcess, numberProcess>>
      /\ UNCHANGED <<sPort, table, first, finalize, receiver, threadRunning, mutex, sender, joined>>
      /\ UNCHANGED <<entered, inside>>
  BY DEF Bind, launchVars, daemonVars, OtherThreads, senderVars, barrierVars
<1>v. LaunchTypes /\ SrunTypes /\ DaemonTypes /\ ProcessTypes /\ SenderTypes
  BY DEF LaunchInv, LaunchTypes
<1>i. \A q \in Rank : PortKept(q) /\ TableKept(q) /\ EndKept(q)
  BY DEF LaunchInv
<1>1. main[r] = "unbound"
  BY DEF Bind, GoTo
<1>2. HasPort(r) /\ sPort[r] \in Port /\ listProcess[HostOf[r]][sPort[r]] = r
  BY <1>1, <1>i DEF PortKept
<1>3. IsFree(HostOf[r], sPort[r])
  <2>1. ASSUME NEW q \in At(HostOf[r], sPort[r]) PROVE FALSE
    <3>1. /\ q \in Rank /\ HostOf[q] = HostOf[r] /\ sPort[q] = sPort[r] /\ Listening(q)
      BY DEF At
    <3>2. At(HostOf[q], sPort[q]) = {q} /\ main[q] # "gone"
      BY <3>1, <1>i, <1>2, OneAtPort DEF Listening
    <3>3. listProcess[HostOf[q]][sPort[q]] = q
      BY <3>1, <3>2, <1>i, <1>2, Launched DEF PortKept
    <3> QED BY <3>1, <3>3, <1>1, <1>2 DEF Listening
  <2>2. sPort[r] \notin Busy[HostOf[r]]
    BY <1>2, Launched DEF LaunchInv, DaemonKept
  <2> QED BY <2>1, <2>2 DEF IsFree
<1>4. main' = [main EXCEPT ![r] = "listening"]
  BY <1>3 DEF Bind, GoTo
<1>5. \A q \in Rank : main'[q] = IF q = r THEN "listening" ELSE main[q]
  BY <1>4, <1>v DEF ProcessTypes
<1>6. SrunTypes' /\ SenderTypes' /\ DaemonTypes' /\ ProcessTypes'
  BY <1>u, <1>v, <1>4 DEF SrunTypes, SenderTypes, DaemonTypes, ProcessTypes
<1>7. ASSUME NEW q \in Rank PROVE (PortKept(q) /\ TableKept(q) /\ EndKept(q))'
  <2>1. PortKept(q)'
    BY <1>u, <1>1, <1>2, <1>5, <1>i DEF PortKept, HasPort, Starting, Past
  <2>2. TableKept(q)'
    BY <1>u, <1>1, <1>5, <1>i DEF TableKept, HasTable, Past
  <2>3. EndKept(q)'
    BY <1>u, <1>1, <1>5, <1>i DEF EndKept, Past, Finishing
  <2> QED BY <2>1, <2>2, <2>3
<1>8. \A h \in Host : DaemonKept(h)'
  BY <1>1, <1>4, <1>u, DaemonsKept
<1> QED BY <1>6, <1>7, <1>8 DEF LaunchInv, LaunchTypes

\* The first connection is the table
LEMMA AcceptTableKeeps == ASSUME LaunchInv, NEW r \in Rank, AcceptTable(r) PROVE LaunchInv'
<1>u. /\ UNCHANGED <<srun, turn, pTable, totalNp, finalized>>
      /\ UNCHANGED <<spd, spdPort, spdQueue, listProcess, numberProcess>>
      /\ UNCHANGED <<sPort, table, first, finalize, threadRunning, mutex, sender, joined>>
      /\ UNCHANGED <<entered, inside>>
  BY DEF AcceptTable, launchVars, daemonVars, senderVars, barrierVars
<1>v. LaunchTypes /\ SrunTypes /\ DaemonTypes /\ ProcessTypes /\ SenderTypes
  BY DEF LaunchInv, LaunchTypes
<1>i. \A q \in Rank : PortKept(q) /\ TableKept(q) /\ EndKept(q)
  BY DEF LaunchInv
<1>1. /\ main[r] = "listening" /\ first[r] # "none"
      /\ receiver' = [receiver EXCEPT ![r] = "accept"]
  BY DEF AcceptTable, GoTo
<1>2. HasTable(r) /\ first[r] = "table"
  BY <1>1, <1>i DEF TableKept
<1>4. main' = [main EXCEPT ![r] = "running"]
  BY <1>2 DEF AcceptTable, GoTo
<1>5. \A q \in Rank : /\ main'[q] = IF q = r THEN "running" ELSE main[q]
                      /\ receiver'[q] = IF q = r THEN "accept" ELSE receiver[q]
  BY <1>1, <1>4, <1>v DEF ProcessTypes
<1>6. SrunTypes' /\ SenderTypes' /\ DaemonTypes' /\ ProcessTypes'
  BY <1>u, <1>v, <1>1, <1>4 DEF SrunTypes, SenderTypes, DaemonTypes, ProcessTypes, Past
<1>7. ASSUME NEW q \in Rank PROVE (PortKept(q) /\ TableKept(q) /\ EndKept(q))'
  <2>1. PortKept(q)'
    BY <1>u, <1>1, <1>2, <1>5, <1>i DEF PortKept, HasPort, Starting, Past
  <2>2. TableKept(q)'
    BY <1>u, <1>1, <1>2, <1>5, <1>i DEF TableKept, HasTable, Past
  <2>3. EndKept(q)'
    <3>1. EndKept(q)
      BY <1>i
    <3>2. CASE q = r
      <4>1. ~ finalize[r] /\ entered[r] <= Rounds
        BY <3>1, <3>2, <1>1 DEF EndKept, Past, Finishing
      <4>2. main'[q] = "running" /\ receiver'[q] = "accept"
        BY <3>2, <1>5
      <4>3. "running" \in Past /\ "running" \notin Finishing
        BY DEF Past, Finishing
      <4> QED BY <4>1, <4>2, <4>3, <3>2, <1>u DEF EndKept
    <3>3. CASE q # r
      BY <3>1, <3>3, <1>u, <1>5 DEF EndKept
    <3> QED BY <3>2, <3>3
  <2> QED BY <2>1, <2>2, <2>3
<1>8. \A h \in Host : DaemonKept(h)'
  BY <1>1, <1>4, <1>5, <1>u, DaemonsKept
<1> QED BY <1>6, <1>7, <1>8 DEF LaunchInv, LaunchTypes

\* Who may run and has not been through the last barrier finds rank 0 there
LEMMA RootIsThere ==
    ASSUME BarrierInv, LaunchInv, NEW r \in Rank, main[r] = "running", r \in Others, MayEnter(r)
    PROVE  /\ At(HostOf[0], table[r][0]) = {0} /\ first[0] = "table"
<1>i. \A q \in Rank : PortKept(q) /\ TableKept(q) /\ EndKept(q)
  BY DEF LaunchInv
<1>1. HasTable(r) /\ table[r] = pTable
  BY <1>i DEF TableKept, Past
<1>2. HasTable(0)
  <2>1. r \in Nat /\ 0 < r /\ turn \in Nat
    <3>1. turn \in 0..Size /\ Size \in Nat
      BY Launched DEF LaunchInv, LaunchTypes, SrunTypes
    <3>2. r \in 1..(Size - 1)
      BY DEF Others
    <3> QED BY <3>1, <3>2
  <2>2. r < turn => 0 < turn
    BY <2>1
  <2> QED BY <1>1, <2>2 DEF HasTable
<1>3. first[0] = "table" /\ main[0] \in {"listening"} \cup Past /\ HasPort(0)
  BY <1>2, <1>i, Ranks DEF TableKept, HasPort, HasTable, Starting
<1>4. sPort[0] \in Port /\ table[r][0] = sPort[0]
  BY <1>1, <1>3, <1>i, Ranks DEF PortKept
<1>5. main[0] \notin Finishing
  <2>1. ASSUME main[0] \in Finishing PROVE FALSE
    <3>1. entered[0] = Rounds /\ inside[0] = "out"
      BY <2>1, <1>i, Ranks DEF EndKept
    <3>2. entered[r] = Rounds
      BY <3>1, <1>i, Ranks, LastBarrier DEF EndKept
    <3> QED BY <3>2, Launched DEF MayEnter
  <2> QED BY <2>1
<1>6. Listening(0)
  BY <1>3, <1>5 DEF Listening, Past, Finishing
<1> QED BY <1>3, <1>4, <1>6, <1>i, Ranks, OneAtPort

\* Whoever calls a barrier reaches rank 0
LEMMA EnterBarrierKeeps ==
    ASSUME BarrierInv, LaunchInv, NEW r \in Rank, EnterBarrier(r) PROVE LaunchInv'
<1>u. /\ UNCHANGED <<srun, turn, pTable, totalNp, finalized>>
      /\ UNCHANGED <<spd, spdPort, spdQueue, listProcess, numberProcess>>
      /\ UNCHANGED <<sPort, table, finalize, receiver, threadRunning, mutex, sender, joined>>
  BY DEF EnterBarrier, launchVars, daemonVars, OtherThreads, senderVars
<1>v. LaunchTypes /\ SrunTypes /\ DaemonTypes /\ ProcessTypes /\ SenderTypes
  BY DEF LaunchInv, LaunchTypes
<1>i. \A q \in Rank : PortKept(q) /\ TableKept(q) /\ EndKept(q)
  BY DEF LaunchInv
<1>1. main[r] = "running" /\ r \in Others /\ MayEnter(r)
  BY DEF EnterBarrier, Connect
<1>2. At(HostOf[0], table[r][0]) = {0} /\ first[0] = "table"
  BY <1>1, RootIsThere
<1>3. Connect(r) /\ Call(0, "other") /\ main' = main
  BY <1>2 DEF EnterBarrier
<1>4. first' = first
  BY <1>2, <1>3, <1>v, Ranks DEF Call, ProcessTypes
<1>5. /\ \A q \in Rank : q # r => entered'[q] = entered[q] /\ inside'[q] = inside[q]
      /\ entered[r] \in Nat /\ entered[r] < Rounds /\ entered'[r] = entered[r] + 1
  BY <1>1, <1>3, Launched DEF Connect, MayEnter, BarrierInv, BarrierTypeOK
<1>6. SrunTypes' /\ SenderTypes' /\ DaemonTypes' /\ ProcessTypes'
  BY <1>u, <1>v, <1>3, <1>4 DEF SrunTypes, SenderTypes, DaemonTypes, ProcessTypes
<1>7. ASSUME NEW q \in Rank PROVE (PortKept(q) /\ TableKept(q) /\ EndKept(q))'
  <2>1. PortKept(q)' /\ TableKept(q)'
    BY <1>u, <1>3, <1>4, <1>i DEF PortKept, TableKept, HasPort, HasTable, Starting
  <2>2. CASE q = r
    <3>1. entered[q] + 1 <= Rounds
      BY <2>2, <1>5, Launched
    <3> QED BY <3>1, <2>1, <2>2, <1>u, <1>1, <1>3, <1>5, <1>i DEF EndKept, Past, Finishing
  <2>3. CASE q # r
    BY <2>1, <2>3, <1>u, <1>3, <1>5, <1>i DEF EndKept
  <2> QED BY <2>1, <2>2, <2>3
<1>8. ASSUME NEW h \in Host PROVE DaemonKept(h)'
  BY <1>u, <1>3, DaemonsQuiet
<1> QED BY <1>6, <1>7, <1>8 DEF LaunchInv, LaunchTypes

\* Steps of the barriers that are not the first
LEMMA BarrierLeavesTheRest ==
    ASSUME BarrierInv, LaunchInv, UNCHANGED <<launchVars, daemonVars, processVars>>,
           \/ \E r \in Rank : main[r] = "running" /\ (IF r = 0 THEN Collect \/ RootStep ELSE Leave(r))
           \/ \E r \in Others : AcceptBarrier(r)
    PROVE  LaunchInv'
<1>u. /\ UNCHANGED <<srun, turn, pTable, totalNp, finalized, main, first>>
      /\ UNCHANGED <<spd, spdPort, spdQueue, listProcess, numberProcess>>
      /\ UNCHANGED <<sPort, table, finalize, receiver, threadRunning, mutex, sender, joined>>
  BY DEF launchVars, daemonVars, processVars, OtherThreads, senderVars
<1>v. LaunchTypes /\ SrunTypes /\ DaemonTypes /\ ProcessTypes /\ SenderTypes
  BY DEF LaunchInv, LaunchTypes
<1>i. \A q \in Rank : PortKept(q) /\ TableKept(q) /\ EndKept(q)
  BY DEF LaunchInv
<1>5. ASSUME NEW q \in Rank
      PROVE  \/ entered'[q] = entered[q] /\ inside'[q] = inside[q]
             \/ /\ main[q] = "running"
                /\ \/ entered'[q] = entered[q]
                   \/ /\ entered[q] \in Nat /\ entered[q] < Rounds /\ entered'[q] = entered[q] + 1
  <2> USE DEF BarrierInv, BarrierTypeOK
  <2>1. ASSUME NEW r \in Others, AcceptBarrier(r)
        PROVE  entered'[q] = entered[q] /\ inside'[q] = inside[q]
    BY <2>1 DEF AcceptBarrier
  <2>2. ASSUME NEW r \in Rank, Leave(r), main[r] = "running"
        PROVE  entered'[q] = entered[q] /\ (inside'[q] = inside[q] \/ main[q] = "running")
    BY <2>2 DEF Leave
  <2>3. ASSUME main[0] = "running", Collect
        PROVE  \/ entered'[q] = entered[q] /\ inside'[q] = inside[q]
               \/ /\ main[q] = "running" /\ entered[q] \in Nat /\ entered[q] < Rounds
                  /\ entered'[q] = entered[q] + 1
    BY <2>3, Ranks DEF Collect, MayEnter
  <2>4. ASSUME main[0] = "running", RootStep
        PROVE  entered'[q] = entered[q] /\ (inside'[q] = inside[q] \/ main[q] = "running")
    BY <2>4, Ranks DEF RootStep, TakeEnvelope, StartAnswers, Answer, LeaveRoot
  <2> QED BY <2>1, <2>2, <2>3, <2>4
<1>6. SrunTypes' /\ SenderTypes' /\ DaemonTypes' /\ ProcessTypes'
  BY <1>u, <1>v DEF SrunTypes, SenderTypes, DaemonTypes, ProcessTypes
<1>7. ASSUME NEW q \in Rank PROVE (PortKept(q) /\ TableKept(q) /\ EndKept(q))'
  <2>1. PortKept(q)' /\ TableKept(q)'
    BY <1>u, <1>i DEF PortKept, TableKept, HasPort, HasTable, Starting
  <2>2. entered'[q] <= Rounds
    <3>1. entered[q] \in Nat /\ Rounds \in Nat /\ entered[q] <= Rounds
      BY <1>i, Launched DEF EndKept, BarrierInv, BarrierTypeOK
    <3> QED BY <3>1, <1>5
  <2>3. EndKept(q)'
    <3>1. CASE main[q] = "running"
      BY <3>1, <2>2, <1>u, <1>i DEF EndKept, Past, Finishing
    <3>2. CASE main[q] # "running"
      BY <3>2, <2>2, <1>5, <1>u, <1>i DEF EndKept
    <3> QED BY <3>1, <3>2
  <2> QED BY <2>1, <2>3
<1>8. ASSUME NEW h \in Host PROVE DaemonKept(h)'
  BY <1>u, DaemonsQuiet
<1> QED BY <1>6, <1>7, <1>8 DEF LaunchInv, LaunchTypes

\* FINALIZE to the daemon
LEMMA SayFinalizeKeeps == ASSUME LaunchInv, NEW r \in Rank, SayFinalize(r) PROVE LaunchInv'
<1>u. /\ UNCHANGED <<srun, turn, pTable, totalNp, finalized, spd, spdPort, listProcess, numberProcess>>
      /\ UNCHANGED <<sPort, table, first, finalize, receiver, threadRunning, mutex, sender, joined>>
      /\ UNCHANGED <<entered, inside>>
  BY DEF SayFinalize, launchVars, OtherThreads, senderVars, barrierVars
<1>v. LaunchTypes /\ SrunTypes /\ DaemonTypes /\ ProcessTypes /\ SenderTypes
  BY DEF LaunchInv, LaunchTypes
<1>i. \A q \in Rank : PortKept(q) /\ TableKept(q) /\ EndKept(q)
  BY DEF LaunchInv
<1>1. /\ main[r] = "running" /\ main' = [main EXCEPT ![r] = "joining"]
      /\ entered[r] = Rounds /\ inside[r] = "out"
      /\ spdQueue' = [spdQueue EXCEPT ![HostOf[r]] = Append(@, [kind |-> "FINALIZE", rank |-> r])]
  BY DEF SayFinalize, GoTo
<1>2. HasTable(r) /\ ~ Starting /\ \A h \in Host : ~ Starts(h) /\ ~ Starts(h)'
  BY <1>u, <1>1, <1>i DEF TableKept, HasTable, Past, Starting, Starts
<1> DEFINE m == [kind |-> "FINALIZE", rank |-> r]
<1>3. /\ spdQueue' \in [Host -> Seq(Records)]
      /\ spdQueue'[HostOf[r]] = Append(spdQueue[HostOf[r]], m)
      /\ \A g \in Host \ {HostOf[r]} : spdQueue'[g] = spdQueue[g]
  BY <1>1, <1>v, AddRecord, Launched
<1>m. m.kind = "FINALIZE" /\ m.rank = r /\ m \in Records
  BY DEF Records
<1> HIDE DEF m
<1>4. SrunTypes' /\ SenderTypes' /\ ProcessTypes'
  BY <1>u, <1>v, <1>1 DEF SrunTypes, SenderTypes, ProcessTypes, Past
<1>5. DaemonTypes'
  <2>1. spdQueue' \in [Host -> Seq([kind : {"STARTUP", "GETPORT", "FINALIZE"}, rank : Rank])]
    BY <1>3 DEF Records
  <2> QED BY <2>1, <1>u, <1>v DEF DaemonTypes
<1>6. \A q \in Rank : main'[q] = IF q = r THEN "joining" ELSE main[q]
  BY <1>1, <1>v DEF ProcessTypes
<1>7. ASSUME NEW q \in Rank PROVE (PortKept(q) /\ TableKept(q) /\ EndKept(q))'
  <2>1. CASE q = r
    BY <2>1, <1>u, <1>1, <1>2, <1>6, <1>i
       DEF PortKept, TableKept, EndKept, HasPort, HasTable, Starting, Past, Finishing
  <2>2. CASE q # r
    BY <2>2, <1>u, <1>6, <1>i DEF PortKept, TableKept, EndKept, HasPort, HasTable, Starting
  <2> QED BY <2>1, <2>2
<1>8. ~ finalize[r] /\ receiver[r] # "ended"
  BY <1>1, <1>i DEF EndKept, Finishing
<1>9. ASSUME NEW h \in Host PROVE DaemonKept(h)'
  <2>1. AtRest(h) /\ EndQueue(h) /\ (\A p \in Busy[h] : listProcess[h][p] = Size)
    BY <1>2 DEF LaunchInv, DaemonKept, AtRest
  <2> DEFINE Joins(n) == /\ n.kind = "FINALIZE" /\ HostOf[n.rank] = h
                         /\ main'[n.rank] = "joining" /\ ~ finalize'[n.rank]
                         /\ receiver'[n.rank] # "ended"
  <2>2. ASSUME NEW i \in 1..Len(spdQueue[h])
        PROVE  Joins(spdQueue[h][i]) /\ spdQueue[h][i].rank # r
    <3>1. SaysFinalize(h, spdQueue[h][i]) /\ spdQueue[h][i].rank \in Rank
      BY <2>1, <1>v, RecordOf DEF EndQueue
    <3>2. spdQueue[h][i].rank # r
      BY <3>1, <1>1 DEF SaysFinalize
    <3> QED BY <3>1, <3>2, <1>6, <1>u DEF SaysFinalize
  <2>3. EndQueue(h)'
    <3>1. CASE h # HostOf[r]
      BY <3>1, <2>1, <2>2, <1>3 DEF EndQueue, SaysFinalize
    <3>2. CASE h = HostOf[r]
      <4> DEFINE s == spdQueue[h]
      <4>1. s \in Seq(Records) /\ spdQueue'[h] = Append(s, m)
        BY <3>2, <1>3, <1>v DEF DaemonTypes, Records
      <4>2. Joins(m)
        BY <3>2, <1>m, <1>6, <1>8, <1>u
      <4>3. /\ Len(spdQueue'[h]) = Len(s) + 1 /\ Len(s) \in Nat
            /\ \A i \in 1..Len(s) : spdQueue'[h][i] = s[i]
            /\ spdQueue'[h][Len(s) + 1] = m
        BY <4>1, <1>m
      <4>4. \A i \in 1..Len(spdQueue'[h]) : i \in 1..Len(s) \/ i = Len(s) + 1
        BY <4>3
      <4>5. ASSUME NEW i \in 1..Len(spdQueue'[h]) PROVE SaysFinalize(h, spdQueue[h][i])'
        <5>1. CASE i \in 1..Len(s)
          BY <5>1, <4>3, <2>2 DEF SaysFinalize
        <5>2. CASE i = Len(s) + 1
          BY <5>2, <4>2, <4>3 DEF SaysFinalize
        <5> QED BY <5>1, <5>2, <4>4
      <4>6. ASSUME NEW i \in 1..Len(spdQueue'[h]), NEW k \in 1..Len(spdQueue'[h]),
                   spdQueue'[h][i].rank = spdQueue'[h][k].rank
            PROVE  i = k
        <5>1. CASE i \in 1..Len(s) /\ k \in 1..Len(s)
          BY <5>1, <4>3, <4>6, <2>1 DEF EndQueue
        <5>2. CASE i \in 1..Len(s) /\ k = Len(s) + 1
          BY <5>2, <4>3, <4>6, <2>2, <1>m
        <5>3. CASE k \in 1..Len(s) /\ i = Len(s) + 1
          BY <5>3, <4>3, <4>6, <2>2, <1>m
        <5> QED BY <5>1, <5>2, <5>3, <4>4
      <4> QED BY <4>5, <4>6 DEF EndQueue
    <3> QED BY <3>1, <3>2
  <2> QED BY <2>1, <2>3, <1>2, <1>u DEF DaemonKept, AtRest, Reaps, Starting
<1> QED BY <1>4, <1>5, <1>7, <1>9 DEF LaunchInv, LaunchTypes

\* The senders of one process change
LEMMA SenderChanged ==
    ASSUME SenderTypes, NEW r \in Rank, NEW n \in SendNumThreads, sender[r] \in SendersOf(n),
           NEW s \in SendersOf(n), sender' = [sender EXCEPT ![r] = s], UNCHANGED <<mutex, joined>>
    PROVE  SenderTypes'
<1>1. sender \in [Rank -> UNION {SendersOf(m) : m \in SendNumThreads}]
  BY DEF SenderTypes
<1>2. /\ sender' \in [Rank -> UNION {SendersOf(m) : m \in SendNumThreads}]
      /\ sender'[r] = s /\ \A q \in Rank \ {r} : sender'[q] = sender[q]
  BY <1>1
<1>3. ASSUME NEW q \in Rank, NEW m \in SendNumThreads, sender[q] \in SendersOf(m)
      PROVE  sender'[q] \in SendersOf(m)
  <2>1. CASE q = r
    <3>1. 0..(m - 1) = 0..(n - 1)
      BY <1>3, <2>1 DEF SendersOf
    <3>2. SendersOf(m) = SendersOf(n)
      BY <3>1 DEF SendersOf
    <3> QED BY <2>1, <3>2, <1>2
  <2>2. CASE q # r
    BY <2>2, <1>2, <1>3
  <2> QED BY <2>1, <2>2
<1> QED BY <1>2, <1>3 DEF SenderTypes

\* Steps of the end: what the main thread does when its receiver has ended
LEMMA EndsKept ==
    ASSUME LaunchInv, NEW r \in Rank, NEW there \in {"destroying", "joining sender", "gone"},
           \/ main[r] \in {"destroying", "joining sender"}
           \/ main[r] = "joining" /\ receiver[r] = "ended",
           main' = [main EXCEPT ![r] = there],
           UNCHANGED <<srun, turn, pTable, totalNp, finalized>>,
           UNCHANGED <<spd, spdPort, spdQueue, listProcess, numberProcess>>,
           UNCHANGED <<sPort, table, first, finalize, receiver, threadRunning, entered, inside>>
    PROVE  /\ SrunTypes' /\ DaemonTypes' /\ ProcessTypes'
           /\ \A q \in Rank : (PortKept(q) /\ TableKept(q) /\ EndKept(q))'
           /\ \A h \in Host : DaemonKept(h)'
<1>v. LaunchTypes /\ SrunTypes /\ DaemonTypes /\ ProcessTypes
  BY DEF LaunchInv, LaunchTypes
<1>i. \A q \in Rank : PortKept(q) /\ TableKept(q) /\ EndKept(q)
  BY DEF LaunchInv
<1>f. main[r] \in Finishing /\ there \in Finishing
  BY DEF Finishing, Past
<1>p. \A s \in Finishing : s \in Past
  BY DEF Finishing
<1>1. SrunTypes' /\ DaemonTypes' /\ ProcessTypes'
  BY <1>v, <1>f, <1>p DEF SrunTypes, DaemonTypes, ProcessTypes
<1>2. \A q \in Rank : main'[q] = IF q = r THEN there ELSE main[q]
  BY <1>v DEF ProcessTypes
<1>3. ASSUME NEW q \in Rank PROVE (PortKept(q) /\ TableKept(q) /\ EndKept(q))'
  <2>1. HasPort(q)' = HasPort(q) /\ HasTable(q)' = HasTable(q)
    BY DEF HasPort, HasTable, Starting
  <2>2. CASE q # r
    BY <2>1, <2>2, <1>2, <1>i DEF PortKept, TableKept, EndKept
  <2>3. CASE q = r
    <3>1. main'[q] \in Finishing /\ main'[q] \in Past /\ main[q] \in Finishing /\ main[q] \in Past
      BY <1>2, <1>f, <1>p, <2>3
    <3>2. main[q] \notin {"absent", "born", "await port", "gone"}
      BY <2>3
    <3>3. PortKept(q)'
      BY <2>1, <3>1, <3>2, <1>i DEF PortKept
    <3>4. TableKept(q)'
      BY <2>1, <3>1, <1>i DEF TableKept
    <3>5. EndKept(q)'
      BY <3>1, <1>i DEF EndKept
    <3> QED BY <3>3, <3>4, <3>5
  <2> QED BY <2>2, <2>3
<1>4. ASSUME NEW h \in Host PROVE DaemonKept(h)'
  <2>1. CASE main[r] # "joining"
    BY <2>1, DaemonsKept
  <2>2. CASE main[r] = "joining"
    <3>1. receiver[r] = "ended" /\ DaemonKept(h)
      BY <2>2 DEF LaunchInv
    <3>2. CASE Starts(h)
      <4>1. main[turn] # "joining" /\ turn \in Rank
        BY <3>1, <3>2, <1>v, TurnIsARank DEF DaemonKept, StartKept, Starts, SrunTypes
      <4>2. main'[turn] = main[turn]
        BY <4>1, <2>2, <1>2
      <4> QED BY <3>1, <3>2, <4>2 DEF DaemonKept, Starts, StartKept, Given, Said
    <3>3. CASE ~ Starts(h)
      <4>1. AtRest(h) /\ ~ Starts(h)'
        BY <3>1, <3>3 DEF DaemonKept, Starts
      <4>2. ASSUME NEW i \in 1..Len(spdQueue[h]) PROVE SaysFinalize(h, spdQueue[h][i])'
        <5>1. SaysFinalize(h, spdQueue[h][i]) /\ spdQueue[h][i].rank \in Rank
          BY <4>1, <1>v, RecordOf DEF AtRest, EndQueue
        <5>2. spdQueue[h][i].rank # r
          BY <5>1, <3>1 DEF SaysFinalize
        <5> QED BY <5>1, <5>2, <1>2 DEF SaysFinalize
      <4>3. EndQueue(h)'
        BY <4>1, <4>2 DEF AtRest, EndQueue
      <4> QED BY <3>1, <4>1, <4>3 DEF DaemonKept, AtRest, Reaps, Starting
    <3> QED BY <3>2, <3>3
  <2> QED BY <2>1, <2>2
<1> QED BY <1>1, <1>3, <1>4

\* The receiver and the senders are joined in turn, and the process is gone
LEMMA EndingKeeps ==
    ASSUME LaunchInv, NEW r \in Rank,
           JoinReceiver(r) \/ SignalSender(r) \/ JoinSender(r) \/ Exit(r)
    PROVE  LaunchInv'
<1>v. SenderTypes
  BY DEF LaunchInv, LaunchTypes
<1> USE DEF GoTo, launchVars, daemonVars, OtherThreads, senderVars, barrierVars
<1>1. CASE JoinReceiver(r)
  <2>1. SenderTypes'
    BY <1>1, <1>v DEF JoinReceiver, SenderTypes
  <2> QED BY <1>1, <2>1, EndsKept DEF JoinReceiver, LaunchInv, LaunchTypes
<1>2. CASE SignalSender(r)
  <2>1. SenderTypes'
    <3>1. PICK s \in {"test", "asleep"} :
            sender' = [sender EXCEPT ![r] = [sender[r] EXCEPT ![joined[r]] = IF @ = "loop" THEN s ELSE @]]
      BY <1>2 DEF SignalSender
    <3>2. UNCHANGED <<mutex, joined>> /\ joined[r] \in DOMAIN sender[r]
      BY <1>2 DEF SignalSender
    <3>3. PICK n \in SendNumThreads : sender[r] \in SendersOf(n)
      BY <1>v DEF SenderTypes
    <3>4. [sender[r] EXCEPT ![joined[r]] = IF @ = "loop" THEN s ELSE @] \in SendersOf(n)
      BY <3>2, <3>3 DEF SendersOf
    <3> QED BY <3>1, <3>2, <3>3, <3>4, <1>v, SenderChanged
  <2>2. /\ main[r] = "destroying" /\ main' = [main EXCEPT ![r] = "joining sender"]
        /\ UNCHANGED <<srun, turn, pTable, totalNp, finalized>>
        /\ UNCHANGED <<spd, spdPort, spdQueue, listProcess, numberProcess>>
        /\ UNCHANGED <<sPort, table, first, finalize, receiver, threadRunning, entered, inside>>
    BY <1>2 DEF SignalSender
  <2> QED BY <2>1, <2>2, EndsKept DEF LaunchInv, LaunchTypes
<1>3. CASE JoinSender(r)
  <2>1. SenderTypes'
    <3>1. /\ joined' = [joined EXCEPT ![r] = @ + 1] /\ UNCHANGED <<mutex, sender>>
          /\ joined[r] \in DOMAIN sender[r]
      BY <1>3 DEF JoinSender
    <3>2. joined \in [Rank -> Nat]
      BY <1>v DEF SenderTypes
    <3>3. ASSUME NEW q \in Rank, NEW n \in SendNumThreads, sender[q] \in SendersOf(n), joined[q] \in 0..n
          PROVE  joined'[q] \in 0..n
      <4>1. q = r => joined[q] \in 0..(n - 1)
        BY <3>1, <3>3 DEF SendersOf
      <4> QED BY <4>1, <3>1, <3>2, <3>3, ThreadsAssumption
    <3>4. joined' \in [Rank -> Nat]
      BY <3>1, <3>2
    <3> QED BY <3>1, <3>3, <3>4, <1>v DEF SenderTypes
  <2>2. /\ main[r] = "joining sender" /\ main' = [main EXCEPT ![r] = "destroying"]
        /\ UNCHANGED <<srun, turn, pTable, totalNp, finalized>>
        /\ UNCHANGED <<spd, spdPort, spdQueue, listProcess, numberProcess>>
        /\ UNCHANGED <<sPort, table, first, finalize, receiver, threadRunning, entered, inside>>
    BY <1>3 DEF JoinSender
  <2> QED BY <2>1, <2>2, EndsKept DEF LaunchInv, LaunchTypes
<1>4. CASE Exit(r)
  <2>1. SenderTypes'
    BY <1>4, <1>v DEF Exit, SenderTypes
  <2> QED BY <1>4, <2>1, EndsKept DEF Exit, LaunchInv, LaunchTypes
<1> QED BY <1>1, <1>2, <1>3, <1>4

\* The receiver hears FINALIZE
LEMMA ReceiveFinalizeKeeps ==
    ASSUME LaunchInv, NEW r \in Rank, ReceiveFinalize(r) PROVE LaunchInv'
<1>u. /\ UNCHANGED <<srun, turn, pTable, totalNp, finalized>>
      /\ UNCHANGED <<spd, spdPort, spdQueue, listProcess, numberProcess>>
      /\ UNCHANGED <<main, sPort, table, first, mutex, sender, joined>>
      /\ UNCHANGED <<entered, inside>>
  BY DEF ReceiveFinalize, launchVars, daemonVars, senderVars, barrierVars
<1>v. LaunchTypes /\ SrunTypes /\ DaemonTypes /\ ProcessTypes /\ SenderTypes
  BY DEF LaunchInv, LaunchTypes
<1>i. \A q \in Rank : PortKept(q) /\ TableKept(q) /\ EndKept(q)
  BY DEF LaunchInv
<1>1. /\ finalize[r] /\ finalize' = [finalize EXCEPT ![r] = FALSE]
      /\ threadRunning' = [threadRunning EXCEPT ![r] = FALSE]
      /\ receiver' = [receiver EXCEPT ![r] = "ended"]
  BY DEF ReceiveFinalize
<1>2. main[r] \in Finishing
  BY <1>1, <1>i DEF EndKept
<1>3. \A q \in Rank \ {r} : finalize'[q] = finalize[q] /\ receiver'[q] = receiver[q]
  BY <1>1, <1>v DEF ProcessTypes
<1>4. SrunTypes' /\ SenderTypes' /\ DaemonTypes' /\ ProcessTypes'
  BY <1>u, <1>v, <1>1 DEF SrunTypes, SenderTypes, DaemonTypes, ProcessTypes
<1>5. ASSUME NEW q \in Rank PROVE (PortKept(q) /\ TableKept(q) /\ EndKept(q))'
  <2>1. PortKept(q)' /\ TableKept(q)'
    BY <1>u, <1>i DEF PortKept, TableKept, HasPort, HasTable, Starting
  <2>2. EndKept(q)'
    <3>1. CASE q = r
      BY <3>1, <1>u, <1>2, <1>i DEF EndKept
    <3>2. CASE q # r
      BY <3>2, <1>u, <1>3, <1>i DEF EndKept
    <3> QED BY <3>1, <3>2
  <2> QED BY <2>1, <2>2
<1>6. ASSUME NEW h \in Host PROVE DaemonKept(h)'
  <2>1. DaemonKept(h)
    BY DEF LaunchInv
  <2>2. CASE Starts(h)
    BY <2>1, <2>2, <1>u DEF DaemonKept, Starts, StartKept, Given, Said
  <2>3. CASE ~ Starts(h)
    <3>1. AtRest(h) /\ ~ Starts(h)'
      BY <2>1, <2>3, <1>u DEF DaemonKept, Starts
    <3>2. ASSUME NEW i \in 1..Len(spdQueue[h]) PROVE SaysFinalize(h, spdQueue[h][i])'
      <4>1. SaysFinalize(h, spdQueue[h][i]) /\ spdQueue[h][i].rank \in Rank
        BY <3>1, <1>v, RecordOf DEF AtRest, EndQueue
      <4>2. spdQueue[h][i].rank # r
        BY <4>1, <1>1 DEF SaysFinalize
      <4> QED BY <4>1, <4>2, <1>3, <1>u DEF SaysFinalize
    <3>3. EndQueue(h)'
      BY <3>1, <3>2, <1>u DEF AtRest, EndQueue
    <3> QED BY <2>1, <3>1, <3>3, <1>u DEF DaemonKept, AtRest, Reaps, Starting
  <2> QED BY <2>2, <2>3
<1> QED BY <1>4, <1>5, <1>6 DEF LaunchInv, LaunchTypes

\* A sender thread ends with the mutex in its hands
LEMMA EndKeeps ==
    ASSUME LaunchInv, NEW r \in Rank, NEW k \in DOMAIN sender[r], End(r, k) PROVE LaunchInv'
<1>u. /\ UNCHANGED <<srun, turn, pTable, totalNp, finalized>>
      /\ UNCHANGED <<spd, spdPort, spdQueue, listProcess, numberProcess>>
      /\ UNCHANGED <<main, sPort, table, first, finalize, receiver, threadRunning, joined>>
      /\ UNCHANGED <<entered, inside>>
  BY DEF End, launchVars, daemonVars, barrierVars
<1>v. LaunchTypes /\ SrunTypes /\ DaemonTypes /\ ProcessTypes /\ SenderTypes
  BY DEF LaunchInv, LaunchTypes
<1>1. SenderTypes'
  <2>1. /\ sender' = [sender EXCEPT ![r][k] = "ended"] /\ mutex' = [mutex EXCEPT ![r] = k]
    BY DEF End
  <2>2. PICK n \in SendNumThreads :
          sender[r] \in SendersOf(n) /\ mutex[r] \in 0..(n - 1) \cup {Nobody} /\ joined[r] \in 0..n
    BY <1>v DEF SenderTypes
  <2>3. k \in 0..(n - 1) /\ k \in Nat
    BY <2>2, ThreadsAssumption DEF SendersOf
  <2>4. [sender[r] EXCEPT ![k] = "ended"] \in SendersOf(n)
    BY <2>2, <2>3 DEF SendersOf
  <2>5. sender \in [Rank -> UNION {SendersOf(m) : m \in SendNumThreads}] /\ mutex \in [Rank -> Nat \cup {Nobody}]
    BY <1>v DEF SenderTypes
  <2>6. /\ sender' \in [Rank -> UNION {SendersOf(m) : m \in SendNumThreads}]
        /\ sender'[r] \in SendersOf(n) /\ \A q \in Rank \ {r} : sender'[q] = sender[q]
    BY <2>1, <2>4, <2>5
  <2>7. /\ mutex' \in [Rank -> Nat \cup {Nobody}] /\ mutex'[r] = k
        /\ \A q \in Rank \ {r} : mutex'[q] = mutex[q]
    BY <2>1, <2>3, <2>5
  <2>8. ASSUME NEW q \in Rank
        PROVE  \E m \in SendNumThreads :
                 /\ sender'[q] \in SendersOf(m)
                 /\ mutex'[q] \in 0..(m - 1) \cup {Nobody} /\ joined'[q] \in 0..m
    <3>1. CASE q = r
      BY <3>1, <2>2, <2>3, <2>6, <2>7, <1>u
    <3>2. CASE q # r
      BY <3>2, <2>6, <2>7, <1>u, <1>v DEF SenderTypes
    <3> QED BY <3>1, <3>2
  <2> QED BY <2>6, <2>7, <2>8, <1>u, <1>v DEF SenderTypes
<1>2. SrunTypes' /\ DaemonTypes' /\ ProcessTypes'
  BY <1>u, <1>v DEF SrunTypes, DaemonTypes, ProcessTypes
<1>3. ASSUME NEW q \in Rank PROVE (PortKept(q) /\ TableKept(q) /\ EndKept(q))'
  BY <1>u DEF LaunchInv, PortKept, TableKept, EndKept, HasPort, HasTable, Starting
<1>4. \A h \in Host : DaemonKept(h)'
  BY <1>u, DaemonsQuiet
<1> QED BY <1>1, <1>2, <1>3, <1>4 DEF LaunchInv, LaunchTypes

-----------------------------------------------------------------------------
\* Each step of the whole keeps the invariant
LEMMA LaunchQuiet == ASSUME LaunchInv, UNCHANGED vars PROVE LaunchInv'
<1>u. /\ UNCHANGED <<srun, turn, pTable, totalNp, finalized>>
      /\ UNCHANGED <<spd, spdPort, spdQueue, listProcess, numberProcess>>
      /\ UNCHANGED <<main, sPort, table, first, finalize, receiver, threadRunning>>
      /\ UNCHANGED <<mutex, sender, joined, entered, inside>>
  BY DEF vars, launchVars, daemonVars, processVars, OtherThreads, senderVars, barrierVars
<1>1. LaunchTypes'
  BY <1>u DEF LaunchInv, LaunchTypes, SrunTypes, DaemonTypes, ProcessTypes, SenderTypes
<1>2. ASSUME NEW q \in Rank PROVE (PortKept(q) /\ TableKept(q) /\ EndKept(q))'
  BY <1>u DEF LaunchInv, PortKept, TableKept, EndKept, HasPort, HasTable, Starting
<1>3. \A h \in Host : DaemonKept(h)'
  BY <1>u, DaemonsQuiet
<1> QED BY <1>1, <1>2, <1>3 DEF LaunchInv

LEMMA LaunchStep == BarrierInv /\ LaunchInv /\ [Next]_vars => LaunchInv'
<1> SUFFICES ASSUME BarrierInv, LaunchInv, [Next]_vars PROVE LaunchInv'
  OBVIOUS
<1>1. CASE Srun
  BY <1>1, SrunKeeps
<1>2. ASSUME NEW h \in Host, Spd(h) PROVE LaunchInv'
  BY <1>2, AcceptStartupKeeps, AwaitGetPortKeeps, AcceptFinalizeKeeps, ReapKeeps DEF Spd
<1>3. ASSUME NEW r \in Rank, Process(r) PROVE LaunchInv'
  <2>1. CASE AskPort(r) \/ Bind(r) \/ AcceptTable(r)
    BY <2>1, AskPortKeeps, BindKeeps, AcceptTableKeeps
  <2>2. CASE EnterBarrier(r)
    BY <2>2, EnterBarrierKeeps
  <2>3. CASE BarrierStep(r)
    BY <2>3, BarrierLeavesTheRest DEF BarrierStep
  <2>4. CASE SayFinalize(r)
    BY <2>4, SayFinalizeKeeps
  <2>5. CASE JoinReceiver(r) \/ SignalSender(r) \/ JoinSender(r) \/ Exit(r)
    BY <2>5, EndingKeeps
  <2> QED BY <1>3, <2>1, <2>2, <2>3, <2>4, <2>5 DEF Process
<1>4. ASSUME NEW r \in Rank, Receiver(r) PROVE LaunchInv'
  <2>1. CASE ReceiveFinalize(r)
    BY <2>1, ReceiveFinalizeKeeps
  <2>2. CASE ReceiveBarrier
    BY <2>2, BarrierLeavesTheRest DEF ReceiveBarrier
  <2> QED BY <1>4, <2>1, <2>2 DEF Receiver
<1>5. ASSUME NEW r \in Rank, Sender(r) PROVE LaunchInv'
  BY <1>5, EndKeeps DEF Sender, SenderTest
<1>6. ASSUME NEW r \in Rank, NEW k \in DOMAIN sender[r], SenderComesRound(r, k) PROVE LaunchInv'
  BY <1>6, EndKeeps DEF SenderComesRound
<1>7. CASE UNCHANGED vars
  BY <1>7, LaunchQuiet
<1> QED BY <1>1, <1>2, <1>3, <1>4, <1>5, <1>6, <1>7 DEF Next

\* Both invariants always hold
LEMMA LaunchIsSafe == Spec => [](BarrierInv /\ LaunchInv)
<1>1. Init => BarrierInv /\ LaunchInv
  BY BarrierStart, LaunchStart DEF Init
<1>2. BarrierInv /\ LaunchInv /\ [Next]_vars => (BarrierInv /\ LaunchInv)'
  BY LauncherStep, BarrierStepKeeps, LaunchStep
<1> QED BY <1>1, <1>2, PTL DEF Spec

\* Types, for any number of processes, hosts and ports.
THEOREM LauncherTypes == Spec => []TypeOK
<1>1. BarrierInv /\ LaunchInv => TypeOK
  <2> SUFFICES ASSUME BarrierInv, LaunchInv PROVE TypeOK
    OBVIOUS
  <2>1. BarrierTypeOK
    BY DEF BarrierInv
  <2>2. SrunTypes /\ DaemonTypes /\ ProcessTypes /\ SenderTypes
    BY DEF LaunchInv, LaunchTypes
  <2>3. \A h \in Host, p \in Port : listProcess[h][p] \in Rank \cup {Nobody, Size}
    BY <2>2 DEF DaemonTypes
  <2>4. \A r \in Rank : \E n \in SendNumThreads :
          /\ sender[r] \in [0..(n - 1) -> {"loop", "test", "asleep", "ended"}]
          /\ mutex[r] \in DOMAIN sender[r] \cup {Nobody} /\ joined[r] \in 0..n
    <3> SUFFICES ASSUME NEW r \in Rank
                 PROVE  \E n \in SendNumThreads :
                          /\ sender[r] \in [0..(n - 1) -> {"loop", "test", "asleep", "ended"}]
                          /\ mutex[r] \in DOMAIN sender[r] \cup {Nobody} /\ joined[r] \in 0..n
      OBVIOUS
    <3>1. PICK n \in SendNumThreads :
            sender[r] \in SendersOf(n) /\ mutex[r] \in 0..(n - 1) \cup {Nobody} /\ joined[r] \in 0..n
      BY <2>2 DEF SenderTypes
    <3>2. DOMAIN sender[r] = 0..(n - 1)
      BY <3>1 DEF SendersOf
    <3> QED BY <3>1, <3>2 DEF SendersOf
  <2>5. /\ spd \in [Host -> {"accept", "await getport", "reap", "failed"}]
        /\ main \in [Rank -> {"absent", "born", "await port", "unbound", "listening", "running",
                          "joining", "destroying", "joining sender", "gone", "failed"}]
    BY <2>2 DEF DaemonTypes, ProcessTypes, Past
  <2> QED BY <2>1, <2>2, <2>3, <2>4, <2>5 DEF TypeOK, SrunTypes, DaemonTypes, ProcessTypes
<1> QED BY <1>1, LaunchIsSafe, PTL

\* No daemon and no process exits in error: no two processes of a host get one
\* port, the daemon is only called by the process it waits for, the table is the
\* first connection, and rank 0 is there as long as anybody may call it.
THEOREM NobodyEverFails == Spec => []NobodyFails
<1>1. LaunchInv => NobodyFails
  <2> SUFFICES ASSUME LaunchInv PROVE NobodyFails
    OBVIOUS
  <2>1. DaemonTypes /\ ProcessTypes
    BY DEF LaunchInv, LaunchTypes
  <2>2. \A h \in Host : spd[h] # "failed"
    BY <2>1 DEF DaemonTypes
  <2>3. \A r \in Rank : main[r] # "failed"
    BY <2>1 DEF ProcessTypes, Past
  <2> QED BY <2>2, <2>3 DEF NobodyFails
<1> QED BY <1>1, LaunchIsSafe, PTL

\* Between the first barrier and the last, the address a process has of another
\* is where that very process listens.
THEOREM RoutesStayRight == Spec => []RoutesAreRight
<1>1. BarrierInv /\ LaunchInv => RoutesAreRight
  <2> SUFFICES ASSUME BarrierInv, LaunchInv,
                      NEW r \in Rank, NEW q \in Rank, left[r] >= 1, entered[r] < Rounds
               PROVE  At(HostOf[q], table[r][q]) = {q}
    BY DEF RoutesAreRight
  <2>1. \A p \in Rank : PortKept(p) /\ TableKept(p) /\ EndKept(p)
    BY DEF LaunchInv
  <2>2. \A p \in Rank : entered[p] >= 1
    <3>1. \A p \in Rank : left[r] <= entered[p] /\ left[r] \in Nat /\ entered[p] \in Nat
      BY BarrierInvIsEnough DEF NobodyIsAhead, BarrierInv, BarrierTypeOK
    <3> QED BY <3>1
  <2>3. \A p \in Rank : main[p] \in Past
    <3> SUFFICES ASSUME NEW p \in Rank PROVE main[p] \in Past
      OBVIOUS
    <3>1. entered[p] \in Nat /\ entered[p] >= 1
      BY <2>2 DEF BarrierInv, BarrierTypeOK
    <3>2. entered[p] > 0
      BY <3>1
    <3> QED BY <3>2, <2>1 DEF EndKept
  <2>4. main[q] = "running"
    <3>1. ASSUME main[q] \in Finishing PROVE FALSE
      <4>1. entered[q] = Rounds /\ inside[q] = "out"
        BY <3>1, <2>1 DEF EndKept
      <4>2. entered[r] = Rounds
        BY <4>1, <2>1, LastBarrier DEF EndKept
      <4> QED BY <4>2, Launched
    <3> QED BY <3>1, <2>3 DEF Finishing
  <2>5. HasTable(r) /\ table[r] = pTable /\ HasTable(q)
    BY <2>1, <2>3 DEF TableKept
  <2>6. HasPort(q) /\ sPort[q] \in Port /\ table[r][q] = sPort[q]
    <3>1. HasPort(q)
      BY <2>5 DEF HasTable, HasPort, Starting
    <3> QED BY <3>1, <2>1, <2>5 DEF PortKept
  <2>7. Listening(q)
    BY <2>4 DEF Listening
  <2> QED BY <2>1, <2>6, <2>7, OneAtPort
<1> QED BY <1>1, LaunchIsSafe, PTL

\* No receiver thread ends in front of a barrier, and rank 0's leaves no
\* connection unanswered.
THEOREM NothingEverLeftBehind == Spec => []NothingLeftBehind
<1>1. BarrierInv /\ LaunchInv => NothingLeftBehind
  <2> SUFFICES ASSUME BarrierInv, LaunchInv, NEW r \in Rank, receiver[r] = "ended"
               PROVE  /\ \A q \in Rank : entered[q] = Rounds
                      /\ r = 0 => connected = {} /\ arrived = {}
    BY DEF NothingLeftBehind
  <2>1. \A q \in Rank : EndKept(q)
    BY DEF LaunchInv
  <2>2. entered[r] = Rounds /\ inside[r] = "out"
    BY <2>1 DEF EndKept
  <2> QED BY <2>1, <2>2, LastBarrier DEF EndKept
<1> QED BY <1>1, LaunchIsSafe, PTL
=============================================================================
