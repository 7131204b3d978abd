------------------------- MODULE Termination_proofs -------------------------
(***************************************************************************)
(* Proofs about the shutdown, for any number of processors and any tasks   *)
(* of the application.  The termination tasks implement the two phases of  *)
(* Shutdown: nobody is told to leave while a processor has not stopped     *)
(* sending.  Root leaves when every shutdown task is out.  What was sent   *)
(* in time is executed or deleted by then.                                 *)
(***************************************************************************)
EXTENDS Termination, FiniteSetTheorems, SequenceTheorems, TLAPS

\* The inductive invariant follows the chain of termination tasks.  A stop task
\* that has executed has set the flag of its processor; a confirmation exists
\* for nobody else; the set is complete when a task has found it to be; and
\* only that task sends shutdown tasks.
FlagTypes == /\ stopSending \in [Proc -> BOOLEAN]
             /\ keepGoing \in [Proc -> BOOLEAN]
             /\ stage \in [Task -> Stage]
             /\ inbox \in [Proc -> Seq(Task)]
             /\ receiving \in [Proc -> User \cup {NoTask}]
             /\ confirmed \subseteq Proc
             /\ last \in TerminationTask \cup {NoTask}
Exists(t) == stage[t] # "new"
InboxExists == \A p \in Proc : \A i \in DOMAIN inbox[p] : Exists(inbox[p][i])
StopsSet == \A p \in Proc : stage[Stop(p)] \in {"executing", "finished"} => stopSending[p]
ConfirmsStand == \A p \in Proc : Exists(Confirm(p)) \/ p \in confirmed => stopSending[p]
LastFoundAll == last # NoTask => confirmed = Proc
ShutsFromLast == \A p \in Proc : Exists(Shut(p)) => last # NoTask
Chain == /\ FlagTypes /\ InboxExists /\ StopsSet /\ ConfirmsStand
         /\ LastFoundAll /\ ShutsFromLast

\* The termination tasks are tasks, and no two are the same.
LEMMA TerminationTasks ==
    ASSUME NEW p \in Proc
    PROVE  /\ {Stop(p), Confirm(p), Shut(p)} \subseteq TerminationTask
           /\ TerminationTask \subseteq Task
           /\ Stop(p) \notin User /\ Confirm(p) \notin User /\ Shut(p) \notin User
           /\ \A q \in Proc : /\ Stop(p) \notin {Confirm(q), Shut(q)}
                              /\ Confirm(p) # Shut(q)
                              /\ Stop(p) = Stop(q) => p = q
                              /\ Confirm(p) = Confirm(q) => p = q
                              /\ Shut(p) = Shut(q) => p = q
  BY TaskAssumption DEF Stop, Confirm, Shut, TerminationTask, Task

\* A step that gives one task t another stage than "new", moves no task but t
\* into a queue and sets no flag keeps the chain, if t may be where it puts it.
LEMMA MoveKeepsChain ==
    ASSUME Chain,
           NEW t \in Task, NEW s \in Stage \ {"new"}, ToStage(t, s),
           s \in {"executing", "finished"} =>
               t \in User \/ stage[t] = "executing",
           \A p \in Proc : t = Confirm(p) => stopSending[p],
           \A p \in Proc : t = Shut(p) => last # NoTask,
           inbox' \in [Proc -> Seq(Task)],
           \A p \in Proc : \A i \in DOMAIN inbox'[p] :
               inbox'[p][i] = t \/ \E j \in DOMAIN inbox[p] : inbox'[p][i] = inbox[p][j],
           receiving' \in [Proc -> User \cup {NoTask}],
           UNCHANGED <<stopSending, keepGoing, confirmed, last>>
    PROVE  Chain'
<1>1. /\ stage' \in [Task -> Stage]
      /\ stage'[t] = s /\ \A u \in Task \ {t} : stage'[u] = stage[u]
  BY DEF Chain, FlagTypes, ToStage
<1>2. FlagTypes'
  BY <1>1 DEF Chain, FlagTypes
<1>3. InboxExists'
  <2> SUFFICES ASSUME NEW p \in Proc, NEW i \in DOMAIN inbox'[p]
               PROVE  stage'[inbox'[p][i]] # "new"
    BY DEF InboxExists, Exists
  <2>1. CASE inbox'[p][i] = t
    BY <1>1, <2>1
  <2>2. CASE \E j \in DOMAIN inbox[p] : inbox'[p][i] = inbox[p][j]
    <3>1. PICK j \in DOMAIN inbox[p] : inbox'[p][i] = inbox[p][j]
      BY <2>2
    <3>2. inbox[p] \in Seq(Task)
      BY DEF Chain, FlagTypes
    <3>3. inbox[p][j] \in Task
      BY <3>2, ElementOfSeq, LenProperties
    <3>4. stage[inbox[p][j]] # "new"
      BY DEF Chain, InboxExists, Exists
    <3>5. QED
      BY <1>1, <3>1, <3>3, <3>4
  <2>3. QED
    BY <2>1, <2>2
<1>4. StopsSet'
  BY <1>1, TerminationTasks DEF Chain, StopsSet
<1>5. ConfirmsStand'
  BY <1>1, TerminationTasks DEF Chain, ConfirmsStand, Exists
<1>6. LastFoundAll'
  BY DEF Chain, LastFoundAll
<1>7. ShutsFromLast'
  BY <1>1, TerminationTasks DEF Chain, ShutsFromLast, Exists
<1>8. QED
  BY <1>2, <1>3, <1>4, <1>5, <1>6, <1>7 DEF Chain

\* What Dispatch does to the inboxes.
LEMMA DispatchInbox ==
    ASSUME Chain, NEW t \in Task, Dest(t) \in Proc, Dispatch(t)
    PROVE  /\ inbox' \in [Proc -> Seq(Task)]
           /\ \A p \in Proc : \A i \in DOMAIN inbox'[p] :
                inbox'[p][i] = t \/ \E j \in DOMAIN inbox[p] : inbox'[p][i] = inbox[p][j]
           /\ \E s \in {"queued", "travelling"} : ToStage(t, s)
<1> DEFINE d == Dest(t)
<1>1. inbox \in [Proc -> Seq(Task)]
  BY DEF Chain, FlagTypes
<1>2. CASE d = Origin(t)
  BY <1>1, <1>2 DEF Dispatch
<1>3. CASE d # Origin(t)
  <2>1. inbox' = [inbox EXCEPT ![d] = Append(inbox[d], t)]
    BY <1>3 DEF Dispatch
  <2>2. inbox[d] \in Seq(Task)
    BY <1>1
  <2>3. /\ Append(inbox[d], t) \in Seq(Task)
        /\ Len(Append(inbox[d], t)) = Len(inbox[d]) + 1
        /\ \A i \in 1..Len(inbox[d]) : Append(inbox[d], t)[i] = inbox[d][i]
        /\ Append(inbox[d], t)[Len(inbox[d]) + 1] = t
    BY <2>2, AppendProperties
  <2>4. /\ DOMAIN Append(inbox[d], t) = 1..(Len(inbox[d]) + 1)
        /\ DOMAIN inbox[d] = 1..Len(inbox[d]) /\ Len(inbox[d]) \in Nat
    BY <2>2, <2>3, LenProperties
  <2>5. \A i \in DOMAIN Append(inbox[d], t) :
          \/ Append(inbox[d], t)[i] = t
          \/ \E j \in DOMAIN inbox[d] : Append(inbox[d], t)[i] = inbox[d][j]
    BY <2>3, <2>4
  <2>6. inbox' \in [Proc -> Seq(Task)]
    BY <1>1, <2>1, <2>3
  <2>7. QED
    BY <1>1, <1>3, <2>1, <2>5, <2>6 DEF Dispatch
<1>4. QED
  BY <1>2, <1>3

\* What the reception of a message takes out of an inbox is a task that exists.
LEMMA HeadAndTail ==
    ASSUME Chain, NEW p \in Proc, inbox[p] # <<>>
    PROVE  /\ Head(inbox[p]) \in Task /\ Exists(Head(inbox[p]))
           /\ [inbox EXCEPT ![p] = Tail(@)] \in [Proc -> Seq(Task)]
           /\ \A q \in Proc : \A i \in DOMAIN [inbox EXCEPT ![p] = Tail(@)][q] :
                \E j \in DOMAIN inbox[q] :
                    [inbox EXCEPT ![p] = Tail(@)][q][i] = inbox[q][j]
<1>1. inbox \in [Proc -> Seq(Task)]
  BY DEF Chain, FlagTypes
<1>2. /\ inbox[p] \in Seq(Task) /\ Len(inbox[p]) \in Nat \ {0}
      /\ DOMAIN inbox[p] = 1..Len(inbox[p])
  BY <1>1, LenProperties, EmptySeq
<1>3. Head(inbox[p]) = inbox[p][1] /\ Head(inbox[p]) \in Task
  BY <1>2, HeadTailProperties
<1>4. Exists(Head(inbox[p]))
  BY <1>2, <1>3 DEF Chain, InboxExists
<1>5. /\ Tail(inbox[p]) \in Seq(Task)
      /\ Len(Tail(inbox[p])) = Len(inbox[p]) - 1
      /\ \A i \in 1..Len(Tail(inbox[p])) : Tail(inbox[p])[i] = inbox[p][i + 1]
  BY <1>2, HeadTailProperties
<1>6. \A i \in DOMAIN Tail(inbox[p]) :
        \E j \in DOMAIN inbox[p] : Tail(inbox[p])[i] = inbox[p][j]
  <2> SUFFICES ASSUME NEW i \in DOMAIN Tail(inbox[p])
               PROVE  \E j \in DOMAIN inbox[p] : Tail(inbox[p])[i] = inbox[p][j]
    OBVIOUS
  <2>1. i \in 1..(Len(inbox[p]) - 1)
    BY <1>5, LenProperties
  <2>2. i + 1 \in DOMAIN inbox[p]
    BY <1>2, <2>1
  <2>3. QED
    BY <1>5, <2>1, <2>2
<1>7. QED
  BY <1>1, <1>3, <1>4, <1>5, <1>6

\* Every task has a processor.
LEMMA Destinations ==
    ASSUME NEW t \in Task PROVE Dest(t) \in Proc
  BY UserAssumption, ProcAssumption DEF Dest, Task, TerminationTask

\* Only a stop task that executes submits a confirmation, and only the task that
\* has found everyone confirmed a shutdown task.
LEMMA SubmitterOfTermination ==
    ASSUME Chain, NEW p \in Proc
    PROVE  /\ MaySubmit(Confirm(p)) => stopSending[p]
           /\ MaySubmit(Shut(p)) => last # NoTask
<1>1. ASSUME MaySubmit(Confirm(p)) PROVE stopSending[p]
  <2>1. Parent(Confirm(p)) = Stop(p)
    BY TerminationTasks DEF Parent, Confirm, Stop
  <2>2. Confirm(p).status = "confirm" /\ Confirm(p) \notin User
    BY TerminationTasks DEF Confirm
  <2>3. stage[Stop(p)] = "executing"
    BY <1>1, <2>1, <2>2 DEF MaySubmit
  <2>4. QED
    BY <2>3 DEF Chain, StopsSet
<1>2. ASSUME MaySubmit(Shut(p)) PROVE last # NoTask
  <2>1. Shut(p).status = "shutdown" /\ Shut(p) \notin User
    BY TerminationTasks DEF Shut
  <2>2. Parent(Shut(p)) = last
    BY <2>1 DEF Parent
  <2>3. last \in Task
    BY <1>2, <2>1, <2>2 DEF MaySubmit
  <2>4. NoTask \notin Task
    BY TaskAssumption DEF Task
  <2>5. QED
    BY <2>3, <2>4
<1>3. QED
  BY <1>1, <1>2

-----------------------------------------------------------------------------
(* The actions                                                             *)

\* Before anything is submitted the chain holds.
LEMMA InitChain == Init => Chain
<1> SUFFICES ASSUME Init PROVE Chain
  OBVIOUS
<1>1. FlagTypes
  BY DEF Init, FlagTypes, Stage
<1>2. \A p \in Proc : {Stop(p), Confirm(p), Shut(p)} \subseteq Task
  BY TerminationTasks
<1>3. QED
  BY <1>1, <1>2
     DEF Init, Chain, InboxExists, StopsSet, ConfirmsStand, LastFoundAll, ShutsFromLast, Exists

\* Submit keeps the chain, in whichever thread it runs.
LEMMA SubmitKeepsChain ==
    ASSUME Chain, NEW t \in Task, Submit(t) PROVE Chain'
<1> USE Destinations
<1>1. CASE SubmitTermination(t)
  <2>1. /\ inbox' \in [Proc -> Seq(Task)]
        /\ \A p \in Proc : \A i \in DOMAIN inbox'[p] :
             inbox'[p][i] = t \/ \E j \in DOMAIN inbox[p] : inbox'[p][i] = inbox[p][j]
        /\ \E s \in {"queued", "travelling"} : ToStage(t, s)
    BY <1>1, DispatchInbox DEF SubmitTermination
  <2>2. \A p \in Proc : /\ t = Confirm(p) => stopSending[p]
                        /\ t = Shut(p) => last # NoTask
    BY <1>1, SubmitterOfTermination DEF SubmitTermination
  <2>3. receiving' \in [Proc -> User \cup {NoTask}]
    BY <1>1 DEF SubmitTermination, Chain, FlagTypes
  <2>4. QED
    BY <1>1, <2>1, <2>2, <2>3, MoveKeepsChain DEF SubmitTermination, Stage
<1>2. CASE BeginSubmit(t)
  <2>1. t \in User /\ \A p \in Proc : t # Confirm(p) /\ t # Shut(p)
    BY <1>2, TerminationTasks DEF BeginSubmit
  <2>2. PICK s \in {"refused", "submitting"} : ToStage(t, s)
    BY <1>2 DEF BeginSubmit
  <2>3. inbox' \in [Proc -> Seq(Task)] /\ receiving' \in [Proc -> User \cup {NoTask}]
    BY <1>2 DEF BeginSubmit, Chain, FlagTypes
  <2>4. QED
    BY <1>2, <2>1, <2>2, <2>3, MoveKeepsChain DEF BeginSubmit, Stage
<1>3. CASE EndSubmit(t)
  <2>1. \A p \in Proc : /\ t = Confirm(p) => stopSending[p]
                        /\ t = Shut(p) => last # NoTask
    BY <1>3 DEF EndSubmit, Chain, ConfirmsStand, ShutsFromLast, Exists
  <2>2. receiving' \in [Proc -> User \cup {NoTask}]
    BY <1>3 DEF EndSubmit, Chain, FlagTypes
  <2>3. CASE Dispatch(t)
    <3>1. /\ inbox' \in [Proc -> Seq(Task)]
          /\ \A p \in Proc : \A i \in DOMAIN inbox'[p] :
               inbox'[p][i] = t \/ \E j \in DOMAIN inbox[p] : inbox'[p][i] = inbox[p][j]
          /\ \E s \in {"queued", "travelling"} : ToStage(t, s)
      BY <2>3, DispatchInbox
    <3>2. QED
      BY <1>3, <2>1, <2>2, <3>1, MoveKeepsChain DEF EndSubmit, Stage
  <2>4. CASE ToStage(t, "deleted") /\ UNCHANGED inbox
    <3>1. inbox' \in [Proc -> Seq(Task)]
      BY <2>4 DEF Chain, FlagTypes
    <3>2. QED
      BY <1>3, <2>1, <2>2, <2>4, <3>1, MoveKeepsChain DEF EndSubmit, Stage
  <2>5. QED
    BY <1>3, <2>3, <2>4 DEF EndSubmit
<1>4. QED
  BY <1>1, <1>2, <1>3 DEF Submit

\* So does the communication manager's thread.
LEMMA ReceiveKeepsChain ==
    ASSUME Chain, NEW p \in Proc, ServiceThread(p) PROVE Chain'
<1> DEFINE h == Head(inbox[p])
<1>a. ASSUME NEW t \in Task, Exists(t)
      PROVE  \A q \in Proc : /\ t = Confirm(q) => stopSending[q]
                             /\ t = Shut(q) => last # NoTask
  BY <1>a DEF Chain, ConfirmsStand, ShutsFromLast
<1>b. /\ receiving \in [Proc -> User \cup {NoTask}]
      /\ inbox \in [Proc -> Seq(Task)]
      /\ \A t \in User : t \in Task /\ \A q \in Proc : t # Confirm(q) /\ t # Shut(q)
  BY TerminationTasks DEF Chain, FlagTypes, Task
<1>c. ASSUME NEW t \in Task, Exists(t), NEW s \in {"queued", "unwelcome", "received"},
             ToStage(t, s), inbox' \in [Proc -> Seq(Task)],
             \A q \in Proc : \A i \in DOMAIN inbox'[q] :
                 \E j \in DOMAIN inbox[q] : inbox'[q][i] = inbox[q][j],
             receiving' \in [Proc -> User \cup {NoTask}],
             UNCHANGED <<stopSending, keepGoing, confirmed, last>>
      PROVE  Chain'
  <2>1. s \in Stage \ {"new"} /\ s \notin {"executing", "finished"}
    BY DEF Stage
  <2>2. \A q \in Proc : \A i \in DOMAIN inbox'[q] :
          inbox'[q][i] = t \/ \E j \in DOMAIN inbox[q] : inbox'[q][i] = inbox[q][j]
    BY <1>c
  <2>3. QED
    BY <1>a, <1>c, <2>1, <2>2, MoveKeepsChain, ZenonT(60)
<1>1. CASE ReceiveTermination(p)
  <2>1. inbox[p] # <<>> /\ inbox' = [inbox EXCEPT ![p] = Tail(@)] /\ ToStage(h, "queued")
    BY <1>1 DEF ReceiveTermination, Arrived
  <2>2. h \in Task /\ Exists(h) /\ inbox' \in [Proc -> Seq(Task)]
    BY <2>1, HeadAndTail
  <2>3. \A q \in Proc : \A i \in DOMAIN inbox'[q] :
          \E j \in DOMAIN inbox[q] : inbox'[q][i] = inbox[q][j]
    BY <2>1, HeadAndTail
  <2>4. receiving' \in [Proc -> User \cup {NoTask}]
    BY <1>1, <1>b DEF ReceiveTermination
  <2>5. UNCHANGED <<stopSending, keepGoing, confirmed, last>>
    BY <1>1 DEF ReceiveTermination
  <2>6. QED
    BY <1>c, <2>1, <2>2, <2>3, <2>4, <2>5
<1>2. CASE BeginReceive(p)
  <2>1. /\ inbox[p] # <<>> /\ inbox' = [inbox EXCEPT ![p] = Tail(@)] /\ h \in User
        /\ \E s \in {"unwelcome", "received"} : ToStage(h, s)
    BY <1>2 DEF BeginReceive, Arrived
  <2>2. h \in Task /\ Exists(h) /\ inbox' \in [Proc -> Seq(Task)]
    BY <2>1, HeadAndTail
  <2>3. \A q \in Proc : \A i \in DOMAIN inbox'[q] :
          \E j \in DOMAIN inbox[q] : inbox'[q][i] = inbox[q][j]
    BY <2>1, HeadAndTail
  <2>4. receiving' \in [Proc -> User \cup {NoTask}]
    BY <1>2, <1>b, <2>1 DEF BeginReceive
  <2>5. UNCHANGED <<stopSending, keepGoing, confirmed, last>>
    BY <1>2 DEF BeginReceive
  <2>6. QED
    BY <1>c, <2>1, <2>2, <2>3, <2>4, <2>5
<1>3. CASE EndReceive(p)
  <2>1. receiving[p] \in User /\ inbox' = inbox
    BY <1>3, <1>b DEF EndReceive
  <2>2. \E s \in {"queued", "deleted"} : ToStage(receiving[p], s)
    BY <1>3 DEF EndReceive
  <2>3. receiving' \in [Proc -> User \cup {NoTask}]
    BY <1>3, <1>b DEF EndReceive
  <2>4. UNCHANGED <<stopSending, keepGoing, confirmed, last>>
    BY <1>3 DEF EndReceive
  <2>5. QED
    BY <1>b, <2>1, <2>2, <2>3, <2>4, MoveKeepsChain DEF Stage
<1>4. QED
  BY <1>1, <1>2, <1>3 DEF ServiceThread

\* So do the beginning of a task of the application and the end of any task.
LEMMA RunKeepsChain ==
    ASSUME Chain, NEW t \in Task, (t \in User /\ ExecuteUser(t)) \/ Finish(t)
    PROVE  Chain'
<1>1. /\ \E s \in {"executing", "finished"} :
           ToStage(t, s) /\ (t \in User \/ stage[t] = "executing")
      /\ Exists(t)
      /\ UNCHANGED <<stopSending, keepGoing, confirmed, last, inbox, receiving>>
  BY DEF ExecuteUser, Finish, Start, Exists
<1>2. \A p \in Proc : /\ t = Confirm(p) => stopSending[p]
                      /\ t = Shut(p) => last # NoTask
  BY <1>1 DEF Chain, ConfirmsStand, ShutsFromLast
<1>3. inbox' \in [Proc -> Seq(Task)] /\ receiving' \in [Proc -> User \cup {NoTask}]
  BY <1>1 DEF Chain, FlagTypes
<1>4. QED
  BY <1>1, <1>2, <1>3, MoveKeepsChain DEF Stage

\* The three kinds of termination tasks do the same to the stages: one of them,
\* already in a queue, is executing.
LEMMA StartedStage ==
    ASSUME Chain, NEW t \in TerminationTask, Start(t)
    PROVE  /\ stage' \in [Task -> Stage]
           /\ Exists(t) /\ stage'[t] = "executing"
           /\ \A u \in Task \ {t} : stage'[u] = stage[u]
           /\ \A u \in Task : Exists(u)' <=> Exists(u)
  BY TerminationTasks DEF Chain, FlagTypes, Start, ToStage, Exists, Stage, Task

\* What is in an inbox stays submitted.
LEMMA InboxStillExists ==
    ASSUME Chain, UNCHANGED inbox, \A u \in Task : Exists(u) => Exists(u)'
    PROVE  InboxExists'
<1> SUFFICES ASSUME NEW p \in Proc, NEW i \in DOMAIN inbox[p]
             PROVE  Exists(inbox[p][i])'
  BY DEF InboxExists, Exists
<1>1. inbox[p] \in Seq(Task)
  BY DEF Chain, FlagTypes
<1>2. inbox[p][i] \in Task
  BY <1>1, ElementOfSeq, LenProperties
<1>3. QED
  BY <1>2 DEF Chain, InboxExists, Exists

\* The Execute of a termination task adds a link to the chain.
LEMMA ExecuteKeepsChain ==
    ASSUME Chain, NEW p \in Proc, Execute(p) PROVE Chain'
<1>a. /\ {Stop(p), Confirm(p), Shut(p)} \subseteq TerminationTask
      /\ \A q \in Proc : {Stop(q), Confirm(q), Shut(q)} \subseteq Task
  BY TerminationTasks
<1>1. CASE ExecuteStop(p)
  <2>1. /\ stage' \in [Task -> Stage]
        /\ \A u \in Task \ {Stop(p)} : stage'[u] = stage[u]
        /\ \A u \in Task : Exists(u)' <=> Exists(u)
    BY <1>1, <1>a, StartedStage DEF ExecuteStop
  <2>2. /\ stopSending' \in [Proc -> BOOLEAN] /\ stopSending'[p]
        /\ \A q \in Proc : stopSending[q] => stopSending'[q]
        /\ UNCHANGED <<keepGoing, inbox, receiving, confirmed, last>>
    BY <1>1 DEF ExecuteStop, Chain, FlagTypes
  <2>3. FlagTypes' /\ InboxExists'
    BY <2>1, <2>2, InboxStillExists DEF Chain, FlagTypes
  <2>4. StopsSet'
    BY <1>a, <2>1, <2>2, TerminationTasks DEF Chain, StopsSet
  <2>5. ConfirmsStand'
    BY <1>a, <2>1, <2>2 DEF Chain, ConfirmsStand
  <2>6. LastFoundAll' /\ ShutsFromLast'
    BY <1>a, <2>1, <2>2 DEF Chain, LastFoundAll, ShutsFromLast
  <2>7. QED
    BY <2>3, <2>4, <2>5, <2>6 DEF Chain
<1>2. CASE ExecuteConfirm(p)
  <2>1. /\ stage' \in [Task -> Stage] /\ Exists(Confirm(p))
        /\ \A u \in Task \ {Confirm(p)} : stage'[u] = stage[u]
        /\ \A u \in Task : Exists(u)' <=> Exists(u)
    BY <1>2, <1>a, StartedStage DEF ExecuteConfirm
  <2>2. /\ confirmed' = confirmed \cup {p} /\ confirmed \subseteq Proc
        /\ UNCHANGED <<stopSending, keepGoing, inbox, receiving>>
    BY <1>2 DEF ExecuteConfirm, Chain, FlagTypes
  <2>3. last' \in {last, Confirm(p)}
    BY <1>2 DEF ExecuteConfirm
  <2>4. FlagTypes' /\ InboxExists'
    BY <1>a, <2>1, <2>2, <2>3, InboxStillExists DEF Chain, FlagTypes
  <2>5. StopsSet'
    BY <1>a, <2>1, <2>2, TerminationTasks DEF Chain, StopsSet
  <2>6. ConfirmsStand'
    BY <1>a, <2>1, <2>2 DEF Chain, ConfirmsStand
  <2>7. last' # NoTask => confirmed' = Proc
    <3>1. CASE Cardinality(confirmed') = Cardinality(Proc)
      BY <2>2, <3>1, ProcAssumption, FS_Subset
    <3>2. CASE Cardinality(confirmed') # Cardinality(Proc)
      BY <1>2, <2>2, <3>2 DEF ExecuteConfirm, Chain, LastFoundAll
    <3>3. QED
      BY <3>1, <3>2
  <2>8. last # NoTask => last' # NoTask
    <3>1. Confirm(p) # NoTask
      BY <1>a, TaskAssumption
    <3>2. QED
      BY <2>3, <3>1
  <2>9. ShutsFromLast'
    BY <1>a, <2>1, <2>8 DEF Chain, ShutsFromLast
  <2>10. QED
    BY <2>4, <2>5, <2>6, <2>7, <2>9 DEF Chain, LastFoundAll
<1>3. CASE ExecuteShutdown(p)
  <2>1. /\ stage' \in [Task -> Stage]
        /\ \A u \in Task \ {Shut(p)} : stage'[u] = stage[u]
        /\ \A u \in Task : Exists(u)' <=> Exists(u)
    BY <1>3, <1>a, StartedStage DEF ExecuteShutdown
  <2>2. /\ keepGoing' \in [Proc -> BOOLEAN]
        /\ UNCHANGED <<stopSending, inbox, receiving, confirmed, last>>
    BY <1>3 DEF ExecuteShutdown, Chain, FlagTypes
  <2>3. FlagTypes' /\ InboxExists'
    BY <2>1, <2>2, InboxStillExists DEF Chain, FlagTypes
  <2>4. StopsSet'
    BY <1>a, <2>1, <2>2, TerminationTasks DEF Chain, StopsSet
  <2>5. ConfirmsStand' /\ LastFoundAll' /\ ShutsFromLast'
    BY <1>a, <2>1, <2>2 DEF Chain, ConfirmsStand, LastFoundAll, ShutsFromLast
  <2>6. QED
    BY <2>3, <2>4, <2>5 DEF Chain
<1>4. QED
  BY <1>1, <1>2, <1>3 DEF Execute

\* The chain is inductive.
LEMMA NextKeepsChain == Chain /\ [Next]_vars => Chain'
<1> SUFFICES ASSUME Chain, [Next]_vars PROVE Chain'
  OBVIOUS
<1>1. ASSUME NEW t \in Task, Submit(t) PROVE Chain'
  BY <1>1, SubmitKeepsChain
<1>2. ASSUME NEW t \in Task, Finish(t) PROVE Chain'
  BY <1>2, RunKeepsChain
<1>3. ASSUME NEW t \in User, ExecuteUser(t) PROVE Chain'
  BY <1>3, RunKeepsChain DEF Task
<1>4. ASSUME NEW p \in Proc, Execute(p) PROVE Chain'
  BY <1>4, ExecuteKeepsChain
<1>5. ASSUME NEW p \in Proc, ServiceThread(p) PROVE Chain'
  BY <1>5, ReceiveKeepsChain
<1>6. ASSUME UNCHANGED <<stopSending, keepGoing, inbox, receiving, confirmed, last, stage>>
      PROVE  Chain'
  BY <1>6 DEF Chain, FlagTypes, InboxExists, StopsSet, ConfirmsStand, LastFoundAll,
              ShutsFromLast, Exists
<1>7. ASSUME NEW p \in Proc, End(p) PROVE Chain'
  BY <1>6, <1>7 DEF End, Leave, Close
<1>8. CASE UNCHANGED vars
  BY <1>6, <1>8 DEF vars
<1>9. QED
  BY <1>1, <1>2, <1>3, <1>4, <1>5, <1>7, <1>8 DEF Next

-----------------------------------------------------------------------------
(* The theorems                                                            *)

\* The chain from a stop task to the shutdown tasks is never broken.
THEOREM ChainHolds == Spec => []Chain
<1>1. Init => Chain
  BY InitChain
<1>2. Chain /\ [Next]_vars => Chain'
  BY NextKeepsChain
<1>3. QED
  BY <1>1, <1>2, PTL DEF Spec

\* Only a shutdown task that every processor's confirmation has led to makes a
\* task manager leave; only a stop task makes it stop sending.
LEMMA StepRefines ==
    Chain /\ [Next]_vars => [TwoPhases!Next]_(TwoPhases!vars)
<1> SUFFICES ASSUME Chain, [Next]_vars PROVE [TwoPhases!Next]_(TwoPhases!vars)
  OBVIOUS
<1>1. CASE UNCHANGED <<stopSending, keepGoing>>
  BY <1>1 DEF TwoPhases!vars
<1>2. ASSUME NEW p \in Proc, ExecuteStop(p)
      PROVE  [TwoPhases!Next]_(TwoPhases!vars)
  <2>1. stopSending' = [stopSending EXCEPT ![p] = TRUE] /\ UNCHANGED keepGoing
    BY <1>2 DEF ExecuteStop
  <2>2. stopSending \in [Proc -> BOOLEAN]
    BY DEF Chain, FlagTypes
  <2>3. CASE stopSending[p]
    BY <2>1, <2>2, <2>3 DEF TwoPhases!vars
  <2>4. CASE ~stopSending[p]
    BY <2>1, <2>2, <2>4 DEF TwoPhases!Next, TwoPhases!StopSending
  <2>5. QED
    BY <2>3, <2>4
<1>3. ASSUME NEW p \in Proc, ExecuteShutdown(p)
      PROVE  [TwoPhases!Next]_(TwoPhases!vars)
  <2>1. keepGoing' = [keepGoing EXCEPT ![p] = FALSE] /\ UNCHANGED stopSending
    BY <1>3 DEF ExecuteShutdown
  <2>2. keepGoing \in [Proc -> BOOLEAN]
    BY DEF Chain, FlagTypes
  <2>3. \A q \in Proc : stopSending[q]
    <3>1. Exists(Shut(p))
      BY <1>3 DEF ExecuteShutdown, Start, Exists
    <3>2. confirmed = Proc
      BY <3>1 DEF Chain, ShutsFromLast, LastFoundAll
    <3>3. QED
      BY <3>2 DEF Chain, ConfirmsStand
  <2>4. CASE ~keepGoing[p]
    BY <2>1, <2>2, <2>4 DEF TwoPhases!vars
  <2>5. CASE keepGoing[p]
    BY <2>1, <2>2, <2>3, <2>5 DEF TwoPhases!Next, TwoPhases!Leave
  <2>6. QED
    BY <2>4, <2>5
<1>4. ASSUME NEW t \in Task, Submit(t) \/ Finish(t) \/ ExecuteUser(t)
      PROVE  UNCHANGED <<stopSending, keepGoing>>
  BY <1>4 DEF Submit, SubmitTermination, BeginSubmit, EndSubmit, Finish, ExecuteUser
<1>5. ASSUME NEW p \in Proc, ExecuteConfirm(p) \/ ServiceThread(p) \/ End(p)
      PROVE  UNCHANGED <<stopSending, keepGoing>>
  BY <1>5 DEF ExecuteConfirm, ServiceThread, ReceiveTermination, BeginReceive, EndReceive,
              End, Leave, Close
<1>6. CASE UNCHANGED vars
  BY <1>1, <1>6 DEF vars
<1>7. CASE Next
  <2>1. User \subseteq Task
    BY DEF Task
  <2>2. QED
    BY <1>1, <1>2, <1>3, <1>4, <1>5, <1>7, <2>1 DEF Next, Execute
<1>8. QED
  BY <1>6, <1>7

\* The shutdown protocol implements its specification.
THEOREM ShutdownInTwoPhases == Spec => ShutdownSpec
<1>1. Init => TwoPhases!Init
  BY DEF Init, TwoPhases!Init
<1>2. Chain /\ [Next]_vars => [TwoPhases!Next]_(TwoPhases!vars)
  BY StepRefines
<1>3. QED
  BY <1>1, <1>2, ChainHolds, PTL DEF Spec, ShutdownSpec, TwoPhases!Spec

-----------------------------------------------------------------------------
(* The end of the processor that shuts the environment down.  The task     *)
(* that found everyone confirmed executes there, and it ends only when the *)
(* last shutdown task is out; the invariant has to say that no task is in  *)
(* two places at once, since a task that came back to a queue would        *)
(* execute again.                                                          *)

Runs(t) == stage[t] \in {"executing", "finished"}
AllShut == \A p \in Proc : Submitted(Shut(p))

\* A task is in the inbox of its processor once, while it travels, or in the
\* hand of the communication manager there
InboxTravels == \A p \in Proc : \A i \in DOMAIN inbox[p] :
                  stage[inbox[p][i]] = "travelling" /\ Dest(inbox[p][i]) = p
InboxOnce == \A p \in Proc : \A i, j \in DOMAIN inbox[p] : inbox[p][i] = inbox[p][j] => i = j
InHand == \A p \in Proc : receiving[p] # NoTask =>
            stage[receiving[p]] \in {"received", "unwelcome"} /\ Dest(receiving[p]) = p
Mail == InboxTravels /\ InboxOnce /\ InHand

TerminationStages == \A t \in TerminationTask :
    stage[t] \in {"new", "travelling", "queued", "executing", "finished"}
ConfirmedRun == \A p \in confirmed : Runs(Confirm(p))
LastConfirms == last # NoTask => \E p \in Proc : last = Confirm(p)
LeavesAfterLast == \A p \in Proc : ~keepGoing[p] => last # NoTask
LastSendsThemAll == last # NoTask /\ stage[last] = "finished" => AllShut
Ending == /\ state \in [Proc -> {"running", "left", "closed"}] /\ late \subseteq User
          /\ TerminationStages /\ ConfirmedRun /\ LastConfirms
          /\ LeavesAfterLast /\ LastSendsThemAll /\ RootSendsThemAll

EndInv == Chain /\ Mail /\ Ending

\* What the parts of a queue are.
LEMMA QueueParts ==
    ASSUME NEW T, NEW s \in Seq(T)
    PROVE  /\ Len(s) \in Nat /\ DOMAIN s = 1..Len(s) /\ \A i \in DOMAIN s : s[i] \in T
           /\ s # <<>> =>
                /\ 1 \in DOMAIN s /\ Head(s) = s[1] /\ Tail(s) \in Seq(T)
                /\ \A i \in DOMAIN Tail(s) : /\ i \in Nat \ {0} /\ i + 1 \in DOMAIN s
                                             /\ Tail(s)[i] = s[i + 1]
           /\ \A t \in T :
                /\ Append(s, t) \in Seq(T) /\ DOMAIN Append(s, t) = 1..(Len(s) + 1)
                /\ Append(s, t)[Len(s) + 1] = t
                /\ \A i \in DOMAIN s : Append(s, t)[i] = s[i]
<1>1. Len(s) \in Nat /\ DOMAIN s = 1..Len(s) /\ \A i \in DOMAIN s : s[i] \in T
  BY LenProperties, ElementOfSeq
<1>2. ASSUME s # <<>>
      PROVE  /\ 1 \in DOMAIN s /\ Head(s) = s[1] /\ Tail(s) \in Seq(T)
             /\ \A i \in DOMAIN Tail(s) : /\ i \in Nat \ {0} /\ i + 1 \in DOMAIN s
                                          /\ Tail(s)[i] = s[i + 1]
  <2>1. Len(s) # 0
    BY <1>2, EmptySeq
  <2>2. /\ Head(s) = s[1] /\ Tail(s) \in Seq(T) /\ Len(Tail(s)) = Len(s) - 1
        /\ \A i \in 1..Len(Tail(s)) : Tail(s)[i] = s[i + 1]
    BY <1>2, HeadTailProperties
  <2>3. DOMAIN Tail(s) = 1..(Len(s) - 1)
    BY <2>2, LenProperties
  <2>4. QED
    BY <1>1, <2>1, <2>2, <2>3
<1>3. ASSUME NEW t \in T
      PROVE  /\ Append(s, t) \in Seq(T) /\ DOMAIN Append(s, t) = 1..(Len(s) + 1)
             /\ Append(s, t)[Len(s) + 1] = t
             /\ \A i \in DOMAIN s : Append(s, t)[i] = s[i]
  <2>1. /\ Append(s, t) \in Seq(T) /\ Len(Append(s, t)) = Len(s) + 1
        /\ \A i \in 1..Len(s) : Append(s, t)[i] = s[i]
        /\ Append(s, t)[Len(s) + 1] = t
    BY AppendProperties
  <2>2. QED
    BY <1>1, <2>1, LenProperties
<1>4. QED
  BY <1>1, <1>2, <1>3

\* What the chain says of the values that steps read.
LEMMA Values ==
    ASSUME Chain
    PROVE  /\ stage \in [Task -> Stage] /\ inbox \in [Proc -> Seq(Task)]
           /\ \A p \in Proc : \A i \in DOMAIN inbox[p] : inbox[p][i] \in Task
           /\ receiving \in [Proc -> User \cup {NoTask}]
           /\ \A p \in Proc : receiving[p] # NoTask => receiving[p] \in User
           /\ User \subseteq Task /\ TerminationTask \subseteq Task
           /\ confirmed \subseteq Proc /\ last \in TerminationTask \cup {NoTask}
<1>1. stage \in [Task -> Stage] /\ inbox \in [Proc -> Seq(Task)]
      /\ receiving \in [Proc -> User \cup {NoTask}]
      /\ confirmed \subseteq Proc /\ last \in TerminationTask \cup {NoTask}
  BY DEF Chain, FlagTypes
<1>2. \A p \in Proc : \A i \in DOMAIN inbox[p] : inbox[p][i] \in Task
  BY <1>1, QueueParts
<1>3. \A p \in Proc : receiving[p] # NoTask => receiving[p] \in User
  BY <1>1
<1>4. QED
  BY <1>1, <1>2, <1>3 DEF Task

\* What ToStage does to the stages.
LEMMA StageMoves ==
    ASSUME Chain, NEW t \in Task, NEW s, ToStage(t, s)
    PROVE  stage'[t] = s /\ \A u \in Task \ {t} : stage'[u] = stage[u]
  BY Values DEF ToStage

\* A task that neither travels nor is in hand may move without the mail.
LEMMA MoveKeepsMail ==
    ASSUME Chain, Mail, NEW t \in Task, NEW s, ToStage(t, s),
           stage[t] \notin {"travelling", "received", "unwelcome"},
           UNCHANGED <<inbox, receiving>>
    PROVE  Mail'
<1>1. stage'[t] = s /\ \A u \in Task \ {t} : stage'[u] = stage[u]
  BY StageMoves
<1>2. InboxTravels'
  BY <1>1, Values DEF Mail, InboxTravels
<1>3. InboxOnce'
  BY DEF Mail, InboxOnce
<1>4. InHand'
  BY <1>1, Values DEF Mail, InHand
<1>5. QED
  BY <1>2, <1>3, <1>4 DEF Mail

\* A task is put in an inbox where it is not.
LEMMA DispatchKeepsMail ==
    ASSUME Chain, Mail, NEW t \in Task, Dispatch(t),
           stage[t] \notin {"travelling", "received", "unwelcome"}, UNCHANGED receiving
    PROVE  Mail'
<1>1. CASE Dest(t) = Origin(t)
  BY <1>1, MoveKeepsMail DEF Dispatch
<1>2. CASE Dest(t) # Origin(t)
  <2>1. PICK d \in Proc : d = Dest(t)
    BY Destinations
  <2>2. /\ ToStage(t, "travelling")
        /\ inbox' = [inbox EXCEPT ![d] = Append(inbox[d], t)]
    BY <1>2, <2>1 DEF Dispatch
  <2>3. stage'[t] = "travelling" /\ \A u \in Task \ {t} : stage'[u] = stage[u]
    BY <2>2, StageMoves
  <2>4. /\ \A p \in Proc \ {d} : inbox'[p] = inbox[p]
        /\ inbox[d] \in Seq(Task) /\ inbox'[d] = Append(inbox[d], t)
    BY <2>2, Values
  <2>5. PICK n : n = Len(inbox[d]) + 1
    OBVIOUS
  <2>6. /\ n \in Nat /\ n \notin DOMAIN inbox[d] /\ inbox'[d][n] = t
        /\ DOMAIN inbox'[d] = DOMAIN inbox[d] \cup {n}
        /\ \A i \in DOMAIN inbox[d] : inbox'[d][i] = inbox[d][i]
    <3>1. Len(inbox[d]) \in Nat /\ DOMAIN inbox[d] = 1..Len(inbox[d])
      BY <2>4, QueueParts
    <3>2. /\ DOMAIN Append(inbox[d], t) = 1..(Len(inbox[d]) + 1)
          /\ Append(inbox[d], t)[Len(inbox[d]) + 1] = t
          /\ \A i \in DOMAIN inbox[d] : Append(inbox[d], t)[i] = inbox[d][i]
      BY <2>4, QueueParts
    <3>3. 1..(Len(inbox[d]) + 1) = 1..Len(inbox[d]) \cup {Len(inbox[d]) + 1}
      BY <3>1
    <3>4. QED
      BY <2>4, <2>5, <3>1, <3>2, <3>3
  <2>7. \A i \in DOMAIN inbox[d] : inbox[d][i] # t
    BY DEF Mail, InboxTravels
  <2>8. InboxTravels'
    <3> SUFFICES ASSUME NEW p \in Proc, NEW i \in DOMAIN inbox'[p]
                 PROVE  stage'[inbox'[p][i]] = "travelling" /\ Dest(inbox'[p][i]) = p
      BY DEF InboxTravels, Dest
    <3>1. CASE i \in DOMAIN inbox[p] /\ inbox'[p][i] = inbox[p][i]
      <4>1. inbox[p][i] \in Task /\ stage[inbox[p][i]] = "travelling" /\ Dest(inbox[p][i]) = p
        BY <3>1, Values DEF Mail, InboxTravels
      <4>2. inbox[p][i] # t
        BY <4>1
      <4>3. QED
        BY <2>3, <3>1, <4>1, <4>2
    <3>2. CASE inbox'[p][i] = t /\ p = d
      BY <2>1, <2>3, <3>2
    <3>3. CASE p = d
      BY <2>6, <3>1, <3>2, <3>3
    <3>4. CASE p # d
      <4>1. inbox'[p] = inbox[p]
        BY <2>4, <3>4
      <4>2. QED
        BY <3>1, <4>1
    <3>5. QED
      BY <3>3, <3>4
  <2>9. InboxOnce'
    <3> SUFFICES ASSUME NEW p \in Proc, NEW i \in DOMAIN inbox'[p], NEW j \in DOMAIN inbox'[p],
                        inbox'[p][i] = inbox'[p][j]
                 PROVE  i = j
      BY DEF InboxOnce
    <3>1. \A k, l \in DOMAIN inbox[p] : inbox[p][k] = inbox[p][l] => k = l
      BY DEF Mail, InboxOnce
    <3>2. CASE p = d
      <4>1. CASE i \in DOMAIN inbox[d] /\ j \in DOMAIN inbox[d]
        BY <2>6, <3>1, <3>2, <4>1
      <4>2. CASE i = n \/ j = n
        BY <2>6, <2>7, <3>2, <4>2
      <4>3. QED
        BY <2>6, <3>2, <4>1, <4>2
    <3>3. CASE p # d
      <4>1. inbox'[p] = inbox[p]
        BY <2>4, <3>3
      <4>2. QED
        BY <3>1, <4>1
    <3>4. QED
      BY <3>2, <3>3
  <2>10. InHand'
    BY <2>3, Values DEF Mail, InHand, Dest
  <2>11. QED
    BY <2>8, <2>9, <2>10 DEF Mail
<1>3. QED
  BY <1>1, <1>2

\* The first task of an inbox leaves it, for a queue or for the hand of the
\* communication manager.
LEMMA ReceiveKeepsMail ==
    ASSUME Chain, Mail, NEW p \in Proc, inbox[p] # <<>>, NEW h, h = Head(inbox[p]),
           NEW s, ToStage(h, s), inbox' = [inbox EXCEPT ![p] = Tail(inbox[p])],
           \/ UNCHANGED receiving
           \/ s \in {"received", "unwelcome"} /\ receiving' = [receiving EXCEPT ![p] = h]
    PROVE  Mail'
<1>1. /\ inbox[p] \in Seq(Task) /\ 1 \in DOMAIN inbox[p] /\ h = inbox[p][1]
      /\ \A i \in DOMAIN Tail(inbox[p]) : /\ i \in Nat \ {0} /\ i + 1 \in DOMAIN inbox[p]
                                          /\ Tail(inbox[p])[i] = inbox[p][i + 1]
  <2>1. inbox[p] \in Seq(Task)
    BY Values
  <2>2. QED
    BY <2>1, QueueParts
<1>2. h \in Task /\ stage[h] = "travelling" /\ Dest(h) = p
  BY <1>1, Values DEF Mail, InboxTravels
<1>3. stage'[h] = s /\ \A u \in Task \ {h} : stage'[u] = stage[u]
  BY <1>2, StageMoves
<1>4. inbox'[p] = Tail(inbox[p]) /\ \A q \in Proc \ {p} : inbox'[q] = inbox[q]
  BY Values
<1>5. ASSUME NEW i \in DOMAIN inbox'[p]
      PROVE  i + 1 \in DOMAIN inbox[p] /\ inbox'[p][i] = inbox[p][i + 1] /\ inbox'[p][i] # h
  <2>1. i \in Nat \ {0} /\ i + 1 \in DOMAIN inbox[p] /\ inbox'[p][i] = inbox[p][i + 1]
    BY <1>1, <1>4
  <2>2. i + 1 # 1
    BY <2>1
  <2>3. inbox[p][i + 1] # inbox[p][1]
    BY <1>1, <2>1, <2>2 DEF Mail, InboxOnce
  <2>4. QED
    BY <1>1, <2>1, <2>3
<1>6. InboxTravels'
  <2> SUFFICES ASSUME NEW q \in Proc, NEW i \in DOMAIN inbox'[q]
               PROVE  stage'[inbox'[q][i]] = "travelling" /\ Dest(inbox'[q][i]) = q
    BY DEF InboxTravels, Dest
  <2>1. PICK j \in DOMAIN inbox[q] : inbox'[q][i] = inbox[q][j] /\ inbox[q][j] # h
    <3>1. CASE q = p
      BY <1>5, <3>1
    <3>2. CASE q # p
      <4>1. inbox'[q] = inbox[q] /\ Dest(inbox[q][i]) = q
        BY <1>4, <3>2 DEF Mail, InboxTravels
      <4>2. QED
        BY <1>2, <3>2, <4>1
    <3>3. QED
      BY <3>1, <3>2
  <2>2. inbox[q][j] \in Task /\ stage[inbox[q][j]] = "travelling" /\ Dest(inbox[q][j]) = q
    BY Values DEF Mail, InboxTravels
  <2>3. QED
    BY <1>3, <2>1, <2>2
<1>7. InboxOnce'
  <2> SUFFICES ASSUME NEW q \in Proc, NEW i \in DOMAIN inbox'[q], NEW j \in DOMAIN inbox'[q],
                      inbox'[q][i] = inbox'[q][j]
               PROVE  i = j
    BY DEF InboxOnce
  <2>1. \A k, l \in DOMAIN inbox[q] : inbox[q][k] = inbox[q][l] => k = l
    BY DEF Mail, InboxOnce
  <2>2. CASE q = p
    <3>1. i + 1 = j + 1
      BY <1>5, <2>1, <2>2
    <3>2. i \in Nat /\ j \in Nat
      BY <1>1, <1>4, <2>2
    <3>3. QED
      BY <3>1, <3>2
  <2>3. CASE q # p
    BY <1>4, <2>1, <2>3
  <2>4. QED
    BY <2>2, <2>3
<1>8. InHand'
  <2> SUFFICES ASSUME NEW q \in Proc, receiving'[q] # NoTask
               PROVE  stage'[receiving'[q]] \in {"received", "unwelcome"} /\ Dest(receiving'[q]) = q
    BY DEF InHand, Dest
  <2>1. CASE receiving'[q] = receiving[q]
    BY <1>2, <1>3, <2>1, Values DEF Mail, InHand
  <2>2. CASE receiving'[q] = h /\ q = p /\ s \in {"received", "unwelcome"}
    BY <1>2, <1>3, <2>2
  <2>3. QED
    BY <2>1, <2>2, Values
<1>9. QED
  BY <1>6, <1>7, <1>8 DEF Mail

\* A task in hand is in the hand of its processor alone.
LEMMA EndReceiveKeepsMail ==
    ASSUME Chain, Mail, NEW p \in Proc, EndReceive(p) PROVE Mail'
<1>1. PICK t : t = receiving[p]
  OBVIOUS
<1>2. /\ t \in User /\ t \in Task /\ stage[t] \in {"received", "unwelcome"} /\ Dest(t) = p
  BY <1>1, Values DEF EndReceive, Mail, InHand
<1>3. \A u \in Task \ {t} : stage'[u] = stage[u]
  BY <1>1, <1>2, StageMoves DEF EndReceive
<1>4. inbox' = inbox /\ receiving'[p] = NoTask
      /\ \A q \in Proc \ {p} : receiving'[q] = receiving[q]
  BY Values DEF EndReceive
<1>5. InboxTravels'
  BY <1>2, <1>3, <1>4, Values DEF Mail, InboxTravels, Dest
<1>6. InboxOnce'
  BY <1>4 DEF Mail, InboxOnce
<1>7. InHand'
  <2> SUFFICES ASSUME NEW q \in Proc, receiving'[q] # NoTask
               PROVE  stage'[receiving'[q]] \in {"received", "unwelcome"} /\ Dest(receiving'[q]) = q
    BY DEF InHand, Dest
  <2>1. q # p /\ receiving'[q] = receiving[q]
    BY <1>4
  <2>2. receiving[q] \in Task /\ Dest(receiving[q]) = q
        /\ stage[receiving[q]] \in {"received", "unwelcome"}
    BY <2>1, Values DEF Mail, InHand
  <2>3. QED
    BY <1>2, <1>3, <2>1, <2>2
<1>8. QED
  BY <1>5, <1>6, <1>7 DEF Mail

\* A step that moves one task forward keeps what leads to the end.
LEMMA MoveKeepsEnding ==
    ASSUME Chain, Ending, NEW t \in Task, NEW s, ToStage(t, s),
           t \in TerminationTask =>
               /\ s \in {"travelling", "queued", "executing", "finished"}
               /\ Runs(t) => s = "finished",
           t = last /\ s = "finished" => AllShut,
           \A p \in Proc : ~keepGoing'[p] => last # NoTask,
           late' \subseteq User, UNCHANGED <<state, confirmed, last>>
    PROVE  Ending'
<1>1. stage'[t] = s /\ \A u \in Task \ {t} : stage'[u] = stage[u]
  BY StageMoves
<1>2. \A p \in Proc : /\ Confirm(p) \in TerminationTask /\ Confirm(p) \in Task
                      /\ Shut(p) \in TerminationTask /\ Shut(p) \in Task
  BY TerminationTasks
<1>3. TerminationStages'
  BY <1>1, Values DEF Ending, TerminationStages
<1>4. ConfirmedRun'
  BY <1>1, <1>2, Values DEF Ending, ConfirmedRun, Runs
<1>5. AllShut => AllShut'
  BY <1>1, <1>2 DEF AllShut, Submitted
<1>6. LastSendsThemAll'
  <2> SUFFICES ASSUME last # NoTask, stage'[last] = "finished" PROVE AllShut
    BY <1>5 DEF LastSendsThemAll
  <2>1. last \in Task
    BY Values
  <2>2. QED
    BY <1>1, <2>1 DEF Ending, LastSendsThemAll
<1>7. RootSendsThemAll'
  BY <1>5 DEF Ending, RootSendsThemAll, AllShut
<1>8. LastConfirms' /\ LeavesAfterLast'
  BY DEF Ending, LastConfirms, LeavesAfterLast
<1>9. QED
  BY <1>3, <1>4, <1>6, <1>7, <1>8 DEF Ending

\* What Submit puts in a queue or sends is not in one; it comes out of no other
\* place, and a termination task goes straight there.
LEMMA SubmitKeepsEnd ==
    ASSUME EndInv, NEW t \in Task, Submit(t) PROVE Mail' /\ Ending'
<1> USE DEF EndInv
<1>1. CASE SubmitTermination(t)
  <2>1. \E s \in {"queued", "travelling"} : ToStage(t, s)
    BY <1>1, Destinations, DispatchInbox DEF SubmitTermination
  <2>2. /\ stage[t] = "new" /\ Dispatch(t)
        /\ UNCHANGED <<keepGoing, state, receiving, confirmed, last, late>>
    BY <1>1 DEF SubmitTermination
  <2>3. Mail'
    BY <2>2, DispatchKeepsMail
  <2>4. Ending'
    BY <2>1, <2>2, MoveKeepsEnding DEF Ending, LeavesAfterLast, Runs
  <2>5. QED
    BY <2>3, <2>4
<1>2. CASE BeginSubmit(t)
  <2>1. \E s \in {"refused", "submitting"} : ToStage(t, s)
    BY <1>2 DEF BeginSubmit
  <2>2. /\ stage[t] = "new" /\ t \notin TerminationTask
        /\ UNCHANGED <<inbox, keepGoing, state, receiving, confirmed, last, late>>
    BY <1>2, TaskAssumption DEF BeginSubmit
  <2>3. Mail'
    BY <2>1, <2>2, MoveKeepsMail
  <2>4. Ending'
    BY <2>1, <2>2, MoveKeepsEnding DEF Ending, LeavesAfterLast
  <2>5. QED
    BY <2>3, <2>4
<1>3. CASE EndSubmit(t)
  <2>1. /\ stage[t] \in {"submitting", "refused"}
        /\ UNCHANGED <<keepGoing, state, receiving, confirmed, last>>
        /\ Dispatch(t) \/ (ToStage(t, "deleted") /\ UNCHANGED inbox)
        /\ late' \subseteq late \cup {t}
    BY <1>3 DEF EndSubmit
  <2>2. t \notin TerminationTask /\ t \in User
    BY <2>1 DEF Ending, TerminationStages, Task
  <2>3. \E s \in {"queued", "travelling", "deleted"} : ToStage(t, s)
    BY <2>1, Destinations, DispatchInbox
  <2>4. Mail'
    BY <2>1, DispatchKeepsMail, MoveKeepsMail
  <2>5. late' \subseteq User
    BY <2>1, <2>2 DEF Ending
  <2>6. Ending'
    BY <2>1, <2>2, <2>3, <2>5, MoveKeepsEnding DEF Ending, LeavesAfterLast
  <2>7. QED
    BY <2>4, <2>6
<1>4. QED
  BY <1>1, <1>2, <1>3 DEF Submit

\* What is received has not executed yet.
LEMMA ReceiveKeepsEnd ==
    ASSUME EndInv, NEW p \in Proc, ServiceThread(p) PROVE Mail' /\ Ending'
<1> USE DEF EndInv
<1>1. ASSUME NEW h \in Task, NEW s, ToStage(h, s),
             h \in TerminationTask => s = "queued" /\ stage[h] = "travelling",
             UNCHANGED <<keepGoing, state, confirmed, last, late>>, s # "finished"
      PROVE  Ending'
  BY <1>1, MoveKeepsEnding DEF Ending, LeavesAfterLast, Runs
<1>2. ASSUME inbox[p] # <<>>, NEW h, h = Head(inbox[p])
      PROVE  h \in Task /\ stage[h] = "travelling"
  <2>1. inbox[p] \in Seq(Task)
    BY Values
  <2>2. 1 \in DOMAIN inbox[p] /\ h = inbox[p][1]
    BY <1>2, <2>1, QueueParts
  <2>3. QED
    BY <2>2, Values DEF Mail, InboxTravels
<1>3. CASE ReceiveTermination(p)
  <2>1. PICK h : h = Head(inbox[p])
    OBVIOUS
  <2>2. /\ inbox[p] # <<>> /\ ToStage(h, "queued") /\ inbox' = [inbox EXCEPT ![p] = Tail(inbox[p])]
        /\ UNCHANGED <<keepGoing, state, receiving, confirmed, last, late>>
    BY <1>3, <2>1 DEF ReceiveTermination, Arrived
  <2>3. Mail'
    BY <2>1, <2>2, ReceiveKeepsMail
  <2>4. Ending'
    BY <1>1, <1>2, <2>1, <2>2
  <2>5. QED
    BY <2>3, <2>4
<1>4. CASE BeginReceive(p)
  <2>1. PICK h : h = Head(inbox[p])
    OBVIOUS
  <2>2. PICK s \in {"unwelcome", "received"} : ToStage(h, s)
    BY <1>4, <2>1 DEF BeginReceive
  <2>3. /\ inbox[p] # <<>> /\ inbox' = [inbox EXCEPT ![p] = Tail(inbox[p])]
        /\ h \notin TerminationTask /\ receiving' = [receiving EXCEPT ![p] = h]
        /\ UNCHANGED <<keepGoing, state, confirmed, last, late>>
    BY <1>4, <2>1, TaskAssumption DEF BeginReceive, Arrived
  <2>4. Mail'
    BY <2>1, <2>2, <2>3, ReceiveKeepsMail
  <2>5. Ending'
    BY <1>1, <1>2, <2>1, <2>2, <2>3
  <2>6. QED
    BY <2>4, <2>5
<1>5. CASE EndReceive(p)
  <2>1. receiving[p] \in Task /\ receiving[p] \notin TerminationTask
    BY <1>5, Values, TaskAssumption DEF EndReceive
  <2>2. PICK s \in {"queued", "deleted"} : ToStage(receiving[p], s)
    BY <1>5 DEF EndReceive
  <2>3. UNCHANGED <<keepGoing, state, confirmed, last, late>>
    BY <1>5 DEF EndReceive
  <2>4. Ending'
    BY <1>1, <2>1, <2>2, <2>3
  <2>5. QED
    BY <1>5, <2>4, EndReceiveKeepsMail
<1>6. QED
  BY <1>3, <1>4, <1>5 DEF ServiceThread

\* The task that found everyone confirmed ends when all it submits is out.
LEMMA RunKeepsEnd ==
    ASSUME EndInv, NEW t \in Task, (t \in User /\ ExecuteUser(t)) \/ Finish(t)
    PROVE  Mail' /\ Ending'
<1> USE DEF EndInv
<1>1. UNCHANGED <<keepGoing, state, inbox, receiving, confirmed, last, late>>
  BY DEF ExecuteUser, Finish
<1>2. CASE t \in User /\ ExecuteUser(t)
  <2>1. stage[t] = "queued" /\ ToStage(t, "executing") /\ t \notin TerminationTask
    BY <1>2, TaskAssumption DEF ExecuteUser, Start
  <2>2. QED
    BY <1>1, <2>1, MoveKeepsMail, MoveKeepsEnding DEF Ending, LeavesAfterLast
<1>3. CASE Finish(t)
  <2>1. /\ stage[t] = "executing" /\ ToStage(t, "finished")
        /\ \A u \in Task : Parent(u) = t => Submitted(u)
    BY <1>3 DEF Finish
  <2>2. ASSUME NEW p \in Proc PROVE Shut(p) \in Task /\ Parent(Shut(p)) = last
    <3>1. Shut(p) \in Task /\ Shut(p) \notin User /\ Shut(p).status = "shutdown"
      BY TerminationTasks DEF Shut
    <3>2. QED
      BY <3>1 DEF Parent
  <2>3. t = last => AllShut
    BY <2>1, <2>2 DEF AllShut
  <2>4. Mail'
    BY <1>1, <2>1, MoveKeepsMail
  <2>5. Ending'
    BY <1>1, <2>1, <2>3, MoveKeepsEnding DEF Ending, LeavesAfterLast
  <2>6. QED
    BY <2>4, <2>5
<1>4. QED
  BY <1>2, <1>3

\* Everyone is found confirmed once: by then no confirmation is left to execute.
LEMMA ConfirmKeepsEnding ==
    ASSUME EndInv, NEW p \in Proc, ExecuteConfirm(p) PROVE Ending'
<1> USE DEF EndInv
<1>1. /\ stage[Confirm(p)] = "queued" /\ ToStage(Confirm(p), "executing")
      /\ UNCHANGED <<keepGoing, state, late>>
      /\ confirmed' = confirmed \cup {p} /\ last' \in {last, Confirm(p)}
  BY DEF ExecuteConfirm, Start
<1>2. \A q \in Proc : /\ {Confirm(q), Shut(q)} \subseteq Task
                      /\ Confirm(p) = Confirm(q) => p = q
                      /\ Confirm(p) # Shut(q)
  BY TerminationTasks
<1>3. stage'[Confirm(p)] = "executing"
      /\ \A u \in Task \ {Confirm(p)} : stage'[u] = stage[u]
  BY <1>1, <1>2, StageMoves
<1>4. last = NoTask
  <2>1. p \notin confirmed
    BY <1>1 DEF Ending, ConfirmedRun, Runs
  <2>2. QED
    BY <2>1 DEF Chain, LastFoundAll
<1>5. TerminationStages'
  BY <1>3, Values DEF Ending, TerminationStages
<1>6. ConfirmedRun'
  BY <1>1, <1>2, <1>3, Values DEF Ending, ConfirmedRun, Runs
<1>7. LastConfirms'
  BY <1>1, <1>4 DEF LastConfirms
<1>8. LeavesAfterLast'
  BY <1>1, <1>4 DEF Ending, LeavesAfterLast
<1>9. LastSendsThemAll'
  <2>1. last' # NoTask => stage'[last'] = "executing"
    BY <1>1, <1>3, <1>4
  <2>2. QED
    BY <2>1 DEF LastSendsThemAll
<1>10. RootSendsThemAll'
  BY <1>1, <1>2, <1>3 DEF Ending, RootSendsThemAll, Submitted
<1>11. QED
  BY <1>1, <1>5, <1>6, <1>7, <1>8, <1>9, <1>10 DEF Ending

\* The Execute of a termination task.
LEMMA ExecuteKeepsEnd ==
    ASSUME EndInv, NEW p \in Proc, Execute(p) PROVE Mail' /\ Ending'
<1> USE DEF EndInv
<1>1. \A t \in {Stop(p), Confirm(p), Shut(p)} : t \in Task /\ t \in TerminationTask
  BY TerminationTasks
<1>2. UNCHANGED <<inbox, receiving, state, late>>
  BY DEF Execute, ExecuteStop, ExecuteConfirm, ExecuteShutdown
<1>3. PICK t \in {Stop(p), Confirm(p), Shut(p)} : stage[t] = "queued" /\ ToStage(t, "executing")
  BY DEF Execute, ExecuteStop, ExecuteConfirm, ExecuteShutdown, Start
<1>4. Mail'
  BY <1>1, <1>2, <1>3, MoveKeepsMail
<1>5. CASE ExecuteConfirm(p)
  BY <1>4, <1>5, ConfirmKeepsEnding
<1>6. CASE ExecuteStop(p) \/ ExecuteShutdown(p)
  <2>1. UNCHANGED <<confirmed, last>>
    BY <1>6 DEF ExecuteStop, ExecuteShutdown
  <2>2. \A q \in Proc : ~keepGoing'[q] => last # NoTask
    <3>1. CASE ExecuteStop(p)
      BY <3>1 DEF ExecuteStop, Ending, LeavesAfterLast
    <3>2. CASE ExecuteShutdown(p)
      BY <3>2 DEF ExecuteShutdown, Start, Chain, ShutsFromLast, Exists
    <3>3. QED
      BY <1>6, <3>1, <3>2
  <2>3. Ending'
    BY <1>1, <1>2, <1>3, <2>1, <2>2, MoveKeepsEnding DEF Ending, Runs
  <2>4. QED
    BY <1>4, <2>3
<1>7. QED
  BY <1>5, <1>6 DEF Execute

\* Root leaves when nothing executes there, and so not the task that is still
\* sending shutdown tasks.
LEMMA EndKeepsEnd ==
    ASSUME EndInv, NEW p \in Proc, End(p) PROVE Mail' /\ Ending'
<1> USE DEF EndInv
<1>1. UNCHANGED <<keepGoing, inbox, receiving, confirmed, last, stage, late>>
  BY DEF End, Leave, Close
<1>2. Mail'
  BY <1>1 DEF Mail, InboxTravels, InboxOnce, InHand, Dest
<1>3. state' \in [Proc -> {"running", "left", "closed"}]
  BY DEF End, Leave, Close, Ending
<1>4. RootSendsThemAll'
  <2>1. CASE state[Root] # "running"
    BY <1>1, <2>1 DEF Ending, RootSendsThemAll, Submitted
  <2>2. CASE state[Root] = "running" /\ state'[Root] # "running"
    <3>1. Leave(Root)
      BY <2>2, ProcAssumption DEF End, Leave, Close, Ending
    <3>2. last # NoTask
      BY <3>1, ProcAssumption DEF Leave, NothingToDo, Ending, LeavesAfterLast
    <3>3. PICK q \in Proc : last = Confirm(q)
      BY <3>2 DEF Ending, LastConfirms
    <3>4. last \in Task /\ Dest(last) = Root
      <4>1. Confirm(q) \in Task /\ Confirm(q) \notin User /\ Confirm(q).status = "confirm"
        BY TerminationTasks DEF Confirm
      <4>2. QED
        BY <3>3, <4>1 DEF Dest
    <3>5. Runs(last)
      BY <3>2, <3>3 DEF Chain, LastFoundAll, Ending, ConfirmedRun
    <3>6. stage[last] = "finished"
      BY <3>1, <3>4, <3>5 DEF Leave, NothingToDo, Runs
    <3>7. AllShut
      BY <3>2, <3>6 DEF Ending, LastSendsThemAll
    <3>8. QED
      BY <1>1, <3>7 DEF AllShut, RootSendsThemAll, Submitted
  <2>3. QED
    BY <2>1, <2>2 DEF RootSendsThemAll
<1>5. Ending'
  BY <1>1, <1>3, <1>4
     DEF Ending, TerminationStages, ConfirmedRun, LastConfirms, LeavesAfterLast,
         LastSendsThemAll, Runs, AllShut, Submitted
<1>6. QED
  BY <1>2, <1>5

\* Before anything is submitted nothing is on its way to the end.
LEMMA InitEnd == Init => EndInv
<1> SUFFICES ASSUME Init PROVE EndInv
  OBVIOUS
<1>1. Chain
  BY InitChain
<1>2. Mail
  BY DEF Init, Mail, InboxTravels, InboxOnce, InHand
<1>3. TerminationTask \subseteq Task
  BY DEF Task
<1>4. Ending
  BY <1>3, ProcAssumption
     DEF Init, Ending, TerminationStages, ConfirmedRun, LastConfirms, LeavesAfterLast,
         LastSendsThemAll, RootSendsThemAll
<1>5. QED
  BY <1>1, <1>2, <1>4 DEF EndInv

\* All of it is inductive.
LEMMA NextKeepsEnd == EndInv /\ [Next]_vars => EndInv'
<1> SUFFICES ASSUME EndInv, [Next]_vars PROVE EndInv'
  OBVIOUS
<1>1. Chain'
  BY NextKeepsChain DEF EndInv
<1>2. CASE UNCHANGED vars
  BY <1>1, <1>2
     DEF vars, EndInv, Mail, InboxTravels, InboxOnce, InHand, Dest, Ending, TerminationStages,
         ConfirmedRun, LastConfirms, LeavesAfterLast, LastSendsThemAll, RootSendsThemAll,
         Runs, AllShut, Submitted
<1>3. ASSUME NEW t \in Task, Submit(t) \/ Finish(t) PROVE EndInv'
  BY <1>1, <1>3, SubmitKeepsEnd, RunKeepsEnd DEF EndInv
<1>4. ASSUME NEW t \in User, ExecuteUser(t) PROVE EndInv'
  BY <1>1, <1>4, RunKeepsEnd DEF EndInv, Task
<1>5. ASSUME NEW p \in Proc, Execute(p) \/ ServiceThread(p) \/ End(p) PROVE EndInv'
  BY <1>1, <1>5, ExecuteKeepsEnd, ReceiveKeepsEnd, EndKeepsEnd DEF EndInv
<1>6. QED
  BY <1>2, <1>3, <1>4, <1>5 DEF Next

\* What leads to the end holds in every state.
THEOREM EndHolds == Spec => []EndInv
<1>1. Init => EndInv
  BY InitEnd
<1>2. EndInv /\ [Next]_vars => EndInv'
  BY NextKeepsEnd
<1>3. QED
  BY <1>1, <1>2, PTL DEF Spec

\* The variables of the shutdown keep their types.
THEOREM TypesHold == Spec => []TypeOK
<1>1. EndInv => TypeOK
  BY DEF EndInv, Chain, FlagTypes, Ending, TypeOK
<1>2. QED
  BY <1>1, EndHolds, PTL

\* The service thread of the processor that shuts the environment down leaves
\* when every shutdown task has been submitted, and not before: whatever the
\* number of processors, no one is left without it.
THEOREM RootLeavesLast == Spec => []RootSendsThemAll
<1>1. EndInv => RootSendsThemAll
  BY DEF EndInv, Ending
<1>2. QED
  BY <1>1, EndHolds, PTL

-----------------------------------------------------------------------------
(* No task is left behind.  A task that was sent in time is in the inbox   *)
(* before another one: before the shutdown task of its processor, and on   *)
(* Root, which gets its own shutdown task past the inbox, before the       *)
(* confirmation of the processor that sent it.  While that one is not      *)
(* received, the processor does not leave.                                 *)

UnderWay(t) == stage[t] \in {"travelling", "received", "unwelcome"}
From(t) == IF UserParent[t] = Main THEN Root ELSE UserProc[UserParent[t]]
Fence(t) == IF UserProc[t] = Root THEN Confirm(From(t)) ELSE Shut(UserProc[t])

\* What travels is in an inbox, and what is being received is in hand
Found(t) == /\ stage[t] = "travelling" =>
                 \E i \in DOMAIN inbox[Dest(t)] : inbox[Dest(t)][i] = t
            /\ stage[t] \in {"received", "unwelcome"} => receiving[Dest(t)] = t
Behind(s, t, f) == \A i, j \in DOMAIN s : s[i] = t /\ s[j] = f => i < j
Fenced(t) == /\ From(t) # UserProc[t]
             /\ \/ stage[Fence(t)] = "new"
                \/ /\ stage[Fence(t)] = "travelling"
                   /\ Behind(inbox[UserProc[t]], t, Fence(t))
AllFound == \A t \in Task : Found(t)
Timely == \A t \in User \ late : UnderWay(t) => Fenced(t)

LeftToldTo == \A p \in Proc : state[p] # "running" => ~keepGoing[p]
ToldByTask == \A p \in Proc : ~keepGoing[p] => Runs(Shut(p))
LeftEmpty == \A t \in User \ late :
    state[UserProc[t]] # "running" => stage[t] \notin {"queued", "executing"}
Settling == AllFound /\ Timely /\ LeftToldTo /\ ToldByTask /\ LeftEmpty
SettleInv == EndInv /\ Settling

\* A task of the application and the termination task that comes after it.
LEMMA FenceOf ==
    ASSUME NEW t \in User
    PROVE  /\ Dest(t) = UserProc[t] /\ UserProc[t] \in Proc /\ t \in Task
           /\ From(t) \in Proc /\ Origin(t) = From(t)
           /\ Fence(t) \in TerminationTask /\ Fence(t) \in Task /\ Fence(t) \notin User
           /\ Dest(Fence(t)) = UserProc[t]
           /\ From(t) # UserProc[t] => Origin(Fence(t)) # UserProc[t]
<1>1. t \notin TerminationTask /\ UserProc[t] \in Proc /\ t \in Task
  BY UserAssumption, TaskAssumption DEF Task
<1>2. UserParent[t] = Main \/ UserParent[t] \in User
  BY UserAssumption
<1>3. \A u \in User : UserProc[u] \in Proc /\ Dest(u) = UserProc[u] /\ u # Main
  BY UserAssumption, TaskAssumption DEF Dest
<1>4. Parent(t) = UserParent[t]
  BY DEF Parent
<1>5. From(t) \in Proc
  BY <1>2, <1>3, ProcAssumption DEF From
<1>6. Origin(t) = From(t)
  BY <1>1, <1>2, <1>3, <1>4 DEF Origin, From
<1>7. ASSUME NEW p \in Proc
      PROVE  /\ {Confirm(p), Shut(p)} \subseteq TerminationTask \cap Task
             /\ Confirm(p) \notin User /\ Shut(p) \notin User
             /\ Dest(Confirm(p)) = Root /\ Dest(Shut(p)) = p
             /\ Origin(Confirm(p)) = p /\ Origin(Shut(p)) = Root
  <2>1. /\ {Stop(p), Confirm(p), Shut(p)} \subseteq TerminationTask \cap Task
        /\ Stop(p) \notin User /\ Confirm(p) \notin User /\ Shut(p) \notin User
        /\ Stop(p) # Main
    BY TerminationTasks, TaskAssumption
  <2>2. /\ Confirm(p).status = "confirm" /\ Confirm(p).proc = p
        /\ Shut(p).status = "shutdown" /\ Shut(p).proc = p
        /\ Stop(p).status = "stop" /\ Stop(p).proc = p
    BY DEF Confirm, Shut, Stop
  <2>3. Dest(Confirm(p)) = Root /\ Dest(Shut(p)) = p /\ Dest(Stop(p)) = p
    BY <2>1, <2>2 DEF Dest
  <2>4. Parent(Confirm(p)) = Stop(p)
    BY <2>1, <2>2 DEF Parent
  <2>5. Origin(Confirm(p)) = p
    BY <2>1, <2>2, <2>3, <2>4 DEF Origin
  <2>6. Origin(Shut(p)) = Root
    BY <2>1, <2>2 DEF Origin
  <2>7. QED
    BY <2>1, <2>3, <2>5, <2>6
<1>8. QED
  BY <1>1, <1>3, <1>5, <1>6, <1>7, ProcAssumption DEF Fence

\* What a processor that was told to leave knows: everyone has stopped sending,
\* and what comes after a task that was sent in time has executed.
LEMMA NothingUnderWay ==
    ASSUME SettleInv, NEW t \in User \ late, ~keepGoing[UserProc[t]]
    PROVE  ~UnderWay(t) /\ \A p \in Proc : stopSending[p]
<1> USE DEF SettleInv, EndInv, Settling
<1>1. /\ UserProc[t] \in Proc /\ From(t) \in Proc
  BY FenceOf
<1>2. last # NoTask
  BY <1>1 DEF Ending, LeavesAfterLast
<1>3. confirmed = Proc /\ \A p \in Proc : stopSending[p]
  BY <1>2 DEF Chain, LastFoundAll, ConfirmsStand
<1>4. Runs(Fence(t))
  BY <1>1, <1>3 DEF Fence, ToldByTask, Ending, ConfirmedRun
<1>5. QED
  BY <1>3, <1>4 DEF Timely, Fenced, Runs

\* A task that is neither in an inbox nor in hand moves past those that are.
LEMMA MoveKeepsTimely ==
    ASSUME SettleInv, NEW x \in Task, NEW s, ToStage(x, s), ~UnderWay(x),
           s \notin {"travelling", "received", "unwelcome"},
           x \in TerminationTask /\ stage[x] = "new" =>
               \A t \in User \ late : UnderWay(t) => x # Fence(t),
           UNCHANGED <<inbox, receiving>>, late \subseteq late'
    PROVE  AllFound' /\ Timely'
<1> USE DEF SettleInv, EndInv, Settling
<1>1. stage'[x] = s /\ \A u \in Task \ {x} : stage'[u] = stage[u]
  BY StageMoves
<1>2. AllFound'
  BY <1>1 DEF AllFound, Found, UnderWay, Dest
<1>3. Timely'
  <2> SUFFICES ASSUME NEW t \in User \ late', stage'[t] \in {"travelling", "received", "unwelcome"}
               PROVE  Fenced(t)'
    BY DEF Timely, UnderWay
  <2>1. t \in User \ late /\ t \in Task /\ Fence(t) \in Task /\ Fence(t) \in TerminationTask
    BY FenceOf
  <2>2. t # x /\ UnderWay(t)
    BY <1>1, <2>1 DEF UnderWay
  <2>3. Fenced(t)
    BY <2>1, <2>2 DEF Timely
  <2>4. Fence(t) # x
    BY <2>1, <2>2, <2>3 DEF Fenced, UnderWay
  <2>5. stage'[Fence(t)] = stage[Fence(t)]
    BY <1>1, <2>1, <2>4
  <2>6. QED
    BY <2>3, <2>5 DEF Fenced, Behind, Fence, From, Confirm, Shut
<1>4. QED
  BY <1>2, <1>3

\* A step of one task keeps who may leave, and what is left there.
LEMMA MoveKeepsLeft ==
    ASSUME SettleInv, NEW x \in Task, NEW s, ToStage(x, s),
           x \in TerminationTask /\ Runs(x) => s \in {"executing", "finished"},
           \A p \in Proc : ~keepGoing[p] => ~keepGoing'[p],
           \A p \in Proc : ~keepGoing'[p] => ~keepGoing[p] \/ (x = Shut(p) /\ s = "executing"),
           x \in User \ late' /\ s \in {"queued", "executing"} => state[UserProc[x]] = "running",
           UNCHANGED state, late \subseteq late'
    PROVE  LeftToldTo' /\ ToldByTask' /\ LeftEmpty'
<1> USE DEF SettleInv, EndInv, Settling
<1>1. stage'[x] = s /\ \A u \in Task \ {x} : stage'[u] = stage[u]
  BY StageMoves
<1>2. LeftToldTo'
  BY DEF LeftToldTo
<1>3. ToldByTask'
  <2> SUFFICES ASSUME NEW p \in Proc, ~keepGoing'[p]
               PROVE  stage'[Shut(p)] \in {"executing", "finished"}
    BY DEF ToldByTask, Runs, Shut
  <2>1. Shut(p) \in Task /\ Shut(p) \in TerminationTask
    BY TerminationTasks
  <2>2. CASE ~keepGoing[p]
    BY <1>1, <2>1, <2>2 DEF ToldByTask, Runs
  <2>3. CASE x = Shut(p) /\ s = "executing"
    BY <1>1, <2>3
  <2>4. QED
    BY <2>2, <2>3
<1>4. LeftEmpty'
  <2> SUFFICES ASSUME NEW t \in User \ late', state[UserProc[t]] # "running"
               PROVE  stage'[t] \notin {"queued", "executing"}
    BY DEF LeftEmpty
  <2>1. t \in Task /\ t \in User \ late
    BY FenceOf
  <2>2. QED
    BY <1>1, <2>1 DEF LeftEmpty
<1>5. QED
  BY <1>2, <1>3, <1>4

\* A task is sent: it comes after all that is in the inbox.
LEMMA SendKeepsTimely ==
    ASSUME SettleInv, NEW x \in Task, Dispatch(x), Dest(x) # Origin(x), ~UnderWay(x),
           stage[x] = "new" \/ x \in User,
           x \in User \ late' => Fenced(x) /\ stage[Fence(x)] = "new",
           UNCHANGED receiving, late \subseteq late'
    PROVE  AllFound' /\ Timely'
<1> USE DEF SettleInv, EndInv, Settling
<1>1. PICK d \in Proc : d = Dest(x)
  BY Destinations
<1>2. /\ ToStage(x, "travelling") /\ inbox' = [inbox EXCEPT ![d] = Append(inbox[d], x)]
  BY <1>1 DEF Dispatch
<1>3. stage'[x] = "travelling" /\ \A u \in Task \ {x} : stage'[u] = stage[u]
  BY <1>2, StageMoves
<1>4. /\ \A p \in Proc \ {d} : inbox'[p] = inbox[p]
      /\ inbox[d] \in Seq(Task) /\ inbox'[d] = Append(inbox[d], x)
  BY <1>2, Values
<1>5. PICK n : n = Len(inbox[d]) + 1
  OBVIOUS
<1>6. /\ inbox'[d][n] = x /\ DOMAIN inbox'[d] = DOMAIN inbox[d] \cup {n}
      /\ \A i \in DOMAIN inbox[d] : inbox'[d][i] = inbox[d][i] /\ i < n
  <2>1. Len(inbox[d]) \in Nat /\ DOMAIN inbox[d] = 1..Len(inbox[d])
    BY <1>4, QueueParts
  <2>2. /\ DOMAIN Append(inbox[d], x) = 1..(Len(inbox[d]) + 1)
        /\ Append(inbox[d], x)[Len(inbox[d]) + 1] = x
        /\ \A i \in DOMAIN inbox[d] : Append(inbox[d], x)[i] = inbox[d][i]
    BY <1>4, QueueParts
  <2>3. 1..(Len(inbox[d]) + 1) = 1..Len(inbox[d]) \cup {Len(inbox[d]) + 1}
    BY <2>1
  <2>4. \A i \in 1..Len(inbox[d]) : i < Len(inbox[d]) + 1
    BY <2>1
  <2>5. QED
    BY <1>4, <1>5, <2>1, <2>2, <2>3, <2>4
<1>7. AllFound'
  <2> SUFFICES ASSUME NEW u \in Task
               PROVE  /\ stage'[u] = "travelling" =>
                           \E i \in DOMAIN inbox'[Dest(u)] : inbox'[Dest(u)][i] = u
                      /\ stage'[u] \in {"received", "unwelcome"} => receiving[Dest(u)] = u
    BY DEF AllFound, Found, Dest
  <2>1. CASE u = x
    BY <1>1, <1>3, <1>6, <2>1
  <2>2. CASE u # x
    <3>1. Found(u) /\ stage'[u] = stage[u] /\ Dest(u) \in Proc
      BY <1>3, <2>2, Destinations DEF AllFound
    <3>2. CASE Dest(u) = d
      BY <1>6, <3>1, <3>2 DEF Found
    <3>3. CASE Dest(u) # d
      BY <1>4, <3>1, <3>3 DEF Found
    <3>4. QED
      BY <3>2, <3>3
  <2>3. QED
    BY <2>1, <2>2
<1>8. Timely'
  <2> SUFFICES ASSUME NEW t \in User \ late', stage'[t] \in {"travelling", "received", "unwelcome"}
               PROVE  Fenced(t)'
    BY DEF Timely, UnderWay
  <2>1. /\ t \in User \ late /\ t \in Task /\ Fence(t) \in Task /\ Fence(t) \notin User
        /\ UserProc[t] \in Proc /\ Dest(t) = UserProc[t] /\ Dest(Fence(t)) = UserProc[t]
    BY FenceOf
  <2>2. Fenced(t) /\ (t = x => stage[Fence(t)] = "new")
    <3>1. CASE t = x
      BY <3>1
    <3>2. CASE t # x
      BY <1>3, <2>1, <3>2 DEF Timely, UnderWay
    <3>3. QED
      BY <3>1, <3>2
  <2>3. CASE Fence(t) = x
    <3>1. d = UserProc[t] /\ t # x
      BY <1>1, <2>1, <2>3
    <3>2. Behind(inbox'[d], t, x)
      <4> SUFFICES ASSUME NEW i \in DOMAIN inbox'[d], NEW j \in DOMAIN inbox'[d],
                          inbox'[d][i] = t, inbox'[d][j] = x
                   PROVE  i < j
        BY DEF Behind
      <4>1. i # n /\ i \in DOMAIN inbox[d]
        BY <1>6, <3>1
      <4>2. j \notin DOMAIN inbox[d]
        <5>1. \A k \in DOMAIN inbox[d] : stage[inbox[d][k]] = "travelling"
          BY DEF Mail, InboxTravels
        <5>2. \A k \in DOMAIN inbox[d] : inbox'[d][k] # x
          BY <1>6, <5>1 DEF UnderWay
        <5>3. QED
          BY <5>2
      <4>3. QED
        BY <1>6, <4>1, <4>2
    <3>3. QED
      BY <1>3, <2>2, <2>3, <3>1, <3>2 DEF Fenced, Fence, From, Confirm, Shut
  <2>4. CASE Fence(t) # x
    <3>1. stage'[Fence(t)] = stage[Fence(t)]
      BY <1>3, <2>1, <2>4
    <3>2. stage[Fence(t)] = "travelling" =>
            Behind(inbox'[UserProc[t]], t, Fence(t))
      <4> SUFFICES ASSUME stage[Fence(t)] = "travelling",
                          NEW i \in DOMAIN inbox'[UserProc[t]], NEW j \in DOMAIN inbox'[UserProc[t]],
                          inbox'[UserProc[t]][i] = t, inbox'[UserProc[t]][j] = Fence(t)
                   PROVE  i < j
        BY DEF Behind
      <4>1. t # x /\ Behind(inbox[UserProc[t]], t, Fence(t))
        BY <2>2 DEF Fenced
      <4>2. CASE UserProc[t] = d
        <5>1. i \in DOMAIN inbox[d] /\ j \in DOMAIN inbox[d]
          BY <1>6, <2>4, <4>1, <4>2
        <5>2. inbox[d][i] = t /\ inbox[d][j] = Fence(t)
          BY <1>6, <4>2, <5>1
        <5>3. QED
          BY <4>1, <4>2, <5>1, <5>2 DEF Behind
      <4>3. CASE UserProc[t] # d
        BY <1>4, <2>1, <4>1, <4>3 DEF Behind
      <4>4. QED
        BY <4>2, <4>3
    <3>3. QED
      BY <2>2, <3>1, <3>2 DEF Fenced, Fence, From, Confirm, Shut
  <2>5. QED
    BY <2>3, <2>4
<1>9. QED
  BY <1>7, <1>8

\* The first task of an inbox is received: a task that was sent in time is
\* received before the one that comes after it.
LEMMA ReceiveKeepsTimely ==
    ASSUME SettleInv, NEW p \in Proc, inbox[p] # <<>>, receiving[p] = NoTask,
           NEW h, h = Head(inbox[p]),
           NEW s \in {"queued", "received", "unwelcome"}, ToStage(h, s),
           inbox' = [inbox EXCEPT ![p] = Tail(inbox[p])],
           \/ UNCHANGED receiving /\ s = "queued"
           \/ receiving' = [receiving EXCEPT ![p] = h],
           UNCHANGED late
    PROVE  AllFound' /\ Timely'
<1> USE DEF SettleInv, EndInv, Settling
<1>1. /\ inbox[p] \in Seq(Task) /\ 1 \in DOMAIN inbox[p] /\ h = inbox[p][1]
      /\ \A i \in DOMAIN Tail(inbox[p]) : /\ i \in Nat \ {0} /\ i + 1 \in DOMAIN inbox[p]
                                          /\ Tail(inbox[p])[i] = inbox[p][i + 1]
  <2>1. inbox[p] \in Seq(Task)
    BY Values
  <2>2. QED
    BY <2>1, QueueParts
<1>2. h \in Task /\ stage[h] = "travelling" /\ Dest(h) = p
  BY <1>1, Values DEF Mail, InboxTravels
<1>3. stage'[h] = s /\ \A u \in Task \ {h} : stage'[u] = stage[u]
  BY <1>2, StageMoves
<1>4. /\ inbox'[p] = Tail(inbox[p]) /\ \A q \in Proc \ {p} : inbox'[q] = inbox[q]
      /\ \A q \in Proc \ {p} : receiving'[q] = receiving[q]
      /\ s # "queued" => receiving'[p] = h
  BY Values
<1>5. ASSUME NEW i \in DOMAIN inbox[p], i # 1
      PROVE  \E j \in DOMAIN inbox'[p] : inbox'[p][j] = inbox[p][i]
  <2>1. DOMAIN inbox[p] = 1..Len(inbox[p]) /\ Len(inbox[p]) \in Nat
    BY <1>1, QueueParts
  <2>2. Len(Tail(inbox[p])) = Len(inbox[p]) - 1 /\ Tail(inbox[p]) \in Seq(Task)
    BY <1>1, HeadTailProperties
  <2>3. DOMAIN Tail(inbox[p]) = 1..(Len(inbox[p]) - 1)
    BY <2>2, LenProperties
  <2>4. i - 1 \in DOMAIN Tail(inbox[p]) /\ (i - 1) + 1 = i
    BY <1>5, <2>1, <2>3
  <2>5. QED
    BY <1>1, <1>4, <2>4
<1>6. AllFound'
  <2> SUFFICES ASSUME NEW u \in Task
               PROVE  /\ stage'[u] = "travelling" =>
                           \E i \in DOMAIN inbox'[Dest(u)] : inbox'[Dest(u)][i] = u
                      /\ stage'[u] \in {"received", "unwelcome"} => receiving'[Dest(u)] = u
    BY DEF AllFound, Found, Dest
  <2>1. CASE u = h
    BY <1>2, <1>3, <1>4, <2>1
  <2>2. CASE u # h
    <3>1. Found(u) /\ stage'[u] = stage[u] /\ Dest(u) \in Proc
      BY <1>3, <2>2, Destinations DEF AllFound
    <3>2. CASE Dest(u) = p
      <4>1. u # NoTask
        BY TaskAssumption DEF Task
      <4>2. stage[u] \notin {"received", "unwelcome"}
        BY <3>1, <3>2, <4>1 DEF Found
      <4>3. ASSUME NEW i \in DOMAIN inbox[p], inbox[p][i] = u
            PROVE  \E j \in DOMAIN inbox'[p] : inbox'[p][j] = u
        <5>1. i # 1
          BY <1>1, <2>2, <4>3
        <5>2. QED
          BY <1>5, <4>3, <5>1
      <4>4. QED
        BY <3>1, <3>2, <4>2, <4>3 DEF Found
    <3>3. CASE Dest(u) # p
      BY <1>4, <3>1, <3>3 DEF Found
    <3>4. QED
      BY <3>2, <3>3
  <2>3. QED
    BY <2>1, <2>2
<1>7. Timely'
  <2> SUFFICES ASSUME NEW t \in User \ late, stage'[t] \in {"travelling", "received", "unwelcome"}
               PROVE  Fenced(t)'
    BY DEF Timely, UnderWay
  <2>1. /\ t \in Task /\ Fence(t) \in Task /\ Fence(t) # t
        /\ UserProc[t] \in Proc /\ Dest(t) = UserProc[t] /\ Dest(Fence(t)) = UserProc[t]
    BY FenceOf
  <2>2. UnderWay(t)
    BY <1>2, <1>3, <2>1 DEF UnderWay
  <2>3. Fenced(t)
    BY <2>2 DEF Timely
  <2>4. Fence(t) # h
    <3> SUFFICES ASSUME Fence(t) = h PROVE FALSE
      OBVIOUS
    <3>1. UserProc[t] = p /\ Behind(inbox[p], t, h)
      BY <1>2, <2>1, <2>3 DEF Fenced
    <3>2. \A i \in DOMAIN inbox[p] : inbox[p][i] # t
      <4> SUFFICES ASSUME NEW i \in DOMAIN inbox[p], inbox[p][i] = t PROVE FALSE
        OBVIOUS
      <4>1. i < 1
        BY <1>1, <3>1 DEF Behind
      <4>2. i \in 1..Len(inbox[p]) /\ Len(inbox[p]) \in Nat
        BY <1>1, QueueParts
      <4>3. QED
        BY <4>1, <4>2
    <3>3. receiving[p] # t
      BY <2>1, TaskAssumption DEF Task
    <3>4. QED
      BY <2>1, <2>2, <3>1, <3>2, <3>3 DEF AllFound, Found, UnderWay
  <2>5. stage'[Fence(t)] = stage[Fence(t)]
    BY <1>3, <2>1, <2>4
  <2>6. stage[Fence(t)] = "travelling" => Behind(inbox'[UserProc[t]], t, Fence(t))
    <3> SUFFICES ASSUME stage[Fence(t)] = "travelling",
                        NEW i \in DOMAIN inbox'[UserProc[t]], NEW j \in DOMAIN inbox'[UserProc[t]],
                        inbox'[UserProc[t]][i] = t, inbox'[UserProc[t]][j] = Fence(t)
                 PROVE  i < j
      BY DEF Behind
    <3>1. Behind(inbox[UserProc[t]], t, Fence(t))
      BY <2>3 DEF Fenced
    <3>2. CASE UserProc[t] = p
      <4>1. /\ i \in Nat /\ j \in Nat /\ i + 1 \in DOMAIN inbox[p] /\ j + 1 \in DOMAIN inbox[p]
            /\ inbox[p][i + 1] = t /\ inbox[p][j + 1] = Fence(t)
        <5>1. /\ i \in DOMAIN Tail(inbox[p]) /\ j \in DOMAIN Tail(inbox[p])
              /\ Tail(inbox[p])[i] = t /\ Tail(inbox[p])[j] = Fence(t)
          BY <1>4, <3>2
        <5>2. QED
          BY <1>1, <5>1
      <4>2. i + 1 < j + 1
        BY <3>1, <3>2, <4>1 DEF Behind
      <4>3. QED
        BY <4>1, <4>2
    <3>3. CASE UserProc[t] # p
      BY <1>4, <2>1, <3>1, <3>3 DEF Behind
    <3>4. QED
      BY <3>2, <3>3
  <2>7. QED
    BY <2>3, <2>5, <2>6 DEF Fenced, Fence, From, Confirm, Shut
<1>8. QED
  BY <1>6, <1>7

\* A task in hand goes to the queue, or is deleted.
LEMMA EndReceiveKeepsTimely ==
    ASSUME SettleInv, NEW p \in Proc, EndReceive(p)
    PROVE  AllFound' /\ Timely'
<1> USE DEF SettleInv, EndInv, Settling
<1>1. PICK x : x = receiving[p]
  OBVIOUS
<1>2. x \in Task /\ x \in User /\ stage[x] \in {"received", "unwelcome"}
  BY <1>1, Values DEF EndReceive, Mail, InHand
<1>3. /\ stage'[x] \in {"queued", "deleted"} /\ \A u \in Task \ {x} : stage'[u] = stage[u]
  <2>1. \E s \in {"queued", "deleted"} : ToStage(x, s)
    BY <1>1 DEF EndReceive
  <2>2. QED
    BY <1>2, <2>1, StageMoves
<1>4. /\ UNCHANGED <<inbox, late>> /\ \A q \in Proc \ {p} : receiving'[q] = receiving[q]
  BY Values DEF EndReceive
<1>5. AllFound'
  <2> SUFFICES ASSUME NEW u \in Task
               PROVE  /\ stage'[u] = "travelling" =>
                           \E i \in DOMAIN inbox[Dest(u)] : inbox[Dest(u)][i] = u
                      /\ stage'[u] \in {"received", "unwelcome"} => receiving'[Dest(u)] = u
    BY <1>4 DEF AllFound, Found, Dest
  <2>1. CASE u = x
    BY <1>3, <2>1
  <2>2. CASE u # x
    <3>1. Found(u) /\ stage'[u] = stage[u] /\ Dest(u) \in Proc
      BY <1>3, <2>2, Destinations DEF AllFound
    <3>2. stage[u] \in {"received", "unwelcome"} => Dest(u) # p
      BY <1>1, <2>2, <3>1 DEF Found
    <3>3. QED
      BY <1>4, <3>1, <3>2 DEF Found
  <2>3. QED
    BY <2>1, <2>2
<1>6. Timely'
  <2> SUFFICES ASSUME NEW t \in User \ late, stage'[t] \in {"travelling", "received", "unwelcome"}
               PROVE  Fenced(t)'
    BY <1>4 DEF Timely, UnderWay
  <2>1. t \in Task /\ Fence(t) \in Task /\ Fence(t) \notin User
    BY FenceOf
  <2>2. Fenced(t)
    BY <1>3, <2>1 DEF Timely, UnderWay
  <2>3. stage'[Fence(t)] = stage[Fence(t)]
    BY <1>2, <1>3, <2>1
  <2>4. QED
    BY <1>4, <2>2, <2>3 DEF Fenced, Behind, Fence, From, Confirm, Shut
<1>7. QED
  BY <1>5, <1>6

\* A task that is sent when its processor has not stopped sending is sent before
\* the one that comes after it; to a processor that has left, none is.
LEMMA SubmitKeepsSettling ==
    ASSUME SettleInv, NEW x \in Task, Submit(x) PROVE Settling'
<1> USE DEF SettleInv, EndInv, Settling
<1>1. UNCHANGED <<stopSending, keepGoing, state, receiving, confirmed, last>>
      /\ late \subseteq late' /\ stage[x] \in {"new", "submitting", "refused"}
  BY DEF Submit, SubmitTermination, BeginSubmit, EndSubmit
<1>2. ~UnderWay(x)
  BY <1>1 DEF UnderWay
<1>3. ASSUME NEW s, ToStage(x, s), ~Runs(x),
             x \in User \ late' /\ s \in {"queued", "executing"} => state[UserProc[x]] = "running"
      PROVE  LeftToldTo' /\ ToldByTask' /\ LeftEmpty'
  BY <1>1, <1>3, MoveKeepsLeft
<1>4. ~Runs(x)
  BY <1>1 DEF Runs
<1>5. CASE SubmitTermination(x)
  <2>1. x \in TerminationTask /\ x \notin User /\ stage[x] = "new" /\ Dispatch(x)
    BY <1>5, TaskAssumption DEF SubmitTermination
  <2>2. \E s \in {"queued", "travelling"} : ToStage(x, s)
    BY <2>1 DEF Dispatch
  <2>3. LeftToldTo' /\ ToldByTask' /\ LeftEmpty'
    BY <1>3, <1>4, <2>1, <2>2
  <2>4. CASE Dest(x) = Origin(x)
    <3>1. ASSUME NEW t \in User \ late, UnderWay(t) PROVE x # Fence(t)
      <4>1. From(t) # UserProc[t]
        BY <3>1 DEF Timely, Fenced
      <4>2. Dest(Fence(t)) # Origin(Fence(t))
        BY <4>1, FenceOf
      <4>3. QED
        BY <2>4, <4>2
    <3>2. ToStage(x, "queued") /\ UNCHANGED inbox
      BY <2>1, <2>4 DEF Dispatch
    <3>3. AllFound' /\ Timely'
      BY <1>1, <1>2, <3>1, <3>2, MoveKeepsTimely
    <3>4. QED
      BY <2>3, <3>3
  <2>5. CASE Dest(x) # Origin(x)
    <3>1. AllFound' /\ Timely'
      BY <1>1, <1>2, <2>1, <2>5, SendKeepsTimely
    <3>2. QED
      BY <2>3, <3>1
  <2>6. QED
    BY <2>4, <2>5
<1>6. CASE BeginSubmit(x)
  <2>1. x \notin TerminationTask /\ UNCHANGED inbox
        /\ \E s \in {"refused", "submitting"} : ToStage(x, s)
    BY <1>6, TaskAssumption DEF BeginSubmit
  <2>2. AllFound' /\ Timely'
    BY <1>1, <1>2, <2>1, MoveKeepsTimely
  <2>3. LeftToldTo' /\ ToldByTask' /\ LeftEmpty'
    BY <1>3, <1>4, <2>1
  <2>4. QED
    BY <2>2, <2>3
<1>7. CASE EndSubmit(x)
  <2>1. x \notin TerminationTask /\ x \in User
    BY <1>7 DEF EndSubmit, Ending, TerminationStages, Task
  <2>2. CASE stage[x] = "refused"
    <3>1. ToStage(x, "deleted") /\ UNCHANGED inbox
      BY <1>7, <2>2 DEF EndSubmit
    <3>2. AllFound' /\ Timely'
      BY <1>1, <1>2, <2>1, <3>1, MoveKeepsTimely
    <3>3. LeftToldTo' /\ ToldByTask' /\ LeftEmpty'
      BY <1>3, <1>4, <3>1
    <3>4. QED
      BY <3>2, <3>3
  <2>3. CASE stage[x] = "submitting"
    <3>1. Dispatch(x) /\ (x \in User \ late' => ~stopSending[Origin(x)])
      <4>1. Dispatch(x) /\ late' = IF stopSending[Origin(x)] THEN late \cup {x} ELSE late
        BY <1>7, <2>3 DEF EndSubmit
      <4>2. QED
        BY <4>1
    <3>2. /\ Dest(x) = UserProc[x] /\ Origin(x) = From(x) /\ From(x) \in Proc
          /\ UserProc[x] \in Proc
      BY <2>1, FenceOf
    <3>3. ASSUME x \in User \ late' PROVE last = NoTask /\ ~Exists(Confirm(From(x)))
      BY <3>1, <3>2, <3>3 DEF Chain, LastFoundAll, ConfirmsStand
    <3>4. CASE Dest(x) = Origin(x)
      <4>1. ToStage(x, "queued") /\ UNCHANGED inbox
        BY <3>1, <3>4 DEF Dispatch
      <4>2. x \in User \ late' => state[UserProc[x]] = "running"
        BY <3>2, <3>3 DEF LeftToldTo, Ending, LeavesAfterLast
      <4>3. LeftToldTo' /\ ToldByTask' /\ LeftEmpty'
        BY <1>3, <1>4, <4>1, <4>2
      <4>4. AllFound' /\ Timely'
        BY <1>1, <1>2, <2>1, <4>1, MoveKeepsTimely
      <4>5. QED
        BY <4>3, <4>4
    <3>5. CASE Dest(x) # Origin(x)
      <4>1. ToStage(x, "travelling")
        BY <3>1, <3>5 DEF Dispatch
      <4>2. LeftToldTo' /\ ToldByTask' /\ LeftEmpty'
        BY <1>3, <1>4, <4>1
      <4>3. x \in User \ late' => stage[Fence(x)] = "new"
        BY <3>2, <3>3 DEF Fence, Exists, Chain, ShutsFromLast
      <4>4. x \in User \ late' => Fenced(x)
        BY <3>2, <3>5, <4>3 DEF Fenced
      <4>5. AllFound' /\ Timely'
        BY <1>1, <1>2, <2>1, <3>1, <3>5, <4>3, <4>4, SendKeepsTimely
      <4>6. QED
        BY <4>2, <4>5
    <3>6. QED
      BY <3>4, <3>5
  <2>4. QED
    BY <1>7, <2>2, <2>3 DEF EndSubmit
<1>8. QED
  BY <1>5, <1>6, <1>7 DEF Submit

\* A processor that has left has nothing in hand that was sent in time.
LEMMA ReceiveKeepsSettling ==
    ASSUME SettleInv, NEW p \in Proc, ServiceThread(p) PROVE Settling'
<1> USE DEF SettleInv, EndInv, Settling
<1>1. UNCHANGED <<keepGoing, state, late>>
  BY DEF ServiceThread, ReceiveTermination, BeginReceive, EndReceive
<1>2. ASSUME NEW x \in Task, NEW s \in {"queued", "received", "unwelcome", "deleted"},
             ToStage(x, s), UnderWay(x), x \in User => UserProc[x] = p
      PROVE  LeftToldTo' /\ ToldByTask' /\ LeftEmpty'
  <2>1. ~Runs(x)
    BY <1>2 DEF UnderWay, Runs
  <2>2. x \in User \ late => state[p] = "running"
    BY <1>2, NothingUnderWay DEF LeftToldTo
  <2>3. QED
    BY <1>1, <1>2, <2>1, <2>2, MoveKeepsLeft
<1>3. CASE ReceiveTermination(p) \/ BeginReceive(p)
  <2>1. PICK h : h = Head(inbox[p])
    OBVIOUS
  <2>2. PICK s \in {"queued", "received", "unwelcome"} :
          /\ ToStage(h, s)
          /\ \/ UNCHANGED receiving /\ s = "queued"
             \/ receiving' = [receiving EXCEPT ![p] = h]
    BY <1>3, <2>1 DEF ReceiveTermination, BeginReceive
  <2>3. inbox[p] # <<>> /\ receiving[p] = NoTask /\ inbox' = [inbox EXCEPT ![p] = Tail(inbox[p])]
    BY <1>3 DEF ReceiveTermination, BeginReceive, Arrived
  <2>4. AllFound' /\ Timely'
    BY <1>1, <2>1, <2>2, <2>3, ReceiveKeepsTimely
  <2>5. h \in Task /\ UnderWay(h) /\ Dest(h) = p
    <3>1. inbox[p] \in Seq(Task)
      BY Values
    <3>2. 1 \in DOMAIN inbox[p] /\ h = inbox[p][1]
      BY <2>1, <2>3, <3>1, QueueParts
    <3>3. QED
      BY <3>2, Values DEF Mail, InboxTravels, UnderWay
  <2>6. h \in User => UserProc[h] = p
    BY <2>5, FenceOf
  <2>7. LeftToldTo' /\ ToldByTask' /\ LeftEmpty'
    BY <1>2, <2>2, <2>5, <2>6
  <2>8. QED
    BY <2>4, <2>7
<1>4. CASE EndReceive(p)
  <2>1. PICK x : x = receiving[p]
    OBVIOUS
  <2>2. x \in Task /\ x \in User /\ UnderWay(x) /\ Dest(x) = p
    BY <1>4, <2>1, Values DEF EndReceive, Mail, InHand, UnderWay
  <2>3. \E s \in {"queued", "deleted"} : ToStage(x, s)
    BY <1>4, <2>1 DEF EndReceive
  <2>4. UserProc[x] = p
    BY <2>2, FenceOf
  <2>5. LeftToldTo' /\ ToldByTask' /\ LeftEmpty'
    BY <1>2, <2>2, <2>3, <2>4
  <2>6. QED
    BY <1>4, <2>5, EndReceiveKeepsTimely
<1>5. QED
  BY <1>3, <1>4 DEF ServiceThread

\* Nothing is started on a processor that has left.
LEMMA RunKeepsSettling ==
    ASSUME SettleInv,
           \/ \E t \in Task : Finish(t)
           \/ \E t \in User : ExecuteUser(t)
           \/ \E p \in Proc : Execute(p)
    PROVE  Settling'
<1> USE DEF SettleInv, EndInv, Settling
<1>1. UNCHANGED <<inbox, receiving, state, late>>
  BY DEF Finish, ExecuteUser, Execute, ExecuteStop, ExecuteConfirm, ExecuteShutdown
<1>2. ASSUME NEW x \in Task, NEW s \in {"executing", "finished"}, ToStage(x, s),
             stage[x] \in {"queued", "executing"},
             s = "executing" => state[Dest(x)] = "running",
             \A p \in Proc : ~keepGoing[p] => ~keepGoing'[p],
             \A p \in Proc : ~keepGoing'[p] => ~keepGoing[p] \/ (x = Shut(p) /\ s = "executing")
      PROVE  Settling'
  <2>1. AllFound' /\ Timely'
    BY <1>1, <1>2, MoveKeepsTimely DEF UnderWay
  <2>2. x \in User \ late' /\ s \in {"queued", "executing"} => state[UserProc[x]] = "running"
    BY <1>2, FenceOf
  <2>3. LeftToldTo' /\ ToldByTask' /\ LeftEmpty'
    BY <1>1, <1>2, <2>2, MoveKeepsLeft
  <2>4. QED
    BY <2>1, <2>3
<1>3. ASSUME NEW t \in Task, Finish(t) PROVE Settling'
  <2>1. stage[t] = "executing" /\ ToStage(t, "finished") /\ UNCHANGED keepGoing
    BY <1>3 DEF Finish
  <2>2. QED
    BY <1>2, <2>1
<1>4. ASSUME NEW t \in User, ExecuteUser(t) PROVE Settling'
  <2>1. /\ stage[t] = "queued" /\ ToStage(t, "executing") /\ state[Dest(t)] = "running"
        /\ UNCHANGED keepGoing /\ t \in Task
    BY <1>4 DEF ExecuteUser, Start, Task
  <2>2. QED
    BY <1>2, <2>1
<1>5. ASSUME NEW p \in Proc, ExecuteStop(p) \/ ExecuteConfirm(p) PROVE Settling'
  <2>1. \E t \in {Stop(p), Confirm(p)} :
          stage[t] = "queued" /\ ToStage(t, "executing") /\ state[Dest(t)] = "running"
    BY <1>5 DEF ExecuteStop, ExecuteConfirm, Start
  <2>2. Stop(p) \in Task /\ Confirm(p) \in Task
    BY TerminationTasks
  <2>3. UNCHANGED keepGoing
    BY <1>5 DEF ExecuteStop, ExecuteConfirm
  <2>4. QED
    BY <1>2, <2>1, <2>2, <2>3
<1>6. ASSUME NEW p \in Proc, ExecuteShutdown(p) PROVE Settling'
  <2>1. /\ stage[Shut(p)] = "queued" /\ ToStage(Shut(p), "executing")
        /\ state[Dest(Shut(p))] = "running" /\ Shut(p) \in Task
    BY <1>6, TerminationTasks DEF ExecuteShutdown, Start
  <2>2. /\ \A q \in Proc : ~keepGoing[q] => ~keepGoing'[q]
        /\ \A q \in Proc : ~keepGoing'[q] => ~keepGoing[q] \/ q = p
    BY <1>6 DEF ExecuteShutdown, Chain, FlagTypes
  <2>3. QED
    BY <1>2, <2>1, <2>2
<1>7. QED
  BY <1>3, <1>4, <1>5, <1>6 DEF Execute

\* A processor leaves with nothing in its queues.
LEMMA EndKeepsSettling ==
    ASSUME SettleInv, NEW p \in Proc, End(p) PROVE Settling'
<1> USE DEF SettleInv, EndInv, Settling
<1>1. UNCHANGED <<keepGoing, inbox, receiving, stage, late>>
  BY DEF End, Leave, Close
<1>2. AllFound' /\ Timely'
  BY <1>1 DEF AllFound, Found, Dest, Timely, UnderWay, Fenced, Behind, Fence, From, Confirm, Shut
<1>3. ToldByTask'
  BY <1>1 DEF ToldByTask, Runs, Shut
<1>4. \A q \in Proc \ {p} : state'[q] = state[q]
  BY DEF End, Leave, Close, Ending
<1>5. state[p] # "running" \/ NothingToDo(p)
  BY DEF End, Leave, Close
<1>6. LeftToldTo'
  BY <1>1, <1>4, <1>5 DEF LeftToldTo, NothingToDo
<1>7. LeftEmpty'
  <2> SUFFICES ASSUME NEW t \in User \ late, state'[UserProc[t]] # "running"
               PROVE  stage[t] \notin {"queued", "executing"}
    BY <1>1 DEF LeftEmpty
  <2>1. t \in Task /\ Dest(t) = UserProc[t] /\ UserProc[t] \in Proc
    BY FenceOf
  <2>2. CASE UserProc[t] = p
    BY <1>5, <2>1, <2>2 DEF LeftEmpty, NothingToDo
  <2>3. CASE UserProc[t] # p
    BY <1>4, <2>1, <2>3 DEF LeftEmpty
  <2>4. QED
    BY <2>2, <2>3
<1>8. QED
  BY <1>2, <1>3, <1>6, <1>7

\* A task that was sent in time is settled when its processor closes, in every
\* state.
THEOREM NobodyLeftBehind == Spec => []TimelyTasksAreSettled
<1>1. Init => Settling
  <2> SUFFICES ASSUME Init PROVE Settling
    OBVIOUS
  <2>1. User \subseteq Task
    BY DEF Task
  <2>2. \A t \in User : UserProc[t] \in Proc
    BY UserAssumption
  <2>3. QED
    BY <2>1, <2>2 DEF Init, Settling, AllFound, Found, Timely, UnderWay, LeftToldTo, ToldByTask, LeftEmpty
<1>2. Settling /\ EndInv /\ [Next]_vars => Settling'
  <2> SUFFICES ASSUME SettleInv, [Next]_vars PROVE Settling'
    BY DEF SettleInv
  <2>1. CASE UNCHANGED vars
    BY <2>1 DEF vars, SettleInv, Settling, AllFound, Found, Dest, Timely, UnderWay, Fenced, Behind,
                Fence, From, Confirm, Shut, LeftToldTo, ToldByTask, Runs, LeftEmpty
  <2>2. CASE Next
    BY <2>2, SubmitKeepsSettling, ReceiveKeepsSettling, RunKeepsSettling, EndKeepsSettling DEF Next
  <2>3. QED
    BY <2>1, <2>2
<1>3. Settling /\ EndInv => TimelyTasksAreSettled
  <2> SUFFICES ASSUME SettleInv, NEW t \in User \ late, state[Dest(t)] = "closed"
               PROVE  stage[t] \notin {"travelling", "received", "unwelcome", "queued", "executing"}
    BY DEF SettleInv, TimelyTasksAreSettled
  <2>1. Dest(t) = UserProc[t] /\ UserProc[t] \in Proc
    BY FenceOf
  <2>2. ~keepGoing[UserProc[t]]
    BY <2>1 DEF SettleInv, Settling, LeftToldTo
  <2>3. ~UnderWay(t)
    BY <2>2, NothingUnderWay
  <2>4. stage[t] \notin {"queued", "executing"}
    BY <2>1 DEF SettleInv, Settling, LeftEmpty
  <2>5. QED
    BY <2>3, <2>4 DEF UnderWay
<1>4. QED
  BY <1>1, <1>2, <1>3, EndHolds, PTL DEF Spec
=============================================================================
