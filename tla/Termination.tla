---------------------------- MODULE Termination ----------------------------
(***************************************************************************)
(* The shutdown of an environment of several processors                    *)
(* (ShutDownEnvironment, class OOPTerminationTask): a stop task for every  *)
(* processor, whose execution confirms to the processor that began, which  *)
(* sends everyone a shutdown task when all have confirmed.  Meanwhile the  *)
(* tasks of the application are submitted, sent, received and executed.    *)
(*                                                                         *)
(* Threads that interleave: on every processor the task manager's service  *)
(* thread, the communication manager's thread (class                       *)
(* OOPInternalCommunicationManager, whose queues are in shared memory) and *)
(* the executor threads of its tasks.  The tasks here wait for no object;  *)
(* what one service thread does round by round is in module TaskManager.   *)
(*                                                                         *)
(* Definitions named Bug... are faults seeded into the definition that     *)
(* follows them, to see the properties fail; nothing uses them otherwise.  *)
(***************************************************************************)
EXTENDS Integers, Sequences, FiniteSets

CONSTANTS
    Proc,        \* processor numbers
    Root,        \* the processor that shuts the environment down, fProcOrigin
    User,        \* tasks of the application
    Main,        \* the thread that submits the first of them, on Root
    NoTask,      \* nobody
    UserParent,  \* Main, or the task whose Execute submits the task
    UserProc     \* processor the task is submitted for

ASSUME ProcAssumption == Proc \subseteq Nat /\ IsFiniteSet(Proc) /\ Root \in Proc
ASSUME UserAssumption == /\ UserParent \in [User -> User \cup {Main}]
                         /\ UserProc \in [User -> Proc]

\* OOPTerminationTask: its fStatus, and the processor it is about
TerminationTask == [status : {"stop", "confirm", "shutdown"}, proc : Proc]
ASSUME TaskAssumption == /\ User \cap TerminationTask = {}
                         /\ Main \notin User \cup TerminationTask
                         /\ NoTask \notin User \cup TerminationTask \cup {Main}

Task == User \cup TerminationTask
Stop(p) == [status |-> "stop", proc |-> p]
Confirm(p) == [status |-> "confirm", proc |-> p]
Shut(p) == [status |-> "shutdown", proc |-> p]

VARIABLES
    stopSending,  \* fStopSending of each task manager
    keepGoing,    \* fKeepGoing of each task manager
    state,        \* of its service thread, and then of the communication manager
    inbox,        \* fReceived of each communication manager
    receiving,    \* the task its thread is submitting
    confirmed,    \* fConfirmedProcessors of Root
    last,         \* the task that found all processors confirmed
    stage,        \* of a task
    late          \* ghost: tasks sent when their sender had stopped sending

vars == <<stopSending, keepGoing, state, inbox, receiving, confirmed, last, stage, late>>

Stage == {"new", "submitting", "refused", "travelling", "received", "unwelcome",
          "queued", "executing", "finished", "deleted"}
TypeOK == /\ stopSending \in [Proc -> BOOLEAN]
          /\ keepGoing \in [Proc -> BOOLEAN]
          /\ state \in [Proc -> {"running", "left", "closed"}]
          /\ inbox \in [Proc -> Seq(Task)]
          /\ receiving \in [Proc -> User \cup {NoTask}]
          /\ confirmed \subseteq Proc
          /\ last \in TerminationTask \cup {NoTask}
          /\ stage \in [Task -> Stage]
          /\ late \subseteq User

Init == /\ stopSending = [p \in Proc |-> FALSE]
        /\ keepGoing = [p \in Proc |-> TRUE]
        /\ state = [p \in Proc |-> "running"]
        /\ inbox = [p \in Proc |-> <<>>]
        /\ receiving = [p \in Proc |-> NoTask]
        /\ confirmed = {} /\ last = NoTask
        /\ stage = [t \in Task |-> "new"]
        /\ late = {}

\* The task's processor, and the one it is submitted on
Dest(t) == IF t \in User THEN UserProc[t]
           ELSE IF t.status = "confirm" THEN Root ELSE t.proc
Parent(t) == CASE t \in User -> UserParent[t]
               [] t \notin User /\ t.status = "stop" -> Main
               [] t \notin User /\ t.status = "confirm" -> Stop(t.proc)
               [] t \notin User /\ t.status = "shutdown" -> last
Origin(t) == IF t \in TerminationTask /\ t.status # "confirm" THEN Root
             ELSE IF Parent(t) = Main THEN Root ELSE Dest(Parent(t))

Submitted(t) == stage[t] \notin {"new", "submitting", "refused"}
ToStage(t, s) == stage' = [stage EXCEPT ![t] = s]

-----------------------------------------------------------------------------
(* Submit, in a thread of the application or of a task                     *)

\* Main submits its tasks, then the stop tasks from the last processor down;
\* the shutdown tasks go out from the first processor up
MaySubmit(t) ==
    \/ t \in User /\ Parent(t) = Main
    \/ /\ Parent(t) \in Task /\ stage[Parent(t)] = "executing"
       /\ t \in TerminationTask /\ t.status = "shutdown" =>
            \A p \in Proc : p < t.proc => Submitted(Shut(p))
    \/ /\ t \in TerminationTask /\ t.status = "stop"
       /\ \A u \in User : UserParent[u] = Main => Submitted(u)
       /\ \A p \in Proc : p > t.proc => Submitted(Stop(p))

BugOvertaking(t) ==
    IF Dest(t) = Origin(t)
    THEN ToStage(t, "queued") /\ UNCHANGED inbox
    ELSE ToStage(t, "travelling") /\ inbox' = [inbox EXCEPT ![Dest(t)] = <<t>> \o @]

\* A task goes to the queue of the processor it is submitted on, or is sent
Dispatch(t) ==
    IF Dest(t) = Origin(t)
    THEN ToStage(t, "queued") /\ UNCHANGED inbox
    ELSE ToStage(t, "travelling") /\ inbox' = [inbox EXCEPT ![Dest(t)] = Append(@, t)]

BugNoOverride(t) ==
    /\ stage[t] = "new" /\ t \in TerminationTask /\ MaySubmit(t)
    /\ IF stopSending[Origin(t)] THEN ToStage(t, "deleted") /\ UNCHANGED inbox
       ELSE Dispatch(t)
    /\ UNCHANGED <<stopSending, keepGoing, state, receiving, confirmed, last, late>>

\* fStopSending does not bind the termination tasks
SubmitTermination(t) ==
    /\ stage[t] = "new" /\ t \in TerminationTask /\ MaySubmit(t)
    /\ Dispatch(t)
    /\ UNCHANGED <<stopSending, keepGoing, state, receiving, confirmed, last, late>>

\* It is read under the lock when the Submit of another task begins ...
BeginSubmit(t) ==
    /\ stage[t] = "new" /\ t \in User /\ MaySubmit(t)
    /\ ToStage(t, IF stopSending[Origin(t)] THEN "refused" ELSE "submitting")
    /\ UNCHANGED <<stopSending, keepGoing, state, inbox, receiving, confirmed, last, late>>

\* ... and what was read then decides at its end
EndSubmit(t) ==
    /\ \/ /\ stage[t] = "submitting"
          /\ Dispatch(t)
          /\ late' = IF stopSending[Origin(t)] THEN late \cup {t} ELSE late
       \/ /\ stage[t] = "refused"
          /\ ToStage(t, "deleted")
          /\ UNCHANGED <<inbox, late>>
    /\ UNCHANGED <<stopSending, keepGoing, state, receiving, confirmed, last>>

-----------------------------------------------------------------------------
(* The communication manager's thread submits what arrives                 *)

Arrived(p) == state[p] # "closed" /\ receiving[p] = NoTask /\ inbox[p] # <<>>

ReceiveTermination(p) ==
    /\ Arrived(p) /\ Head(inbox[p]) \in TerminationTask
    /\ ToStage(Head(inbox[p]), "queued")
    /\ inbox' = [inbox EXCEPT ![p] = Tail(@)]
    /\ UNCHANGED <<stopSending, keepGoing, state, receiving, confirmed, last, late>>

BugAnyTask(p) ==
    /\ Arrived(p)
    /\ ToStage(Head(inbox[p]), IF stopSending[p] THEN "unwelcome" ELSE "received")
    /\ inbox' = [inbox EXCEPT ![p] = Tail(@)]
    /\ receiving' = [receiving EXCEPT ![p] = Head(inbox[p])]
    /\ UNCHANGED <<stopSending, keepGoing, state, confirmed, last, late>>

BeginReceive(p) ==
    /\ Arrived(p) /\ Head(inbox[p]) \in User
    /\ ToStage(Head(inbox[p]), IF stopSending[p] THEN "unwelcome" ELSE "received")
    /\ inbox' = [inbox EXCEPT ![p] = Tail(@)]
    /\ receiving' = [receiving EXCEPT ![p] = Head(inbox[p])]
    /\ UNCHANGED <<stopSending, keepGoing, state, confirmed, last, late>>

EndReceive(p) ==
    /\ receiving[p] # NoTask
    /\ ToStage(receiving[p], IF stage[receiving[p]] = "received" THEN "queued" ELSE "deleted")
    /\ receiving' = [receiving EXCEPT ![p] = NoTask]
    /\ UNCHANGED <<stopSending, keepGoing, state, inbox, confirmed, last, late>>

-----------------------------------------------------------------------------
(* The service thread starts the tasks; their Execute                      *)

Start(t) == /\ stage[t] = "queued" /\ state[Dest(t)] = "running"
            /\ ToStage(t, "executing")

ExecuteUser(t) ==
    /\ Start(t)
    /\ UNCHANGED <<stopSending, keepGoing, state, inbox, receiving, confirmed, last, late>>

ExecuteStop(p) ==
    /\ Start(Stop(p))
    /\ stopSending' = [stopSending EXCEPT ![p] = TRUE]
    /\ UNCHANGED <<keepGoing, state, inbox, receiving, confirmed, last, late>>

BugAnyConfirmation(p) ==
    /\ Start(Confirm(p))
    /\ confirmed' = confirmed \cup {p}
    /\ last' = Confirm(p)
    /\ UNCHANGED <<stopSending, keepGoing, state, inbox, receiving, late>>

\* StopSendingConfirmation: the size of the set is taken under the lock that
\* the insertion takes, so that one task only finds it complete
ExecuteConfirm(p) ==
    /\ Start(Confirm(p))
    /\ confirmed' = confirmed \cup {p}
    /\ last' = IF Cardinality(confirmed') = Cardinality(Proc) THEN Confirm(p) ELSE last
    /\ UNCHANGED <<stopSending, keepGoing, state, inbox, receiving, late>>

ExecuteShutdown(p) ==
    /\ Start(Shut(p))
    /\ keepGoing' = [keepGoing EXCEPT ![p] = FALSE]
    /\ UNCHANGED <<stopSending, state, inbox, receiving, confirmed, last, late>>

\* Execute returns and the thread is joined; a task it submits has gone by then
Finish(t) ==
    /\ stage[t] = "executing"
    /\ \A u \in Task : Parent(u) = t => Submitted(u)
    /\ ToStage(t, "finished")
    /\ UNCHANGED <<stopSending, keepGoing, state, inbox, receiving, confirmed, last, late>>

-----------------------------------------------------------------------------
(* The end of the service thread                                           *)

BugLeaveAtOnce(p) == ~keepGoing[p]

\* ~KeepRunning: fSubmittedList, fTaskList, fExecutable and fExecuting are empty
NothingToDo(p) == /\ ~keepGoing[p]
                  /\ \A t \in Task : Dest(t) = p => stage[t] \notin {"queued", "executing"}
Leave(p) ==
    /\ state[p] = "running" /\ NothingToDo(p)
    /\ state' = [state EXCEPT ![p] = "left"]
    /\ UNCHANGED <<stopSending, keepGoing, inbox, receiving, confirmed, last, stage, late>>

\* It ends the communication manager's thread when that has no task in hand
Close(p) ==
    /\ state[p] = "left" /\ receiving[p] = NoTask
    /\ state' = [state EXCEPT ![p] = "closed"]
    /\ UNCHANGED <<stopSending, keepGoing, inbox, receiving, confirmed, last, stage, late>>

-----------------------------------------------------------------------------
\* The threads of a processor
Submit(t) == SubmitTermination(t) \/ BeginSubmit(t) \/ EndSubmit(t)
Execute(p) == ExecuteStop(p) \/ ExecuteConfirm(p) \/ ExecuteShutdown(p)
ServiceThread(p) == ReceiveTermination(p) \/ BeginReceive(p) \/ EndReceive(p)
End(p) == Leave(p) \/ Close(p)

Next == \/ \E t \in Task : Submit(t) \/ Finish(t)
        \/ \E t \in User : ExecuteUser(t)
        \/ \E p \in Proc : Execute(p) \/ ServiceThread(p) \/ End(p)

\* Every thread runs on, and tasks end.  No step leads back, so that fairness of
\* the whole says as much as fairness of every thread.
Fairness == WF_vars(Next)

Spec == Init /\ [][Next]_vars /\ Fairness

-----------------------------------------------------------------------------
(* Properties                                                              *)

\* The termination tasks implement the two phases of Shutdown: no processor is
\* told to leave while another has not stopped sending, whatever the order in
\* which stop tasks, confirmations and shutdown tasks arrive and execute.
TwoPhases == INSTANCE Shutdown WITH
                 sending <- {p \in Proc : ~stopSending[p]},
                 running <- {p \in Proc : keepGoing[p]}
ShutdownSpec == TwoPhases!Spec

\* The processor that sends the shutdown tasks does not take its managers down
\* before the last of them is out.
RootSendsThemAll ==
    state[Root] # "running" => \A p \in Proc : Submitted(Shut(p))

\* A task that was sent before its sender stopped sending is not left behind: a
\* processor that closes has executed it, or deleted it in Submit, although it
\* did not wait for anything on its way.
TimelyTasksAreSettled ==
    \A t \in User \ late : state[Dest(t)] = "closed" =>
        stage[t] \notin {"travelling", "received", "unwelcome", "queued", "executing"}

\* The shutdown of the environment ends, on every processor.
EveryoneCloses == <>(\A p \in Proc : state[p] = "closed")
=============================================================================
