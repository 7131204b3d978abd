---------------------------- MODULE TaskManager ----------------------------
(***************************************************************************)
(* The task manager of one processor (class OOPTaskManager): its service   *)
(* thread, the executor threads of its tasks (OOPTaskControl), the threads *)
(* that submit tasks and the data manager that grants or refuses what they *)
(* depend on, from the first submission to the end of the service thread.  *)
(* The main thread gets at the objects itself through a wait task          *)
(* (OOPWaitTask), which passes them to it and sleeps until it is done.     *)
(*                                                                         *)
(* The environment has this one processor, so its shutdown is the chain of *)
(* termination tasks stop, confirm, shutdown on it; module Termination has *)
(* the shutdown of many.  Of the data manager only the order of its grants *)
(* is here: one task at a time holds an object, requests for it are served *)
(* in the order they were posted.  Module DataManager has the rest.        *)
(*                                                                         *)
(* Definitions named Bug... are faults seeded into the definition that     *)
(* follows them, to see the properties fail; nothing uses them otherwise.  *)
(***************************************************************************)
EXTENDS Integers, Sequences, FiniteSets, SequencesExt

CONSTANTS
    Task,         \* tasks, the termination tasks among them
    Object,       \* distributed objects
    NoTask,       \* nobody
    Main,         \* the thread that submits the first tasks, then the shutdown
    Kind,         \* "user", "wait", or the status of a termination task
    Parent,       \* Main, or the task whose Execute submits the task
    Needs,        \* the task's dependency list, in order
    Refusable,    \* tasks whose requests a data manager may turn away
    SameId,       \* pairs of a task and an object with the same number as id
    Threads,      \* NumberOfThreads
    MaxPosts      \* bound on the semaphore's count

Termination == {"stop", "confirm", "shutdown"}
ASSUME TaskAssumption == /\ Kind \in [Task -> {"user", "wait"} \cup Termination]
                         /\ Parent \in [Task -> Task \cup {Main}]
                         /\ Needs \in [Task -> Seq(Object)]
                         /\ \A t \in Task : Kind[t] = "wait" => Parent[t] = Main
                         /\ NoTask \notin Task /\ Main \notin Task
\* The termination tasks are submitted one by the other; a task names each object
\* that it depends on once
ASSUME ChainAssumption ==
    \A t \in Task : /\ Kind[t] = "stop" => Parent[t] = Main
                    /\ Kind[t] = "confirm" => Parent[t] # Main /\ Kind[Parent[t]] = "stop"
                    /\ Kind[t] = "shutdown" => Parent[t] # Main /\ Kind[Parent[t]] = "confirm"
ASSUME NeedsAssumption ==
    \A t \in Task : \A i, j \in DOMAIN Needs[t] : Needs[t][i] = Needs[t][j] => i = j
ASSUME SetAssumption == Refusable \subseteq Task /\ SameId \subseteq Task \X Object
ASSUME BoundsAssumption == Threads \in Nat \ {0} /\ MaxPosts \in Nat \ {0}

VARIABLES
    \* OOPTaskManager
    submitted,   \* fSubmittedList
    taskList,    \* fTaskList
    executable,  \* fExecutable
    executing,   \* fExecuting
    messages,    \* fMessages
    semaphore,   \* fServiceSemaphore
    stopSending, \* fStopSending
    keepGoing,   \* fKeepGoing
    \* its service thread
    pc, batch, cursor,
    \* the other threads
    stage,       \* of a task: before its submission, in the queues, in its thread
    mainAt,      \* where the main thread is
    waited,      \* the wait task it has submitted last, while it needs it
    mainSemaphore, execSemaphore,    \* wait tasks whose semaphore was posted
    \* the data manager
    requests,    \* pending requests, in the order they were posted
    holder,      \* the task an object was granted to
    granted      \* the grants a task has been told of

vars == <<submitted, taskList, executable, executing, messages, semaphore, stopSending,
          keepGoing, pc, batch, cursor, stage, mainAt, waited, mainSemaphore, execSemaphore,
          requests, holder, granted>>
service == <<pc, batch, cursor>>
queues == <<submitted, taskList, executable, executing>>
flags == <<stopSending, keepGoing>>
main == <<mainAt, waited, mainSemaphore, execSemaphore>>
data == <<requests, holder, granted>>

Stage == {"new", "submitting", "deleted", "queued", "started", "running", "released",
          "finished", "joined", "vanished"}
Message == [kind : {"granted", "cancel"}, task : Task, object : Object]
TypeOK == /\ submitted \in Seq(Task) /\ executable \in Seq(Task) /\ executing \in Seq(Task)
          /\ taskList \subseteq Task
          /\ messages \in Seq(Message) /\ batch \in Seq(Message)
          /\ semaphore \in 0..MaxPosts /\ cursor \in Nat
          /\ stopSending \in BOOLEAN /\ keepGoing \in BOOLEAN
          /\ pc \in {"absent", "test", "wait", "transfer", "take", "handle", "trigger",
                     "scan", "lastScan", "stopped"}
          /\ stage \in [Task -> Stage]
          /\ mainAt \in {"starting", "free", "waiting", "using"} /\ waited \in Task \cup {NoTask}
          /\ mainSemaphore \subseteq Task /\ execSemaphore \subseteq Task
          /\ requests \in Seq(Task \X Object)
          /\ holder \in [Object -> Task \cup {NoTask}]
          /\ granted \in [Task -> SUBSET Object]

Init == /\ submitted = <<>> /\ taskList = {} /\ executable = <<>> /\ executing = <<>>
        /\ messages = <<>> /\ batch = <<>> /\ semaphore = 0 /\ cursor = 1
        /\ stopSending = FALSE /\ keepGoing = TRUE /\ pc = "absent"
        /\ mainAt = "starting" /\ waited = NoTask
        /\ mainSemaphore = {} /\ execSemaphore = {}
        /\ stage = [t \in Task |-> "new"]
        /\ requests = <<>> /\ holder = [o \in Object |-> NoTask]
        /\ granted = [t \in Task |-> {}]

\* Every thread that has changed a queue posts the semaphore as soon as it has
\* released the lock.  The two are one step here: in between, the service thread
\* could only find the change sooner than its wake-up, and the post, which
\* disables nothing, would then cost it one more round.  Every round serves all
\* the queues, so the posts beyond MaxPosts, lost here, would only cost more.
Posted(n) == IF semaphore + n < MaxPosts THEN semaphore + n ELSE MaxPosts
WakeUpCall == semaphore' = Posted(1)
CanExecute(t, objects) == ToSet(Needs[t]) = objects

\* The service thread keeps the lock while it transfers the submitted tasks; the
\* other places that take it are steps of their own
Locked == pc = "transfer"

-----------------------------------------------------------------------------
(* Submit, in the thread of the parent                                     *)

\* InitializeEnvironment starts the service thread before it returns
StartService == /\ mainAt = "starting"
                /\ mainAt' = "free" /\ pc' = "test"
                /\ UNCHANGED <<queues, messages, semaphore, flags, batch, cursor, stage, waited,
                               mainSemaphore, execSemaphore, data>>

\* Main submits one task after another, the shutdown last
MainTasks == {t \in Task : Parent[t] = Main}
MaySubmit(t) ==
    IF t \in MainTasks
    THEN /\ mainAt = "free"
         /\ \A u \in MainTasks : stage[u] # "submitting"
         /\ Kind[t] \in Termination => \A u \in MainTasks \ {t} : stage[u] # "new"
    ELSE stage[Parent[t]] = "running"

\* fStopSending is read under the lock; a user task that finds it set is deleted
BeginSubmit(t) ==
    /\ stage[t] = "new" /\ MaySubmit(t) /\ ~Locked
    /\ IF stopSending /\ Kind[t] \notin Termination
       THEN stage' = [stage EXCEPT ![t] = "deleted"] /\ WakeUpCall
       ELSE stage' = [stage EXCEPT ![t] = "submitting"] /\ UNCHANGED semaphore
    /\ UNCHANGED <<queues, messages, flags, main, service, data>>

PushSubmitted(t) ==
    /\ stage[t] = "submitting" /\ ~Locked
    /\ stage' = [stage EXCEPT ![t] = "queued"]
    /\ submitted' = Append(submitted, t)
    /\ IF Kind[t] = "wait"
       THEN mainAt' = "waiting" /\ waited' = t
       ELSE UNCHANGED <<mainAt, waited>>
    /\ WakeUpCall
    /\ UNCHANGED <<taskList, executable, executing, messages, flags, mainSemaphore,
                   execSemaphore, service, data>>

\* Wait of the wait task, and Finish when the main thread is done with the data
Wait == /\ mainAt = "waiting" /\ waited \in mainSemaphore
        /\ mainAt' = "using"
        /\ mainSemaphore' = mainSemaphore \ {waited}
        /\ UNCHANGED <<queues, messages, semaphore, flags, service, stage, waited,
                       execSemaphore, data>>
FinishWaiting == /\ mainAt = "using"
                 /\ mainAt' = "free" /\ waited' = NoTask
                 /\ execSemaphore' = execSemaphore \cup {waited}
                 /\ UNCHANGED <<queues, messages, semaphore, flags, service, stage,
                                mainSemaphore, data>>

-----------------------------------------------------------------------------
(* The data manager: GrantAccess and CancelTask                            *)

Pending(o) == {i \in DOMAIN requests : requests[i][2] = o}
BugAnyRequest(i, o) == i \in Pending(o)
IsNext(i, o) == i \in Pending(o) /\ \A j \in Pending(o) : i <= j

GrantAccess(o) ==
    /\ holder[o] = NoTask /\ ~Locked
    /\ \E i \in Pending(o) :
         LET t == requests[i][1] IN
         /\ IsNext(i, o)
         /\ requests' = RemoveAt(requests, i)
         /\ holder' = [holder EXCEPT ![o] = t]
         /\ messages' = Append(messages, [kind |-> "granted", task |-> t, object |-> o])
    /\ WakeUpCall
    /\ UNCHANGED <<queues, flags, main, service, stage, granted>>

CancelTask(t) ==
    /\ t \in Refusable /\ ~Locked
    /\ \E i \in DOMAIN requests :
         /\ requests[i][1] = t
         /\ requests' = RemoveAt(requests, i)
         /\ messages' = Append(messages, [kind |-> "cancel", task |-> t, object |-> requests[i][2]])
    /\ WakeUpCall
    /\ UNCHANGED <<queues, flags, main, service, stage, holder, granted>>

-----------------------------------------------------------------------------
(* ExecuteMTBlocking, the service thread                                   *)

BugTaskListForgotten == \/ keepGoing
                        \/ submitted # <<>> \/ executable # <<>>
                        \/ executing # <<>> \/ messages # <<>>

\* KeepRunning reads the queues without the lock; none of the ones it finds
\* empty can fill behind it once the flag is down, except by Submit.
KeepRunning == \/ keepGoing
               \/ submitted # <<>> \/ taskList # {} \/ executable # <<>>
               \/ executing # <<>> \/ messages # <<>>

Test == /\ pc = "test"
        /\ pc' = IF KeepRunning THEN "wait" ELSE "stopped"
        /\ UNCHANGED <<queues, messages, semaphore, flags, main, batch, cursor, stage, data>>

BugNoWait == /\ pc = "wait"
             /\ semaphore' = semaphore - 1
             /\ pc' = "transfer"
             /\ UNCHANGED <<queues, messages, flags, main, batch, cursor, stage, data>>

WaitWakeUpCall == /\ pc = "wait" /\ semaphore > 0
                  /\ semaphore' = semaphore - 1
                  /\ pc' = "transfer"
                  /\ UNCHANGED <<queues, messages, flags, main, batch, cursor, stage, data>>

\* The first task of fSubmittedList, until there is none: its requests are posted
\* together, and those of all in the order of submission.
RequestsOf(t) == [i \in DOMAIN Needs[t] |-> <<t, Needs[t][i]>>]
TransferSubmittedTask ==
    /\ pc = "transfer" /\ submitted # <<>>
    /\ submitted' = Tail(submitted)
    /\ LET t == Head(submitted) IN
       /\ requests' = requests \o RequestsOf(t)
       /\ IF CanExecute(t, granted[t])
          THEN executable' = Append(executable, t) /\ WakeUpCall /\ UNCHANGED taskList
          ELSE taskList' = taskList \cup {t} /\ UNCHANGED <<executable, semaphore>>
    /\ UNCHANGED <<executing, messages, flags, main, service, stage, holder, granted>>

EndTransfer == /\ pc = "transfer" /\ submitted = <<>>
               /\ pc' = "take"
               /\ UNCHANGED <<queues, messages, semaphore, flags, main, batch, cursor, stage, data>>

BugFirstMessageOnly == /\ pc = "take"
                       /\ batch' = IF messages = <<>> THEN <<>> ELSE <<Head(messages)>>
                       /\ messages' = <<>>
                       /\ pc' = "handle"
                       /\ UNCHANGED <<queues, semaphore, flags, main, cursor, stage, data>>

TakeMessages == /\ pc = "take"
                /\ batch' = messages
                /\ messages' = <<>>
                /\ pc' = "handle"
                /\ UNCHANGED <<queues, semaphore, flags, main, cursor, stage, data>>

\* ExtractGrantAccessFromTag and TransfertoExecutable
HandleGrant ==
    /\ pc = "handle" /\ batch # <<>> /\ Head(batch).kind = "granted"
    /\ batch' = Tail(batch)
    /\ LET t == Head(batch).task
           objects == granted[t] \cup {Head(batch).object}
       IN
       IF t \in taskList
       THEN /\ granted' = [granted EXCEPT ![t] = objects]
            /\ IF CanExecute(t, objects)
               THEN taskList' = taskList \ {t} /\ executable' = Append(executable, t)
               ELSE UNCHANGED <<taskList, executable>>
       ELSE UNCHANGED <<taskList, executable, granted>>
    /\ UNCHANGED <<submitted, executing, messages, semaphore, flags, main, pc, cursor, stage,
                   requests, holder>>

\* ExtractCancelTaskFromTag looks for the task whose id is the object's.  Its
\* TaskFinished posts every object it depends on, one that it was not granted as
\* a version without data, which the data manager may grant as well.
Cancelled(t, o) == <<t, o>> \in SameId
HandleCancel ==
    /\ pc = "handle" /\ batch # <<>> /\ Head(batch).kind = "cancel"
    /\ batch' = Tail(batch)
    /\ LET out == {t \in taskList : Cancelled(t, Head(batch).object)} IN
       /\ taskList' = taskList \ out
       /\ stage' = [t \in Task |-> IF t \in out THEN "vanished" ELSE stage[t]]
       /\ holder' = [o \in Object |-> IF \E t \in out : o \in ToSet(Needs[t]) THEN NoTask
                                       ELSE holder[o]]
    /\ UNCHANGED <<submitted, executable, executing, messages, semaphore, flags, main, pc, cursor,
                   requests, granted>>

EndMessages == /\ pc = "handle" /\ batch = <<>>
               /\ pc' = "trigger"
               /\ UNCHANGED <<queues, messages, semaphore, flags, main, batch, cursor, stage, data>>

\* TriggerTasks: a thread for the first executable task, then
\* TransferExecutingTasks; once more when no more threads can start
MayStart == executable # <<>> /\ Len(executing) < Threads
StartTask == /\ pc = "trigger" /\ MayStart
             /\ executable' = Tail(executable)
             /\ executing' = Append(executing, Head(executable))
             /\ stage' = [stage EXCEPT ![Head(executable)] = "started"]
             /\ pc' = "scan" /\ cursor' = 1
             /\ UNCHANGED <<submitted, taskList, messages, semaphore, flags, main, batch, data>>
EndTrigger == /\ pc = "trigger" /\ ~MayStart
              /\ pc' = "lastScan" /\ cursor' = 1
              /\ UNCHANGED <<queues, messages, semaphore, flags, main, batch, stage, data>>

Scanning == pc \in {"scan", "lastScan"}
Pass == /\ Scanning /\ cursor <= Len(executing)
        /\ stage[executing[cursor]] # "finished"
        /\ cursor' = cursor + 1
        /\ UNCHANGED <<queues, messages, semaphore, flags, main, pc, batch, stage, data>>

BugJoinSilently == /\ Scanning /\ cursor <= Len(executing)
                   /\ stage[executing[cursor]] = "finished"
                   /\ stage' = [stage EXCEPT ![executing[cursor]] = "joined"]
                   /\ executing' = RemoveAt(executing, cursor)
                   /\ cursor' = 1
                   /\ UNCHANGED <<submitted, taskList, executable, messages, semaphore, flags, main,
                                  pc, batch, data>>
\* After a Join the scan starts again
Join == /\ Scanning /\ cursor <= Len(executing)
        /\ stage[executing[cursor]] = "finished"
        /\ stage' = [stage EXCEPT ![executing[cursor]] = "joined"]
        /\ executing' = RemoveAt(executing, cursor)
        /\ cursor' = 1
        /\ WakeUpCall
        /\ UNCHANGED <<submitted, taskList, executable, messages, flags, main, pc, batch, data>>

EndScan == /\ Scanning /\ cursor > Len(executing)
           /\ pc' = IF pc = "scan" THEN "trigger" ELSE "test"
           /\ UNCHANGED <<queues, messages, semaphore, flags, main, batch, cursor, stage, data>>

-----------------------------------------------------------------------------
(* ThreadExec, the thread of an executing task                             *)

\* What a termination task's Execute does besides submitting its successor; that
\* of a wait task lets the main thread go on
Execute(t) ==
    /\ stage[t] = "started" /\ (Kind[t] \in {"stop", "shutdown"} => ~Locked)
    /\ stage' = [stage EXCEPT ![t] = "running"]
    /\ stopSending' = (stopSending \/ Kind[t] = "stop")
    /\ keepGoing' = (keepGoing /\ Kind[t] # "shutdown")
    /\ mainSemaphore' = IF Kind[t] = "wait" THEN mainSemaphore \cup {t} ELSE mainSemaphore
    /\ UNCHANGED <<queues, messages, semaphore, service, mainAt, waited, execSemaphore, data>>

BugExecutedAtOnce(t) == \A u \in Task : Parent[u] = t => stage[u] \notin {"new", "submitting"}

\* Execute returns when it has submitted its tasks, and that of a wait task when
\* the main thread says so
Executed(t) == /\ \A u \in Task : Parent[u] = t => stage[u] \notin {"new", "submitting"}
               /\ Kind[t] = "wait" => t \in execSemaphore

\* IncrementWriteDependentData makes a WakeUpCall; UpdateVersions releases the
\* objects
Release(t) ==
    /\ stage[t] = "running" /\ Executed(t)
    /\ stage' = [stage EXCEPT ![t] = "released"]
    /\ holder' = [o \in Object |-> IF holder[o] = t THEN NoTask ELSE holder[o]]
    /\ WakeUpCall
    /\ UNCHANGED <<queues, messages, flags, main, service, requests, granted>>

\* fExecFinished is set under the lock
BugFinishSilently(t) == /\ stage[t] = "released" /\ ~Locked
                        /\ stage' = [stage EXCEPT ![t] = "finished"]
                        /\ UNCHANGED <<queues, messages, semaphore, flags, main, service, data>>
Finish(t) == /\ stage[t] = "released" /\ ~Locked
             /\ stage' = [stage EXCEPT ![t] = "finished"]
             /\ WakeUpCall
             /\ UNCHANGED <<queues, messages, flags, main, service, data>>

-----------------------------------------------------------------------------
Service == \/ Test \/ WaitWakeUpCall \/ TransferSubmittedTask \/ EndTransfer \/ TakeMessages
           \/ HandleGrant \/ HandleCancel \/ EndMessages
           \/ StartTask \/ EndTrigger \/ Pass \/ Join \/ EndScan
Submit(t) == BeginSubmit(t) \/ PushSubmitted(t)
ThreadExec(t) == Execute(t) \/ Release(t) \/ Finish(t)
MainStep == StartService \/ Wait \/ FinishWaiting
DataManagerStep == \E o \in Object : GrantAccess(o)

Next == \/ Service
        \/ MainStep
        \/ DataManagerStep
        \/ \E t \in Task : Submit(t) \/ ThreadExec(t) \/ CancelTask(t)

\* Every thread runs on, tasks end and the main thread is done with its data
\* some day; a data manager that may refuse need not
Fairness == /\ WF_vars(Service) /\ WF_vars(MainStep) /\ WF_vars(DataManagerStep)
            /\ \A t \in Task : WF_vars(Submit(t)) /\ WF_vars(ThreadExec(t))

Spec == Init /\ [][Next]_vars /\ Fairness

-----------------------------------------------------------------------------
(* Properties                                                              *)

Waiting(t, o) == \/ <<t, o>> \in ToSet(requests)
                 \/ holder[o] = t /\ (o \in granted[t] \/ \E m \in ToSet(messages \o batch) :
                                        m.kind = "granted" /\ m.task = t /\ m.object = o)
Abandoned(t) == t \in taskList /\ \E o \in ToSet(Needs[t]) : ~Waiting(t, o)

\* No cancellation has taken a task from fTaskList, by its number.  From then on
\* requests are there that nobody waits for, and versions that nobody wrote.
NobodyVanished == \A t \in Task : stage[t] # "vanished"

\* Until then a task in fTaskList is waiting for something that will come, and an
\* object that was granted is in the hands of a task that will let it go: no grant
\* is posted for a task that is not in the list yet, or lost between two rounds.
\* While the main thread uses its data, they are with the wait task.
GrantsReachTheirTask ==
    NobodyVanished =>
        /\ \A t \in Task : Abandoned(t) => t \in Refusable
        /\ \A o \in Object : holder[o] # NoTask =>
             \/ holder[o] \in taskList
             \/ holder[o] \in ToSet(executable) \cup ToSet(executing)
        /\ mainAt = "using" => \A o \in ToSet(Needs[waited]) : holder[o] = waited

\* When the service thread sleeps for good, no queue has work that it could do:
\* each change of a queue has its WakeUpCall, a thread slot that Join frees too.
NoSleepOnWork ==
    pc = "wait" /\ semaphore = 0 =>
        /\ submitted = <<>> /\ messages = <<>> /\ ~MayStart
        /\ \A t \in ToSet(executing) : stage[t] # "finished"

\* Tasks that depend on the same objects do not wait for each other for ever
\* even if they name them in opposite orders, nor for a thread: a submitted task
\* is executed and joined, also while the environment shuts down.  It is not if
\* it was refused, if a refused task keeps an object, or, unless it needs no
\* object, from when a cancellation has taken a task.
EveryTaskRuns ==
    \A t \in Task : stage[t] = "queued" ~>
        \/ stage[t] = "joined" \/ Abandoned(t)
        \/ /\ Needs[t] # <<>>
           /\ ~NobodyVanished \/ \E o \in Object : holder[o] # NoTask /\ Abandoned(holder[o])

\* The service thread only ends when every task it has accepted has been joined,
\* or was taken by a cancellation, in spite of the unlocked test of its queues; and
\* if none was taken nobody holds an object.
StopsWithNothingLeft ==
    pc = "stopped" => /\ \A t \in Task : stage[t] \in {"new", "deleted", "joined", "vanished"}
                      /\ NobodyVanished => \A o \in Object : holder[o] = NoTask

\* The service thread ends once a shutdown task has run, unless a refused task is
\* left, or a cancellation has taken a task.
ServiceStops ==
    ~keepGoing ~> pc = "stopped" \/ ~NobodyVanished \/ \E t \in Task : Abandoned(t)

\* What ooptaskmanager.h says of CancelTask: the task of the tag "will be
\* canceled".
CancelledTaskLeaves == \A t \in Task : Abandoned(t) ~> t \notin taskList
=============================================================================
