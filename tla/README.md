# Verification of OOPar

OOPar is a C++ environment for parallel finite element programs. A program is a
set of *tasks* that read and write *distributed objects*; managers on every
processor bring the objects to the tasks, start each task in a thread when all
its objects have been granted, and carry objects and tasks between processors
over one of several transports. This directory holds TLA+ models of the managers
and transports in `Sources/` and of the launcher in `Projects/TestSocket/`, the
TLC runs that check them, and TLAPS proofs of what matters most about them.

## 1. The system

### Components

| component (Sources/) | state | operations | in the models |
|---|---|---|---|
| data version (`oopdataversion`) | version and cardinality of each level | `Increment`, `IncrementLevel`, `operator<`, `CanExecute`, `AmICompatible` | `DataVersion` |
| access tags (`oopaccesstag`, `oopaccesstagmultiset`, `oopaccesstaglist`) | mode, object, task, version, processor, pointer; the pending requests in order; the dependencies of a task | `operator<`, compatible / incompatible / similar requests, `GetProcessorAccessRequests`, `PostRequests`, `SubmitIncrementedVersions` | `DataManager`, `TaskManager` |
| metadata (`oopmetadata`) | `fAvailableVersions`, `fProc` (the supposed owner), `fAccessList`, `fShouldDelete` | `SubmitTag`, `SubmitVersion`, `SubmitAccessRequest`, `HandleOwnerMessage`, `VerifyAccessRequests` | `DataManager` (no deletion) |
| data manager (`oopdatamanager`) | `fObjects`, `fMessages`, `fChangedObjects`, a semaphore, a service thread | `Post...`, `GetUpdate`, `ObjectChanged`, `FlushData`, `ServiceThread` | `DataManager` (one object) |
| task manager (`ooptaskmanager`, `ooptaskcontrol`, `ooptask`) | `fSubmittedList`, `fTaskList`, `fExecutable`, `fExecuting`, `fMessages`, `fStopSending`, `fKeepGoing`, `fConfirmedProcessors`, a semaphore, a service thread and one thread per executing task | `Submit`, `GrantAccess`, `CancelTask`, `ExecuteMTBlocking` and all it calls | `TaskManager` (one processor) |
| wait task (`oopwaittask`) | two semaphores | `Execute`, `Wait`, `Finish` | `TaskManager` |
| termination (`oopterminationtask`, `oopinitializeenvironment`) | status and origin of a termination task | `Execute`, `ShutDownEnvironment` | `Termination` (several processors) |
| internal communication manager (`oopinternalcommanager`) | `fReceived`, `fKeepGoing`, a thread | `SendTask`, `ReceiveObject`, `ServiceThread`, `JoinThread` | its queue and thread, in `DataManager` and `Termination` |
| socket communication manager (`oopsocketcommmanager`, `oopsocket`) | ten slots each with a message, a mutex, a condition and a sender thread; a buffer of envelopes and its receiver thread; a thread that takes messages; a semaphore of the barrier | `SendTask`, `Send`, `Probe`, `Get_count`, `Recv`, `Init_thread`, `Barrier`, `Finalize` | `SocketComm`, `SocketBarrier`, `Launcher` |
| launcher (`Projects/TestSocket/srun`, `spd`) | ports of all ranks; of a host, which process has which port | STARTUP, GETPORT, the table, FINALIZE | `Launcher` |
| MPI communication manager (`oopmpicomm`) | `fKeepReceiving`, one receive buffer, a receive thread | `SendTask`, `ReceiveMsgBlocking`, `ProcessMessage`, `UnlockReceiveBlocking`, `Finish` | `MPIComm` |
| file communication manager (`oopfilecomm`) | numbered files, a list of names for each processor | `SendTask`, `SendMessages`, `ReceiveMessages` | `FileComm` |
| storage buffers (`oopstorage`, `oopsocketstorage`, `oopmpistorage`, `oopfilestorage`), object ids, parameter types, the messages of all tasks | what was packed and how far it was read | `Pk...`, `Upk...`, `Write`, `Read`, `Restore` | `Messages` |
| delete-object and snapshot task | | | their messages, in `Messages` |
| collector, loggers, applications | | | no |
| locks | | | section 3 |

### How they interact

* An application thread or a task calls `TM->Submit(task)`. A task of another
  processor goes through the communication manager, whose thread there submits
  it again. Neither `Submit` nor `ExecuteDaemon` sends to its own processor.
* The task manager's service thread moves a submitted task to `fTaskList` and
  posts its requests to the data manager (`PostAccessRequest`).
* The data manager's service thread files each request with the object's
  metadata and runs `VerifyAccessRequests`: it turns superseded requests away
  (`CancelTask`), grants readers, and hands the object to one writer when
  nobody else refers to it. Local grants are messages to the task manager; for
  another processor it sends an `OOPDMOwnerTask` that carries the object and,
  if it is to be written there, the pending requests too. A processor without
  the object sends an `OOPDMRequestTask` to whom it believes to be the owner.
* These two are daemon tasks: the communication thread of the receiver executes
  them, which posts messages to its data manager.
* A task that ends posts the next version of what it wrote (`PostData`), drops
  its pointers and reports the objects as changed (`ObjectChanged`).
* The main thread gets at objects itself by a wait task: the task's thread lends
  it what the task was granted, until the main thread calls `Finish`.
* The shutdown is made of tasks: *stop* to every processor, *confirm* from each
  of them to the root, *shutdown* from the root to every processor.
* Over sockets a job is started by `srun`, which asks the `spd` of each host to
  start a process and give it a port, and then tells every process the ports of
  all. Barriers over rank 0 separate the start, the end of the managers and
  `Finalize`, with which the process has its `spd` wait for its end and tell `srun`.

### What is hard

Reference counts taken by one thread while others hold pointers; an object that
moves while requests follow hints about where it was; verification nested in the
handling of a message; wake-ups that must not get lost; loop conditions read
without the lock; a shutdown that runs through the queues it is about to close;
in the transports, messages that several threads take from slots, buffers that
are searched several times under different mutexes, a barrier whose connections
come in through the thread that also receives, and threads to be stopped while
they sleep. `PROJECT.json` lists the hazards one by one, each at its line.

### What makes each component correct

* versions: never go back; a request for the past is recognised
* metadata and data manager: one object, no lost update, readers and writers
  exclude each other, no request sleeps beside a free object, all tasks served
* task manager: no grant lost, no sleep on work, every task runs, the main thread
  has its objects while it uses them, the service stops, with nothing left
* termination: nobody leaves while another may still send, the root sends all
  its messages, nothing timely is left behind, everyone closes
* transports: what is sent arrives once, there, in order, as it was written
* barriers and launcher: nobody leaves a barrier before all have come; everybody
  knows the others' ports, finds them listening, and ends

## 2. The modules

| module | what it is |
|---|---|
| `DataVersion` | the arithmetic and the comparisons of versions of several levels, over every history of a version |
| `Messages` | extends `DataVersion`: how a task with its tags, versions and objects is written to a buffer and restored, in three kinds of buffer |
| `Messages_proofs` | theorems about both, for every version and every task |
| `ObjectAccess` | abstract specification of an object: a version, its readers and writer, who was served |
| `DataManager` | the life of one object under the data managers of all processors |
| `DataManager_proofs` | theorems about it, for every workload |
| `ObjectAccess_proofs` | theorems about the one object, for tasks on one processor and for writers on many, of any version or in turn: among them, that `DataManager` implements `ObjectAccess` |
| `TaskManager` | the task manager of one processor with all its threads, and a wait task |
| `TaskManager_proofs` | theorems about it |
| `Shutdown` | abstract specification of the end of the environment in two phases |
| `Termination` | the termination tasks on all processors |
| `Termination_proofs` | theorems about it |
| `Delivery` | abstract specification of a transport: what was sent, what has arrived |
| `Transport` | what the transports share: callers with tasks to send, what was given to `Submit` |
| `SocketComm`, `MPIComm`, `FileComm` | the three transports |
| `Transports` | the three side by side under one set of callers, and that each implements `Delivery` |
| `FileComm_proofs` | lemmas about scripts and about order as the order of positions in one, and the invariant of the exchange through files |
| `Transports_proofs` | the invariants of MPI and of the sockets, the way of a task through all three, and theorems about all three |
| `SocketBarrier` | `OOPSocket::Barrier` by itself |
| `Launcher` | extends it: `srun`, `spd`, and the life of a process over sockets |
| `Launcher_proofs` | theorems about both |
| `MC...` | the values of the constants for TLC |

`Bug...` definitions stand before the one they are a faulty version of. They are
used by nothing; putting one in the place of its successor shows that the
properties notice (`mutants` in `PROJECT.json` pairs every property with one).

### DataManager

One object, any number of processors and tasks. A variable per piece of state:
`copies` is `fAvailableVersions` with, for each version, who else holds its
auto pointer; `owner` is `fProc`; `acc` the access list in its order; `dmq` the
data manager's `fMessages`; `net` the communication manager's `fReceived`;
`changed` membership in `fChangedObjects`; `pc` the place of the service thread;
`phase` and `got` the progress of a task and the version it was granted.

| action | code |
|---|---|
| `PostRequests` | `OOPAccessTagList::PostRequests` |
| `Deliver` | `OOPDMOwnerTask::Execute` and `OOPDMRequestTask::Execute` in the communication thread, then the destructor |
| `HandleData` | `SubmitTag` |
| `HandleOwner`, `SettleOwner` | `HandleOwnerMessage`, cut at the `VerifyAccessRequests` nested in `SubmitVersion` |
| `ForwardRequest`, `QueueRequest` | `SubmitAccessRequest` |
| `FlushData` | `FlushData` |
| `RejectRequest`, `GrantRead`, `GrantLocalWrite`, `TransferOwnership`, `EndVerify` | the loops of `VerifyAccessRequests`, one turn at a time |
| `PostData`, `ClearPointer`, `ObjectChanged` | `SubmitIncrementedVersions`, in the three steps another thread can come between |
| `ForgetStrayGrant` | a grant that names no task, dropped by `ExtractGrantAccessFromTag` |

The reference count is the point of the model. `Count() == 1` decides on writes,
and the references are held by readers, by a task between posting its data and
clearing its pointer, by the message being handled, by an owner task not yet
destroyed. Each is a *holder* and lets go in a step of its own.

An owner task is three consecutive entries of `net` (the owner message, the
requests that travel with it, the destructor), since the service thread may
interleave with its execution.

### TaskManager

The service thread is `pc`: test `KeepRunning`, wait, transfer the submitted
tasks one by one, take the messages, handle them one by one, trigger tasks, scan
`fExecuting`. It keeps the lock of the manager during the whole transfer
(`TransferSubmittedTask` until `EndTransfer`), so the actions of other threads
that take it have the guard `~Locked`; the data manager's lock is another one,
and a task may release its objects meanwhile. What the termination tasks submit
is in `ChainAssumption`; `NeedsAssumption` says that a task names an object once. The other threads are the `stage` of each task: its parent submits
it (`BeginSubmit`, `PushSubmitted`), its own thread executes and releases it
(`Execute`, `Release`, `Finish`). The main thread starts the service, submits
its tasks one after the other, the shutdown last, and sleeps in `Wait` after it
has submitted a wait task; `mainAt` is where it is, `mainSemaphore` and
`execSemaphore` are the two semaphores of the task. The data manager is reduced
to what the task manager sees of it: requests are granted in the order they were
posted, one holder at a time, and may be turned away. A refusal becomes a
cancellation of whichever task of the list has the number of the object
(`HandleCancel`). Tasks and objects are numbered by counters of their own, so there
often is one; ids never change, and which are equal is the constant `SameId`. The
environment has this one processor, so *stop*, *confirm* and *shutdown* are three tasks each of which
submits the next.

### Termination

Tasks of the application are submitted on some processor for another, while the
termination tasks run: `stopSending` and `keepGoing` are the flags of every task
manager, `inbox` the received queue of every communication manager, `confirmed`
the root's `fConfirmedProcessors`, `state` the end of the managers. `Submit` is
cut in two where it reads `fStopSending` and where it acts on it. `late` is a
ghost: the tasks that left in between.

### DataVersion and Messages

One version and the history of it (`seen`, a ghost), with writes (`Increment`,
carries included) and new levels (`IncrementLevel`). Requests are every version
of up to three levels, with and without "any".

`Messages` writes a task to a buffer and restores it. Every class of the library
has its `Write...` and `Read...`, with the tags, lists, versions and objects in
them; what a kind of buffer does to a number (a file prints seven digits of a
double) and where it ends (a socket's buffer leaves the variable alone, MPI
aborts, a file gives what is left) is in `Pack...` and `Unpack...`. In a file,
tasks follow one another with a byte in front of each, `Restore` knows the
classes that were registered, and the class id is only written if the number of
the task, passed where a Boolean is meant, is not zero.

### The transports

`Transport` has the threads that call `SendTask` (`todo` is what a thread has
still to send) and what came out on the other side (`submitted`).

* `SocketComm`. A caller tries the mutexes of the slots (`TryLock`, `LockAny`),
  leaves its message in one and signals the thread of the slot (`Place`); the
  thread takes the message under the mutex and keeps it while it sends
  (`TakeMessage`, `Call`). At the destination `receiver` is the thread that puts
  envelopes into `receiveBuffer` and broadcasts, `manager` the one that probes,
  counts, receives and submits. The condition variables are as they are: a
  signal to a thread that is not asleep is lost, so `Probe` and `Doze` are two steps.
* `MPIComm`. A message is in `net[to][from]` from the call of `MPI_Send` on;
  the call returns at once or when the message is received, as MPI pleases.
  `receiving` is the receive thread, `main` the thread that ends it.
* `FileComm`. `files` and `names` are the directory; `ReceiveMessages` and
  `SendMessages` are cut where one processor can see what another has done.
  `EndFile` is `HasSomeThingToSend` with `FindNewBuffer`: the next number that does
  not exist, or, when all do, the number it has, and the file tried last is emptied.
  The list of a processor is its number 0, which counts as free as long as there is
  no list. `overrun` is a ghost: some number was taken that was not free for
  messages. From then on two buffers may have one file, a list may have lines that
  are no names (`NoName`) and a file no header; a reader that runs into one of
  these, or past the end of a file, gives nothing more and may be `"crashed"`.

### SocketBarrier and Launcher

`Barrier` of rank 0 collects an envelope of each other rank (`TakeEnvelope`,
after a post of the semaphore), then answers the ranks in turn; the others
connect and wait. Connections and answers are sets of ranks, which leaves open
the order in which they are served. `Launcher` puts it between the start (`srun`
in three phases, the table of `spd` with its ports, `Init_thread`) and the end
(`Finalize`, the receiver thread, the sender threads, `waitpid`). A sender thread
is a loop whose only decision is the test of `threadRunning` under the mutex of
`OOPSocket`: the model leaves it in `"loop"` until the destructor's signal shows
on which side of the test it was.

## 3. What the models abstract

* A section under `OOPLock` is one step. What a thread does between two such
  sections is a step of its own when another thread can tell.
* The wake-up after a locked change is one step with it in `TaskManager`; the
  comment at `Posted` says why nothing is lost by that.
* `DataManager` lets `FlushData` come between any two messages, where the code
  first empties the batch it took: more interleavings than the code has.
* Data, logging, the number of an id: names instead, except in `Messages`.
* In `DataManager` and `Termination` delivery is reliable and in order per
  receiver, as the internal communication manager's list is. Nothing is
  persisted, so there are no crashes to recover from.
* The transports assume TCP connections that work, an MPI that keeps the order of
  two messages between the same processors and buffers the four bytes of the
  message that ends the receive thread, and a file system whose operations are
  seen at once. Spurious wake-ups of a condition are left out: a thread that
  wakes early looks at its slot or buffer again, which the lost-signal cases of
  the properties could only gain from.
* Of MPI the build described by the CMake files: `BLOCKING` defined, `MTSEND` not.
* What ends a process on an error of a system call is left out where the models
  cannot make the error happen (no memory, no such host, `execv` that fails).
* A task that a cancellation takes from the list posts all its objects when it is
  deleted, those it was not granted as versions without data. `HandleCancel` makes all
  of them free, whoever holds them, and the requests that are left are granted to
  nobody who waits. What the data manager makes of a version without data, or of the
  second one of the same number, is not followed further; the properties about who
  holds what end there (`NobodyVanished`).
* In `FileComm` each read or write of a whole file, and the test and the creation of
  a list, is one step. A processor that goes through its list while its own
  `FindNewBuffer` or a reader takes it away keeps the lines it has; this, too, happens
  only after an overrun.

## 4. The runs

`tlc -workers 2 -config X.cfg M` in this directory. All runs have
`CHECK_DEADLOCK FALSE`: the environment ends when its tasks are done.

| run (`.cfg`) | module | checks | result |
|---|---|---|---|
| `DataManager` | `MCDataManager` | `TypeOK`, `ExactlyOneObject`, `NoLostUpdate`, `NoStrandedRequest`, `RefusedOnlyWhenTooLate`, `ReadersKeepTheirCopy`, `RequestsStayWithTheirTask` | hold |
| `DMProgress` | `MCDataManager` | `AccessSpec`, `EveryTaskFinishes` | hold |
| `Messages` | `MCMessages` | `SupersededIsRejected`, `VersionNeverDecreases`, `RestoredAsWritten` | hold |
| `TMService` | `MCTaskManager` | `TypeOK`, `GrantsReachTheirTask`, `NoSleepOnWork`, `StopsWithNothingLeft`, `EveryTaskRuns`, `ServiceStops` | hold |
| `Termination` | `MCTermination` | `TypeOK`, `RootSendsThemAll`, `TimelyTasksAreSettled`, `ShutdownSpec`, `EveryoneCloses` | hold |
| `Launcher` | `MCLauncher` | `TypeOK`, `NobodyFails`, `RoutesAreRight`, `NothingLeftBehind`, `NobodyIsAhead`, `EveryAnswerHasItsSocket`, `JobEnds` | hold |
| `Transports` | `MCTransports` | `TypeOK`, `BufferFits`, `SendersKeepTheirMessage`, `TruncationNeedsTwoSenders`, `StopIsUnderstood`, `OnlyEndedFilesAreRead`, `MPIAndFilesKeepOrder`, `TasksAreOnDisk`, `DeliverySpec`, `EverythingSettles` | hold |
| `DMRemoteReader` | `MCDataManager` | `OneWriteProcess` | violated |
| `DMLateWriter` | `MCDataManager` | `LateTasksAreCancelled` | violated |
| `TMCancel` | `MCTaskManager` | `CancelledTaskLeaves` | violated |
| `LauncherEnd` | `MCLauncher` | `SrunEnds` | violated |
| `SocketOrder` | `MCTransports` | `InSequence` | violated |

### Workloads and bounds

* `DataManager` starts from one of four workloads. *Chain*: a writer on each of
  three processors, each of an exact version (0, 1, 2), requested in any order,
  the last one at home; the object leaves home, moves on and comes back, and a
  request may be filed before or after the transfers it has to follow.
  *Migrate*: writers of any version, two on one processor and one on another,
  none at home; the two with the same request exercise `HasSimilarRequest`, the
  requests that travel with the object, and the ones that come back. *Local*: a
  reader of any version, a reader of version 0 (too late when a writer comes
  first) and two writers, one processor. *Mixed*: readers and a writer on both
  of two processors. `DMProgress` has *Chain* and *Local*.
* `Messages`: cardinalities unbounded, 1 and 2, up to three levels (`MaxLevels`),
  histories of up to five versions (`MaxHistory`), enough for a carry through
  every level; every class of task, with tags that name that version, lists of
  none to two tags and every kind of object; two tasks in a file (`MaxInFile`),
  where one goes wrong behind another. Classes the file buffers do not know are
  among them.
* `TMService`: a task and a wait task with two objects in opposite orders, a
  child task that may be refused, the three termination tasks. The child has the
  number of one object and the wait task that of the other (`MCSameId`: the main
  thread has made one object more before), so that a cancellation takes the refused
  task itself, another one or none. `TMCancel` has no equal numbers: the refused
  task stays. `Threads = 1`, so that executable tasks queue for a thread; `MaxPosts = 2` bounds the semaphore's count (the
  posts above it would cost rounds, not change them).
* `Termination`: three processors, a task for the second that submits one for
  the third.
* `Launcher`: four processes on two hosts, so that one `spd` has several; ports
  0 to 3 of which one is another program's, so that the table comes round; three
  barriers of the eight a program calls (`Rounds`: start, between, and the last;
  a process is at most one barrier ahead, which `NobodyIsAhead` shows, so a
  fourth adds nothing new); one or two sender threads (`SendNumThreads`; the end
  of one thread, and of a second behind it, are the two cases). `LauncherEnd` has
  three processes and the ten threads of the code.
* `Transports`: two senders to one receiver; one thread with more messages than
  the two slots and one for a processor that does not exist; the same over MPI
  with a longer and a shorter message; files between two and among three processors
  with a task for everyone, numbers 0 to 3 (`LastNumber`; 99 in the code), which come
  round and run out.

Tasks, processors and objects are few, but each workload is explored in every
interleaving; the behaviours depend on how many parties meet at one object, one
queue or one flag, and that is two or three everywhere in the code.

### What the properties say

* `ExactlyOneObject`: while processors only write, the object is in exactly one
  place: a map, a message, or a writer's hands. `NoLostUpdate`: a writer is
  given the result of every write before it.
* `AccessSpec`: the managers implement `ObjectAccess`: readers share, a writer is
  alone and gets the version it asked for, each writer raises the version by one.
* `NoStrandedRequest`: the service thread never goes to sleep beside a request
  it could grant unless something is coming that wakes it.
* `RefusedOnlyWhenTooLate`: only a superseded exact request is turned away.
* `ReadersKeepTheirCopy`: what a task reads stays counted in the map.
* `RequestsStayWithTheirTask`: a request with a task in it stays on that task's
  processor.
* `SupersededIsRejected`, `VersionNeverDecreases`: section 1. `RestoredAsWritten`:
  every `Read` takes back what `Write` left, to the last number; through a file
  only under the conditions the property names.
* `GrantsReachTheirTask`, `NoSleepOnWork`, `StopsWithNothingLeft`: between
  queues, messages and semaphore nothing is dropped by the service thread, and
  the main thread has the objects of its wait task while it uses them. Of what is
  held this is said until a cancellation has taken a task from the list, which
  frees objects of others; that no work is slept on, and no task left in a queue at
  the end, always.
* `ShutdownSpec`, `RootSendsThemAll`, `TimelyTasksAreSettled`: no processor is
  told to leave while one may send; the root sends every shutdown task before
  it leaves; a task sent in time has been executed or deleted when its processor closes.
* `NobodyIsAhead`, `EveryAnswerHasItsSocket`: the barrier is one, and rank 0 never
  answers from a hole of its array. `RoutesAreRight`, `NobodyFails`: ports are
  given once, tables are right while they are used, the first connection to a
  process is the table. `NothingLeftBehind`: no connection waits behind a
  receiver thread that has ended. `JobEnds`: only a sender thread can keep a job
  from its end. With one sender thread in a process this is an end that is reached;
  with the ten of the code it never is, so that a job can only meet `JobEnds` by its
  exception (`LauncherEnd`).
* `DeliverySpec`: each transport implements `Delivery`: a task arrives where it
  was sent, at most once. `EverythingSettles`: it does arrive, or was lost in one
  of the ways the property names: replaced in its slot, behind a sleeping manager,
  after the receive thread's end. `TasksAreOnDisk`: what went into a file is
  there or has arrived. `DeliverySpec`, `MPIAndFilesKeepOrder`, `TasksAreOnDisk` and
  `OnlyEndedFilesAreRead` say of files what holds until a number is taken that is not
  free for messages (`overrun`); after that each of them can be false. The last two
  are in these workloads; a task at the wrong place takes three processors and five
  tasks, and a wrong order seven tasks for one processor, which is more than the run
  has.
* `BufferFits`, `SendersKeepTheirMessage`: the message received is the one that
  was counted, the one sent is the one that was taken. `TruncationNeedsTwoSenders`,
  `StopIsUnderstood`: when MPI can abort, and that the receive thread ends cleanly.
  `OnlyEndedFilesAreRead`: no file is read that is still filled, no number
  taken twice, and no reader crashes.

### Liveness and fairness

`DataManager`: weak fairness of every thread (task steps, delivery, service
thread), since a thread that can run runs and every post raises a counting
semaphore. Strong fairness of `HandleMessage` and `FlushData`: a round of
`ServiceThread` does both, so neither is postponed for ever by the other.
`TaskManager`: weak fairness of the service thread, of the data manager, of
every task's threads and of the main thread: tasks end and the application calls
`Finish` of a wait task some day, by assumption. `Termination`: every step moves
something forward and none can be undone, so weak fairness of the whole is as
good as one per thread. `Launcher`: weak fairness of `srun`, of each `spd` and of
every thread of every process; a sender thread need not come round to its test
by itself, since it sleeps as long as its slot is empty. `Transports`: weak
fairness of the whole, for sockets and MPI, where nothing loops; the file manager
does nothing by itself, and no liveness is claimed for it. No property relies on
the scheduling of a lock or on how long a message takes.

`EveryTaskFinishes` excepts the tasks with exact versions where they may rightly
be refused (*Local*). `ServiceStops` excepts the task whose request was refused,
which the code removes only by chance (see `TMCancel`), and what follows on a
cancellation that took a task: a wait task that is gone leaves the main thread in
its `Wait`. `EveryTaskRuns` excepts the tasks that wait for such ones; after a
cancellation it is still said of the tasks that need no object.

`DMProgress` does not have two tasks with the same request away from home
(`HasSimilarRequest`); they are in *Migrate*, for safety. `TimelyTasksAreSettled` is
not about the late tasks, which the code may leave behind.

### Where code and documentation part

* `DMRemoteReader`: a copy made for a remote reader is granted to a writer
  there. `Docs/pzmainpage.h`: "only one process can have write access".
* `DMLateWriter`: a superseded request from another processor gets the new data
  under the old version's label, and its task runs. `oopmetadata.cpp:349` says
  that tasks "will be canceled there".
* `TMCancel`: `ExtractCancelTaskFromTag` looks for a task whose id is the
  object's; the refused task stays and holds up the shutdown.
* `LauncherEnd`: a sender thread ends with the mutex of the socket locked
  (`oopsocket.cpp:116`), the second one waits for it for ever, and the
  destructor for the second. `srun.c:112` expects every process to end.
* `SocketOrder`: the mutexes that should guarantee the order of sending
  (`oopsocket.h:88`) are taken by sender threads that are in no order.
* Of file numbers (no run of its own; `overrun` in `FileComm` marks where it
  happens, and the properties of files claim nothing from there on): `FindNewBuffer`
  looks for "um arquivo nao existente"
  (`oopfilestorage.cpp:38`) and returns 0 if there is none (`oopfilestorage.h:43`).
  When all numbers are used it empties the file it tried last, read or not, and goes
  on with the number of the file it has just ended and named.

Two limits of the passing runs follow from the first two: they keep requests of
exact and of any version apart when several processors write (mixing them forks
the object), and they keep two tasks with different exact versions off one
remote processor, where `ExactlyOneObject` fails for the same reason. The theorems
of section 5 about `Simple` workloads have the same limits: `Simple` is true of
*Chain*, *Migrate* and *Local*, and not of *Mixed*.

## 5. The proofs

`tlapm M.tla` for every `M` that ends in `_proofs` (a module counts on the lemmas
of those it extends, which their own call checks); nothing is assumed but the named
assumptions on the constants of the models, which every run evaluates.

* `Typing`, `TypeCorrect`, `RequestsStay`. `TypeOK` is not inductive: when the
  service thread resumes `HandleOwnerMessage` it reads the head of the queue, so
  the invariant has to say that there is one; and what becomes of a tag depends
  on where it is. `TypeInv` adds both, and that data and owner messages have a
  real version: tags in `net` name no task, tags in a queue or a list name a
  task of that processor and mode. `RequestsStayWithTheirTask` is then a
  consequence.
* `ReadersKeep`. With `TypeInv`, `ReadersKeepTheirCopy` is inductive: a version
  leaves the map only through `MayWrite`, which requires that it has no holders,
  and a holder is removed only by its own `ClearPointer`.
* `RefusedWhenTooLate`. `LabelsInv`: no version anywhere, in a map, in a message
  that carries the object or in a task's hands, is beyond the number of writes
  done, which only `PostData` raises. `RequestsInv`: a task's request is in one
  place, once, asks for what the task wants, and the task waits for it; so the
  request that is turned away is that of the task that is told.
* `NeverLostNeverForked`, `UpdatesAreKept`. They are about `Simple` workloads: the
  tasks share a processor with the object, whatever they ask for (`OneProcessor`),
  or they are writers on any number of processors (`Migrating`), either of any
  version (`AnyWriters`) or each of a version of its own with no second one on its
  processor (`InTurn`).
  `ObjectInv` says where the one object is and that its label is the number of
  writes done: `KeptBy(k, place, w)` names its keeper and which of the five places
  it is in, and that there is nothing in any other. Only a writer's `PostData`
  changes the label and only `TransferOwnership` the keeper. This is inductive
  only if nobody is sent a copy to read and no grant finds no task
  (`Plain`), which takes a second invariant for each kind of workload.
  * On one processor it is `HomeInv`: nothing is ever on another or on its way.
  * Among writers it is `MigInv`, about the requests that
    processors file with one another. A request filed by `x` must never be
    granted on `x` itself, where it names no task, so it must not be able to come
    back to `x`. What holds is that there is at most one request of `x`, in one
    place (`OnePlace`, `OneRequest`), that `x` has one only while tasks wait there
    and the object is not kept there (`AskersWait`), and that only the keeper
    thinks that it owns the object (`OwnerIs`). Hints lead on, never back:
    `RankInv` orders the processors by when they last owned the object; a hint
    points to a later owner, and a request is with a processor that owned the
    object later than the one who asks, or travels behind the object itself.
    Each time the object settles, its keeper gets the highest rank.
  * When writers name versions, a request could also come too late, and
    `VerifyAccessRequests` answers a late one with a copy of the object, which would be
    a second object. `InTime` says that nobody who still waits has named a version
    below the number of writes: the writer of the next one was given the version it
    named, and the others named other ones. This reaches a processor's request
    because what is filed for a task asks for what the task asks for (`FiledInv`),
    and the task still waits where it was filed (`NoneTooLate`). That one processor
    files for one version only (`OneVersion`) is also why it files one request at a
    time.
* `NoneIsStranded`. `ExcusedInv`, stronger than the property: beside a free
  version the thread sleeps only if the object is reported as changed or a task
  is about to report it. `EndVerify` leaves nothing that could be granted, a
  grant for writing or a transfer leaves no version, and who else makes one free
  is a task that lets go.
* `AccessImplemented`. `PostData` is `ReleaseWrite`, a reader's `ClearPointer`
  `ReleaseRead`, the two local grants `AcquireRead` and `AcquireWrite`, and all
  else leaves the abstract variables alone. That nobody reads when a writer is
  given the object is `ReadersKeepTheirCopy` and that there is one copy: each
  reader would be counted in it.
* `NeverDecreases`, `PastIsRecognised`. `operator<` is not transitive, so the
  order of a history does not follow from that of two consecutive versions.
  `HistoryInv` has a relation that is carried on from step to step: an
  earlier version is smaller at the first level where they differ, or the later one
  is opened below it, with the same cardinalities above. Both theorems follow
  from it, for any number of levels and any cardinalities, and hold of
  `Messages` too (`VersionsAreDataVersion`).
* `ReadTakesBackWritten`. Its hypothesis is that what is sent are tasks
  (`Message`): any numbers, versions, lists of tags and objects, in the fields
  their class has. `Holds(w, at, xs)` says that a buffer has the numbers `xs` from
  `at` on; for each class there is a lemma that its `Read` there gives what was
  written, less the digits the buffer drops, and stops right behind it. They are
  put together as `Write` and `Read` are: ids and versions to tags, tags to lists,
  lists to tasks (`TaskRestored`). Lists and files are written and read by
  recursive functions, and the facts about those are proved by induction over
  their length, existence included (`WriteTagsIs`, `TagsRead`, `ReadFileIs`,
  `FileRead`): the library's induction theorems take an operator, but the
  well-foundedness of `<` on the natural numbers gives the same for a set
  (`InductionOnNat`). A file is read up to its first task that cannot be made;
  that there is a first one is the same fact (`Smallest`). The invariant says what
  the buffer in use holds: one written task, or, of a file, where each of the
  tasks is (`FileHolds`).
* `ChainHolds`. The invariant of the shutdown is a chain of implications along
  the tasks: a confirmation exists only if its processor's stop task has
  executed; a processor is in `confirmed` only if its confirmation has; shutdown
  tasks exist only when `confirmed` is everyone; a processor is told to leave
  only by its shutdown task. The one fact of arithmetic is that a subset of
  `Proc` with its cardinality is `Proc`.
* `ShutdownInTwoPhases`. Each step of `Termination` is a step of `Shutdown` or
  leaves its variables alone, by `Chain`. It holds for any number of processors
  and tasks; the run shows it for three.
* `TypesHold`, `RootLeavesLast`. The root leaves when nothing executes there, and
  the task that found everyone confirmed is finished only when all it submits is
  out. `EndInv` therefore follows that task: it is a confirmation, it has
  begun to execute, and no later one can find the set complete, because every
  confirmation in the set has executed once. "Once" needs `Mail`: a task is in
  one place of one inbox, or in one hand, and nowhere else, or it could come
  back to a queue.
* `NobodyLeftBehind`. Nothing in `Leave` or `Close` waits for the inbox, so the
  argument is one about order. `Settling` names for each task that was sent in
  time the termination task that comes after it in the same inbox: the shutdown
  task of the processor, and on the root, whose own shutdown task does not
  pass through the inbox, the confirmation of the sender. As long as the task is
  in the inbox or in hand, that one has not been received. A processor that was
  told to leave has executed it, or knows everyone confirmed. This is where the
  proof uses that an inbox is one queue in the order of sending, as the internal
  communication manager has it; the mutant `BugOvertaking` breaks exactly that.
* `BarrierIsSafe`. That nobody is ahead is not inductive: it rests on what the
  counters of rank 0 mean. `BarrierInv` says for every other rank how its rounds
  relate to those of rank 0 by where its connection is (on its way, in the
  buffer, collected, answered; never in two places), that the posts of the
  semaphore are the envelopes in the buffer, and that `count` is what rank 0
  still misses: when it is zero, the collected ranks are `Size - 1` many and
  therefore all. It holds for any number of processes and rounds.
* `LauncherKeepsBarriers`, `LauncherAnswersAll`. Every step of a whole job is a
  step of the barrier or leaves its variables alone, whatever `srun`, the daemons
  and the threads do, so the two carry over to `Launcher`.
* `LauncherTypes`, `NobodyEverFails`, `RoutesStayRight`, `NothingEverLeftBehind`.
  `LaunchInv`, with `BarrierInv`, gives each process, host and phase its place.
  `srun` starts one rank after the other: until the daemon of that rank has told the
  port (`StartKept`) all other daemons are at rest with empty queues, and only the
  ranks before it have ports. A port is its process's until the daemon has reaped
  it (`PortKept`), so nobody else on the host is given it. Nobody runs without the
  table, and nobody connects before it runs, so the table is the first connection
  (`TableKept`). The end comes after the last barrier (`EndKept`), and who has come
  back from that one knows by `BarrierInv` that everyone has called it (`LastBarrier`):
  a daemon then only hears FINALIZE, from processes that join their receiver and
  have not been called (`EndQueue`). That nobody connects to a rank 0 that is gone
  is the same lemma.
* `SlotsAreSafe`, `StopNeverConfused`, `OneSenderIsSafe`, `FilesAreSafe`,
  `OrderIsKept`. `TransportsInv` is the invariant of the transport the job uses;
  the other two stay as they are. For the slots (`SlotInv`) it is the mutex: a
  sender thread that has a message has the mutex, and so has a caller that
  fills a slot. For MPI (`MPIInv`), that only a processor with its flag down has
  sent itself the last message, and that a probed message remains the first of its
  sender until it is received. For files (`NumbersInv`), that the files a
  processor fills are open and distinct and the number 0 is never one, while a name
  to be read is of an ended file and the only name of it. This is kept by every step
  that does not set `overrun` (`Usual...` is what such a step looks like), and
  `overrun` is never reset; so is the order. A
  number that was taken before is free again only when its file was read.
* The order in `OrderIsKept` is that of positions in the script of a thread. A
  task on its way is in a line of pieces: over MPI what is submitted, the buffer
  of the receive thread, the messages of its sender (`Chain`); over files what is
  submitted, the files in the order of the list, one that is ended and not yet
  named, the one that is being filled (`Lined`). In a line positions strictly
  go up, and none is beyond what the thread has taken from its script. A step takes the
  first piece, adds to the last or moves pieces on without changing their order.
  The lists shift when a name is added or the list is emptied; `LineKept` says
  that a line keeps its order under any such renumbering.
* `TransportsDeliver`, `BuffersFit`, `NothingLeavesTheDisk`, `TransportTypes`. The
  types hold after an overrun, too (`FileTyped`: lines that are no names, files
  without a header, readers that crashed).
  Taking a task from a script is `Send` of `Delivery`, and giving tasks to Submit
  is `Arrive`, if they were sent to that processor and none was submitted before
  (`SubmitIsArrive`). `DeliveryInv` gives what each transport needs to know of the
  tasks on their way.
  * Over sockets (`WayInv`) a task is in the hands of its caller, in one slot, in one
    call, in the list of calls not yet accepted or in the buffer of the receiver,
    never twice; a sender is called back only for the message the manager has
    taken from its buffer. Positions say nothing here, since two slots of a
    processor overtake each other: that a task is in one slot only (`OneSlot`) and
    that whatever is in a slot is not submitted (`Travels`) is the invariant. That
    the buffer fits is part of it.
  * Over MPI (`MPIMeant`) what is on its way was sent to that processor, and it
    is new because the positions in `Chain` strictly go up, so that a line holds
    no task twice (`BufferIsNew`, `OrderedIsOnce`).
  * Over files (`FilesMeant`) it is about names: `Bound(o, n, q)` when the file `n`
    of `o` will be read by `q`. A file goes only to processors that all of its tasks
    were sent to, and a task that has not arrived is in a file that is filled for
    its destination or ended and bound to nobody else. No step binds a file
    that was not bound, but the one that takes a number, and that file is empty. A
    list that is emptied unbinds its files; their tasks stay on disk and never
    arrive, which is why the property does not say that somebody will read them.

* `TaskManagerTypes`, `NeverAsleepOnWork`. `NoSleepOnWork` speaks of one place of
  the service thread; `AwakeInv` says for every place of a round which queues must
  be empty when nobody has posted the semaphore since: `submitted` from the
  transfer on, `messages` from the taking on, the executing tasks as far as
  `cursor` has passed. What fills a queue posts, so a step of another thread
  makes the premise false.
* `GrantsAreNotLost`. `GrantInv` follows a request from the access list through
  `messages` and `batch` to `granted` and to the release: for each task and
  object there is never more than one of them, and what a task holds is exactly what
  has left the list. It needs `QueueInv` (a task is in one queue, the one its
  stage names), `WaitInv` (what the two semaphores of a wait task say of its
  stage and of the main thread) and that no message is for a task that is still in
  `submitted`. It holds until a cancellation takes a task, for every `SameId`: the
  invariant is `NobodyVanished => GrantInv`, a task that was taken stays away
  (`VanishedStays`), and a cancellation that takes nobody changes nothing but the
  messages. What comes after is not claimed, and is false: the task that was taken
  frees objects that others hold, and requests of it may be granted to nobody.
* `StoppedWithNothingLeft`. `KeepRunning` reads the queues without the lock, and
  the thread ends without looking again. That nothing can be submitted behind the
  test is `SubmitInv`: when a termination task is out, the main thread has
  submitted everything, and what executes is in `executing`, which the test has
  seen empty, so no thread is left that could submit. This does not depend on
  cancellations; with `GrantInv`, if none has taken a task, nobody holds an object
  then.

Only model-checked: the properties of an object for workloads that are not
`Simple` (readers on several processors, writers that name the same version, or
several on one processor: a processor that is sent a copy to read has an object of
its own, and `DMRemoteReader` and `DMLateWriter` show what that leads to), and all liveness
properties, fairness and `ENABLED` being out of the prover's reach.

## 6. Plan

Order of the modules, the most important behaviour first: `DataManager` with
`ObjectAccess`, `TaskManager` with wait tasks, `DataVersion`, `Termination` with
`Shutdown`, `SocketBarrier` and `Launcher`, the transports with `Delivery`,
`Messages` (all done). What would come next:

1. *Deletion*: `RequestDelete`, `OOPDelObjectTask::Execute`, `fShouldDelete` and its
   branch of `VerifyAccessRequests` and `FlushData`, as part of `DataManager`.
2. *Several objects on several processors*: a composition of `TaskManager` and
   `DataManager`'s grants, for the hold-and-wait across processors.
3. *Shutdown with data*: owner tasks and the end of the data manager in
   `Termination` (the null data manager, the object in flight).
4. *Shutdown over sockets*: the end of the sender threads with messages in slots.
5. *Id counters*: `GenerateId` under several submitting threads, with the lock of
   the data manager and, for tasks, without one (`ooptaskmanager.cpp:1114`).

Theorems to add: what remains true of one object when readers on other processors
have copies (*Mixed*), once the deletion protocol says who takes those back.

## 7. Not modelled

* The deletion protocol (section 6), snapshots and the collector (no state).
* A request with no task that is granted by its own processor to nobody
  (`ForgetStrayGrant`): the task manager does not report the object as changed,
  and with four tasks in the workload *Mixed* a writer can be left waiting.
  The run has three tasks there.
* `MTSEND` of the MPI manager, a thread for each send: it loses the order of
  delivery, as the mutant `BugSendThread` of `MPIComm` shows; what depends on the
  order shows the mutant `BugOvertaking` of `Termination`. The second service loop
  of the task manager, under `OOP_MPI_OLD`, is not built; it is the only place
  that starts the receive thread of the MPI manager, which `MPIComm` takes as
  started.
* File transport: it is compiled (`FILE_COMM`), and nothing in `Sources/` calls
  its `SendMessages` or `ReceiveMessages`, nor registers the classes that its
  buffers restore (`Projects/Trivial/ooparmain.cpp` does). The models call both
  at any time.
* Strings, floats and shorts in buffers, which no message of the library has.
* Logging, the operators and counters of ids, the arithmetic of parameter types, the applications under
  `Projects/`, `ParUtil/`.
