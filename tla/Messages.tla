------------------------------ MODULE Messages ------------------------------
(***************************************************************************)
(* A task on its way through a message buffer: its Write packs it, the     *)
(* buffer is sent, and Restore makes it again from the numbers it finds.   *)
(* The tags of the tasks carry the version of an object, which goes on     *)
(* changing (DataVersion) and has as many levels as it has.                *)
(*                                                                         *)
(* A buffer is a sequence of numbers.  A double is the number of its first *)
(* eight digits.  Sockets and MPI take a buffer for each task; in a file,  *)
(* which is text, the tasks follow one another.  The three also differ in  *)
(* what they do at their end.  A task has the fields of all classes, those *)
(* of other classes with the values of a task just constructed.            *)
(***************************************************************************)
EXTENDS DataVersion

CONSTANTS
    TasksOf(_),    \* of a version: tasks that may be sent with it in their tags
    Registered,    \* classes in gFuncTree, which file buffers know
    MaxInFile      \* bound on the tasks in a file

\* 0 is no class (OOPStorageBuffer::Restore)
ASSUME RegisteredAssumption == 0 \notin Registered

VARIABLES
    buffer,     \* the kind of the buffer in use
    sent,       \* the tasks written to it
    wire,       \* what it holds; of a buffer that was read, nothing
    received    \* the tasks restored from it, and how that went: "nothing" yet,
                \* "crash" (Restore calls a null function, Submit gets no task
                \* or MPI aborts), or restored to the "end" or with numbers "left"
msgVars == <<buffer, sent, wire, received>>

NoId == [fId |-> 0, fProcId |-> 0]
Nothing == [outcome |-> "nothing", tasks |-> <<>>]
Crash == [outcome |-> "crash", tasks |-> <<>>]

\* Class ids (ooppardefs.h)
TTASK == 3000
TDMOWNERTASK == 3003
TDMREQUESTTASK == 3004
TTERMINATIONTASK == 3006
TSNAPSHOTTASK == 3007
TDELOBJECTTASK == 3008
OOPINT == 3010
OOPDOUBLE == 3012
OOPVECINT == 4040
OOPVECDOUBLE == 4041
Myself == 1          \* the processor that writes, in the header of a file
NoObject == [class |-> -1, data |-> <<>>]
NoTag == [id |-> NoId, task |-> NoId, mode |-> 0, proc |-> -1,
          version |-> [version |-> <<>>, card |-> <<>>], object |-> NoObject]

-----------------------------------------------------------------------------
(* Write                                                                   *)

\* What each kind of buffer makes of doubles: sockets and MPI copy them, a file
\* prints seven digits of each
PackSocket(xs) == xs
PackMPI(xs) == xs
PackFile(xs) == [i \in DOMAIN xs |-> ((xs[i] + 5) \div 10) * 10]
PkDouble(b, xs) == CASE b = "socket" -> PackSocket(xs)
                     [] b = "mpi" -> PackMPI(xs)
                     [] OTHER -> PackFile(xs)

WriteId(id) == <<id.fId, id.fProcId>>

WriteVersion(v) == <<Len(v.version)>> \o v.version \o <<Len(v.card)>> \o v.card

Packed(b, o) == IF o.class \in {OOPDOUBLE, OOPVECDOUBLE} THEN PkDouble(b, o.data) ELSE o.data

\* The classes of data the library brings: the value, or the number of values
\* and then the values, between two class ids.  -1 stands for no object.
WriteVector(b, o) == <<Len(o.data)>> \o Packed(b, o)
WriteObject(b, o) ==
    CASE o = NoObject -> <<-1>>
      [] o.class \in {OOPINT, OOPDOUBLE} -> <<o.class>> \o Packed(b, o) \o <<o.class>>
      [] OTHER -> <<o.class>> \o WriteVector(b, o) \o <<o.class>>

WriteTag(b, tag) ==
    WriteId(tag.id) \o WriteId(tag.task) \o <<tag.mode, tag.proc>>
        \o WriteVersion(tag.version) \o WriteObject(b, tag.object)

\* A list of tags: how many, and each
WriteTags(b, tags) ==
    LET first[k \in 0..Len(tags)] ==
          IF k = 0 THEN <<Len(tags)>> ELSE first[k - 1] \o WriteTag(b, tags[k])
    IN  first[Len(tags)]

WriteTask(b, t) == WriteId(t.id) \o <<t.proc, IF t.update THEN 1 ELSE 0>>
                       \o WriteTags(b, t.depend)

\* What each class of task adds
WriteRequest(b, t) == WriteTag(b, t.tag)
WriteOwner(b, t) == WriteTag(b, t.tag) \o WriteTags(b, t.transfer)
WriteTermination(t) == <<t.status, t.origin>>
WriteDelete(t) == WriteId(t.target)
WriteSnapshot(t) == <<t.class>>

WriteFields(b, t) ==
    CASE t.class = TDMREQUESTTASK -> WriteRequest(b, t)
      [] t.class = TDMOWNERTASK -> WriteOwner(b, t)
      [] t.class = TTERMINATIONTASK -> WriteTermination(t)
      [] t.class = TDELOBJECTTASK -> WriteDelete(t)
      [] t.class = TSNAPSHOTTASK -> WriteSnapshot(t)
      [] OTHER -> <<>>

\* The file manager passes the number of the task where the others pass 1
WithClassId(b, t) == b # "file" \/ t.id.fId # 0

Written(b, t) == (IF WithClassId(b, t) THEN <<t.class>> ELSE <<>>)
                     \o WriteTask(b, t) \o WriteFields(b, t)

-----------------------------------------------------------------------------
(* Read: what is read, and where the next read begins                      *)

\* Beyond the end of a socket's buffer nothing is read, and the variables keep
\* what they had; a file gives the numbers that are left; MPI aborts
Aborted == 0
InBuffer(w, at, n) == at # Aborted /\ at + n - 1 <= Len(w)
Zeros(n) == [i \in 1..n |-> 0]
UnpackSocket(w, at, n) ==
    IF InBuffer(w, at, n) THEN [value |-> SubSeq(w, at, at + n - 1), next |-> at + n]
    ELSE [value |-> Zeros(n), next |-> at]
UnpackMPI(w, at, n) ==
    IF InBuffer(w, at, n) THEN [value |-> SubSeq(w, at, at + n - 1), next |-> at + n]
    ELSE [value |-> Zeros(n), next |-> Aborted]
ScanFile(w, at, n) ==
    LET left == SubSeq(w, at, Smaller(at + n - 1, Len(w)))
    IN  [value |-> left \o Zeros(n - Len(left)), next |-> at + Len(left)]
Unpack(w, at, n) == CASE buffer = "socket" -> UnpackSocket(w, at, n)
                      [] buffer = "mpi" -> UnpackMPI(w, at, n)
                      [] OTHER -> ScanFile(w, at, n)

ReadId(w, at) == LET r == Unpack(w, at, 2)
                 IN  [value |-> [fId |-> r.value[1], fProcId |-> r.value[2]], next |-> r.next]

\* A number of numbers, and the numbers
UnpackMany(w, size) == Unpack(w, size.next, size.value[1])
ReadVector(w, at) == UnpackMany(w, Unpack(w, at, 1))

VersionOf(levels, cards) ==
    [value |-> [version |-> levels.value, card |-> cards.value], next |-> cards.next]
BugOneSize(w, at) ==
    LET size == Unpack(w, at, 1)
        levels == Unpack(w, size.next, size.value[1])
    IN  VersionOf(levels, Unpack(w, levels.next, size.value[1]))

ReadVersion(w, at) ==
    LET levels == ReadVector(w, at)
    IN  VersionOf(levels, ReadVector(w, levels.next))

\* The library's Restore by class id; a second id that differs is only logged
ObjectOf(w, class, data) ==
    [value |-> [class |-> class, data |-> data.value], next |-> Unpack(w, data.next, 1).next]
RestoreObject(w, class, at) ==
    IF class = -1 THEN [value |-> NoObject, next |-> at]
    ELSE ObjectOf(w, class, IF class \in {OOPINT, OOPDOUBLE} THEN Unpack(w, at, 1)
                            ELSE ReadVector(w, at))
ReadObject(w, at) ==
    LET class == Unpack(w, at, 1) IN RestoreObject(w, class.value[1], class.next)

TagOf(id, task, ints, levels, object) ==
    [value |-> [id |-> id.value, task |-> task.value, mode |-> ints.value[1],
                proc |-> ints.value[2], version |-> levels.value, object |-> object.value],
     next |-> object.next]
ReadTag(w, at) ==
    LET id == ReadId(w, at)
        task == ReadId(w, id.next)
        ints == Unpack(w, task.next, 2)
        levels == ReadVersion(w, ints.next)
    IN  TagOf(id, task, ints, levels, ReadObject(w, levels.next))

\* What was read before, and one more
NoneYet(at) == [value |-> <<>>, next |-> at]
More(before, r) == [value |-> Append(before, r.value), next |-> r.next]
MoreTags(w, tags) == More(tags.value, ReadTag(w, tags.next))
ReadTags(w, at) ==
    LET size == Unpack(w, at, 1)
        first[k \in 0..size.value[1]] ==
          IF k = 0 THEN NoneYet(size.next) ELSE MoreTags(w, first[k - 1])
    IN  first[size.value[1]]

\* What a constructor of the class leaves, and OOPTask::Read then fills
TaskOf(class, id, ints, depend) ==
    [value |-> [class |-> class, id |-> id.value, proc |-> ints.value[1],
                update |-> ints.value[2] # 0, depend |-> depend.value, tag |-> NoTag,
                transfer |-> <<>>, status |-> 0, origin |-> 0, target |-> NoId],
     next |-> depend.next]
ReadTask(w, at, class) ==
    LET id == ReadId(w, at)
        ints == Unpack(w, id.next, 2)
    IN  TaskOf(class, id, ints, ReadTags(w, ints.next))

\* What each class reads into the task t
RequestOf(t, tag) == [value |-> [t EXCEPT !.tag = tag.value], next |-> tag.next]
ReadRequest(w, at, t) == RequestOf(t, ReadTag(w, at))

OwnerOf(t, tag, transfer) ==
    [value |-> [t EXCEPT !.tag = tag.value, !.transfer = transfer.value],
     next |-> transfer.next]
ReadOwner(w, at, t) ==
    LET tag == ReadTag(w, at) IN OwnerOf(t, tag, ReadTags(w, tag.next))

ReadTermination(w, at, t) ==
    LET ints == Unpack(w, at, 2)
    IN  [value |-> [t EXCEPT !.status = ints.value[1], !.origin = ints.value[2]],
         next |-> ints.next]

ReadDelete(w, at, t) ==
    LET target == ReadId(w, at)
    IN  [value |-> [t EXCEPT !.target = target.value], next |-> target.next]

\* The second class id is read and not looked at
ReadSnapshot(w, at, t) == [value |-> t, next |-> Unpack(w, at, 1).next]

ReadFields(w, read) ==
    LET t == read.value at == read.next
    IN  CASE t.class = TDMREQUESTTASK -> ReadRequest(w, at, t)
          [] t.class = TDMOWNERTASK -> ReadOwner(w, at, t)
          [] t.class = TTERMINATIONTASK -> ReadTermination(w, at, t)
          [] t.class = TDELOBJECTTASK -> ReadDelete(w, at, t)
          [] t.class = TSNAPSHOTTASK -> ReadSnapshot(w, at, t)
          [] OTHER -> read

Restore(w, at) ==
    LET class == Unpack(w, at, 1)
    IN  ReadFields(w, ReadTask(w, class.next, class.value[1]))

Restored(w, tasks) ==
    IF tasks.next = Aborted THEN Crash
    ELSE [outcome |-> IF tasks.next > Len(w) THEN "end" ELSE "left", tasks |-> tasks.value]

\* Restore of a file buffer gives nothing for class 0, and for a class that it
\* does not know calls a function that is not there
CanRestore(w, at) == Unpack(w, at, 1).value[1] \in Registered

\* ReceiveMessages reads the sender and then, as long as the byte in front says
\* so, a task
Flag(w, tasks) == Unpack(w, tasks.next, 1)
GoesOn(w, tasks) == Flag(w, tasks).value[1] # 0 /\ CanRestore(w, Flag(w, tasks).next)
MoreTasks(w, tasks) == More(tasks.value, Restore(w, Flag(w, tasks).next))
AtTheEnd(w, tasks) ==
    IF Flag(w, tasks).value[1] = 0
    THEN Restored(w, [tasks EXCEPT !.next = Flag(w, tasks).next]) ELSE Crash
ReadFile(w) ==
    LET first[k \in 0..Len(w)] ==
          IF k = 0 THEN NoneYet(2) ELSE MoreTasks(w, first[k - 1])
        all == CHOOSE k \in 0..Len(w) : /\ ~GoesOn(w, first[k])
                                        /\ \A j \in 0..(k - 1) : GoesOn(w, first[j])
    IN  AtTheEnd(w, first[all])

-----------------------------------------------------------------------------
\* SendTask of a socket or an MPI manager, into a buffer that grows by what is
\* packed; what it then holds is sent
SendTask(b, t) ==
    /\ sent = <<>>
    /\ buffer' = b
    /\ sent' = <<t>>
    /\ wire' = Written(b, t)
    /\ received' = Nothing
    /\ UNCHANGED vars
SocketSendTask(t) == SendTask("socket", t)
MPISendTask(t) == SendTask("mpi", t)

\* SendTask of the file manager: after the header, a byte and the task
FileSendTask(t) ==
    /\ sent = <<>> \/ (wire # <<>> /\ buffer = "file" /\ Len(sent) < MaxInFile)
    /\ buffer' = "file"
    /\ sent' = IF wire = <<>> THEN <<t>> ELSE Append(sent, t)
    /\ wire' = (IF wire = <<>> THEN <<Myself>> ELSE wire) \o <<1>> \o Written("file", t)
    /\ received' = Nothing
    /\ UNCHANGED vars

\* The other processor restores what came
RestoreTask == Restored(wire, More(<<>>, Restore(wire, 1)))
SocketReceive == buffer = "socket" /\ received' = RestoreTask
MPIReceive == buffer = "mpi" /\ received' = RestoreTask
\* The file has got its last byte
FileReceive == buffer = "file" /\ received' = ReadFile(wire \o <<0>>)

Receive == /\ wire # <<>>
           /\ SocketReceive \/ MPIReceive \/ FileReceive
           /\ wire' = <<>>
           /\ UNCHANGED <<buffer, sent, vars>>

MessagesInit == /\ Init
                /\ buffer = "socket" /\ sent = <<>> /\ wire = <<>> /\ received = Nothing
\* Bound: the object stays as it is once a buffer is in use, and a buffer is
\* read once
MessagesNext ==
    \/ sent = <<>> /\ Write /\ UNCHANGED msgVars
    \/ sent = <<>> /\ OpenLevel /\ UNCHANGED msgVars
    \/ \E t \in TasksOf(version) : SocketSendTask(t) \/ MPISendTask(t) \/ FileSendTask(t)
    \/ Receive
MessagesSpec == MessagesInit /\ [][MessagesNext]_<<vars, msgVars>>

-----------------------------------------------------------------------------
\* The tasks there are to send: any numbers, tags and objects, and the fields
\* of other classes as a constructor leaves them
Ids == [fId : Int, fProcId : Int]
Versions == [version : Seq(Int), card : Seq(Int)]
Objects == {NoObject}
           \cup [class : {OOPINT, OOPDOUBLE}, data : {xs \in Seq(Int) : Len(xs) = 1}]
           \cup [class : {OOPVECINT, OOPVECDOUBLE}, data : Seq(Int)]
Tags == [id : Ids, task : Ids, mode : Int, proc : Int, version : Versions, object : Objects]
Fields == [class : Int, id : Ids, proc : Int, update : BOOLEAN, depend : Seq(Tags),
           tag : Tags, transfer : Seq(Tags), status : Int, origin : Int, target : Ids]
Message == {t \in Fields : /\ t.class \notin {TDMREQUESTTASK, TDMOWNERTASK} => t.tag = NoTag
                           /\ t.class # TDMOWNERTASK => t.transfer = <<>>
                           /\ t.class # TTERMINATIONTASK => t.status = 0 /\ t.origin = 0
                           /\ t.class # TDELOBJECTTASK => t.target = NoId}

\* What a buffer keeps of the doubles in a task
Kept(b, tag) == [tag EXCEPT !.object.data = Packed(b, tag.object)]
AllKept(b, tags) == [i \in DOMAIN tags |-> Kept(b, tags[i])]
AsKept(b, t) == [t EXCEPT !.depend = AllKept(b, t.depend), !.tag = Kept(b, t.tag),
                          !.transfer = AllKept(b, t.transfer)]

\* Every Read takes back what the Write of the same class left, number for
\* number, whatever version, tags, object or requests the task carries, and
\* the buffer is then at its end.  A file does as much if it knows the classes
\* of its tasks and all of them have a number; data lose their last digits.
RestoredAsWritten ==
    LET allKnown == \A i \in DOMAIN sent : sent[i].class \in Registered /\ sent[i].id.fId # 0
    IN  received # Nothing =>
            /\ buffer # "file" => received = [outcome |-> "end", tasks |-> sent]
            /\ buffer = "file" =>
                 received = IF allKnown
                            THEN [outcome |-> "end",
                                  tasks |-> [i \in DOMAIN sent |-> AsKept("file", sent[i])]]
                            ELSE Crash
=============================================================================
