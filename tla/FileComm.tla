----------------------------- MODULE FileComm -----------------------------
(***************************************************************************)
(* OOPFileComManager: processors exchange files.  The files of a processor *)
(* are numbered.  Number 0 is its list of files to read, written by the    *)
(* others; the rest are messages it fills, one for each destination.       *)
(* SendMessages ends a file, takes a new number, and only then adds the    *)
(* name to the list of the destination.  ReceiveMessages reads the files   *)
(* of its list and then empties the list.                                  *)
(*                                                                         *)
(* There is no lock: the manager is called by one thread of a processor at *)
(* a time.  Two processors work at the same time.  Here every task that    *)
(* was written can be restored; module Messages has those that cannot.     *)
(*                                                                         *)
(* A new number should be one whose file does not exist.  Two limits are   *)
(* not checked: when all the numbers are used the file tried last is       *)
(* truncated and the processor stays with its number; and number 0 is      *)
(* taken like any other as long as the processor has no list.  What comes  *)
(* of it is here too: files without a header, lines of a list that name    *)
(* nothing, two buffers with one number, readers that crash.               *)
(***************************************************************************)
EXTENDS Transport

CONSTANT LastNumber    \* 99 in the code
ASSUME FileAssumption ==
    LastNumber \in Nat /\ \A j \in Jobs : j.size <= LastNumber

Number == 0..LastNumber
Everyone == -1         \* as a destination
NoName == [of |-> -1, number |-> 0]    \* a line of numbers in a list

\* A file is there with its header, ends with the byte that says so, or has no
\* header because something was appended to a file that was not there.  Number 0
\* is as absent as long as the list holds only names.
Absent == [tasks |-> <<>>, state |-> "absent"]
Fresh == [tasks |-> <<>>, state |-> "open"]
Headless == [tasks |-> <<>>, state |-> "headless"]

VARIABLES
    files,      \* of a processor: what its numbers hold
    names,      \* of a processor: the lines of its list, records [of, number]
    listExists, \* whether the list is there
    f_buffer,   \* the number a processor fills for another
    f_wrote,    \* whether it has written to that file
    working,    \* where a processor is in ReceiveMessages or SendMessages
    keepGoing,  \* ReceiveMessages resets it in the task manager
    overrun     \* history: a number was taken that was not free for messages

fileVars == <<files, names, listExists, f_buffer, f_wrote, working, keepGoing, overrun>>

Idle == [at |-> "out", next |-> 0, number |-> 0]

FileTypeOK ==
    /\ \A p \in Proc : \A n \in Number :
         files[p][n].state \in {"absent", "open", "ended", "headless"}
    /\ \A p \in Proc : Elements(names[p]) \subseteq [of : Proc, number : Number] \cup {NoName}
    /\ listExists \in [Proc -> BOOLEAN]
    /\ f_buffer \in [Proc -> [Proc -> Number]]
    /\ f_wrote \in [Proc -> [Proc -> BOOLEAN]]
    /\ \A p \in Proc : working[p].at \in {"out", "read", "empty", "send", "name", "crashed"}
    /\ keepGoing \in [Proc -> BOOLEAN]
    /\ overrun \in BOOLEAN

\* The constructors took the numbers from 1 on
FileInit ==
    /\ f_buffer = [p \in Proc |-> [q \in Proc |->
         IF q = p THEN 0 ELSE IF q < p THEN q + 1 ELSE q]]
    /\ files = [p \in Proc |-> [n \in Number |->
         IF n \in 1..(job.size - 1) THEN Fresh ELSE Absent]]
    /\ names = [p \in Proc |-> <<>>]
    /\ listExists = [p \in Proc |-> FALSE]
    /\ f_wrote = [p \in Proc |-> [q \in Proc |-> FALSE]]
    /\ working = [p \in Proc |-> Idle]
    /\ keepGoing = [p \in Proc |-> TRUE]
    /\ overrun = FALSE

-----------------------------------------------------------------------------
(* SendTask                                                                *)

Goals(t, p) == (IF DestOf[t] = Everyone THEN Proc ELSE {DestOf[t]} \cap Proc) \ {p}

\* Appending k times a task makes the file if it is not there; what comes behind
\* the last byte is not read
WithTasks(file, t, k) ==
    [tasks |-> IF file.state = "open" THEN file.tasks \o [i \in 1..k |-> t] ELSE file.tasks,
     state |-> IF file.state = "absent" THEN "headless" ELSE file.state]

\* The numbers a processor has appended to; at 0 that is its list
Appended(p, numbers) ==
    /\ names' = IF 0 \in numbers THEN [names EXCEPT ![p] = Append(@, NoName)] ELSE names
    /\ listExists' = [listExists EXCEPT ![p] = @ \/ 0 \in numbers]

\* The task is added to the file of each destination
FileSendTask(c) ==
    LET p == Home[c]
        t == Head(todo[c])
        Filled(n) == {q \in Goals(t, p) : f_buffer[p][q] = n}
    IN
    /\ todo[c] # <<>> /\ working[p].at = "out"
    /\ todo' = [todo EXCEPT ![c] = Tail(@)]
    /\ files' = [files EXCEPT ![p] = [n \in Number |->
         IF Filled(n) = {} THEN files[p][n]
         ELSE WithTasks(files[p][n], t, Cardinality(Filled(n)))]]
    /\ Appended(p, {n \in Number : Filled(n) # {}})
    /\ f_wrote' = [f_wrote EXCEPT ![p] = [q \in Proc |-> @[q] \/ q \in Goals(t, p)]]
    /\ UNCHANGED <<submitted, f_buffer, working, keepGoing, overrun>>

-----------------------------------------------------------------------------
(* SendMessages: for each destination a step to end the file and a step to *)
(* name it.                                                                *)

SendMessages(p) ==
    /\ working[p].at = "out"
    /\ working' = [working EXCEPT ![p] = [at |-> "send", next |-> 0, number |-> 0]]
    /\ UNCHANGED <<todo, submitted, files, names, listExists, f_buffer, f_wrote, keepGoing, overrun>>

\* FindNewBuffer: the next number that does not exist; the list counts
Exists(p, n) == IF n = 0 THEN listExists[p] ELSE files[p][n].state # "absent"
FreeNumber(p, from) == {n \in Number \ {from} : ~ Exists(p, n)}
Distance(from, n) == (n - from) % (LastNumber + 1)
BugNextNumber(p, from) == (from % LastNumber) + 1
NewNumber(p, from) ==
    CHOOSE n \in FreeNumber(p, from) :
        \A m \in FreeNumber(p, from) : Distance(from, n) <= Distance(from, m)
\* The number that is tried last
LastTried(from) == (from + LastNumber) % (LastNumber + 1)

\* The byte at the end of a file
WithEnd(file) ==
    IF file.state \in {"open", "ended"} THEN [file EXCEPT !.state = "ended"] ELSE Headless

BugNumberKept(p) ==
    LET q == working[p].next
        n == f_buffer[p][q]
    IN
    /\ working[p].at = "send" /\ q \in Proc
    /\ q # p /\ f_wrote[p][q]
    /\ files' = [files EXCEPT ![p][n] = WithEnd(@)]
    /\ Appended(p, {n})
    /\ f_wrote' = [f_wrote EXCEPT ![p][q] = FALSE]
    /\ working' = [working EXCEPT ![p] = [at |-> "name", next |-> q, number |-> n]]
    /\ UNCHANGED <<todo, submitted, f_buffer, keepGoing, overrun>>

\* Nothing to send there
NothingToSend(p) ==
    LET q == working[p].next IN
    /\ working[p].at = "send" /\ q \in Proc
    /\ q = p \/ ~ f_wrote[p][q]
    /\ working' = [working EXCEPT ![p].next = q + 1]
    /\ UNCHANGED <<todo, submitted, files, names, listExists, f_buffer, f_wrote, keepGoing, overrun>>

\* HasSomeThingToSend: end the file and go on with another.  If no number is free
\* the buffer keeps its own, and the file it tried last is opened for writing.
EndFile(p) ==
    LET q == working[p].next
        n == f_buffer[p][q]
        full == FreeNumber(p, n) = {}
        m == IF full THEN LastTried(n) ELSE NewNumber(p, n)
    IN
    /\ working[p].at = "send" /\ q \in Proc
    /\ q # p /\ f_wrote[p][q]
    /\ files' = [files EXCEPT ![p][n] = WithEnd(@), ![p][m] = Fresh]
    /\ IF m = 0
       THEN /\ names' = [names EXCEPT ![p] = <<NoName>>]
            /\ listExists' = [listExists EXCEPT ![p] = TRUE]
       ELSE Appended(p, {n})
    /\ f_buffer' = [f_buffer EXCEPT ![p][q] = IF full THEN n ELSE m]
    /\ f_wrote' = [f_wrote EXCEPT ![p][q] = FALSE]
    /\ working' = [working EXCEPT ![p] = [at |-> "name", next |-> q, number |-> n]]
    /\ overrun' = (overrun \/ full \/ m = 0)
    /\ UNCHANGED <<todo, submitted, keepGoing>>

\* Appending creates the list where the destination has none yet
AddName(p) ==
    LET q == working[p].next IN
    /\ working[p].at = "name"
    /\ names' = [names EXCEPT ![q] = Append(@, [of |-> p, number |-> working[p].number])]
    /\ listExists' = [listExists EXCEPT ![q] = TRUE]
    /\ working' = [working EXCEPT ![p] = [at |-> "send", next |-> q + 1, number |-> 0]]
    /\ UNCHANGED <<todo, submitted, files, f_buffer, f_wrote, keepGoing, overrun>>

AllSent(p) ==
    /\ working[p].at = "send" /\ working[p].next \notin Proc
    /\ working' = [working EXCEPT ![p] = Idle]
    /\ UNCHANGED <<todo, submitted, files, names, listExists, f_buffer, f_wrote, keepGoing, overrun>>

-----------------------------------------------------------------------------
(* ReceiveMessages                                                         *)

\* A list that is not there is created, and the call returns
OpenList(p) ==
    /\ working[p].at = "out"
    /\ keepGoing' = [keepGoing EXCEPT ![p] = FALSE]
    /\ listExists' = [listExists EXCEPT ![p] = TRUE]
    /\ IF listExists[p]
       THEN working' = [working EXCEPT ![p] = [at |-> "read", next |-> 1, number |-> 0]]
       ELSE UNCHANGED working
    /\ UNCHANGED <<todo, submitted, files, names, f_buffer, f_wrote, overrun>>

\* Names stand between the tasks of a list that is read as a file of messages
Mixed(name) == name.number = 0 /\ \E i \in 1..Len(names[name.of]) : names[name.of][i] # NoName

\* Reading a file submits the first k of its tasks, and the reader goes on or
\* crashes: at the end of a file without the last byte it submits no task at all,
\* and without the header it takes the wrong numbers for the class of one.
Yields(name, k, goesOn) ==
    LET file == files[name.of][name.number] IN
    CASE file.state = "absent" -> k = 0 /\ goesOn = Exists(name.of, name.number)
      [] file.state = "headless" -> k = 0
      [] Mixed(name) -> TRUE
      [] OTHER -> k = Len(file.tasks) /\ goesOn = (file.state = "ended" \/ k = 0)

\* The file is removed after it was read; who reads a list that is removed goes on
Removed(name) ==
    /\ files' = [files EXCEPT ![name.of][name.number] = Absent]
    /\ listExists' = [listExists EXCEPT ![name.of] = @ /\ name.number # 0]
    /\ names' = IF name.number = 0 /\ working[name.of].at # "read"
                THEN [names EXCEPT ![name.of] = <<>>] ELSE names

\* Restore and Submit the tasks of the next file, and remove it
ReadFile(p) ==
    LET i == working[p].next name == names[p][i] IN
    /\ working[p].at = "read" /\ i <= Len(names[p]) /\ name # NoName
    /\ \E k \in 0..Len(files[name.of][name.number].tasks), goesOn \in BOOLEAN :
         /\ Yields(name, k, goesOn)
         /\ submitted' = [submitted EXCEPT ![p] =
                            @ \o SubSeq(files[name.of][name.number].tasks, 1, k)]
         /\ IF goesOn
            THEN Removed(name) /\ working' = [working EXCEPT ![p].next = i + 1]
            ELSE /\ working' = [working EXCEPT ![p].at = "crashed"]
                 /\ UNCHANGED <<files, listExists, names>>
    /\ UNCHANGED <<todo, f_buffer, f_wrote, keepGoing, overrun>>

\* No file has such a name; the buffer reads from none
ReadNoName(p) ==
    LET i == working[p].next IN
    /\ working[p].at = "read" /\ i <= Len(names[p]) /\ names[p][i] = NoName
    /\ working' = [working EXCEPT ![p].at = "crashed"]
    /\ UNCHANGED <<todo, submitted, files, names, listExists, f_buffer, f_wrote, keepGoing, overrun>>

EndOfList(p) ==
    /\ working[p].at = "read" /\ working[p].next > Len(names[p])
    /\ working' = [working EXCEPT ![p].at = "empty"]
    /\ UNCHANGED <<todo, submitted, files, names, listExists, f_buffer, f_wrote, keepGoing, overrun>>

\* Whatever was added since the end was seen goes with the rest
EmptyList(p) ==
    /\ working[p].at = "empty"
    /\ names' = [names EXCEPT ![p] = <<>>]
    /\ listExists' = [listExists EXCEPT ![p] = TRUE]
    /\ files' = [files EXCEPT ![p][0] = Absent]
    /\ working' = [working EXCEPT ![p] = Idle]
    /\ UNCHANGED <<todo, submitted, f_buffer, f_wrote, keepGoing, overrun>>

-----------------------------------------------------------------------------
FileSending(p) == SendMessages(p) \/ NothingToSend(p) \/ EndFile(p) \/ AddName(p) \/ AllSent(p)
FileReceiving(p) == OpenList(p) \/ ReadFile(p) \/ ReadNoName(p) \/ EndOfList(p) \/ EmptyList(p)

FileNext == \/ \E c \in Caller : FileSendTask(c)
            \/ \E p \in Proc : FileSending(p) \/ FileReceiving(p)

-----------------------------------------------------------------------------
(* Properties                                                              *)

\* Until a processor has taken a number that was not free for messages: a file is
\* read when its writer has ended it and has taken another, never while tasks are
\* still added to it; the name still means that file; and no reader crashes.
OnlyEndedFilesAreRead ==
    overrun \/
    \A p \in Proc :
        /\ working[p].at # "crashed"
        /\ \A i \in 1..Len(names[p]) :
             LET name == names[p][i] IN
             (working[p].at = "read" => i >= working[p].next) /\ working[p].at # "empty"
                 => /\ files[name.of][name.number].state = "ended"
                    /\ \A q \in Proc : f_buffer[name.of][q] # name.number
=============================================================================
