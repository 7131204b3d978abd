--------------------------- MODULE FileComm_proofs ---------------------------
(***************************************************************************)
(* The exchange through files, for any number of processors, of file       *)
(* numbers and of tasks, until a processor takes a number that was not     *)
(* free for messages (overrun): a file is read only when it has been ended *)
(* and its number given up, and the tasks of one thread to one processor   *)
(* are submitted in the order it sent them.                                *)
(*                                                                         *)
(* The first rests on the numbers: those a processor fills are distinct,   *)
(* open and not 0, and every name that is still to be read is of an ended  *)
(* file that no other name means.  From such a state the handlers that do  *)
(* not overrun do what is meant (the Usual forms below): nothing is        *)
(* appended to a list or to an ended file, and no reader crashes.  The     *)
(* second follows a task: what is submitted, the files named in the list,  *)
(* one that is ended and not yet named, the one that is being filled.      *)
(*                                                                         *)
(* The first part is about what the transports share: the scripts of the   *)
(* callers, and the order of tasks, as the order of their positions in a   *)
(* script.                                                                 *)
(***************************************************************************)
EXTENDS FileComm, FiniteSetTheorems, WellFoundedInduction, TLAPS

-----------------------------------------------------------------------------
(* The callers: what one has still to send is the end of its script.       *)

Taken(c) == Len(Script[c]) - Len(todo[c])

ScriptInv ==
    /\ job \in Jobs
    /\ todo \in [Caller -> Seq(Task)]
    /\ \A c \in Caller :
         /\ Taken(c) \in Nat
         /\ \A i \in 1..Len(todo[c]) : todo[c][i] = Script[c][Taken(c) + i]

\* A script is a sequence of tasks, and its length a number
LEMMA Scripts == ASSUME job \in Jobs
                 PROVE  /\ Script \in [Caller -> Seq(Task)]
                        /\ job.size \in Nat /\ Proc \subseteq Processor
                        /\ kind \in {"socket", "mpi", "file"}
<1>1. /\ job.kind \in {"socket", "mpi", "file"}
      /\ job.size \in Nat /\ 0..(job.size - 1) \subseteq Processor
      /\ job.script \in [Caller -> Seq(Task)]
  BY TransportAssumption, Zenon
<1> QED BY <1>1 DEF Script, Proc, kind

\* The task a caller is in SendTask with
LEMMA CurrentIsATask ==
    ASSUME ScriptInv, NEW c \in Caller, Taken(c) # 0
    PROVE  /\ Taken(c) \in 1..Len(Script[c])
           /\ Current(c) = Script[c][Taken(c)] /\ Current(c) \in Task
<1>1. Script[c] \in Seq(Task) /\ todo[c] \in Seq(Task)
  BY Scripts DEF ScriptInv
<1>2. Taken(c) \in 1..Len(Script[c])
  BY <1>1 DEF ScriptInv, Taken
<1>3. Current(c) = Script[c][Taken(c)]
  BY DEF Current, Taken
<1> QED BY <1>1, <1>2, <1>3

\* Who has a task to send is on a processor of the job
LEMMA HomeIsThere ==
    ASSUME ScriptInv, NEW c \in Caller, todo[c] # <<>> PROVE Home[c] \in Proc
<1>1. \A i \in 1..Len(job.script[c]) : Home[c] < job.size
  BY TransportAssumption, Zenon DEF ScriptInv
<1>2. Home[c] \in Nat /\ job.size \in Nat
  BY TransportAssumption, Scripts DEF ScriptInv
<1>3. Script[c] \in Seq(Task) /\ todo[c] \in Seq(Task) /\ Len(todo[c]) # 0
  BY Scripts DEF ScriptInv
<1>4. 1 \in 1..Len(Script[c])
  BY <1>3 DEF ScriptInv, Taken
<1> QED BY <1>1, <1>2, <1>4 DEF Proc, Script

\* At the start nothing is taken from the scripts
LEMMA ScriptStart == TransportInit => ScriptInv
<1> SUFFICES ASSUME TransportInit PROVE ScriptInv
  OBVIOUS
<1>1. job \in Jobs /\ todo = Script /\ Script \in [Caller -> Seq(Task)]
  BY Scripts DEF TransportInit, Script
<1>2. \A c \in Caller : Taken(c) = 0
  BY <1>1 DEF Taken
<1> QED BY <1>1, <1>2 DEF ScriptInv

\* Taking the first of the tasks to send
LEMMA NextTask ==
    ASSUME ScriptInv, UNCHANGED job, NEW c \in Caller, todo[c] # <<>>,
           todo' = [todo EXCEPT ![c] = Tail(@)]
    PROVE  /\ ScriptInv' /\ Taken(c)' = Taken(c) + 1 /\ Taken(c)' # 0
           /\ Taken(c)' \in 1..Len(Script[c])
           /\ Script[c][Taken(c)'] = Head(todo[c]) /\ Head(todo[c]) \in Task
           /\ \A d \in Caller \ {c} : Taken(d)' = Taken(d)
<1>1. /\ Script' = Script /\ Script \in [Caller -> Seq(Task)]
      /\ job' \in Jobs /\ todo \in [Caller -> Seq(Task)]
  BY Scripts DEF ScriptInv, Script
<1>2. /\ todo'[c] = Tail(todo[c]) /\ \A d \in Caller \ {c} : todo'[d] = todo[d]
      /\ todo' \in [Caller -> Seq(Task)]
  BY <1>1
<1>3. /\ Len(todo[c]) \in Nat \ {0} /\ Len(Tail(todo[c])) = Len(todo[c]) - 1
      /\ Head(todo[c]) = todo[c][1] /\ Head(todo[c]) \in Task
      /\ \A i \in 1..(Len(todo[c]) - 1) : Tail(todo[c])[i] = todo[c][i + 1]
  BY <1>1
<1>4. /\ Taken(c)' = Taken(c) + 1
      /\ \A d \in Caller \ {c} : Taken(d)' = Taken(d)
  BY <1>1, <1>2, <1>3 DEF Taken
<1>5. Len(Script[c]) \in Nat /\ Taken(c) \in Nat /\ Taken(c) + 1 <= Len(Script[c])
  BY <1>1, <1>3 DEF Taken, ScriptInv
<1>6. Script[c][Taken(c) + 1] = Head(todo[c])
  BY <1>3 DEF ScriptInv
<1>7. ASSUME NEW d \in Caller
      PROVE  /\ Taken(d)' \in Nat
             /\ \A i \in 1..Len(todo'[d]) : todo'[d][i] = Script[d][Taken(d)' + i]
  <2>1. CASE d = c
    <3>1. \A i \in 1..(Len(todo[c]) - 1) : todo[c][i + 1] = Script[c][Taken(c) + (i + 1)]
      BY <1>3 DEF ScriptInv
    <3>2. \A i \in 1..(Len(todo[c]) - 1) : todo'[c][i] = Script[c][Taken(c)' + i]
      <4> TAKE i \in 1..(Len(todo[c]) - 1)
      <4>1. Taken(c) + (i + 1) = Taken(c)' + i
        BY <1>4, <1>5
      <4> QED BY <3>1, <4>1, <1>2, <1>3
    <3>3. Taken(c)' \in Nat
      BY <1>4, <1>5
    <3> QED BY <2>1, <3>2, <3>3, <1>2, <1>3
  <2>2. CASE d # c
    BY <2>2, <1>2, <1>4 DEF ScriptInv
  <2> QED BY <2>1, <2>2
<1>8. ScriptInv'
  BY <1>1, <1>2, <1>7, Zenon DEF ScriptInv
<1> QED BY <1>3, <1>4, <1>5, <1>6, <1>8

\* A step that sends no task
LEMMA SameTasks == ASSUME ScriptInv, UNCHANGED <<job, todo>>
                   PROVE  ScriptInv' /\ \A c \in Caller : Taken(c)' = Taken(c)
  BY DEF ScriptInv, Taken, Script


-----------------------------------------------------------------------------
(* Order: where a task is in a script                                      *)

Of(c) == Elements(Script[c])

Position(c, t) == CHOOSE k \in 1..Len(Script[c]) : Script[c][k] = t

\* Sent by c before t, if both are of its script
Before(c, s, t) == s \in Of(c) /\ t \in Of(c) => Position(c, s) < Position(c, t)

\* Sequences whose tasks come in the order c sent them, one after the other, and
\* none of them twice
InOrder(c, s) == \A i, j \in 1..Len(s) : i < j => Before(c, s[i], s[j])
Follows(c, s, t) == \A i \in 1..Len(s), j \in 1..Len(t) : Before(c, s[i], t[j])

\* None of them is beyond the k-th of the script
Upto(c, s, k) == \A i \in 1..Len(s) : s[i] \in Of(c) => Position(c, s[i]) <= k
Foreign(c, s) == \A i \in 1..Len(s) : s[i] \notin Of(c)

\* A task is at one place of one script
LEMMA OnePosition ==
    ASSUME job \in Jobs, NEW c \in Caller, NEW k \in 1..Len(Script[c])
    PROVE  /\ Script[c][k] \in Of(c) /\ Position(c, Script[c][k]) = k
           /\ \A d \in Caller \ {c} : Script[c][k] \notin Of(d)
<1>1. \A d, e \in Caller : \A i \in 1..Len(Script[d]), j \in 1..Len(Script[e]) :
        Script[d][i] = Script[e][j] => d = e /\ i = j
  BY TransportAssumption, Zenon DEF Script
<1>2. Script[c][k] \in Of(c)
  BY DEF Of, Elements
<1>3. \E i \in 1..Len(Script[c]) : Script[c][i] = Script[c][k]
  OBVIOUS
<1>4. Position(c, Script[c][k]) \in 1..Len(Script[c])
      /\ Script[c][Position(c, Script[c][k])] = Script[c][k]
  BY <1>3, Zenon DEF Position
<1>5. Position(c, Script[c][k]) = k
  BY <1>1, <1>4
<1>6. \A d \in Caller \ {c} : Script[c][k] \notin Of(d)
  BY <1>1 DEF Of, Elements
<1> QED BY <1>2, <1>5, <1>6

\* A task of a script is at its position there
LEMMA PositionOf ==
    ASSUME job \in Jobs, NEW c \in Caller, NEW t \in Of(c)
    PROVE  /\ Position(c, t) \in 1..Len(Script[c]) /\ Position(c, t) \in Int
           /\ Script[c][Position(c, t)] = t /\ t \in Task
<1>1. PICK k \in 1..Len(Script[c]) : t = Script[c][k]
  BY DEF Of, Elements
<1>2. Position(c, t) = k
  BY <1>1, OnePosition
<1>3. Script[c] \in Seq(Task)
  BY Scripts
<1> QED BY <1>1, <1>2, <1>3

\* A sequence with its first element taken away
LEMMA TailOf ==
    ASSUME NEW T, NEW s \in Seq(T), s # <<>>
    PROVE  /\ Head(s) \in T /\ Head(s) = s[1] /\ Len(s) \in Nat \ {0}
           /\ Tail(s) \in Seq(T) /\ Len(Tail(s)) = Len(s) - 1
           /\ \A i \in 1..Len(Tail(s)) : i + 1 \in 1..Len(s) /\ Tail(s)[i] = s[i + 1]
  OBVIOUS

\* A sequence with an element more
LEMMA AppendOf ==
    ASSUME NEW T, NEW s \in Seq(T), NEW t \in T
    PROVE  /\ Append(s, t) \in Seq(T) /\ Len(Append(s, t)) = Len(s) + 1
           /\ Append(s, t)[Len(s) + 1] = t /\ Append(s, t) # <<>>
           /\ \A i \in 1..Len(s) : Append(s, t)[i] = s[i]
           /\ s # <<>> => Head(Append(s, t)) = Head(s)
<1>1. /\ Append(s, t) \in Seq(T) /\ Len(Append(s, t)) = Len(s) + 1 /\ Len(s) \in Nat
      /\ Append(s, t)[Len(s) + 1] = t
      /\ \A i \in 1..Len(s) : Append(s, t)[i] = s[i]
  OBVIOUS
<1>2. Append(s, t) # <<>> /\ Head(Append(s, t)) = Append(s, t)[1]
  BY <1>1
<1>3. s # <<>> => Head(s) = s[1] /\ 1 \in 1..Len(s)
  OBVIOUS
<1> QED BY <1>1, <1>2, <1>3

\* Adding at the end
LEMMA AppendInOrder ==
    ASSUME NEW T, NEW s \in Seq(T), NEW t \in T, NEW c, InOrder(c, s),
           \A i \in 1..Len(s) : Before(c, s[i], t)
    PROVE  InOrder(c, Append(s, t))
<1>1. /\ Len(Append(s, t)) = Len(s) + 1 /\ Append(s, t)[Len(s) + 1] = t
      /\ \A i \in 1..Len(s) : Append(s, t)[i] = s[i]
      /\ Len(s) \in Nat
  OBVIOUS
<1> QED BY <1>1 DEF InOrder

\* The property of the runs, from the order of the positions
LEMMA OrderIsEnough ==
    ASSUME job \in Jobs, \A c \in Caller, p \in Proc : InOrder(c, submitted[p])
    PROVE  InSequence
<1> SUFFICES ASSUME NEW c \in Caller, NEW p \in Proc,
                    NEW i \in 1..Len(submitted[p]), NEW j \in 1..Len(submitted[p]),
                    i < j, {submitted[p][i], submitted[p][j]} \subseteq Of(c)
             PROVE  \E k, l \in 1..Len(Script[c]) :
                      k <= l /\ Script[c][k] = submitted[p][i] /\ Script[c][l] = submitted[p][j]
  BY DEF InSequence, Of
<1>1. Position(c, submitted[p][i]) < Position(c, submitted[p][j])
  BY DEF InOrder, Before
<1> QED BY <1>1, PositionOf

-----------------------------------------------------------------------------
(* The files                                                               *)

Content == [tasks : Seq(Task), state : {"absent", "open", "ended"}]
Names == [of : Proc, number : Number]

FileKept ==
    /\ files \in [Proc -> [Number -> Content]]
    /\ names \in [Proc -> Seq(Names)]
    /\ listExists \in [Proc -> BOOLEAN]
    /\ f_buffer \in [Proc -> [Proc -> Number]]
    /\ working \in [Proc -> [at : {"out", "read", "empty", "send", "name"},
                             next : Nat, number : Number]]
    /\ submitted \in [Processor -> Seq(Task)]

\* A name that will still be read
Waiting(p, i) == /\ i \in 1..Len(names[p]) /\ working[p].at # "empty"
                 /\ working[p].at = "read" => i >= working[p].next

\* What a processor fills, and what it has ended and not yet named
Filling(p) ==
    /\ working[p].at = "read" => working[p].next # 0
    /\ f_buffer[p][p] = 0 /\ files[p][0] = Absent
    /\ \A q \in Proc \ {p} : f_buffer[p][q] # 0 /\ files[p][f_buffer[p][q]].state = "open"
    /\ \A q, r \in Proc \ {p} : q # r => f_buffer[p][q] # f_buffer[p][r]

Naming(p) ==
    working[p].at = "name" =>
        /\ working[p].number # 0 /\ files[p][working[p].number].state = "ended"
        /\ working[p].next \in Proc \ {p}
        /\ \A q \in Proc : \A i \in 1..Len(names[q]) :
             Waiting(q, i) => names[q][i] # [of |-> p, number |-> working[p].number]

Named(p, i) ==
    Waiting(p, i) =>
        /\ names[p][i].number # 0 /\ names[p][i].of # p
        /\ files[names[p][i].of][names[p][i].number].state = "ended"

OnlyName(p, i, q, j) ==
    Waiting(p, i) /\ Waiting(q, j) /\ names[p][i] = names[q][j] => p = q /\ i = j

NumbersInv ==
    /\ FileKept
    /\ \A p \in Proc : Filling(p) /\ Naming(p)
    /\ \A p \in Proc : \A i \in 1..Len(names[p]) : Named(p, i)
    /\ \A p, q \in Proc : \A i \in 1..Len(names[p]), j \in 1..Len(names[q]) : OnlyName(p, i, q, j)

\* What a name is made of
LEMMA NameOf == ASSUME FileKept, NEW p \in Proc, NEW i \in 1..Len(names[p])
                PROVE  /\ names[p][i] \in Names
                       /\ names[p][i].of \in Proc /\ names[p][i].number \in Number
<1>1. names[p] \in Seq(Names)
  BY DEF FileKept
<1>2. names[p][i] \in Names
  BY <1>1
<1> QED BY <1>2 DEF Names

\* What the numbers promise for the files that are read
LEMMA NumbersAreEnough == NumbersInv => OnlyEndedFilesAreRead
<1>0. NumbersInv => \A p \in Proc : working[p].at # "crashed"
  BY DEF NumbersInv, FileKept
<1> SUFFICES ASSUME NumbersInv, NEW p \in Proc, NEW i \in 1..Len(names[p]),
                    (working[p].at = "read" => i >= working[p].next) /\ working[p].at # "empty"
             PROVE  /\ files[names[p][i].of][names[p][i].number].state = "ended"
                    /\ \A q \in Proc : f_buffer[names[p][i].of][q] # names[p][i].number
  BY <1>0 DEF OnlyEndedFilesAreRead
<1>1. Waiting(p, i) /\ Named(p, i)
  BY DEF Waiting, NumbersInv
<1>2. names[p][i].of \in Proc
  BY NameOf DEF NumbersInv
<1>3. Filling(names[p][i].of)
  BY <1>2 DEF NumbersInv
<1> QED BY <1>1, <1>2, <1>3 DEF Named, Filling

-----------------------------------------------------------------------------
\* A set of numbers has a smallest one
LEMMA Smallest == ASSUME NEW S \in SUBSET Nat, S # {} PROVE \E n \in S : \A m \in S : n <= m
<1>1. IsWellFoundedOn(OpToRel(<, Nat), Nat)
  BY NatLessThanWellFounded
<1>2. PICK n \in S : \A m \in S : <<m, n>> \notin OpToRel(<, Nat)
  BY <1>1, WFMin
<1>3. \A m \in S : ~(m < n)
  BY <1>2 DEF OpToRel
<1> QED BY <1>3

\* The number FindNewBuffer finds is free
LEMMA NewIsFree ==
    ASSUME NEW p \in Proc, NEW from \in Number, FreeNumber(p, from) # {}
    PROVE  /\ NewNumber(p, from) \in Number \ {from}
           /\ NewNumber(p, from) # 0 => files[p][NewNumber(p, from)].state = "absent"
<1>1. \A n \in Number : Distance(from, n) \in Nat
  BY FileAssumption DEF Distance, Number
<1>2. FreeNumber(p, from) \subseteq Number
  BY DEF FreeNumber
<1> DEFINE S == {Distance(from, n) : n \in FreeNumber(p, from)}
<1>3. S \in SUBSET Nat /\ S # {}
  BY <1>1, <1>2
<1>4. PICK d \in S : \A e \in S : d <= e
  BY <1>3, Smallest
<1>5. \E n \in FreeNumber(p, from) :
        \A m \in FreeNumber(p, from) : Distance(from, n) <= Distance(from, m)
  BY <1>4
<1>6. NewNumber(p, from) \in FreeNumber(p, from)
  BY <1>5, Zenon DEF NewNumber
<1> QED BY <1>6 DEF FreeNumber, Exists

\* A job has fewer processors than there are numbers
LEMMA Sizes == job \in Jobs => /\ job.size \in Nat /\ job.size <= LastNumber
                               /\ LastNumber \in Nat /\ 0 \in Number /\ Proc \subseteq Processor
                               /\ Proc \subseteq Nat
  BY FileAssumption, Scripts DEF Number, Proc

\* At the start each processor fills the files 1, 2, ... and no list has a name
LEMMA FileStart == TransportInit /\ FileInit => NumbersInv
<1> SUFFICES ASSUME TransportInit, FileInit PROVE NumbersInv
  OBVIOUS
<1>0. job \in Jobs
  BY DEF TransportInit
<1> USE Sizes, <1>0 DEF FileInit, Idle
<1>1. FileKept
  <2>1. \A p, q \in Proc : (IF q = p THEN 0 ELSE IF q < p THEN q + 1 ELSE q) \in Number
    BY DEF Proc, Number
  <2>2. f_buffer \in [Proc -> [Proc -> Number]]
    BY <2>1
  <2>3. files \in [Proc -> [Number -> Content]]
    <3>1. Absent \in Content
      BY DEF Content, Absent
    <3>2. Fresh \in Content
      BY DEF Content, Fresh
    <3>3. files = [q \in Proc |-> [n \in Number |->
            IF n \in 1..(job.size - 1) THEN Fresh ELSE Absent]]
      OBVIOUS
    <3> HIDE DEF FileInit
    <3> QED BY <3>1, <3>2, <3>3, Zenon
  <2>4. names \in [Proc -> Seq(Names)] /\ submitted \in [Processor -> Seq(Task)]
    BY DEF TransportInit
  <2> QED BY <2>2, <2>3, <2>4 DEF FileKept
<1>2. \A p \in Proc : \A i : ~ Waiting(p, i)
  BY DEF Waiting
<1>3. ASSUME NEW p \in Proc PROVE Filling(p)
  <2>1. \A q \in Proc : f_buffer[p][q] = IF q = p THEN 0 ELSE IF q < p THEN q + 1 ELSE q
    OBVIOUS
  <2>2. \A q \in Proc \ {p} : f_buffer[p][q] \in 1..(job.size - 1)
    BY <2>1 DEF Proc
  <2>3. 1..(job.size - 1) \subseteq Number
    BY DEF Number
  <2>4. \A n \in 1..(job.size - 1) : n # 0 /\ files[p][n].state = "open"
    BY <2>3 DEF Fresh
  <2>5. \A q, r \in Proc \ {p} : q # r => f_buffer[p][q] # f_buffer[p][r]
    BY <2>1 DEF Proc
  <2>6. working[p].at = "out"
    OBVIOUS
  <2>7. \A q \in Proc \ {p} : f_buffer[p][q] # 0 /\ files[p][f_buffer[p][q]].state = "open"
    BY <2>2, <2>4
  <2>8. files[p][0] = Absent
    OBVIOUS
  <2> HIDE DEF FileInit
  <2> QED BY <2>1, <2>5, <2>6, <2>7, <2>8 DEF Filling
<1> QED BY <1>1, <1>2, <1>3 DEF NumbersInv, Naming, Named, OnlyName


-----------------------------------------------------------------------------
(* The usual form of the steps: what they do when they do not overrun      *)

WithTask(file, t) == [tasks |-> Append(file.tasks, t), state |-> file.state]

UsualSendTask(c) ==
    LET p == Home[c] t == Head(todo[c]) IN
    /\ todo[c] # <<>> /\ working[p].at = "out"
    /\ todo' = [todo EXCEPT ![c] = Tail(@)]
    /\ files' = [files EXCEPT ![p] = [n \in Number |->
         IF \E q \in Goals(t, p) : n = f_buffer[p][q]
         THEN WithTask(files[p][n], t)
         ELSE files[p][n]]]
    /\ UNCHANGED <<submitted, names, listExists, f_buffer, working>>

UsualEndFile(p) ==
    LET q == working[p].next
        n == f_buffer[p][q]
        new == NewNumber(p, n)
    IN
    /\ working[p].at = "send" /\ q \in Proc \ {p}
    /\ FreeNumber(p, n) # {} /\ new # 0
    /\ files' = [files EXCEPT ![p][n].state = "ended", ![p][new] = Fresh]
    /\ f_buffer' = [f_buffer EXCEPT ![p][q] = new]
    /\ working' = [working EXCEPT ![p] = [at |-> "name", next |-> q, number |-> n]]
    /\ UNCHANGED <<todo, submitted, names, listExists>>

UsualReadFile(p) ==
    LET i == working[p].next name == names[p][i] IN
    /\ working[p].at = "read" /\ i <= Len(names[p])
    /\ submitted' = [submitted EXCEPT ![p] = @ \o files[name.of][name.number].tasks]
    /\ files' = [files EXCEPT ![name.of][name.number] = Absent]
    /\ working' = [working EXCEPT ![p].next = i + 1]
    /\ UNCHANGED <<todo, names, listExists, f_buffer>>

UsualEmptyList(p) ==
    /\ working[p].at = "empty"
    /\ names' = [names EXCEPT ![p] = <<>>]
    /\ listExists' = [listExists EXCEPT ![p] = TRUE]
    /\ working' = [working EXCEPT ![p] = Idle]
    /\ UNCHANGED <<todo, submitted, files, f_buffer>>

\* A task is appended once to each open file
LEMMA AppendedOnce ==
    ASSUME NEW t \in Task, NEW file \in Content, file.state = "open"
    PROVE  WithTasks(file, t, 1) = WithTask(file, t)
<1>1. file.tasks \in Seq(Task)
  BY DEF Content
<1>2. file.tasks \o [i \in 1..1 |-> t] = Append(file.tasks, t)
  BY <1>1
<1> QED BY <1>2 DEF WithTasks, WithTask

\* The buffers have numbers of their own, so a task is appended once, and not 0,
\* so it is never appended to a list
LEMMA SendTaskIsUsual ==
    ASSUME NumbersInv, ScriptInv, NEW c \in Caller, FileSendTask(c)
    PROVE  UsualSendTask(c)
<1> DEFINE o == Home[c]
           t == Head(todo[c])
           Filled(n) == {q \in Goals(t, o) : f_buffer[o][q] = n}
<1>0. /\ todo[c] # <<>> /\ working[o].at = "out" /\ todo' = [todo EXCEPT ![c] = Tail(@)]
      /\ files' = [files EXCEPT ![o] = [n \in Number |->
           IF Filled(n) = {} THEN files[o][n]
           ELSE WithTasks(files[o][n], t, Cardinality(Filled(n)))]]
      /\ Appended(o, {n \in Number : Filled(n) # {}})
      /\ UNCHANGED <<submitted, f_buffer, working>>
  BY Zenon DEF FileSendTask
<1>1. o \in Proc /\ t \in Task /\ Goals(t, o) \subseteq Proc \ {o}
  <2>1. t \in Task
    BY <1>0, TailOf DEF ScriptInv
  <2> QED BY <1>0, <2>1, HomeIsThere DEF Goals
<1>2. PICK oo, tt : oo = o /\ tt = t
  OBVIOUS
<1> HIDE DEF o, t
<1>3. \A q \in Goals(t, o) : /\ f_buffer[o][q] \in Number \ {0}
                             /\ files[o][f_buffer[o][q]].state = "open"
                             /\ files[o][f_buffer[o][q]] \in Content
                             /\ \A r \in Goals(t, o) : q # r => f_buffer[o][q] # f_buffer[o][r]
  BY <1>1 DEF NumbersInv, Filling, FileKept
<1>4. ASSUME NEW n \in Number
      PROVE  (IF Filled(n) = {} THEN files[o][n]
              ELSE WithTasks(files[o][n], t, Cardinality(Filled(n))))
             = IF \E q \in Goals(t, o) : n = f_buffer[o][q]
               THEN WithTask(files[o][n], t) ELSE files[o][n]
  <2>1. CASE Filled(n) = {}
    BY <2>1
  <2>2. CASE Filled(n) # {}
    <3>1. PICK q \in Goals(t, o) : f_buffer[o][q] = n
      BY <2>2
    <3>2. Filled(n) = {q}
      BY <1>3, <3>1
    <3>3. Cardinality(Filled(n)) = 1
      BY <3>2, FS_Singleton
    <3>4. files[o][n].state = "open" /\ files[o][n] \in Content
      BY <1>3, <3>1
    <3>5. WithTasks(files[o][n], t, 1) = WithTask(files[o][n], t)
      BY <1>1, <3>4, AppendedOnce
    <3> QED BY <2>2, <3>1, <3>3, <3>5
  <2> QED BY <2>1, <2>2
<1>5. files' = [files EXCEPT ![o] = [n \in Number |->
         IF \E q \in Goals(t, o) : n = f_buffer[o][q]
         THEN WithTask(files[o][n], t) ELSE files[o][n]]]
  BY <1>0, <1>4
<1>6. UNCHANGED <<names, listExists>>
  <2>1. 0 \notin {n \in Number : Filled(n) # {}}
    BY <1>3
  <2>2. listExists' = [listExists EXCEPT ![o] = @ \/ FALSE] /\ listExists \in [Proc -> BOOLEAN]
        /\ UNCHANGED names
    BY <1>0, <2>1 DEF Appended, NumbersInv, FileKept
  <2> QED BY <1>1, <2>2
<1> QED BY <1>0, <1>5, <1>6, Zenon DEF UsualSendTask, o, t

\* Without an overrun the new number is free, and not 0
LEMMA EndFileIsUsual ==
    ASSUME NumbersInv, NEW p \in Proc, EndFile(p), ~ overrun' PROVE UsualEndFile(p)
<1> DEFINE q == working[p].next
           n == f_buffer[p][q]
           new == NewNumber(p, n)
<1>1. /\ working[p].at = "send" /\ q \in Proc \ {p}
      /\ FreeNumber(p, n) # {} /\ new # 0
  BY DEF EndFile
<1>2. /\ files' = [files EXCEPT ![p][n] = WithEnd(@), ![p][new] = Fresh]
      /\ Appended(p, {n})
      /\ f_buffer' = [f_buffer EXCEPT ![p][q] = new]
      /\ working' = [working EXCEPT ![p] = [at |-> "name", next |-> q, number |-> n]]
      /\ UNCHANGED <<todo, submitted>>
  BY <1>1 DEF EndFile
<1>3. n \in Number /\ n # 0 /\ files[p][n].state = "open" /\ files[p][n] \in Content
  BY <1>1 DEF NumbersInv, Filling, FileKept
<1> HIDE DEF q, n, new
<1>4. WithEnd(files[p][n]) = [files[p][n] EXCEPT !.state = "ended"]
  BY <1>3 DEF WithEnd
<1>5. files' = [files EXCEPT ![p][n].state = "ended", ![p][new] = Fresh]
  BY <1>2, <1>4
<1>6. UNCHANGED <<names, listExists>>
  <2>1. listExists' = [listExists EXCEPT ![p] = @ \/ FALSE] /\ listExists \in [Proc -> BOOLEAN]
        /\ UNCHANGED names
    BY <1>2, <1>3 DEF Appended, NumbersInv, FileKept
  <2> QED BY <2>1
<1> QED BY <1>1, <1>2, <1>5, <1>6 DEF UsualEndFile, q, n, new

\* The file is ended, so all its tasks are submitted and it is removed
LEMMA ReadFileIsUsual ==
    ASSUME NumbersInv, NEW p \in Proc, ReadFile(p) PROVE UsualReadFile(p)
<1> DEFINE i == working[p].next
           name == names[p][i]
           file == files[name.of][name.number]
<1>0. working[p].at = "read" /\ i <= Len(names[p]) /\ UNCHANGED <<todo, f_buffer>>
  BY DEF ReadFile
<1>1. PICK k \in 0..Len(file.tasks), goesOn \in BOOLEAN :
        /\ Yields(name, k, goesOn)
        /\ submitted' = [submitted EXCEPT ![p] = @ \o SubSeq(file.tasks, 1, k)]
        /\ IF goesOn
           THEN Removed(name) /\ working' = [working EXCEPT ![p].next = i + 1]
           ELSE /\ working' = [working EXCEPT ![p].at = "crashed"]
                /\ UNCHANGED <<files, listExists, names>>
  BY Zenon DEF ReadFile
<1>2. i \in 1..Len(names[p]) /\ Waiting(p, i)
  <2>1. i \in Nat /\ i # 0 /\ names[p] \in Seq(Names)
    BY <1>0 DEF NumbersInv, FileKept, Filling
  <2>2. Len(names[p]) \in Nat
    BY <2>1
  <2>3. i \in 1..Len(names[p]) /\ i >= i
    BY <1>0, <2>1, <2>2
  <2> QED BY <1>0, <2>3 DEF Waiting
<1>3. /\ name.of \in Proc /\ name.number \in Number /\ name.number # 0
      /\ file.state = "ended"
  <2>1. Named(p, i) /\ FileKept
    BY <1>2 DEF NumbersInv
  <2> QED BY <1>2, <2>1, NameOf DEF Named
<1>4. file \in Content
  <2> HIDE DEF name
  <2> QED BY <1>3 DEF NumbersInv, FileKept
<1> HIDE DEF i, name, file
<1>5. k = Len(file.tasks) /\ goesOn
  BY <1>1, <1>3 DEF Yields, Mixed, file
<1>6. SubSeq(file.tasks, 1, k) = file.tasks
  <2>1. file.tasks \in Seq(Task)
    BY <1>4 DEF Content
  <2> QED BY <1>5, <2>1
<1>7. files' = [files EXCEPT ![name.of][name.number] = Absent] /\ UNCHANGED <<names, listExists>>
  <2>1. listExists' = [listExists EXCEPT ![name.of] = @ /\ TRUE]
        /\ listExists \in [Proc -> BOOLEAN] /\ UNCHANGED names
        /\ files' = [files EXCEPT ![name.of][name.number] = Absent]
    BY <1>1, <1>3, <1>5 DEF Removed, NumbersInv, FileKept
  <2> QED BY <1>3, <2>1
<1> QED BY <1>0, <1>1, <1>5, <1>6, <1>7 DEF UsualReadFile, i, name, file

\* Every line of a list is a name
LEMMA NoNameIsRead ==
    ASSUME NumbersInv, NEW p \in Proc, ReadNoName(p) PROVE FALSE
<1>1. working[p].next \in Nat /\ working[p].next # 0 /\ names[p] \in Seq(Names)
      /\ working[p].next <= Len(names[p])
  BY DEF ReadNoName, NumbersInv, FileKept, Filling
<1>2. Len(names[p]) \in Nat
  BY <1>1
<1>3. names[p][working[p].next].of \in Proc
  BY <1>1, <1>2, NameOf DEF NumbersInv
<1> QED BY <1>3 DEF ReadNoName, NoName, Proc

\* Nothing was appended to the list as a file
LEMMA EmptyListIsUsual ==
    ASSUME NumbersInv, NEW p \in Proc, EmptyList(p) PROVE UsualEmptyList(p)
<1>1. files' = [files EXCEPT ![p][0] = Absent] /\ files[p][0] = Absent
      /\ files \in [Proc -> [Number -> Content]] /\ 0 \in Number
  BY FileAssumption DEF EmptyList, NumbersInv, Filling, FileKept, Number
<1>2. UNCHANGED files
  BY <1>1
<1> QED BY <1>2 DEF EmptyList, UsualEmptyList

-----------------------------------------------------------------------------
(* Each step keeps the numbers                                             *)

\* A processor that begins or ends to work with its lists
LEMMA WorkKeepsNumbers ==
    ASSUME NumbersInv, UNCHANGED <<job, submitted, files, names, f_buffer>>, NEW r \in Proc,
           NEW w \in [at : {"out", "read", "empty", "send"}, next : Nat, number : Number],
           working' = [working EXCEPT ![r] = w],
           listExists' \in [Proc -> BOOLEAN], w.at = "read" => w.next # 0,
           \A i \in 1..Len(names[r]) : Waiting(r, i)' => Waiting(r, i)
    PROVE  NumbersInv'
<1> USE DEF NumbersInv
<1>0. Proc' = Proc
  BY DEF Proc
<1>1. working'[r] = w /\ \A p \in Proc \ {r} : working'[p] = working[p]
  BY DEF FileKept
<1>2. FileKept'
  <2>1. working' \in [Proc -> [at : {"out", "read", "empty", "send", "name"},
                               next : Nat, number : Number]]
    BY DEF FileKept
  <2> QED BY <1>0, <2>1 DEF FileKept, Names
<1>3. ASSUME NEW p \in Proc, NEW i, Waiting(p, i)' PROVE Waiting(p, i)
  BY <1>1, <1>3 DEF Waiting
<1>4. ASSUME NEW p \in Proc PROVE Filling(p)'
  BY <1>0, <1>1 DEF Filling
<1>5. ASSUME NEW p \in Proc PROVE Naming(p)'
  <2>1. CASE p = r
    BY <1>1, <2>1 DEF Naming
  <2>2. CASE p # r
    BY <1>0, <1>1, <1>3, <2>2 DEF Naming
  <2> QED BY <2>1, <2>2
<1>6. ASSUME NEW p \in Proc, NEW i \in 1..Len(names[p]) PROVE Named(p, i)'
  BY <1>3 DEF Named
<1>7. ASSUME NEW p \in Proc, NEW q \in Proc, NEW i \in 1..Len(names[p]), NEW j \in 1..Len(names[q])
      PROVE  OnlyName(p, i, q, j)'
  BY <1>3 DEF OnlyName
<1> QED BY <1>0, <1>2, <1>4, <1>5, <1>6, <1>7

\* SendMessages begins
LEMMA SendMessagesKeepsNumbers ==
    ASSUME NumbersInv, UNCHANGED job, NEW r \in Proc, SendMessages(r) PROVE NumbersInv'
<1>1. 0 \in Number
  BY FileAssumption DEF Number
<1>2. \A i \in 1..Len(names[r]) : Waiting(r, i)
  BY DEF SendMessages, Waiting
<1> QED BY <1>1, <1>2, WorkKeepsNumbers DEF SendMessages, NumbersInv, FileKept

\* SendMessages ends
LEMMA AllSentKeepsNumbers ==
    ASSUME NumbersInv, UNCHANGED job, NEW r \in Proc, AllSent(r) PROVE NumbersInv'
<1>1. 0 \in Number
  BY FileAssumption DEF Number
<1>2. \A i \in 1..Len(names[r]) : Waiting(r, i)
  BY DEF AllSent, Waiting
<1> QED BY <1>1, <1>2, WorkKeepsNumbers DEF AllSent, Idle, NumbersInv, FileKept

\* ReceiveMessages opens the list, or makes one
LEMMA OpenListKeepsNumbers ==
    ASSUME NumbersInv, UNCHANGED job, NEW r \in Proc, OpenList(r) PROVE NumbersInv'
<1>1. 0 \in Number
  BY FileAssumption DEF Number
<1>2. \A i \in 1..Len(names[r]) : Waiting(r, i)
  BY DEF OpenList, Waiting
<1>3. listExists' \in [Proc -> BOOLEAN]
  BY DEF OpenList, NumbersInv, FileKept
<1>4. CASE listExists[r]
  <2> DEFINE w == [at |-> "read", next |-> 1, number |-> 0]
  <2>1. /\ w \in [at : {"out", "read", "empty", "send"}, next : Nat, number : Number]
        /\ w.at = "read" /\ w.next # 0
    BY <1>1
  <2>2. /\ working' = [working EXCEPT ![r] = w]
        /\ UNCHANGED <<submitted, files, names, f_buffer>>
    BY <1>4 DEF OpenList
  <2> HIDE DEF w
  <2> QED BY <1>2, <1>3, <2>1, <2>2, WorkKeepsNumbers
<1>5. CASE ~ listExists[r]
  <2>1. working[r] \in [at : {"out", "read", "empty", "send"}, next : Nat, number : Number]
        /\ working' = [working EXCEPT ![r] = working[r]] /\ working[r].at = "out"
    BY <1>5 DEF OpenList, NumbersInv, FileKept
  <2> QED BY <1>2, <1>3, <2>1, WorkKeepsNumbers DEF OpenList
<1> QED BY <1>4, <1>5

\* The end of the list is seen
LEMMA EndOfListKeepsNumbers ==
    ASSUME NumbersInv, UNCHANGED job, NEW r \in Proc, EndOfList(r) PROVE NumbersInv'
<1> DEFINE w == [working[r] EXCEPT !.at = "empty"]
<1>1. w \in [at : {"out", "read", "empty", "send"}, next : Nat, number : Number] /\ w.at = "empty"
  BY DEF NumbersInv, FileKept
<1>2. working' = [working EXCEPT ![r] = w]
  BY DEF EndOfList
<1> HIDE DEF w
<1>3. \A i : ~ Waiting(r, i)'
  BY <1>1, <1>2 DEF Waiting, NumbersInv, FileKept
<1>4. /\ UNCHANGED <<submitted, files, names, f_buffer, listExists>>
      /\ listExists' \in [Proc -> BOOLEAN] /\ w.at # "read"
  BY <1>1 DEF EndOfList, NumbersInv, FileKept
<1> QED BY <1>1, <1>2, <1>3, <1>4, WorkKeepsNumbers

\* The list is emptied
LEMMA EmptyListKeepsNumbers ==
    ASSUME NumbersInv, UNCHANGED job, NEW r \in Proc, UsualEmptyList(r) PROVE NumbersInv'
<1> USE DEF NumbersInv
<1>0. /\ Proc' = Proc /\ UNCHANGED <<submitted, files, f_buffer>>
      /\ working' = [working EXCEPT ![r] = Idle] /\ names' = [names EXCEPT ![r] = <<>>]
      /\ listExists' = [listExists EXCEPT ![r] = TRUE]
  BY DEF Proc, UsualEmptyList
<1>1. 0 \in Number
  BY FileAssumption DEF Number
<1>2. /\ working'[r] = Idle /\ \A p \in Proc \ {r} : working'[p] = working[p]
      /\ names'[r] = <<>> /\ \A p \in Proc \ {r} : names'[p] = names[p]
  BY <1>0 DEF FileKept
<1>3. FileKept'
  <2>1. names' \in [Proc -> Seq(Names)]
    BY <1>0 DEF FileKept
  <2>2. working' \in [Proc -> [at : {"out", "read", "empty", "send", "name"},
                               next : Nat, number : Number]]
    BY <1>0, <1>1 DEF FileKept, Idle
  <2>3. listExists' \in [Proc -> BOOLEAN]
    BY <1>0 DEF FileKept
  <2> QED BY <1>0, <2>1, <2>2, <2>3 DEF FileKept, Names
<1>4. ASSUME NEW p \in Proc, NEW i, Waiting(p, i)'
      PROVE  p # r /\ Waiting(p, i) /\ names'[p] = names[p]
  BY <1>2, <1>4 DEF Waiting
<1>5. ASSUME NEW p \in Proc PROVE Filling(p)'
  BY <1>0, <1>2 DEF Filling, Idle
<1>6. ASSUME NEW p \in Proc PROVE Naming(p)'
  <2>1. CASE p = r
    BY <1>2, <2>1 DEF Naming, Idle
  <2>2. CASE p # r
    <3>1. \A q \in Proc : \A i \in 1..Len(names'[q]) : Waiting(q, i)' =>
            i \in 1..Len(names[q]) /\ Waiting(q, i) /\ names'[q][i] = names[q][i]
      BY <1>4
    <3> QED BY <1>0, <1>2, <2>2, <3>1 DEF Naming
  <2> QED BY <2>1, <2>2
<1>7. ASSUME NEW p \in Proc, NEW i \in 1..Len(names'[p]) PROVE Named(p, i)'
  BY <1>0, <1>4 DEF Named
<1>8. ASSUME NEW p \in Proc, NEW q \in Proc, NEW i \in 1..Len(names'[p]), NEW j \in 1..Len(names'[q])
      PROVE  OnlyName(p, i, q, j)'
  BY <1>4 DEF OnlyName
<1> QED BY <1>0, <1>3, <1>5, <1>6, <1>7, <1>8

\* Tasks are added to files that are being filled; no state changes
LEMMA SendTaskKeepsNumbers ==
    ASSUME NumbersInv, ScriptInv, UNCHANGED job, NEW c \in Caller, UsualSendTask(c)
    PROVE  NumbersInv'
<1> USE DEF NumbersInv
<1> DEFINE o == Home[c]
           t == Head(todo[c])
           after == [n \in Number |->
             IF \E q \in Goals(t, o) : n = f_buffer[o][q]
             THEN WithTask(files[o][n], t) ELSE files[o][n]]
<1>0. /\ Proc' = Proc /\ UNCHANGED <<submitted, names, listExists, f_buffer, working>>
      /\ files' = [files EXCEPT ![o] = after]
  <2>1. Proc' = Proc
    BY DEF Proc
  <2>2. UNCHANGED <<submitted, names, listExists, f_buffer, working>>
    BY DEF UsualSendTask
  <2>3. files' = [files EXCEPT ![o] = after]
    BY Zenon DEF UsualSendTask
  <2> QED BY <2>1, <2>2, <2>3
<1>1. o \in Proc /\ t \in Task
  BY HomeIsThere, NextTask DEF UsualSendTask
<1> HIDE DEF o, t
<1>2. ASSUME NEW n \in Number
      PROVE  /\ WithTask(files[o][n], t) \in Content
             /\ WithTask(files[o][n], t).state = files[o][n].state
  <2>1. files[o][n] \in Content
    BY <1>1 DEF FileKept
  <2>2. Append(files[o][n].tasks, t) \in Seq(Task)
    BY <1>1, <2>1, AppendOf DEF Content
  <2> QED BY <2>1, <2>2 DEF Content, WithTask
<1>3. files' \in [Proc -> [Number -> Content]]
  <2>1. \A n \in Number : files[o][n] \in Content
    BY <1>1 DEF FileKept
  <2>2. after \in [Number -> Content]
    BY <1>2, <2>1, Zenon
  <2> HIDE DEF after
  <2> QED BY <1>0, <2>2 DEF FileKept
<1>4. \A p \in Proc : \A n \in Number : files'[p][n].state = files[p][n].state
  <2> TAKE p \in Proc
  <2> TAKE n \in Number
  <2>1. CASE p # o
    BY <1>0, <2>1 DEF FileKept
  <2>2. CASE p = o
    <3>1. files'[o][n] = IF \E q \in Goals(t, o) : n = f_buffer[o][q]
           THEN WithTask(files[o][n], t) ELSE files[o][n]
      BY <1>0, <1>1 DEF FileKept
    <3> QED BY <1>2, <2>2, <3>1
  <2> QED BY <2>1, <2>2
<1>5. FileKept'
  BY <1>0, <1>3 DEF FileKept, Names, Content
<1>6. \A p \in Proc : \A i : Waiting(p, i)' <=> Waiting(p, i)
  BY <1>0 DEF Waiting
<1>7. ASSUME NEW p \in Proc PROVE Filling(p)'
  <2>1. \A q \in Proc : f_buffer[p][q] \in Number
    BY DEF FileKept
  <2>2. files'[p][0] = files[p][0]
    <3>1. 0 \in Number /\ \A q \in Goals(t, o) : f_buffer[o][q] # 0
      BY <1>1, FileAssumption DEF Filling, Goals, Number
    <3> HIDE DEF after
    <3>2. CASE p # o
      BY <1>0, <3>2 DEF FileKept
    <3>3. CASE p = o
      <4>1. files'[o] = after
        BY <1>0, <1>1 DEF FileKept
      <4>2. after[0] = files[o][0]
        BY <3>1 DEF after
      <4> QED BY <3>3, <4>1, <4>2
    <3> QED BY <3>2, <3>3
  <2> QED BY <1>0, <1>4, <2>1, <2>2 DEF Filling
<1>8. ASSUME NEW p \in Proc PROVE Naming(p)'
  <2>1. working[p].number \in Number
    BY DEF FileKept
  <2> QED BY <1>0, <1>4, <1>6, <2>1 DEF Naming
<1>9. ASSUME NEW p \in Proc, NEW i \in 1..Len(names[p]) PROVE Named(p, i)'
  <2> SUFFICES ASSUME Waiting(p, i)' PROVE Named(p, i)'
    BY DEF Named
  <2>1. Waiting(p, i)
    BY <1>6
  <2>2. /\ names[p][i].number # 0 /\ names[p][i].of # p
        /\ files[names[p][i].of][names[p][i].number].state = "ended"
    BY <2>1 DEF Named
  <2>3. files'[names[p][i].of][names[p][i].number].state
          = files[names[p][i].of][names[p][i].number].state
    BY <1>4, NameOf
  <2> QED BY <1>0, <2>2, <2>3, Zenon DEF Named
<1>10. ASSUME NEW p \in Proc, NEW q \in Proc, NEW i \in 1..Len(names[p]), NEW j \in 1..Len(names[q])
      PROVE  OnlyName(p, i, q, j)'
  BY <1>0, <1>6 DEF OnlyName
<1> QED BY <1>0, <1>5, <1>7, <1>8, <1>9, <1>10

\* A file is read and its number is free again; no other name means it
LEMMA ReadFileKeepsNumbers ==
    ASSUME NumbersInv, UNCHANGED job, job \in Jobs, NEW r \in Proc, UsualReadFile(r) PROVE NumbersInv'
<1> USE DEF NumbersInv
<1> DEFINE i == working[r].next
           o == names[r][i].of
           n == names[r][i].number
<1>0. /\ Proc' = Proc /\ UNCHANGED <<names, listExists, f_buffer>>
      /\ working[r].at = "read" /\ i <= Len(names[r])
      /\ submitted' = [submitted EXCEPT ![r] = submitted[r] \o files[o][n].tasks]
      /\ files' = [files EXCEPT ![o][n] = Absent]
      /\ working' = [working EXCEPT ![r].next = i + 1]
  BY DEF UsualReadFile, Proc
<1>1. i \in 1..Len(names[r]) /\ i \in Nat /\ Waiting(r, i)
  <2>1. i \in Nat /\ names[r] \in Seq(Names)
    BY DEF FileKept
  <2>2. i # 0
    BY <1>0 DEF Filling
  <2>3. i \in 1..Len(names[r])
    <3>1. Len(names[r]) \in Nat
      BY <2>1
    <3>2. i <= Len(names[r])
      BY <1>0
    <3> HIDE DEF i
    <3> QED BY <2>1, <2>2, <3>1, <3>2
  <2>4. Waiting(r, i)
    <3>1. i >= i
      BY <2>1
    <3> QED BY <1>0, <2>3, <3>1, Zenon DEF Waiting
  <2> HIDE DEF i
  <2> QED BY <2>1, <2>3, <2>4
<1>2. /\ o \in Proc /\ n \in Number /\ n # 0 /\ files[o][n].state = "ended"
      /\ files[o][n] \in Content
  <2>1. o \in Proc /\ n \in Number
    BY <1>1, NameOf
  <2>2. n # 0 /\ files[o][n].state = "ended"
    <3>1. Named(r, i)
      BY <1>1, Zenon
    <3> QED BY <1>1, <3>1, Zenon DEF Named
  <2>3. files[o][n] \in Content
    <3> HIDE DEF o, n
    <3> QED BY <2>1 DEF FileKept
  <2> QED BY <2>1, <2>2, <2>3, Zenon
<1>3. /\ names[r][i] = [of |-> o, number |-> n]
  BY <1>1, NameOf DEF Names
<1> HIDE DEF o, n
<1>4. /\ working'[r].at = "read" /\ working'[r].next = i + 1
      /\ working'[r].number = working[r].number
      /\ \A p \in Proc \ {r} : working'[p] = working[p]
  BY <1>0 DEF FileKept
<1>5. ASSUME NEW p \in Proc, NEW j, Waiting(p, j)'
      PROVE  Waiting(p, j) /\ ~(p = r /\ j = i) /\ j \in 1..Len(names[p])
  <2>1. CASE p = r
    <3>1. j \in 1..Len(names[r]) /\ j >= i + 1
      BY <1>0, <1>4, <1>5, <2>1 DEF Waiting
    <3> QED BY <1>0, <1>1, <2>1, <3>1 DEF Waiting
  <2>2. CASE p # r
    BY <1>0, <1>4, <1>5, <2>2 DEF Waiting
  <2> QED BY <2>1, <2>2
<1>6. ASSUME NEW p \in Proc, NEW m \in Number, ~(p = o /\ m = n)
      PROVE  files'[p][m] = files[p][m]
  BY <1>0, <1>2, <1>6 DEF FileKept
<1>7. FileKept'
  <2>1. submitted' \in [Processor -> Seq(Task)]
    <3>1. r \in Processor
      BY Scripts
    <3>2. submitted[r] \o files[o][n].tasks \in Seq(Task)
      BY <1>2, <3>1 DEF FileKept, Content
    <3> QED BY <1>0, <3>1, <3>2 DEF FileKept
  <2>2. files' \in [Proc -> [Number -> Content]]
    <3>1. Absent \in Content
      BY DEF Absent, Content
    <3> QED BY <1>0, <1>2, <3>1 DEF FileKept
  <2>3. working' \in [Proc -> [at : {"out", "read", "empty", "send", "name"},
                               next : Nat, number : Number]]
    <3> HIDE DEF i
    <3>1. i + 1 \in Nat
      BY <1>1
    <3> QED BY <1>0, <3>1 DEF FileKept
  <2> QED BY <1>0, <2>1, <2>2, <2>3 DEF FileKept, Names, Content
<1>8. ASSUME NEW p \in Proc PROVE Filling(p)'
  <2>1. \A q \in Proc \ {p} : f_buffer[p][q] \in Number /\ ~(p = o /\ f_buffer[p][q] = n)
    BY <1>2 DEF Filling, FileKept
  <2>2. \A q \in Proc \ {p} : files'[p][f_buffer[p][q]] = files[p][f_buffer[p][q]]
    BY <1>6, <2>1
  <2>3. working'[p].at = "read" => working'[p].next # 0
    BY <1>1, <1>4 DEF Filling
  <2>4. working'[p].at = working[p].at
    BY <1>0, <1>4
  <2>5. files'[p][0] = files[p][0]
    <3>1. 0 \in Number
      BY FileAssumption DEF Number
    <3> QED BY <1>2, <1>6, <3>1
  <2> QED BY <1>0, <2>2, <2>3, <2>4, <2>5 DEF Filling
<1>9. ASSUME NEW p \in Proc PROVE Naming(p)'
  <2> SUFFICES ASSUME working'[p].at = "name" PROVE Naming(p)'
    BY DEF Naming
  <2>1. p # r /\ working'[p] = working[p] /\ working[p].number \in Number
    BY <1>4 DEF FileKept
  <2>2. ~(p = o /\ working[p].number = n)
    BY <1>1, <1>3, <2>1 DEF Naming
  <2>3. files'[p][working[p].number] = files[p][working[p].number]
    BY <1>6, <2>1, <2>2
  <2> QED BY <1>0, <1>5, <2>1, <2>3 DEF Naming
<1>10. ASSUME NEW p \in Proc, NEW j \in 1..Len(names[p]) PROVE Named(p, j)'
  <2> SUFFICES ASSUME Waiting(p, j)' PROVE Named(p, j)'
    BY DEF Named
  <2>1. Waiting(p, j) /\ ~(p = r /\ j = i)
    BY <1>5
  <2>2. names[p][j] # names[r][i]
    BY <1>1, <2>1 DEF OnlyName
  <2>3. names[p][j] \in Names /\ names[p][j].of \in Proc /\ names[p][j].number \in Number
    BY NameOf
  <2>4. ~(names[p][j].of = o /\ names[p][j].number = n)
    <3>1. names[p][j] = [of |-> names[p][j].of, number |-> names[p][j].number]
      BY <2>3 DEF Names
    <3> QED BY <1>3, <2>2, <3>1
  <2>5. files'[names[p][j].of][names[p][j].number] = files[names[p][j].of][names[p][j].number]
    BY <1>6, <2>3, <2>4
  <2>6. /\ names[p][j].number # 0 /\ names[p][j].of # p
        /\ files[names[p][j].of][names[p][j].number].state = "ended"
    BY <2>1, Zenon DEF Named
  <2> QED BY <1>0, <2>5, <2>6, Zenon DEF Named
<1>11. ASSUME NEW p \in Proc, NEW q \in Proc, NEW k \in 1..Len(names[p]), NEW j \in 1..Len(names[q])
      PROVE  OnlyName(p, k, q, j)'
  BY <1>0, <1>5 DEF OnlyName
<1> QED BY <1>0, <1>7, <1>8, <1>9, <1>10, <1>11

\* There is nothing to send to a processor
LEMMA NothingToSendKeepsNumbers ==
    ASSUME NumbersInv, UNCHANGED job, NEW r \in Proc, NothingToSend(r) PROVE NumbersInv'
<1> USE DEF NumbersInv
<1> DEFINE q == working[r].next
           w == [at |-> "send", next |-> q + 1, number |-> working[r].number]
<1>0. /\ UNCHANGED <<submitted, files, names, listExists, f_buffer>>
      /\ working[r].at = "send" /\ working[r] = [at |-> "send", next |-> q, number |-> working[r].number]
      /\ q \in Nat /\ working[r].number \in Number /\ listExists \in [Proc -> BOOLEAN]
  BY DEF NothingToSend, FileKept
<1>1. w \in [at : {"out", "read", "empty", "send"}, next : Nat, number : Number] /\ w.at = "send"
  BY <1>0
<1>2. working' = [working EXCEPT ![r] = w]
  <2>1. working' = [working EXCEPT ![r].next = q + 1]
    BY DEF NothingToSend
  <2>2. [working[r] EXCEPT !.next = q + 1] = w
    BY <1>0
  <2> HIDE DEF q, w
  <2> QED BY <2>1, <2>2
<1> HIDE DEF w
<1>3. \A i \in 1..Len(names[r]) : Waiting(r, i)
  BY <1>0 DEF Waiting
<1> QED BY <1>0, <1>1, <1>2, <1>3, WorkKeepsNumbers

\* What a processor fills in the next state
LEMMA FillingAgain ==
    ASSUME NEW p \in Proc, Proc' = Proc, working'[p].at = "read" => working'[p].next # 0,
           f_buffer'[p][p] = 0, files'[p][0] = Absent,
           \A q \in Proc \ {p} :
               f_buffer'[p][q] # 0 /\ files'[p][f_buffer'[p][q]].state = "open",
           \A q, r \in Proc \ {p} : q # r => f_buffer'[p][q] # f_buffer'[p][r]
    PROVE  Filling(p)'
  BY DEF Filling

\* A file is ended and another number taken, which nothing used
LEMMA EndFileKeepsNumbers ==
    ASSUME NumbersInv, UNCHANGED job, NEW r \in Proc, UsualEndFile(r) PROVE NumbersInv'
<1> USE DEF NumbersInv
<1> DEFINE q == working[r].next
           n == f_buffer[r][q]
           new == NewNumber(r, n)
<1>0. /\ Proc' = Proc /\ UNCHANGED <<submitted, names, listExists>>
      /\ working[r].at = "send" /\ q \in Proc /\ q \in Nat
  <2>1. q \in Nat
    BY DEF FileKept
  <2> QED BY <2>1 DEF UsualEndFile, Proc
<1>2. NumbersInv'
  <2> DEFINE opened == Fresh
  <2>0. /\ FreeNumber(r, n) # {} /\ new # 0 /\ q # r
        /\ files' = [files EXCEPT ![r][n].state = "ended", ![r][new] = opened]
        /\ f_buffer' = [f_buffer EXCEPT ![r][q] = new]
        /\ working' = [working EXCEPT ![r] = [at |-> "name", next |-> q, number |-> n]]
    BY DEF UsualEndFile
  <2>1. q \in Proc \ {r} /\ n \in Number /\ n # 0 /\ files[r][n].state = "open"
    BY <1>0, <2>0 DEF Filling, FileKept
  <2>2. new \in Number /\ new # 0 /\ files[r][new].state = "absent" /\ new # n
    BY <2>0, <2>1, NewIsFree
  <2> HIDE DEF q, n, new
  <2>3. /\ working'[r] = [at |-> "name", next |-> q, number |-> n]
        /\ \A p \in Proc \ {r} : working'[p] = working[p]
        /\ f_buffer'[r] = [f_buffer[r] EXCEPT ![q] = new]
        /\ \A p \in Proc \ {r} : f_buffer'[p] = f_buffer[p]
    BY <2>0 DEF FileKept
  <2>4. files[r] \in [Number -> Content] /\ files[r][n] \in Content
    BY <2>1 DEF FileKept
  <2>5. /\ files'[r][n].state = "ended" /\ files'[r][new] = opened
        /\ files'[r][n] \in Content /\ files'[r][n].tasks = files[r][n].tasks
        /\ \A m \in Number \ {n, new} : files'[r][m] = files[r][m]
        /\ \A p \in Proc \ {r} : files'[p] = files[p]
    BY <2>0, <2>1, <2>2, <2>4 DEF FileKept, Content
  <2>6. files' \in [Proc -> [Number -> Content]]
    <3>1. opened \in Content /\ [files[r][n] EXCEPT !.state = "ended"] \in Content
      BY <2>4 DEF Content, Fresh
    <3> HIDE DEF opened
    <3>2. files' = [[files EXCEPT ![r][n] = [files[r][n] EXCEPT !.state = "ended"]]
                    EXCEPT ![r][new] = opened]
      BY <2>0, <2>1, <2>4 DEF FileKept
    <3>3. [files EXCEPT ![r][n] = [files[r][n] EXCEPT !.state = "ended"]] \in [Proc -> [Number -> Content]]
      BY <2>1, <3>1 DEF FileKept
    <3> QED BY <2>2, <3>1, <3>2, <3>3
  <2>7. FileKept'
    <3>1. f_buffer' \in [Proc -> [Proc -> Number]]
      BY <2>0, <2>2 DEF FileKept
    <3>2. working' \in [Proc -> [at : {"out", "read", "empty", "send", "name"},
                                 next : Nat, number : Number]]
      BY <1>0, <2>0, <2>1 DEF FileKept, q
    <3> QED BY <1>0, <2>6, <3>1, <3>2 DEF FileKept, Names, Content
  <2>8. \A p \in Proc : \A i : Waiting(p, i)' <=> Waiting(p, i)
    <3>1. names' = names /\ working[r].at = "send" /\ working'[r].at = "name"
      BY <1>0, <2>3
    <3>2. \A p \in Proc \ {r} : working'[p] = working[p]
      BY <2>3
    <3> QED BY <3>1, <3>2, Zenon DEF Waiting
  <2>b. \A p \in Proc : files'[p][0] = Absent
    <3>1. 0 \in Number \ {n, new} /\ \A p \in Proc : files[p][0] = Absent
      BY <2>1, <2>2, FileAssumption DEF Filling, Number
    <3> QED BY <2>5, <3>1
  <2>9. ASSUME NEW p \in Proc PROVE Filling(p)'
    <3>1. CASE p # r
      <4>1. Filling(p) /\ f_buffer'[p] = f_buffer[p] /\ files'[p] = files[p]
            /\ working'[p] = working[p]
        BY <2>3, <2>5, <3>1
      <4> HIDE DEF NumbersInv
      <4>2. /\ working'[p].at = "read" => working'[p].next # 0
            /\ f_buffer'[p][p] = 0 /\ files'[p][0] = Absent
        BY <4>1 DEF Filling
      <4>3. \A s \in Proc \ {p} :
              f_buffer'[p][s] # 0 /\ files'[p][f_buffer'[p][s]].state = "open"
        BY <4>1 DEF Filling
      <4>4. \A s, t \in Proc \ {p} : s # t => f_buffer'[p][s] # f_buffer'[p][t]
        BY <4>1 DEF Filling
      <4> QED BY <1>0, <4>2, <4>3, <4>4, FillingAgain
    <3>2. CASE p = r
      <4>1. /\ f_buffer'[r][q] = new
            /\ \A s \in Proc \ {q} : f_buffer'[r][s] = f_buffer[r][s]
        BY <2>1, <2>3 DEF FileKept
      <4>2. ASSUME NEW s \in Proc \ {r, q}
            PROVE  /\ f_buffer[r][s] \in Number \ {n, new} /\ f_buffer[r][s] # 0
                   /\ files'[r][f_buffer[r][s]].state = "open"
        <5>1. f_buffer[r][s] \in Number /\ f_buffer[r][s] # 0
              /\ files[r][f_buffer[r][s]].state = "open" /\ f_buffer[r][s] # n
          BY <2>1 DEF Filling, FileKept, n
        <5>2. f_buffer[r][s] # new
          BY <2>2, <5>1
        <5> QED BY <2>5, <5>1, <5>2
      <4>3. \A s \in Proc \ {r} :
              f_buffer'[r][s] # 0 /\ files'[r][f_buffer'[r][s]].state = "open"
        BY <2>2, <2>5, <4>1, <4>2 DEF Fresh
      <4>4. \A s, t \in Proc \ {r} : s # t => f_buffer'[r][s] # f_buffer'[r][t]
        BY <4>1, <4>2 DEF Filling
      <4>5. f_buffer'[r][r] = 0
        BY <2>1, <4>1 DEF Filling
      <4>6. ~(working'[r].at = "read") /\ files'[r][0] = Absent
        BY <2>b, <2>3, <3>2
      <4> HIDE DEF NumbersInv
      <4> QED BY <1>0, <3>2, <4>3, <4>4, <4>5, <4>6, FillingAgain
    <3> QED BY <3>1, <3>2
  <2>10. ASSUME NEW p \in Proc PROVE Naming(p)'
    <3>1. CASE p # r
      BY <1>0, <2>3, <2>5, <2>8, <3>1 DEF Naming
    <3>2. CASE p = r
      <4>1. ASSUME NEW s \in Proc, NEW i \in 1..Len(names[s]), Waiting(s, i)
            PROVE  names[s][i] # [of |-> r, number |-> n]
        BY <2>1, <4>1 DEF Named
      <4> QED BY <1>0, <2>1, <2>3, <2>5, <2>8, <3>2, <4>1 DEF Naming
    <3> QED BY <3>1, <3>2
  <2>11. ASSUME NEW p \in Proc, NEW i \in 1..Len(names[p]) PROVE Named(p, i)'
    <3> SUFFICES ASSUME Waiting(p, i) PROVE Named(p, i)'
      BY <2>8 DEF Named
    <3>1. /\ names[p][i].number # 0 /\ names[p][i].of # p
          /\ names[p][i].of \in Proc /\ names[p][i].number \in Number
          /\ files[names[p][i].of][names[p][i].number].state = "ended"
      BY NameOf DEF Named
    <3>2. files'[names[p][i].of][names[p][i].number] = files[names[p][i].of][names[p][i].number]
      <4>1. CASE names[p][i].of = r
        BY <2>1, <2>2, <2>5, <3>1, <4>1
      <4>2. CASE names[p][i].of # r
        BY <2>5, <3>1, <4>2
      <4> QED BY <4>1, <4>2
    <3> QED BY <1>0, <3>1, <3>2 DEF Named
  <2>12. ASSUME NEW p \in Proc, NEW s \in Proc, NEW i \in 1..Len(names[p]), NEW j \in 1..Len(names[s])
        PROVE  OnlyName(p, i, s, j)'
    BY <1>0, <2>8 DEF OnlyName
  <2> QED BY <1>0, <2>7, <2>9, <2>10, <2>11, <2>12
<1> QED BY <1>2

\* The name of the ended file goes to the list of the destination
LEMMA AddNameKeepsNumbers ==
    ASSUME NumbersInv, UNCHANGED job, NEW r \in Proc, AddName(r) PROVE NumbersInv'
<1> USE DEF NumbersInv
<1> DEFINE q == working[r].next
           name == [of |-> r, number |-> working[r].number]
<1>0. /\ Proc' = Proc /\ UNCHANGED <<submitted, files, f_buffer>> /\ working[r].at = "name"
      /\ names' = [names EXCEPT ![q] = Append(names[q], name)]
      /\ listExists' = [listExists EXCEPT ![q] = TRUE]
      /\ working' = [working EXCEPT ![r] = [at |-> "send", next |-> q + 1, number |-> 0]]
  BY DEF AddName, Proc
<1>1. /\ q \in Proc \ {r} /\ q \in Nat /\ working[r].number \in Number \ {0}
      /\ files[r][working[r].number].state = "ended"
      /\ \A s \in Proc : \A i \in 1..Len(names[s]) : Waiting(s, i) => names[s][i] # name
  BY <1>0 DEF Naming, Filling, FileKept
<1>2. name \in Names /\ name.of = r /\ name.number = working[r].number
  BY <1>1 DEF Names
<1>3. names[q] \in Seq(Names)
  BY <1>1 DEF FileKept
<1> HIDE DEF q, name
<1>4. /\ names'[q] = Append(names[q], name) /\ \A p \in Proc \ {q} : names'[p] = names[p]
      /\ working'[r] = [at |-> "send", next |-> q + 1, number |-> 0]
      /\ \A p \in Proc \ {r} : working'[p] = working[p]
  BY <1>0, <1>1 DEF FileKept
<1>5. /\ Len(names'[q]) = Len(names[q]) + 1 /\ Len(names[q]) \in Nat
      /\ names'[q][Len(names[q]) + 1] = name
      /\ \A i \in 1..Len(names[q]) : names'[q][i] = names[q][i]
      /\ names'[q] \in Seq(Names)
  BY <1>2, <1>3, <1>4, AppendOf
<1>6. FileKept'
  <2>1. names' \in [Proc -> Seq(Names)]
    BY <1>0, <1>4, <1>5 DEF FileKept
  <2>2. working' \in [Proc -> [at : {"out", "read", "empty", "send", "name"},
                               next : Nat, number : Number]]
    <3>1. 0 \in Number /\ q + 1 \in Nat
      BY <1>1, FileAssumption DEF Number
    <3> QED BY <1>0, <3>1 DEF FileKept
  <2>3. listExists' \in [Proc -> BOOLEAN]
    BY <1>0 DEF FileKept
  <2> QED BY <1>0, <2>1, <2>2, <2>3 DEF FileKept, Names
<1>7. ASSUME NEW p \in Proc, NEW i \in 1..Len(names'[p]), Waiting(p, i)'
      PROVE  \/ p = q /\ i = Len(names[q]) + 1 /\ names'[p][i] = name
             \/ i \in 1..Len(names[p]) /\ Waiting(p, i) /\ names'[p][i] = names[p][i]
  <2>1. CASE p = q /\ i = Len(names[q]) + 1
    BY <1>5, <2>1
  <2>2. CASE ~(p = q /\ i = Len(names[q]) + 1)
    <3>1. i \in 1..Len(names[p]) /\ names'[p][i] = names[p][i]
      BY <1>4, <1>5, <2>2
    <3>2. Waiting(p, i)
      BY <1>0, <1>4, <1>7, <3>1 DEF Waiting
    <3> QED BY <3>1, <3>2
  <2> QED BY <2>1, <2>2
<1>8. ASSUME NEW p \in Proc PROVE Filling(p)'
  BY <1>0, <1>1, <1>4 DEF Filling
<1>9. ASSUME NEW p \in Proc PROVE Naming(p)'
  <2>1. CASE p = r
    BY <1>4, <2>1 DEF Naming
  <2>2. CASE p # r
    <3> SUFFICES ASSUME working[p].at = "name"
                 PROVE  /\ Naming(p)'
      BY <1>4, <2>2 DEF Naming
    <3>1. ASSUME NEW s \in Proc, NEW i \in 1..Len(names'[s]), Waiting(s, i)'
          PROVE  names'[s][i] # [of |-> p, number |-> working[p].number]
      BY <1>2, <1>7, <2>2, <3>1 DEF Naming
    <3> QED BY <1>0, <1>4, <2>2, <3>1 DEF Naming
  <2> QED BY <2>1, <2>2
<1>10. ASSUME NEW p \in Proc, NEW i \in 1..Len(names'[p]) PROVE Named(p, i)'
  <2> SUFFICES ASSUME Waiting(p, i)' PROVE Named(p, i)'
    BY DEF Named
  <2>1. CASE names'[p][i] = name /\ p = q
    BY <1>0, <1>1, <1>2, <2>1, ZenonT(60) DEF Named
  <2>2. CASE i \in 1..Len(names[p]) /\ Waiting(p, i) /\ names'[p][i] = names[p][i]
    BY <1>0, <2>2, ZenonT(60) DEF Named
  <2> QED BY <1>7, <2>1, <2>2
<1>11. ASSUME NEW p \in Proc, NEW s \in Proc, NEW i \in 1..Len(names'[p]), NEW j \in 1..Len(names'[s])
       PROVE  OnlyName(p, i, s, j)'
  <2> SUFFICES ASSUME Waiting(p, i)', Waiting(s, j)', names'[p][i] = names'[s][j]
               PROVE  p = s /\ i = j
    BY DEF OnlyName
  <2>1. ASSUME NEW a \in Proc, NEW k \in 1..Len(names[a]), Waiting(a, k)
        PROVE  names[a][k] # name
    BY <1>1, <2>1
  <2>2. CASE p = q /\ i = Len(names[q]) + 1 /\ names'[p][i] = name
    <3>1. ~(j \in 1..Len(names[s]) /\ Waiting(s, j) /\ names'[s][j] = names[s][j])
      BY <2>1, <2>2
    <3>2. s = q /\ j = Len(names[q]) + 1
      BY <1>7, <3>1
    <3> QED BY <2>2, <3>2
  <2>3. CASE i \in 1..Len(names[p]) /\ Waiting(p, i) /\ names'[p][i] = names[p][i]
    <3>1. names'[s][j] # name
      BY <2>1, <2>3
    <3>2. j \in 1..Len(names[s]) /\ Waiting(s, j) /\ names'[s][j] = names[s][j]
      BY <1>7, <3>1
    <3> QED BY <2>3, <3>2 DEF OnlyName
  <2> QED BY <1>7, <2>2, <2>3
<1> QED BY <1>0, <1>6, <1>8, <1>9, <1>10, <1>11

-----------------------------------------------------------------------------
(* The way of a task from one processor to another: the files of o that    *)
(* are named in the list of p, in its order; one that is ended and is      *)
(* still to be named; the one that is being filled.                        *)

Piece(o, p, i) ==
    IF i \in 1..Len(names[p])
    THEN IF Waiting(p, i) /\ names[p][i].of = o
         THEN files[o][names[p][i].number].tasks ELSE <<>>
    ELSE IF i = Len(names[p]) + 1
         THEN IF working[o].at = "name" /\ working[o].next = p
              THEN files[o][working[o].number].tasks ELSE <<>>
         ELSE files[o][f_buffer[o][p]].tasks

Line(o, p) == [i \in 1..(Len(names[p]) + 2) |-> Piece(o, p, i)]

\* What is submitted and what is in the line, in the order of c, and none of
\* it beyond k in its script
Lined(c, s, line, k) ==
    /\ Upto(c, s, k) /\ InOrder(c, s)
    /\ \A i \in DOMAIN line : /\ Upto(c, line[i], k) /\ InOrder(c, line[i])
                              /\ Follows(c, s, line[i])
    /\ \A i, j \in DOMAIN line : i < j => Follows(c, line[i], line[j])

FileOrder(c) ==
    Home[c] \in Proc =>
        /\ \A p \in Proc \ {Home[c]} : Lined(c, submitted[p], Line(Home[c], p), Taken(c))
        /\ Foreign(c, submitted[Home[c]])
        /\ \A o \in Proc \ {Home[c]}, n \in Number : Foreign(c, files[o][n].tasks)

\* A piece that is not there disturbs no order
LEMMA EmptyPiece == ASSUME NEW c, NEW k
                    PROVE  /\ Upto(c, <<>>, k) /\ InOrder(c, <<>>) /\ Foreign(c, <<>>)
                           /\ \A s : Follows(c, s, <<>>) /\ Follows(c, <<>>, s)
  BY DEF Upto, InOrder, Foreign, Follows

\* Nor does one with tasks of other threads only
LEMMA ForeignPiece == ASSUME NEW c, NEW k, NEW f, Foreign(c, f)
                      PROVE  /\ Upto(c, f, k) /\ InOrder(c, f)
                             /\ \A s : Follows(c, s, f) /\ Follows(c, f, s)
  BY DEF Upto, InOrder, Foreign, Follows, Before

\* What is submitted is in the order of every thread
LEMMA FilesInOrder ==
    job \in Jobs /\ (\A c \in Caller : FileOrder(c))
        => \A c \in Caller, p \in Proc : InOrder(c, submitted[p])
<1> SUFFICES ASSUME job \in Jobs, \A c \in Caller : FileOrder(c), NEW c \in Caller, NEW p \in Proc
             PROVE  InOrder(c, submitted[p])
  OBVIOUS
<1>1. CASE Home[c] \in Proc /\ p # Home[c]
  BY <1>1 DEF FileOrder, Lined
<1>2. CASE Home[c] \in Proc /\ p = Home[c]
  BY <1>2, ForeignPiece DEF FileOrder
<1>3. CASE Home[c] \notin Proc
  <2>1. \A i \in 1..Len(job.script[c]) : Home[c] < job.size
    BY TransportAssumption, Zenon
  <2>2. Home[c] \in Nat /\ job.size \in Nat
    BY TransportAssumption, Scripts
  <2>3. Of(c) = {}
    BY <1>3, <2>1, <2>2 DEF Proc, Of, Elements, Script
  <2> QED BY <2>3 DEF InOrder, Before
<1> QED BY <1>1, <1>2, <1>3

\* The order of the tasks is that of their positions
LEMMA OrderOfFiles ==
    ASSUME job \in Jobs, \A c \in Caller : FileOrder(c) PROVE InSequence
  BY FilesInOrder, OrderIsEnough

\* Pieces may leave the line, and the others keep their order
LEMMA LineKept ==
    ASSUME NEW c, NEW s, NEW A, NEW B, NEW k \in Int, NEW l \in Int, k <= l,
           job \in Jobs, c \in Caller, Lined(c, s, A, k),
           NEW place, \A i \in DOMAIN B : B[i] = <<>> \/ (place[i] \in DOMAIN A /\ B[i] = A[place[i]]),
           \A i, j \in DOMAIN B : i < j /\ B[i] # <<>> /\ B[j] # <<>> => place[i] < place[j]
    PROVE  Lined(c, s, B, l)
<1>0. \A t : Upto(c, t, k) => Upto(c, t, l)
  BY PositionOf DEF Upto
<1>1. Upto(c, s, l) /\ InOrder(c, s)
  BY <1>0 DEF Lined
<1>2. ASSUME NEW i \in DOMAIN B
      PROVE  Upto(c, B[i], l) /\ InOrder(c, B[i]) /\ Follows(c, s, B[i])
  <2>1. CASE B[i] = <<>>
    BY <2>1, EmptyPiece
  <2>2. CASE place[i] \in DOMAIN A /\ B[i] = A[place[i]]
    BY <1>0, <2>2 DEF Lined
  <2> QED BY <2>1, <2>2
<1>3. ASSUME NEW i \in DOMAIN B, NEW j \in DOMAIN B, i < j PROVE Follows(c, B[i], B[j])
  <2>1. CASE B[i] = <<>> \/ B[j] = <<>>
    BY <2>1, EmptyPiece
  <2>2. CASE B[i] # <<>> /\ B[j] # <<>>
    <3>1. /\ place[i] \in DOMAIN A /\ B[i] = A[place[i]] /\ place[j] \in DOMAIN A
          /\ B[j] = A[place[j]] /\ place[i] < place[j]
      BY <1>3, <2>2
    <3> QED BY <3>1 DEF Lined
  <2> QED BY <2>1, <2>2
<1> QED BY <1>1, <1>2, <1>3 DEF Lined

\* A task is added to the last piece
LEMMA LineGrows ==
    ASSUME NEW c \in Caller, NEW s, NEW n \in Nat, NEW A, DOMAIN A = 1..n, n # 0,
           A[n] \in Seq(Task),
           NEW t \in Task, NEW k \in Int, NEW l \in Int, k <= l, job \in Jobs, Lined(c, s, A, k),
           t \in Of(c) => k < l /\ Position(c, t) = l,
           NEW B, DOMAIN B = 1..n, \A i \in 1..(n - 1) : B[i] = A[i], B[n] = Append(A[n], t)
    PROVE  Lined(c, s, B, l)
<1>0. \A u \in Of(c) : Position(c, u) \in Int
  BY PositionOf
<1>1. \A u : Upto(c, u, k) => Upto(c, u, l)
  BY <1>0 DEF Upto
<1>2. /\ n \in DOMAIN A /\ Upto(c, A[n], k) /\ InOrder(c, A[n]) /\ Upto(c, s, k) /\ InOrder(c, s)
      /\ Follows(c, s, A[n])
  BY DEF Lined
<1>3. /\ Len(B[n]) = Len(A[n]) + 1 /\ Len(A[n]) \in Nat /\ B[n][Len(A[n]) + 1] = t
      /\ \A i \in 1..Len(A[n]) : B[n][i] = A[n][i]
  BY AppendOf
<1>5. \A u : Upto(c, u, k) => \A i \in 1..Len(u) : Before(c, u[i], t)
  BY <1>0 DEF Upto, Before
<1>6. \A u : Upto(c, u, k) /\ Follows(c, u, A[n]) => Follows(c, u, B[n])
  BY <1>3, <1>5 DEF Follows
<1>7. Upto(c, B[n], l)
  <2>1. Upto(c, A[n], l)
    BY <1>1, <1>2
  <2> QED BY <2>1, <1>0, <1>3 DEF Upto
<1>8. InOrder(c, B[n])
  <2>1. \A i \in 1..Len(A[n]) : Before(c, A[n][i], t)
    BY <1>2, <1>5
  <2> QED BY <2>1, <1>2, AppendInOrder
<1>9. ASSUME NEW i \in DOMAIN B
      PROVE  Upto(c, B[i], l) /\ InOrder(c, B[i]) /\ Follows(c, s, B[i])
  <2>1. CASE i = n
    BY <1>2, <1>6, <1>7, <1>8, <2>1
  <2>2. CASE i # n
    <3>1. i \in DOMAIN A /\ B[i] = A[i]
      BY <2>2
    <3> QED BY <1>1, <3>1 DEF Lined
  <2> QED BY <2>1, <2>2
<1>10. ASSUME NEW i \in DOMAIN B, NEW j \in DOMAIN B, i < j PROVE Follows(c, B[i], B[j])
  <2>1. i \in DOMAIN A /\ B[i] = A[i] /\ j \in DOMAIN A
    BY <1>10
  <2>2. Upto(c, A[i], k) /\ Follows(c, A[i], A[j])
    BY <1>10, <2>1 DEF Lined
  <2>3. CASE j = n
    BY <1>6, <2>1, <2>2, <2>3
  <2>4. CASE j # n
    BY <2>1, <2>2, <2>4
  <2> QED BY <2>3, <2>4
<1>11. Upto(c, s, l)
  BY <1>1, <1>2
<1> QED BY <1>2, <1>9, <1>10, <1>11 DEF Lined

\* What two sequences make together
LEMMA ConcatOf ==
    ASSUME NEW T, NEW s \in Seq(T), NEW t \in Seq(T)
    PROVE  /\ s \o t \in Seq(T) /\ Len(s) \in Nat /\ Len(t) \in Nat
           /\ Len(s \o t) = Len(s) + Len(t)
           /\ \A i \in 1..Len(s) : (s \o t)[i] = s[i]
           /\ \A i \in 1..Len(t) : (s \o t)[Len(s) + i] = t[i]
           /\ \A i \in 1..Len(s \o t) :
                i \in 1..Len(s) \/ \E j \in 1..Len(t) : i = Len(s) + j
<1>1. /\ s \o t \in Seq(T) /\ Len(s) \in Nat /\ Len(t) \in Nat
      /\ Len(s \o t) = Len(s) + Len(t)
      /\ \A i \in 1..(Len(s) + Len(t)) : (s \o t)[i] = IF i <= Len(s) THEN s[i] ELSE t[i - Len(s)]
  OBVIOUS
<1>2. \A i \in 1..Len(t) : Len(s) + i \in 1..(Len(s) + Len(t)) /\ (Len(s) + i) - Len(s) = i
                           /\ ~(Len(s) + i <= Len(s))
  BY <1>1
<1>3. \A i \in 1..Len(s \o t) : i \in 1..Len(s) \/ (i - Len(s) \in 1..Len(t) /\ i = Len(s) + (i - Len(s)))
  BY <1>1
<1> QED BY <1>1, <1>2, <1>3

\* The first piece that is not empty is read
LEMMA LineRead ==
    ASSUME NEW c \in Caller, NEW s \in Seq(Task), NEW n \in Nat, NEW A, DOMAIN A = 1..n,
           NEW r \in 1..n, A[r] \in Seq(Task), \A i \in 1..n : i < r => A[i] = <<>>,
           NEW k \in Int, Lined(c, s, A, k), job \in Jobs,
           NEW B, DOMAIN B = 1..n, B[r] = <<>>, \A i \in (1..n) \ {r} : B[i] = A[i]
    PROVE  Lined(c, s \o A[r], B, k)
<1> DEFINE f == A[r]
<1>1. /\ Len(s) \in Nat /\ Len(f) \in Nat /\ Len(s \o f) = Len(s) + Len(f)
      /\ \A i \in 1..Len(s) : (s \o f)[i] = s[i]
      /\ \A i \in 1..Len(f) : (s \o f)[Len(s) + i] = f[i]
      /\ \A i \in 1..Len(s \o f) : i \in 1..Len(s) \/ \E j \in 1..Len(f) : i = Len(s) + j
  BY ConcatOf
<1>2. /\ Upto(c, s, k) /\ InOrder(c, s) /\ Upto(c, f, k) /\ InOrder(c, f) /\ Follows(c, s, f)
  BY DEF Lined
<1> DEFINE g == s \o f
<1> HIDE DEF f, g
<1>3. Upto(c, g, k)
  <2> SUFFICES ASSUME NEW i \in 1..Len(g), g[i] \in Of(c) PROVE Position(c, g[i]) <= k
    BY DEF Upto
  <2>1. CASE i \in 1..Len(s)
    BY <1>1, <1>2, <2>1 DEF Upto, g
  <2>2. ASSUME NEW j \in 1..Len(f), i = Len(s) + j PROVE Position(c, g[i]) <= k
    BY <1>1, <1>2, <2>2 DEF Upto, g
  <2> QED BY <1>1, <2>1, <2>2 DEF g
<1>4. InOrder(c, g)
  <2> SUFFICES ASSUME NEW i \in 1..Len(g), NEW j \in 1..Len(g), i < j
               PROVE  Before(c, g[i], g[j])
    BY DEF InOrder
  <2>1. CASE j \in 1..Len(s)
    <3>1. i \in 1..Len(s)
      BY <1>1, <2>1
    <3> QED BY <1>1, <1>2, <2>1, <3>1 DEF InOrder, g
  <2>2. ASSUME NEW b \in 1..Len(f), j = Len(s) + b PROVE Before(c, g[i], g[j])
    <3>1. g[j] = f[b]
      BY <1>1, <2>2 DEF g
    <3>2. CASE i \in 1..Len(s)
      BY <1>1, <1>2, <3>1, <3>2 DEF Follows, g
    <3>3. ASSUME NEW a \in 1..Len(f), i = Len(s) + a PROVE Before(c, g[i], g[j])
      <4>1. g[i] = f[a]
        BY <1>1, <3>3 DEF g
      <4>2. Len(s) + a < Len(s) + b /\ Len(s) \in Nat
        BY <1>1, <2>2, <3>3
      <4>3. a < b
        BY <4>2
      <4> QED BY <1>2, <3>1, <4>1, <4>3 DEF InOrder
    <3> QED BY <1>1, <3>2, <3>3 DEF g
  <2> QED BY <1>1, <2>1, <2>2 DEF g
<1>5. ASSUME NEW u, Follows(c, s, u), Follows(c, f, u) PROVE Follows(c, g, u)
  <2> SUFFICES ASSUME NEW i \in 1..Len(g), NEW j \in 1..Len(u) PROVE Before(c, g[i], u[j])
    BY DEF Follows
  <2>1. CASE i \in 1..Len(s)
    BY <1>1, <1>5, <2>1 DEF Follows, g
  <2>2. ASSUME NEW a \in 1..Len(f), i = Len(s) + a PROVE Before(c, g[i], u[j])
    BY <1>1, <1>5, <2>2 DEF Follows, g
  <2> QED BY <1>1, <2>1, <2>2 DEF g
<1>6. ASSUME NEW i \in DOMAIN B
      PROVE  Upto(c, B[i], k) /\ InOrder(c, B[i]) /\ Follows(c, g, B[i])
  <2>1. CASE i <= r
    <3>1. B[i] = <<>>
      BY <2>1
    <3> QED BY <3>1, EmptyPiece
  <2>2. CASE ~(i <= r)
    <3>1. B[i] = A[i] /\ i \in DOMAIN A /\ r \in DOMAIN A /\ r < i
      BY <2>2
    <3>2. Upto(c, A[i], k) /\ InOrder(c, A[i]) /\ Follows(c, s, A[i]) /\ Follows(c, f, A[i])
      BY <3>1 DEF Lined, f
    <3> QED BY <1>5, <3>1, <3>2
  <2> QED BY <2>1, <2>2
<1>7. ASSUME NEW i \in DOMAIN B, NEW j \in DOMAIN B, i < j PROVE Follows(c, B[i], B[j])
  <2>1. CASE i = r \/ j = r
    BY <2>1, EmptyPiece
  <2>2. CASE i # r /\ j # r
    <3>1. B[i] = A[i] /\ B[j] = A[j] /\ i \in DOMAIN A /\ j \in DOMAIN A
      BY <2>2
    <3> QED BY <1>7, <3>1 DEF Lined
  <2> QED BY <2>1, <2>2
<1> QED BY <1>3, <1>4, <1>6, <1>7 DEF Lined, f, g

\* What is foreign may be submitted at any time
LEMMA ForeignRead ==
    ASSUME NEW c \in Caller, NEW s \in Seq(Task), NEW f \in Seq(Task), Foreign(c, f),
           NEW A, NEW k \in Int
    PROVE  /\ Lined(c, s, A, k) => Lined(c, s \o f, A, k)
           /\ Foreign(c, s) => Foreign(c, s \o f)
<1>1. /\ Len(s) \in Nat /\ Len(f) \in Nat /\ Len(s \o f) = Len(s) + Len(f)
      /\ \A i \in 1..Len(s) : (s \o f)[i] = s[i]
      /\ \A i \in 1..Len(f) : (s \o f)[Len(s) + i] = f[i]
      /\ \A i \in 1..Len(s \o f) : i \in 1..Len(s) \/ \E j \in 1..Len(f) : i = Len(s) + j
  BY ConcatOf
<1> DEFINE g == s \o f
<1>2. \A i \in 1..Len(g) : (i \in 1..Len(s) /\ g[i] = s[i]) \/ g[i] \notin Of(c)
  <2> TAKE i \in 1..Len(g)
  <2>1. CASE i \in 1..Len(s)
    BY <1>1, <2>1
  <2>2. ASSUME NEW j \in 1..Len(f), i = Len(s) + j PROVE g[i] \notin Of(c)
    BY <1>1, <2>2 DEF Foreign
  <2> QED BY <1>1, <2>1, <2>2
<1> HIDE DEF g
<1>3. Foreign(c, s) => Foreign(c, g)
  BY <1>2 DEF Foreign
<1>4. (Upto(c, s, k) => Upto(c, g, k)) /\ (InOrder(c, s) => InOrder(c, g))
  BY <1>2 DEF Upto, InOrder, Before
<1>5. \A u : Follows(c, s, u) => Follows(c, g, u)
  BY <1>2 DEF Follows, Before
<1> QED BY <1>3, <1>4, <1>5 DEF Lined, g

-----------------------------------------------------------------------------
(* Each step keeps the order                                               *)

FileInv == NumbersInv /\ ScriptInv /\ \A c \in Caller : FileOrder(c)

\* The order of some lines is the same in the next state
LEMMA SameLines ==
    ASSUME UNCHANGED job, NEW c \in Caller,
           Home[c] \in Proc =>
               /\ \A p \in Proc \ {Home[c]} :
                    Lined(c, submitted'[p], Line(Home[c], p)', Taken(c)')
               /\ Foreign(c, submitted'[Home[c]])
               /\ \A o \in Proc \ {Home[c]}, n \in Number : Foreign(c, files'[o][n].tasks)
    PROVE  FileOrder(c)'
<1>1. Script' = Script /\ Of(c)' = Of(c) /\ Proc' = Proc
  BY DEF Script, Of, Elements, Proc
<1>2. \A t : Position(c, t)' = Position(c, t)
  BY <1>1 DEF Position
<1> QED BY <1>1, <1>2 DEF FileOrder, Lined, Upto, InOrder, Follows, Foreign, Before

\* The pieces of a line, and that each is a sequence of tasks
LEMMA Pieces ==
    ASSUME NumbersInv, NEW o \in Proc, NEW p \in Proc
    PROVE  /\ Len(names[p]) \in Nat
           /\ DOMAIN Line(o, p) = 1..(Len(names[p]) + 2)
           /\ \A i \in 1..(Len(names[p]) + 2) : /\ Line(o, p)[i] = Piece(o, p, i)
                                                /\ Line(o, p)[i] \in Seq(Task)
<1>1. Len(names[p]) \in Nat
  BY DEF NumbersInv, FileKept
<1>2. \A n \in Number : files[o][n].tasks \in Seq(Task)
  BY DEF NumbersInv, FileKept, Content
<1>3. \A i \in 1..(Len(names[p]) + 2) : Piece(o, p, i) \in Seq(Task)
  <2>1. \A i \in 1..Len(names[p]) : names[p][i].number \in Number
    BY NameOf DEF NumbersInv
  <2>2. working[o].number \in Number /\ f_buffer[o][p] \in Number
    BY DEF NumbersInv, FileKept
  <2> QED BY <1>2, <2>1, <2>2 DEF Piece
<1> QED BY <1>1, <1>3 DEF Line

\* The files of a line are distinct: those that wait are ended and have
\* different names, the next to be named is ended and has none of them, and
\* the last is open.
FileOf(o, p, i) == IF i \in 1..Len(names[p]) THEN names[p][i].number
                   ELSE IF i = Len(names[p]) + 1 THEN working[o].number ELSE f_buffer[o][p]

InUse(o, p, i) == IF i \in 1..Len(names[p]) THEN Waiting(p, i) /\ names[p][i].of = o
                  ELSE IF i = Len(names[p]) + 1
                       THEN working[o].at = "name" /\ working[o].next = p ELSE TRUE

\* A piece is the file at its place, if there is one
LEMMA PieceOf ==
    ASSUME NEW o, NEW p, NEW i
    PROVE  Piece(o, p, i) = IF InUse(o, p, i) THEN files[o][FileOf(o, p, i)].tasks ELSE <<>>
  BY DEF Piece, InUse, FileOf

\* The file at the last place is open, the others are ended
LEMMA StateOf ==
    ASSUME NumbersInv, NEW o \in Proc, NEW p \in Proc \ {o},
           NEW i \in 1..(Len(names[p]) + 2), InUse(o, p, i)
    PROVE  /\ FileOf(o, p, i) \in Number
           /\ files[o][FileOf(o, p, i)].state = IF i = Len(names[p]) + 2 THEN "open" ELSE "ended"
<1>1. Len(names[p]) \in Nat
  BY DEF NumbersInv, FileKept
<1>2. CASE i \in 1..Len(names[p])
  BY <1>1, <1>2, NameOf DEF InUse, FileOf, NumbersInv, Named
<1>3. CASE i = Len(names[p]) + 1
  <2>1. FileOf(o, p, i) = working[o].number /\ working[o].at = "name"
    BY <1>1, <1>3 DEF FileOf, InUse
  <2>2. working[o].number \in Number /\ files[o][working[o].number].state = "ended"
    BY <2>1 DEF NumbersInv, Naming, FileKept
  <2> QED BY <1>1, <1>3, <2>1, <2>2
<1>4. CASE i = Len(names[p]) + 2
  <2>1. FileOf(o, p, i) = f_buffer[o][p]
    BY <1>1, <1>4 DEF FileOf
  <2>2. f_buffer[o][p] \in Number /\ files[o][f_buffer[o][p]].state = "open"
    BY DEF NumbersInv, Filling, FileKept
  <2> QED BY <1>1, <1>4, <2>1, <2>2
<1> QED BY <1>1, <1>2, <1>3, <1>4

\* At the start nothing is submitted and every file is empty
LEMMA FileOrderStart == TransportInit /\ FileInit => FileInv
<1> SUFFICES ASSUME TransportInit, FileInit PROVE FileInv
  OBVIOUS
<1>1. NumbersInv /\ ScriptInv /\ job \in Jobs
  BY FileStart, ScriptStart DEF TransportInit
<1>2. \A p \in Proc : submitted[p] = <<>>
  BY <1>1, Sizes DEF TransportInit
<1>3. \A p \in Proc, n \in Number : files[p][n].tasks = <<>>
  <2>1. Fresh.tasks = <<>> /\ Absent.tasks = <<>>
    BY DEF Fresh, Absent
  <2>2. \A p \in Proc, n \in Number :
          files[p][n] = IF n \in 1..(job.size - 1) THEN Fresh ELSE Absent
    BY DEF FileInit
  <2> QED BY <2>1, <2>2, Zenon
<1>4. ASSUME NEW o \in Proc, NEW p \in Proc \ {o}
      PROVE  \A i \in DOMAIN Line(o, p) : Line(o, p)[i] = <<>>
  <2> TAKE i \in DOMAIN Line(o, p)
  <2>1. i \in 1..(Len(names[p]) + 2) /\ Line(o, p)[i] = Piece(o, p, i)
    BY <1>1, Pieces
  <2>2. InUse(o, p, i) => files[o][FileOf(o, p, i)].tasks = <<>>
    BY <1>1, <1>3, <2>1, StateOf
  <2> QED BY <2>1, <2>2, PieceOf
<1>5. ASSUME NEW c \in Caller PROVE FileOrder(c)
  <2> SUFFICES ASSUME Home[c] \in Proc PROVE FileOrder(c)
    BY DEF FileOrder
  <2>1. \A p \in Proc \ {Home[c]} : Lined(c, submitted[p], Line(Home[c], p), Taken(c))
    BY <1>2, <1>4, EmptyPiece DEF Lined
  <2>2. Foreign(c, submitted[Home[c]])
        /\ \A o \in Proc \ {Home[c]}, n \in Number : Foreign(c, files[o][n].tasks)
    BY <1>2, <1>3, EmptyPiece
  <2> QED BY <2>1, <2>2 DEF FileOrder
<1> QED BY <1>1, <1>5 DEF FileInv

\* The pieces of a line in the next state, each of which was in it before
LEMMA LineMoves ==
    ASSUME NumbersInv, NumbersInv', UNCHANGED job, job \in Jobs, NEW c \in Caller,
           NEW p \in Proc, Home[c] \in Proc, NEW s, NEW k \in Int, NEW l \in Int, k <= l,
           Lined(c, s, Line(Home[c], p), k), NEW place,
           \A i \in 1..(Len(names'[p]) + 2) :
               \/ Piece(Home[c], p, i)' = <<>>
               \/ /\ place[i] \in 1..(Len(names[p]) + 2)
                  /\ Piece(Home[c], p, i)' = Piece(Home[c], p, place[i]),
           \A i, j \in 1..(Len(names'[p]) + 2) :
               i < j /\ Piece(Home[c], p, i)' # <<>> /\ Piece(Home[c], p, j)' # <<>>
                   => place[i] < place[j]
    PROVE  Lined(c, s, Line(Home[c], p)', l)
<1> DEFINE o == Home[c]
           A == Line(o, p)
           B == Line(o, p)'
<1>1. DOMAIN A = 1..(Len(names[p]) + 2) /\ \A i \in DOMAIN A : A[i] = Piece(o, p, i)
  BY DEF Line
<1>2. DOMAIN B = 1..(Len(names'[p]) + 2) /\ \A i \in DOMAIN B : B[i] = Piece(o, p, i)'
  BY DEF Line
<1> HIDE DEF A, B
<1>3. \A i \in DOMAIN B : B[i] = <<>> \/ (place[i] \in DOMAIN A /\ B[i] = A[place[i]])
  BY <1>1, <1>2
<1>4. \A i, j \in DOMAIN B : i < j /\ B[i] # <<>> /\ B[j] # <<>> => place[i] < place[j]
  BY <1>2
<1>5. Lined(c, s, A, k)
  BY DEF A
<1>6. Lined(c, s, B, l)
  BY <1>3, <1>4, <1>5, LineKept
<1> QED BY <1>6 DEF B

\* Lines that are the same in the next state, piece by piece
LEMMA SameLine ==
    ASSUME NumbersInv, NumbersInv', UNCHANGED job, job \in Jobs, NEW c \in Caller,
           NEW p \in Proc, Home[c] \in Proc, names'[p] = names[p],
           \A i \in 1..(Len(names[p]) + 2) : Piece(Home[c], p, i)' = Piece(Home[c], p, i),
           NEW s, NEW k \in Int, NEW l \in Int, k <= l, Lined(c, s, Line(Home[c], p), k)
    PROVE  Lined(c, s, Line(Home[c], p)', l)
<1> DEFINE place == [i \in 1..(Len(names[p]) + 2) |-> i]
<1>1. \A i \in 1..(Len(names'[p]) + 2) : /\ place[i] \in 1..(Len(names[p]) + 2)
                                         /\ Piece(Home[c], p, i)' = Piece(Home[c], p, place[i])
  OBVIOUS
<1>2. \A i, j \in 1..(Len(names'[p]) + 2) : i < j => place[i] < place[j]
  OBVIOUS
<1> HIDE DEF place
<1> QED BY <1>1, <1>2, LineMoves

\* Nothing moves when only the work of the processors goes on
LEMMA QuietFiles ==
    ASSUME FileInv, NumbersInv', UNCHANGED <<job, submitted, files, names, f_buffer>>,
           \A c \in Caller : Taken(c)' \in Nat /\ Taken(c)' >= Taken(c),
           \A p \in Proc : \A i \in 1..Len(names[p]) : Waiting(p, i)' <=> Waiting(p, i),
           \A p \in Proc : /\ working'[p].at = "name" <=> working[p].at = "name"
                           /\ working[p].at = "name" => working'[p] = working[p]
    PROVE  \A c \in Caller : FileOrder(c)'
<1> SUFFICES ASSUME NEW c \in Caller PROVE FileOrder(c)'
  OBVIOUS
<1>0. NumbersInv /\ job \in Jobs /\ FileOrder(c) /\ Taken(c) \in Int /\ Taken(c)' \in Int
      /\ Taken(c) <= Taken(c)'
  BY DEF FileInv, ScriptInv
<1>1. ASSUME Home[c] \in Proc, NEW p \in Proc \ {Home[c]}
      PROVE  Lined(c, submitted'[p], Line(Home[c], p)', Taken(c)')
  <2>1. \A i \in 1..(Len(names[p]) + 2) : Piece(Home[c], p, i)' = Piece(Home[c], p, i)
    BY <1>1 DEF Piece
  <2>2. Lined(c, submitted[p], Line(Home[c], p), Taken(c))
    BY <1>0, <1>1 DEF FileOrder
  <2>3. Lined(c, submitted[p], Line(Home[c], p)', Taken(c)')
    BY <1>0, <1>1, <2>1, <2>2, SameLine
  <2> QED BY <2>3
<1>2. Home[c] \in Proc => /\ Foreign(c, submitted'[Home[c]])
                          /\ \A o \in Proc \ {Home[c]}, n \in Number : Foreign(c, files'[o][n].tasks)
  BY <1>0 DEF FileOrder
<1> QED BY <1>1, <1>2, SameLines

\* The steps that only change where a processor is
LEMMA WorkKeepsOrder ==
    ASSUME FileInv, UNCHANGED job, NEW r \in Proc,
           SendMessages(r) \/ NothingToSend(r) \/ AllSent(r) \/ OpenList(r) \/ EndOfList(r)
    PROVE  FileInv'
<1> USE DEF FileInv
<1>1. NumbersInv'
  BY SendMessagesKeepsNumbers, NothingToSendKeepsNumbers, AllSentKeepsNumbers,
     OpenListKeepsNumbers, EndOfListKeepsNumbers
<1>2. UNCHANGED <<todo, submitted, files, names, f_buffer>>
  BY DEF SendMessages, NothingToSend, AllSent, OpenList, EndOfList
<1>3. ScriptInv' /\ \A c \in Caller : Taken(c)' \in Nat /\ Taken(c)' >= Taken(c)
  BY <1>2, SameTasks DEF ScriptInv
<1>4. \A p \in Proc \ {r} : working'[p] = working[p]
  BY DEF SendMessages, NothingToSend, AllSent, OpenList, EndOfList, NumbersInv, FileKept
<1>5. working[r].at # "name" /\ working'[r].at # "name"
  BY DEF SendMessages, NothingToSend, AllSent, OpenList, EndOfList, NumbersInv, FileKept, Idle
<1>6. \A i \in 1..Len(names[r]) : Waiting(r, i)' <=> Waiting(r, i)
  <2>1. CASE SendMessages(r) \/ NothingToSend(r) \/ AllSent(r)
    BY <2>1, <1>2 DEF SendMessages, NothingToSend, AllSent, Waiting, NumbersInv, FileKept, Idle
  <2>2. CASE OpenList(r)
    <3>1. CASE listExists[r]
      BY <2>2, <3>1, <1>2 DEF OpenList, Waiting, NumbersInv, FileKept
    <3>2. CASE ~ listExists[r]
      BY <2>2, <3>2, <1>2 DEF OpenList, Waiting
    <3> QED BY <3>1, <3>2
  <2>3. CASE EndOfList(r)
    <3>1. working[r].next \in Nat /\ Len(names[r]) \in Nat
      BY DEF NumbersInv, FileKept
    <3>2. \A i \in 1..Len(names[r]) : ~ Waiting(r, i)
      BY <2>3, <3>1 DEF EndOfList, Waiting
    <3>3. working'[r].at = "empty"
      BY <2>3 DEF EndOfList, NumbersInv, FileKept
    <3> QED BY <3>2, <3>3 DEF Waiting
  <2> QED BY <2>1, <2>2, <2>3
<1>7. \A p \in Proc : \A i \in 1..Len(names[p]) : Waiting(p, i)' <=> Waiting(p, i)
  BY <1>2, <1>4, <1>6 DEF Waiting
<1>8. \A c \in Caller : FileOrder(c)'
  BY <1>1, <1>2, <1>3, <1>4, <1>5, <1>7, QuietFiles
<1> QED BY <1>1, <1>3, <1>8

\* The list is emptied when nothing of it is in the line any more
LEMMA EmptyListKeepsOrder ==
    ASSUME FileInv, UNCHANGED job, NEW r \in Proc, UsualEmptyList(r) PROVE FileInv'
<1>1. NumbersInv' /\ NumbersInv /\ job \in Jobs
  BY EmptyListKeepsNumbers DEF FileInv, ScriptInv
<1>2. UNCHANGED <<todo, submitted, files, f_buffer>>
  BY DEF UsualEmptyList
<1>3. ScriptInv' /\ \A c \in Caller : Taken(c)' = Taken(c) /\ Taken(c) \in Int
  BY <1>2, SameTasks DEF ScriptInv, FileInv
<1>4. /\ working[r].at = "empty" /\ working'[r].at = "out" /\ names'[r] = <<>>
      /\ \A p \in Proc \ {r} : working'[p] = working[p] /\ names'[p] = names[p]
  BY <1>1 DEF UsualEmptyList, Idle, NumbersInv, FileKept
<1>5. ASSUME NEW c \in Caller, Home[c] \in Proc, NEW p \in Proc \ {Home[c]}
      PROVE  Lined(c, submitted'[p], Line(Home[c], p)', Taken(c)')
  <2> DEFINE o == Home[c]
             L == Len(names[p])
  <2>0. /\ submitted'[p] = submitted[p] /\ Taken(c)' = Taken(c) /\ Taken(c) \in Int
        /\ L \in Nat /\ Taken(c) <= Taken(c) /\ p \in Proc /\ o \in Proc
    BY <1>1, <1>2, <1>3, <1>5 DEF NumbersInv, FileKept
  <2>1. Lined(c, submitted[p], Line(o, p), Taken(c))
    BY <1>5 DEF FileInv, FileOrder
  <2>2. CASE p # r
    <3>1. \A i \in 1..(L + 2) : Piece(o, p, i)' = Piece(o, p, i)
      <4>1. names'[p] = names[p] /\ working'[p] = working[p]
        BY <1>4, <2>2
      <4>0. \A i : Waiting(p, i)' <=> Waiting(p, i)
        BY <4>1, Zenon DEF Waiting
      <4>2. o # r => working'[o] = working[o]
        BY <1>4, <2>0
      <4>3. o = r => working[o].at # "name" /\ working'[o].at # "name"
        BY <1>4
      <4> QED BY <1>2, <4>0, <4>1, <4>2, <4>3 DEF Piece
    <3>2. names'[p] = names[p]
      BY <1>4, <2>2
    <3>3. Lined(c, submitted[p], Line(o, p)', Taken(c))
      BY <1>1, <1>5, <2>0, <2>1, <3>1, <3>2, SameLine
    <3> QED BY <2>0, <3>3
  <2>3. CASE p = r
    <3> DEFINE place == [i \in 1..2 |-> L + i]
    <3>1. names'[p] = <<>> /\ Len(names'[p]) = 0
      BY <1>4, <2>3
    <3>2. Piece(o, p, 2)' = Piece(o, p, L + 2)
      BY <1>2, <2>0, <3>1 DEF Piece
    <3>3. Piece(o, p, 1)' = Piece(o, p, L + 1)
      <4>1. working[o].at = "name" /\ working[o].next = p
            <=> working'[o].at = "name" /\ working'[o].next = p
        BY <1>4, <1>5, <2>3
      <4>2. working'[o].at = "name" => working'[o] = working[o]
        BY <1>4, <1>5, <2>3
      <4> QED BY <1>2, <2>0, <3>1, <4>1, <4>2 DEF Piece
    <3>4. \A i \in 1..(Len(names'[p]) + 2) :
            place[i] \in 1..(L + 2) /\ Piece(o, p, i)' = Piece(o, p, place[i])
      <4>1. 1..(Len(names'[p]) + 2) = {1, 2} /\ place[1] = L + 1 /\ place[2] = L + 2
        BY <3>1
      <4>2. L + 1 \in 1..(L + 2) /\ L + 2 \in 1..(L + 2)
        BY <2>0
      <4> HIDE DEF place, L
      <4> QED BY <3>2, <3>3, <4>1, <4>2
    <3>5. \A i, j \in 1..(Len(names'[p]) + 2) : i < j => place[i] < place[j]
      BY <2>0, <3>1
    <3> HIDE DEF place
    <3>6. Lined(c, submitted[p], Line(o, p)', Taken(c))
      BY <1>1, <2>0, <2>1, <3>4, <3>5, LineMoves, Zenon
    <3> QED BY <2>0, <3>6
  <2> QED BY <2>2, <2>3
<1>6. ASSUME NEW c \in Caller PROVE FileOrder(c)'
  <2>1. Home[c] \in Proc => /\ Foreign(c, submitted'[Home[c]])
                            /\ \A o \in Proc \ {Home[c]}, n \in Number : Foreign(c, files'[o][n].tasks)
    BY <1>2 DEF FileInv, FileOrder
  <2> QED BY <1>5, <2>1, SameLines
<1> QED BY <1>1, <1>3, <1>6 DEF FileInv

\* What a step leaves of the pieces of a line
LEMMA PieceKept ==
    ASSUME NEW o \in Proc, NEW p \in Proc, NumbersInv, names'[p] = names[p],
           NEW i \in 1..(Len(names[p]) + 2), InUse(o, p, i)' <=> InUse(o, p, i),
           InUse(o, p, i) => /\ FileOf(o, p, i)' = FileOf(o, p, i)
                             /\ files'[o][FileOf(o, p, i)].tasks = files[o][FileOf(o, p, i)].tasks
    PROVE  Piece(o, p, i)' = Piece(o, p, i)
<1>1. Piece(o, p, i)' = IF InUse(o, p, i)' THEN files'[o][FileOf(o, p, i)'].tasks ELSE <<>>
  BY DEF Piece, InUse, FileOf
<1> QED BY <1>1, PieceOf

\* A task is added to the files that are being filled for its destinations
LEMMA SendTaskKeepsOrder ==
    ASSUME FileInv, UNCHANGED job, NEW s \in Caller, UsualSendTask(s) PROVE FileInv'
<1> DEFINE o == Home[s]
           t == Head(todo[s])
<1>1. NumbersInv' /\ NumbersInv /\ ScriptInv /\ job \in Jobs
  BY SendTaskKeepsNumbers DEF FileInv, ScriptInv
<1>2. /\ UNCHANGED <<submitted, names, listExists, f_buffer, working>>
      /\ todo[s] # <<>> /\ todo' = [todo EXCEPT ![s] = Tail(@)] /\ Proc' = Proc
  BY DEF UsualSendTask, Proc
<1>3. /\ ScriptInv' /\ Taken(s)' = Taken(s) + 1
      /\ Taken(s)' \in 1..Len(Script[s]) /\ Script[s][Taken(s)'] = t /\ t \in Task
      /\ \A d \in Caller \ {s} : Taken(d)' = Taken(d)
  BY <1>1, <1>2, NextTask
<1>4. /\ t \in Of(s) /\ Position(s, t) = Taken(s)'
      /\ \A d \in Caller \ {s} : t \notin Of(d)
  BY <1>1, <1>3, OnePosition
<1>5. o \in Proc /\ \A d \in Caller : /\ Taken(d) \in Int /\ Taken(d)' \in Int
                                      /\ Taken(d) <= Taken(d)'
  <2>1. o \in Proc
    BY <1>1, <1>2, HomeIsThere
  <2>2. \A d \in Caller : Taken(d) \in Nat
    BY <1>1 DEF ScriptInv
  <2>3. \A d \in Caller : Taken(d)' = Taken(d) \/ Taken(d)' = Taken(d) + 1
    BY <1>3
  <2> HIDE DEF o
  <2>4. \A d \in Caller : Taken(d) \in Int /\ Taken(d)' \in Int /\ Taken(d) <= Taken(d)'
    BY <2>2, <2>3
  <2> QED BY <2>1, <2>4
<1>6. /\ \A p \in Proc \ {o} : files'[p] = files[p]
      /\ \A n \in Number : files'[o][n] =
           IF \E q \in Goals(t, o) : n = f_buffer[o][q] THEN WithTask(files[o][n], t) ELSE files[o][n]
  <2>1. files' = [files EXCEPT ![o] = [n \in Number |->
          IF \E q \in Goals(t, o) : n = f_buffer[o][q] THEN WithTask(files[o][n], t) ELSE files[o][n]]]
    BY Zenon DEF UsualSendTask
  <2> HIDE DEF o, t
  <2> QED BY <1>1, <1>5, <2>1 DEF NumbersInv, FileKept
<1> HIDE DEF o, t
<1>7. ASSUME NEW n \in Number
      PROVE  /\ files[o][n].tasks \in Seq(Task)
             /\ WithTask(files[o][n], t).tasks = Append(files[o][n].tasks, t)
  BY <1>1, <1>5 DEF NumbersInv, FileKept, Content, WithTask
<1>8. Goals(t, o) \subseteq Proc \ {o}
  BY DEF Goals
<1>9. ASSUME NEW p \in Proc \ {o}, NEW q \in Goals(t, o), NEW i \in 1..(Len(names[p]) + 2),
             InUse(o, p, i), FileOf(o, p, i) = f_buffer[o][q]
      PROVE  p = q /\ i = Len(names[p]) + 2
  <2>1. files[o][f_buffer[o][q]].state = "open" /\ q \in Proc \ {o}
    BY <1>1, <1>5, <1>8 DEF NumbersInv, Filling
  <2>2. i = Len(names[p]) + 2
    BY <1>1, <1>5, <1>9, <2>1, StateOf
  <2>3. FileOf(o, p, i) = f_buffer[o][p]
    <3>1. Len(names[p]) \in Nat
      BY <1>1 DEF NumbersInv, FileKept
    <3> QED BY <2>2, <3>1 DEF FileOf
  <2> QED BY <1>1, <1>5, <1>9, <2>1, <2>2, <2>3 DEF NumbersInv, Filling
<1>10. ASSUME NEW d \in Proc, NEW p \in Proc \ {d}, NEW i \in 1..(Len(names[p]) + 2),
              ~(d = o /\ p \in Goals(t, o) /\ i = Len(names[p]) + 2)
       PROVE  Piece(d, p, i)' = Piece(d, p, i)
  <2>1. InUse(d, p, i)' <=> InUse(d, p, i)
    BY <1>2 DEF InUse, Waiting
  <2>2. FileOf(d, p, i)' = FileOf(d, p, i)
    BY <1>2 DEF FileOf
  <2>3. InUse(d, p, i) => files'[d][FileOf(d, p, i)].tasks = files[d][FileOf(d, p, i)].tasks
    BY <1>1, <1>6, <1>9, <1>10, StateOf
  <2> QED BY <1>1, <1>2, <2>1, <2>2, <2>3, PieceKept
<1>11. ASSUME NEW c \in Caller, Home[c] \in Proc, NEW p \in Proc \ {Home[c]}
       PROVE  Lined(c, submitted'[p], Line(Home[c], p)', Taken(c)')
  <2>1. Lined(c, submitted[p], Line(Home[c], p), Taken(c)) /\ submitted'[p] = submitted[p]
        /\ names'[p] = names[p] /\ p \in Proc
    BY <1>2, <1>11 DEF FileInv, FileOrder
  <2>2. CASE ~(Home[c] = o /\ p \in Goals(t, o))
    <3>1. \A i \in 1..(Len(names[p]) + 2) : Piece(Home[c], p, i)' = Piece(Home[c], p, i)
      BY <1>10, <1>11, <2>2
    <3>2. Lined(c, submitted[p], Line(Home[c], p)', Taken(c)')
      BY <1>1, <1>5, <1>11, <2>1, <3>1, SameLine
    <3> QED BY <2>1, <3>2
  <2>3. CASE Home[c] = o /\ p \in Goals(t, o)
    <3> DEFINE A == Line(o, p)
               B == Line(o, p)'
    <3>0. PICK n : n = Len(names[p]) + 2
      OBVIOUS
    <3>1. /\ n \in Nat /\ n # 0 /\ DOMAIN A = 1..n /\ A[n] \in Seq(Task)
          /\ \A i \in 1..n : A[i] = Piece(o, p, i)
      BY <1>1, <1>5, <3>0, Pieces
    <3>2. DOMAIN B = 1..n /\ \A i \in 1..n : B[i] = Piece(o, p, i)'
      BY <1>2, <3>0 DEF Line
    <3>3. \A i \in 1..(n - 1) : B[i] = A[i]
      <4> TAKE i \in 1..(n - 1)
      <4>1. i \in 1..(Len(names[p]) + 2) /\ i # Len(names[p]) + 2
        BY <3>0, <3>1
      <4>2. Piece(o, p, i)' = Piece(o, p, i)
        BY <1>5, <1>10, <1>11, <2>3, <4>1
      <4> QED BY <3>1, <3>2, <4>1, <4>2
    <3>4. B[n] = Append(A[n], t)
      <4>1. Piece(o, p, n) = files[o][f_buffer[o][p]].tasks
            /\ Piece(o, p, n)' = files'[o][f_buffer[o][p]].tasks
        BY <1>2, <3>0, <3>1 DEF Piece
      <4>2. f_buffer[o][p] \in Number
        BY <1>1, <1>5 DEF NumbersInv, FileKept
      <4>3. files'[o][f_buffer[o][p]] = WithTask(files[o][f_buffer[o][p]], t)
        BY <1>6, <2>3, <4>2
      <4>4. A[n] = Piece(o, p, n) /\ B[n] = Piece(o, p, n)'
        <5>1. n \in 1..n
          BY <3>1
        <5> HIDE DEF A, B
        <5> QED BY <3>1, <3>2, <5>1
      <4>5. files'[o][f_buffer[o][p]].tasks = Append(files[o][f_buffer[o][p]].tasks, t)
        BY <1>7, <4>2, <4>3
      <4> HIDE DEF A, B
      <4> QED BY <4>1, <4>4, <4>5
    <3>5. t \in Of(c) => Taken(c) < Taken(c)' /\ Position(c, t) = Taken(c)'
      BY <1>3, <1>4, <1>5
    <3>6. Lined(c, submitted[p], A, Taken(c))
      BY <2>1, <2>3
    <3> HIDE DEF A, B
    <3>a. t \in Task /\ Taken(c) \in Int /\ Taken(c)' \in Int /\ Taken(c) <= Taken(c)'
      BY <1>1, <1>3, <1>5
    <3>b. job \in Jobs /\ DOMAIN B = 1..n
      BY <1>1, <3>2
    <3>7. Lined(c, submitted[p], B, Taken(c)')
      BY <3>a, <3>b, <3>1, <3>3, <3>4, <3>5, <3>6, LineGrows, ZenonT(60)
    <3> QED BY <2>1, <2>3, <3>7 DEF B
  <2> QED BY <2>2, <2>3
<1>12. ASSUME NEW c \in Caller, Home[c] \in Proc
       PROVE  /\ Foreign(c, submitted'[Home[c]])
              /\ \A d \in Proc \ {Home[c]}, n \in Number : Foreign(c, files'[d][n].tasks)
  <2>1. /\ Foreign(c, submitted'[Home[c]])
        /\ \A d \in Proc \ {Home[c]}, n \in Number : Foreign(c, files[d][n].tasks)
    BY <1>2, <1>12 DEF FileInv, FileOrder
  <2>2. ASSUME NEW d \in Proc \ {Home[c]}, NEW n \in Number PROVE Foreign(c, files'[d][n].tasks)
    <3>1. CASE d # o \/ files'[d][n] = files[d][n]
      BY <1>6, <2>1, <3>1
    <3>2. CASE d = o /\ files'[d][n] = WithTask(files[o][n], t)
      <4> DEFINE f == files[o][n].tasks
      <4>1. c # s /\ t \notin Of(c)
        BY <1>4, <3>2 DEF o
      <4>2. Foreign(c, f) /\ f \in Seq(Task) /\ files'[d][n].tasks = Append(f, t)
        BY <1>7, <2>1, <3>2
      <4> HIDE DEF f
      <4>3. Foreign(c, Append(f, t))
        BY <4>1, <4>2 DEF Foreign
      <4> QED BY <4>2, <4>3
    <3> QED BY <1>6, <3>1, <3>2
  <2> QED BY <2>1, <2>2
<1> QED BY <1>1, <1>3, <1>11, <1>12, SameLines DEF FileInv

\* The lines of the next state, when what is submitted does not change
LEMMA LinesAreEnough ==
    ASSUME FileInv, NumbersInv', UNCHANGED <<job, todo, submitted>>,
           \A c \in Caller : Home[c] \in Proc =>
               /\ \A p \in Proc \ {Home[c]} : \A s : Lined(c, s, Line(Home[c], p), Taken(c)) =>
                    Lined(c, s, Line(Home[c], p)', Taken(c)),
           \A o \in Proc, n \in Number : files'[o][n].tasks \in {files[o][n].tasks, <<>>}
    PROVE  FileInv'
<1>1. ScriptInv' /\ \A c \in Caller : Taken(c)' = Taken(c)
  BY SameTasks DEF FileInv
<1>2. ASSUME NEW c \in Caller PROVE FileOrder(c)'
  <2> SUFFICES ASSUME Home[c] \in Proc PROVE FileOrder(c)'
    BY SameLines
  <2>1. FileOrder(c)
    BY DEF FileInv
  <2>2. ASSUME NEW p \in Proc \ {Home[c]}
        PROVE  Lined(c, submitted'[p], Line(Home[c], p)', Taken(c)')
    <3>1. Lined(c, submitted[p], Line(Home[c], p)', Taken(c))
      BY <2>1 DEF FileOrder
    <3>2. submitted'[p] = submitted[p] /\ Taken(c)' = Taken(c)
      BY <1>1
    <3> QED BY <3>1, <3>2
  <2>3. Foreign(c, submitted'[Home[c]])
    BY <2>1 DEF FileOrder
  <2>4. \A o \in Proc \ {Home[c]}, n \in Number : Foreign(c, files'[o][n].tasks)
    <3> TAKE o \in Proc \ {Home[c]}, n \in Number
    <3>1. Foreign(c, files[o][n].tasks) /\ Foreign(c, <<>>)
      BY <2>1, EmptyPiece DEF FileOrder
    <3> QED BY <3>1
  <2> QED BY <2>2, <2>3, <2>4, SameLines
<1> QED BY <1>1, <1>2 DEF FileInv

\* The file at the end of a line is ended, and a new one comes after it
LEMMA EndFileKeepsOrder ==
    ASSUME FileInv, UNCHANGED job, NEW r \in Proc, UsualEndFile(r) PROVE FileInv'
<1> DEFINE q == working[r].next
           n == f_buffer[r][q]
           new == NewNumber(r, n)
<1>0. /\ NumbersInv' /\ NumbersInv /\ ScriptInv /\ job \in Jobs /\ Proc' = Proc
      /\ UNCHANGED <<todo, submitted, names, listExists>>
      /\ working[r].at = "send" /\ q \in Proc
  BY EndFileKeepsNumbers DEF UsualEndFile, FileInv, ScriptInv, Proc
<1>2. FileInv'
  <2> DEFINE opened == Fresh
  <2>0. /\ FreeNumber(r, n) # {} /\ new # 0 /\ q # r
        /\ files' = [files EXCEPT ![r][n].state = "ended", ![r][new] = opened]
        /\ f_buffer' = [f_buffer EXCEPT ![r][q] = new]
        /\ working' = [working EXCEPT ![r] = [at |-> "name", next |-> q, number |-> n]]
    BY DEF UsualEndFile
  <2>1. q \in Proc \ {r} /\ n \in Number /\ n # 0 /\ files[r][n].state = "open"
    <3>1. q \in Proc \ {r} /\ Filling(r) /\ f_buffer \in [Proc -> [Proc -> Number]]
      BY <1>0, <2>0 DEF NumbersInv, FileKept
    <3> HIDE DEF q
    <3> QED BY <3>1 DEF Filling
  <2>2. new \in Number /\ new # 0 /\ files[r][new].state = "absent" /\ new # n
    BY <1>0, <2>0, <2>1, NewIsFree
  <2>a. PICK qq, nn, nw : qq = q /\ nn = n /\ nw = new
    OBVIOUS
  <2> HIDE DEF q, n, new
  <2>3. /\ working'[r] = [at |-> "name", next |-> qq, number |-> nn]
        /\ \A p \in Proc \ {r} : working'[p] = working[p]
        /\ f_buffer'[r] = [f_buffer[r] EXCEPT ![qq] = nw]
        /\ \A p \in Proc \ {r} : f_buffer'[p] = f_buffer[p]
    BY <1>0, <2>0, <2>a DEF NumbersInv, FileKept
  <2>4. files[r] \in [Number -> Content] /\ files[r][nn] \in Content
        /\ nn = f_buffer[r][qq] /\ nn \in Number /\ nw \in Number
        /\ qq \in Proc \ {r} /\ f_buffer[r] \in [Proc -> Number]
    BY <1>0, <2>1, <2>2, <2>a DEF NumbersInv, FileKept, q, n
  <2>5. /\ files'[r][nw].tasks = <<>>
        /\ \A m \in Number \ {nw} : files'[r][m].tasks = files[r][m].tasks
        /\ \A p \in Proc \ {r} : files'[p] = files[p]
    BY <1>0, <2>0, <2>1, <2>2, <2>4, <2>a, ZenonT(60) DEF NumbersInv, FileKept, Content, Fresh
  <2>6. /\ f_buffer'[r][qq] = nw
        /\ \A p \in Proc \ {qq} : f_buffer'[r][p] = f_buffer[r][p]
    BY <2>3, <2>4
  <2>7. \A p \in Proc : \A i : Waiting(p, i)' <=> Waiting(p, i)
    BY <1>0, <2>3 DEF Waiting
  <2>8. ASSUME NEW p \in Proc \ {r}, NEW i \in 1..(Len(names[p]) + 2), InUse(r, p, i)
        PROVE  FileOf(r, p, i) \in Number \ {nw}
    BY <1>0, <2>2, <2>8, <2>a, StateOf
  <2>9. ASSUME NEW o \in Proc, NEW p \in Proc \ {o}, ~(o = r /\ p = qq),
               NEW i \in 1..(Len(names[p]) + 2)
        PROVE  Piece(o, p, i)' = Piece(o, p, i)
    <3>1. InUse(o, p, i)' <=> InUse(o, p, i)
      BY <1>0, <2>3, <2>7, <2>9 DEF InUse
    <3>2. InUse(o, p, i) => FileOf(o, p, i)' = FileOf(o, p, i)
      <4>1. o # r => working'[o] = working[o]
        BY <2>3
      <4>2. f_buffer'[o][p] = f_buffer[o][p]
        BY <2>3, <2>6, <2>9
      <4>3. o = r => working[o].at = "send"
        BY <1>0
      <4> QED BY <1>0, <4>1, <4>2, <4>3 DEF FileOf, InUse
    <3>3. InUse(o, p, i) => files'[o][FileOf(o, p, i)].tasks = files[o][FileOf(o, p, i)].tasks
      <4>1. CASE o = r
        BY <2>5, <2>8, <2>9, <4>1
      <4>2. CASE o # r
        BY <2>5, <4>2
      <4> QED BY <4>1, <4>2
    <3> QED BY <1>0, <3>1, <3>2, <3>3, PieceKept
  <2>10. ASSUME NEW c \in Caller, Home[c] \in Proc, NEW p \in Proc \ {Home[c]}, NEW s,
                Lined(c, s, Line(Home[c], p), Taken(c))
         PROVE  Lined(c, s, Line(Home[c], p)', Taken(c))
    <3>0. Taken(c) \in Int /\ Taken(c) <= Taken(c) /\ p \in Proc /\ names'[p] = names[p]
          /\ Len(names[p]) \in Nat
      BY <1>0 DEF ScriptInv, NumbersInv, FileKept
    <3>1. CASE ~(Home[c] = r /\ p = qq)
      <4>1. \A i \in 1..(Len(names[p]) + 2) : Piece(Home[c], p, i)' = Piece(Home[c], p, i)
        BY <2>9, <2>10, <3>1
      <4> QED BY <1>0, <2>10, <3>0, <4>1, SameLine
    <3>2. CASE Home[c] = r /\ p = qq
      <4>0. PICK L : L = Len(names[p])
        OBVIOUS
      <4> DEFINE place == [i \in 1..(L + 2) |-> IF i = L + 1 THEN L + 2 ELSE i]
      <4>1. ASSUME NEW i \in 1..L PROVE Piece(r, p, i)' = Piece(r, p, i)
        <5>1. i \in 1..(Len(names[p]) + 2) /\ i \in 1..Len(names[p])
          BY <3>0, <4>0
        <5>2. InUse(r, p, i)' <=> InUse(r, p, i)
          BY <2>7, <3>0, <5>1 DEF InUse
        <5>3. FileOf(r, p, i)' = FileOf(r, p, i)
          BY <3>0, <5>1 DEF FileOf
        <5>4. InUse(r, p, i) => files'[r][FileOf(r, p, i)].tasks = files[r][FileOf(r, p, i)].tasks
          BY <2>5, <2>8, <3>2, <5>1
        <5> QED BY <1>0, <3>0, <5>1, <5>2, <5>3, <5>4, PieceKept
      <4>2. Piece(r, p, L + 1)' = Piece(r, p, L + 2)
        <5>1. Piece(r, p, L + 2) = files[r][nn].tasks
          BY <2>4, <3>0, <3>2, <4>0 DEF Piece
        <5>2. Piece(r, p, L + 1)' = files'[r][nn].tasks
          BY <2>3, <3>0, <3>2, <4>0 DEF Piece
        <5> QED BY <2>2, <2>4, <2>5, <2>a, <5>1, <5>2
      <4>3. Piece(r, p, L + 2)' = <<>>
        BY <2>5, <2>6, <3>0, <3>2, <4>0 DEF Piece
      <4>4. \A i \in 1..(Len(names'[p]) + 2) :
              \/ Piece(r, p, i)' = <<>>
              \/ /\ place[i] \in 1..(Len(names[p]) + 2)
                 /\ Piece(r, p, i)' = Piece(r, p, place[i])
        <5> TAKE i \in 1..(Len(names'[p]) + 2)
        <5>1. i \in 1..L \/ i = L + 1 \/ i = L + 2
          BY <3>0, <4>0
        <5>2. CASE i \in 1..L
          BY <3>0, <4>0, <4>1, <5>2
        <5>3. CASE i = L + 1
          BY <3>0, <4>0, <4>2, <5>3
        <5> QED BY <4>3, <5>1, <5>2, <5>3
      <4>5. \A i, j \in 1..(Len(names'[p]) + 2) :
              i < j /\ Piece(r, p, i)' # <<>> /\ Piece(r, p, j)' # <<>> => place[i] < place[j]
        <5> TAKE i, j \in 1..(Len(names'[p]) + 2)
        <5>1. j # L + 2 /\ i < j => place[i] < place[j]
          BY <3>0, <4>0
        <5> QED BY <4>3, <5>1
      <4> HIDE DEF place
      <4> QED BY <1>0, <2>10, <3>0, <3>2, <4>4, <4>5, LineMoves, Zenon
    <3> QED BY <3>1, <3>2
  <2>11. \A o \in Proc, m \in Number : files'[o][m].tasks \in {files[o][m].tasks, <<>>}
    BY <2>5
  <2> QED BY <1>0, <2>10, <2>11, LinesAreEnough
<1> QED BY <1>2

\* The name of the ended file takes its place at the end of the list
LEMMA AddNameKeepsOrder ==
    ASSUME FileInv, UNCHANGED job, NEW r \in Proc, AddName(r) PROVE FileInv'
<1>0. /\ NumbersInv' /\ NumbersInv /\ ScriptInv /\ job \in Jobs /\ Proc' = Proc
      /\ UNCHANGED <<todo, submitted, files, f_buffer>> /\ working[r].at = "name"
  BY AddNameKeepsNumbers DEF AddName, FileInv, ScriptInv, Proc
<1>1. PICK q, name : q = working[r].next /\ name = [of |-> r, number |-> working[r].number]
  OBVIOUS
<1>2. q \in Proc \ {r} /\ working[r].number \in Number
  BY <1>0, <1>1 DEF NumbersInv, Naming, FileKept
<1>3. /\ names'[q] = Append(names[q], name) /\ \A p \in Proc \ {q} : names'[p] = names[p]
      /\ working'[r].at = "send"
      /\ \A p \in Proc \ {r} : working'[p] = working[p]
  BY <1>0, <1>1, <1>2 DEF AddName, NumbersInv, FileKept
<1>4. names[q] \in Seq(Names) /\ name \in Names /\ name.of = r /\ name.number = working[r].number
  BY <1>0, <1>1, <1>2 DEF NumbersInv, FileKept, Names
<1>5. /\ Len(names'[q]) = Len(names[q]) + 1 /\ Len(names[q]) \in Nat
      /\ names'[q][Len(names[q]) + 1] = name
      /\ \A i \in 1..Len(names[q]) : names'[q][i] = names[q][i]
  BY <1>3, <1>4, AppendOf
<1>6. ASSUME NEW p \in Proc, NEW i \in 1..Len(names[p])
      PROVE  /\ i \in 1..Len(names'[p]) /\ names'[p][i] = names[p][i]
             /\ Waiting(p, i)' <=> Waiting(p, i)
  <2>1. i \in 1..Len(names'[p]) /\ names'[p][i] = names[p][i]
    BY <1>3, <1>5
  <2>2. CASE p = r
    BY <1>0, <1>3, <2>1, <2>2 DEF Waiting
  <2>3. CASE p # r
    BY <1>3, <2>1, <2>3 DEF Waiting
  <2> QED BY <2>1, <2>2, <2>3
<1>7. ASSUME NEW o \in Proc, NEW p \in Proc, NEW i \in 1..Len(names[p])
      PROVE  Piece(o, p, i)' = Piece(o, p, i)
  BY <1>0, <1>6 DEF Piece
<1>8. ASSUME NEW c \in Caller, Home[c] \in Proc, NEW p \in Proc \ {Home[c]}, NEW s,
             Lined(c, s, Line(Home[c], p), Taken(c))
      PROVE  Lined(c, s, Line(Home[c], p)', Taken(c))
  <2>0. Taken(c) \in Int /\ Taken(c) <= Taken(c) /\ p \in Proc
    BY <1>0 DEF ScriptInv
  <2>1. PICK o, L : o = Home[c] /\ L = Len(names[p])
    OBVIOUS
  <2>2. o \in Proc /\ p # o /\ L \in Nat
    BY <1>0, <1>8, <2>1 DEF NumbersInv, FileKept
  <2>a. Piece(o, p, L + 1) = IF working[o].at = "name" /\ working[o].next = p
                             THEN files[o][working[o].number].tasks ELSE <<>>
    <3>1. L + 1 \notin 1..L /\ L + 1 = Len(names[p]) + 1
      BY <2>1, <2>2
    <3> QED BY <2>1, <3>1, Zenon DEF Piece
  <2>3. CASE p # q
    <3>1. names'[p] = names[p] /\ Len(names'[p]) = L
      BY <1>3, <2>1, <2>3
    <3>2. Piece(o, p, L + 1)' = Piece(o, p, L + 1)
      <4>0. Piece(o, p, L + 1)' = IF working'[o].at = "name" /\ working'[o].next = p
                                  THEN files'[o][working'[o].number].tasks ELSE <<>>
        <5>1. L + 1 \notin 1..L /\ L + 1 = Len(names'[p]) + 1
          BY <2>2, <3>1
        <5> QED BY <3>1, <5>1, Zenon DEF Piece
      <4>1. CASE o = r
        <5>1. working[r].next # p /\ working'[r].at # "name"
          BY <1>1, <1>3, <2>3
        <5> QED BY <2>a, <4>0, <4>1, <5>1, Zenon
      <4>2. CASE o # r
        BY <1>0, <1>3, <2>2, <2>a, <4>0, <4>2
      <4> QED BY <4>1, <4>2
    <3>3. Piece(o, p, L + 2)' = Piece(o, p, L + 2)
      <4>1. L + 2 \notin 1..L /\ L + 2 # L + 1
        BY <2>2
      <4> QED BY <1>0, <2>1, <3>1, <4>1, Zenon DEF Piece
    <3>4. \A i \in 1..(Len(names[p]) + 2) : Piece(Home[c], p, i)' = Piece(Home[c], p, i)
      <4> TAKE i \in 1..(Len(names[p]) + 2)
      <4>1. i \in 1..Len(names[p]) \/ i = L + 1 \/ i = L + 2
        BY <2>1, <2>2
      <4> QED BY <1>7, <2>0, <2>1, <2>2, <3>2, <3>3, <4>1
    <3> QED BY <1>0, <1>8, <2>0, <3>1, <3>4, SameLine, Zenon
  <2>4. CASE p = q
    <3> DEFINE place == [i \in 1..(L + 3) |->
                           IF i <= L \/ (o = r /\ i = L + 1) THEN i ELSE i - 1]
    <3>1. Len(names'[p]) = L + 1
      BY <1>5, <2>1, <2>4
    <3>2. Piece(o, p, L + 3)' = Piece(o, p, L + 2)
      BY <1>0, <2>1, <2>2, <3>1 DEF Piece
    <3>3. CASE o = r
      <4>1. Piece(o, p, L + 1)' = <<>> \/ Piece(o, p, L + 1)' = Piece(o, p, L + 1)
        <5>1. Piece(o, p, L + 1) = files[r][working[r].number].tasks
          BY <1>0, <1>1, <2>4, <2>a, <3>3
        <5>2. names'[p][L + 1] = name /\ L + 1 \in 1..Len(names'[p])
          BY <1>5, <2>1, <2>2, <2>4, <3>1
        <5> QED BY <1>0, <1>4, <3>3, <5>1, <5>2 DEF Piece
      <4>2. Piece(o, p, L + 2)' = <<>>
        BY <1>3, <2>1, <2>2, <3>1, <3>3 DEF Piece
      <4>3. \A i \in 1..(Len(names'[p]) + 2) :
              \/ Piece(o, p, i)' = <<>>
              \/ /\ place[i] \in 1..(Len(names[p]) + 2)
                 /\ Piece(o, p, i)' = Piece(o, p, place[i])
        <5> TAKE i \in 1..(Len(names'[p]) + 2)
        <5>1. i \in 1..L \/ i = L + 1 \/ i = L + 2 \/ i = L + 3
          BY <2>2, <3>1
        <5>2. CASE i \in 1..L
          BY <1>7, <2>0, <2>1, <2>2, <5>2
        <5>3. CASE i = L + 1
          BY <2>1, <2>2, <3>3, <4>1, <5>3
        <5>4. CASE i = L + 3
          BY <2>1, <2>2, <3>2, <5>4
        <5> QED BY <4>2, <5>1, <5>2, <5>3, <5>4
      <4>4. \A i, j \in 1..(Len(names'[p]) + 2) :
              i < j /\ Piece(o, p, i)' # <<>> /\ Piece(o, p, j)' # <<>> => place[i] < place[j]
        <5> TAKE i, j \in 1..(Len(names'[p]) + 2)
        <5>1. i # L + 2 /\ j # L + 2 /\ i < j => place[i] < place[j]
          BY <2>2, <3>1, <3>3
        <5> QED BY <4>2, <5>1
      <4> HIDE DEF place
      <4> QED BY <1>0, <1>8, <2>0, <2>1, <4>3, <4>4, LineMoves, Zenon
    <3>4. CASE o # r
      <4>1. Piece(o, p, L + 1)' = <<>>
        <5>1. names'[p][L + 1] = name /\ L + 1 \in 1..Len(names'[p])
          BY <1>5, <2>1, <2>2, <2>4, <3>1
        <5> QED BY <1>4, <3>4, <5>1 DEF Piece
      <4>2. Piece(o, p, L + 2)' = Piece(o, p, L + 1)
        BY <1>0, <1>3, <2>1, <2>2, <3>1, <3>4 DEF Piece
      <4>3. \A i \in 1..(Len(names'[p]) + 2) :
              \/ Piece(o, p, i)' = <<>>
              \/ /\ place[i] \in 1..(Len(names[p]) + 2)
                 /\ Piece(o, p, i)' = Piece(o, p, place[i])
        <5> TAKE i \in 1..(Len(names'[p]) + 2)
        <5>1. i \in 1..L \/ i = L + 1 \/ i = L + 2 \/ i = L + 3
          BY <2>2, <3>1
        <5>2. CASE i \in 1..L
          BY <1>7, <2>0, <2>1, <2>2, <5>2
        <5>3. CASE i = L + 2
          BY <2>1, <2>2, <3>4, <4>2, <5>3
        <5>4. CASE i = L + 3
          BY <2>1, <2>2, <3>2, <3>4, <5>4
        <5> QED BY <4>1, <5>1, <5>2, <5>3, <5>4
      <4>4. \A i, j \in 1..(Len(names'[p]) + 2) :
              i < j /\ Piece(o, p, i)' # <<>> /\ Piece(o, p, j)' # <<>> => place[i] < place[j]
        <5> TAKE i, j \in 1..(Len(names'[p]) + 2)
        <5>1. i # L + 1 /\ j # L + 1 /\ i < j => place[i] < place[j]
          BY <2>2, <3>1, <3>4
        <5> QED BY <4>1, <5>1
      <4> HIDE DEF place
      <4> QED BY <1>0, <1>8, <2>0, <2>1, <4>3, <4>4, LineMoves, Zenon
    <3> QED BY <3>3, <3>4
  <2> QED BY <2>3, <2>4
<1>9. \A o \in Proc, m \in Number : files'[o][m].tasks \in {files[o][m].tasks, <<>>}
  BY <1>0
<1> QED BY <1>0, <1>8, <1>9, LinesAreEnough

\* The first file of a line is read; nothing of its thread is before it
LEMMA ReadFileKeepsOrder ==
    ASSUME FileInv, UNCHANGED job, NEW r \in Proc, UsualReadFile(r) PROVE FileInv'
<1>0. /\ NumbersInv' /\ NumbersInv /\ ScriptInv /\ job \in Jobs /\ Proc' = Proc
      /\ UNCHANGED <<todo, names, listExists, f_buffer>>
      /\ working[r].at = "read" /\ working[r].next <= Len(names[r])
  BY ReadFileKeepsNumbers DEF UsualReadFile, FileInv, ScriptInv, Proc
<1>1. PICK i, o, n : i = working[r].next /\ o = names[r][i].of /\ n = names[r][i].number
  OBVIOUS
<1>2. i \in 1..Len(names[r]) /\ i \in Nat /\ Waiting(r, i)
  <2>1. i \in Nat /\ names[r] \in Seq(Names) /\ Len(names[r]) \in Nat
    BY <1>0, <1>1 DEF NumbersInv, FileKept
  <2>2. i # 0 /\ i <= Len(names[r])
    BY <1>0, <1>1 DEF NumbersInv, Filling
  <2>3. i \in 1..Len(names[r]) /\ i >= i
    BY <2>1, <2>2
  <2> QED BY <1>0, <1>1, <2>1, <2>3 DEF Waiting
<1>3. /\ o \in Proc \ {r} /\ n \in Number /\ files[o][n].state = "ended"
      /\ files[o][n].tasks \in Seq(Task)
  <2>1. Named(r, i) /\ FileKept
    BY <1>0, <1>2 DEF NumbersInv
  <2>2. o \in Proc /\ n \in Number
    BY <1>1, <1>2, <2>1, NameOf
  <2>3. o # r /\ files[o][n].state = "ended"
    BY <1>1, <1>2, <2>1 DEF Named
  <2>4. files[o][n] \in Content
    BY <2>1, <2>2 DEF FileKept
  <2> QED BY <2>2, <2>3, <2>4 DEF Content
<1>4. names[r][i] = [of |-> o, number |-> n]
  BY <1>0, <1>1, <1>2, NameOf DEF Names, NumbersInv
<1>5. PICK f : f = files[o][n].tasks
  OBVIOUS
<1>6. /\ submitted'[r] = submitted[r] \o f
      /\ \A p \in Proc \ {r} : submitted'[p] = submitted[p]
      /\ \A p \in Proc : submitted[p] \in Seq(Task)
  <2>1. Proc \subseteq Processor
    BY <1>0, Sizes
  <2>2. submitted' = [submitted EXCEPT ![r] = submitted[r] \o f]
    BY <1>1, <1>5 DEF UsualReadFile
  <2> QED BY <1>0, <2>1, <2>2 DEF NumbersInv, FileKept
<1>7. /\ files'[o][n].tasks = <<>>
      /\ \A d \in Proc, m \in Number : ~(d = o /\ m = n) => files'[d][m] = files[d][m]
  <2>1. files' = [files EXCEPT ![o][n] = Absent]
    BY <1>1 DEF UsualReadFile
  <2>2. files'[o][n] = Absent
    BY <1>0, <1>3, <2>1 DEF NumbersInv, FileKept
  <2>3. Absent.tasks = <<>>
    BY DEF Absent
  <2>4. \A d \in Proc, m \in Number : ~(d = o /\ m = n) => files'[d][m] = files[d][m]
    BY <1>0, <1>3, <2>1 DEF NumbersInv, FileKept
  <2> QED BY <2>2, <2>3, <2>4
<1>8. /\ working'[r].at = "read" /\ working'[r].next = i + 1
      /\ \A p \in Proc \ {r} : working'[p] = working[p]
  <2>1. working' = [working EXCEPT ![r].next = i + 1]
    BY <1>1 DEF UsualReadFile
  <2>2. working \in [Proc -> [at : {"out", "read", "empty", "send", "name"},
                              next : Nat, number : Number]]
    BY <1>0 DEF NumbersInv, FileKept
  <2> QED BY <1>0, <2>1, <2>2
<1>9. \A p \in Proc : \A j : Waiting(p, j)' <=> Waiting(p, j) /\ ~(p = r /\ j = i)
  <2> TAKE p \in Proc
  <2> TAKE j
  <2>1. CASE p = r
    <3>1. j \in 1..Len(names[r]) => (j >= i + 1 <=> j >= i /\ j # i)
      BY <1>2
    <3> QED BY <1>0, <1>1, <1>8, <2>1, <3>1 DEF Waiting
  <2>2. CASE p # r
    BY <1>0, <1>8, <2>2 DEF Waiting
  <2> QED BY <2>1, <2>2
<1>10. ASSUME NEW p \in Proc \ {o}, NEW j \in 1..(Len(names[p]) + 2), InUse(o, p, j),
              ~(p = r /\ j = i)
       PROVE  FileOf(o, p, j) \in Number \ {n}
  <2>1. /\ FileOf(o, p, j) \in Number
        /\ files[o][FileOf(o, p, j)].state = IF j = Len(names[p]) + 2 THEN "open" ELSE "ended"
    BY <1>0, <1>3, <1>10, StateOf
  <2>2. Len(names[p]) \in Nat
    BY <1>0 DEF NumbersInv, FileKept
  <2>3. CASE j \in 1..Len(names[p])
    <3>1. Waiting(p, j) /\ names[p][j].of = o /\ FileOf(o, p, j) = names[p][j].number
      BY <1>10, <2>3 DEF InUse, FileOf
    <3>2. names[p][j] # names[r][i]
      BY <1>0, <1>2, <1>10, <2>3, <3>1 DEF NumbersInv, OnlyName
    <3>3. names[p][j] \in Names
      BY <1>0, <2>3, NameOf DEF NumbersInv
    <3> QED BY <1>4, <2>1, <3>1, <3>2, <3>3 DEF Names
  <2>4. CASE j = Len(names[p]) + 1
    <3>1. working[o].at = "name" /\ FileOf(o, p, j) = working[o].number
      BY <1>10, <2>2, <2>4 DEF InUse, FileOf
    <3>2. names[r][i] # [of |-> o, number |-> working[o].number]
      BY <1>0, <1>2, <1>3, <3>1 DEF NumbersInv, Naming
    <3> QED BY <1>4, <2>1, <3>1, <3>2
  <2>5. CASE j = Len(names[p]) + 2
    BY <1>3, <2>1, <2>5
  <2> QED BY <2>2, <2>3, <2>4, <2>5
<1>11. ASSUME NEW d \in Proc, NEW p \in Proc \ {d},
              NEW j \in 1..(Len(names[p]) + 2), ~(d = o /\ p = r /\ j = i)
       PROVE  Piece(d, p, j)' = Piece(d, p, j)
  <2>1. InUse(d, p, j)' <=> InUse(d, p, j)
    <3>1. CASE j \in 1..Len(names[p])
      <4>1. d # o /\ p = r /\ j = i => names[p][j].of # d
        BY <1>1
      <4> QED BY <1>0, <1>9, <1>11, <3>1, <4>1 DEF InUse
    <3>2. CASE j \notin 1..Len(names[p])
      <4>1. working'[d].at = working[d].at /\ (working[d].at = "name" => working'[d] = working[d])
        BY <1>0, <1>8
      <4> QED BY <1>0, <3>2, <4>1 DEF InUse
    <3> QED BY <3>1, <3>2
  <2>2. InUse(d, p, j) => FileOf(d, p, j)' = FileOf(d, p, j)
    <3>1. working[d].at = "name" => working'[d] = working[d]
      BY <1>0, <1>8
    <3> QED BY <1>0, <3>1 DEF FileOf, InUse
  <2>3. InUse(d, p, j) => files'[d][FileOf(d, p, j)].tasks = files[d][FileOf(d, p, j)].tasks
    BY <1>0, <1>7, <1>10, <1>11, StateOf
  <2> QED BY <1>0, <2>1, <2>2, <2>3, PieceKept
<1>12. ScriptInv' /\ \A c \in Caller : Taken(c)' = Taken(c) /\ Taken(c) \in Int /\ Taken(c) <= Taken(c)
  <2>1. ScriptInv' /\ \A c \in Caller : Taken(c)' = Taken(c) /\ Taken(c) \in Nat
    BY <1>0, SameTasks DEF ScriptInv
  <2> QED BY <2>1
<1>13. ASSUME NEW c \in Caller, Home[c] \in Proc, Home[c] # o PROVE Foreign(c, f)
  BY <1>3, <1>5, <1>13 DEF FileInv, FileOrder
<1>14. ASSUME NEW c \in Caller, Home[c] \in Proc, NEW p \in Proc \ {Home[c]}
       PROVE  Lined(c, submitted'[p], Line(Home[c], p)', Taken(c)')
  <2>1. Lined(c, submitted[p], Line(Home[c], p), Taken(c)) /\ names'[p] = names[p] /\ p \in Proc
    BY <1>0, <1>14 DEF FileInv, FileOrder
  <2>2. CASE ~(Home[c] = o /\ p = r)
    <3>1. \A j \in 1..(Len(names[p]) + 2) : Piece(Home[c], p, j)' = Piece(Home[c], p, j)
      BY <1>11, <1>14, <2>2
    <3>2. Lined(c, submitted'[p], Line(Home[c], p), Taken(c))
      <4>1. CASE p # r
        BY <1>6, <2>1, <4>1
      <4>2. CASE p = r
        <5>1. Foreign(c, f) /\ f \in Seq(Task) /\ submitted[p] \in Seq(Task)
          BY <1>3, <1>5, <1>6, <1>13, <1>14, <2>1, <2>2, <4>2
        <5>2. Lined(c, submitted[p] \o f, Line(Home[c], p), Taken(c))
          BY <1>12, <2>1, <5>1, ForeignRead
        <5> QED BY <1>6, <4>2, <5>2
      <4> QED BY <4>1, <4>2
    <3>3. Lined(c, submitted'[p], Line(Home[c], p)', Taken(c))
      BY <1>0, <1>12, <1>14, <2>1, <3>1, <3>2, SameLine
    <3> QED BY <1>12, <3>3
  <2>3. CASE Home[c] = o /\ p = r
    <3> DEFINE A == Line(o, r)
               B == Line(o, r)'
    <3>0. PICK L : L = Len(names[r]) + 2
      OBVIOUS
    <3>1. /\ L \in Nat /\ DOMAIN A = 1..L /\ i \in 1..L
          /\ \A j \in 1..L : A[j] = Piece(o, r, j)
      <4>1. Len(names[r]) \in Nat /\ DOMAIN A = 1..(Len(names[r]) + 2)
            /\ \A j \in 1..(Len(names[r]) + 2) : A[j] = Piece(o, r, j)
        BY <1>0, <1>3, Pieces
      <4> HIDE DEF A
      <4> QED BY <1>2, <3>0, <4>1
    <3>2. DOMAIN B = 1..L /\ \A j \in 1..L : B[j] = Piece(o, r, j)'
      BY <1>0, <3>0 DEF Line
    <3> HIDE DEF A, B
    <3>3. A[i] = f
      BY <1>1, <1>2, <1>5, <3>1 DEF Piece
    <3>4. B[i] = <<>>
      BY <1>0, <1>2, <1>9, <3>1, <3>2 DEF Piece
    <3>5. \A j \in 1..L : j < i => A[j] = <<>>
      <4> TAKE j \in 1..L
      <4>1. j < i => j \in 1..Len(names[r]) /\ ~ Waiting(r, j)
        <5>1. j < i => ~(j >= i) /\ j \in 1..Len(names[r])
          BY <1>2, <3>1
        <5> QED BY <1>0, <1>1, <5>1 DEF Waiting
      <4> QED BY <3>1, <4>1 DEF Piece
    <3>6. \A j \in (1..L) \ {i} : B[j] = A[j]
      BY <1>3, <1>11, <3>0, <3>1, <3>2
    <3>7. Lined(c, submitted[r], A, Taken(c)) /\ submitted[r] \in Seq(Task) /\ f \in Seq(Task)
      BY <1>3, <1>5, <1>6, <2>1, <2>3 DEF A
    <3>8. Lined(c, submitted[r] \o f, B, Taken(c))
      BY <1>0, <1>12, <3>1, <3>2, <3>3, <3>4, <3>5, <3>6, <3>7, LineRead
    <3> QED BY <1>6, <1>12, <2>3, <3>8 DEF B
  <2> QED BY <2>2, <2>3
<1>15. ASSUME NEW c \in Caller, Home[c] \in Proc
       PROVE  /\ Foreign(c, submitted'[Home[c]])
              /\ \A d \in Proc \ {Home[c]}, m \in Number : Foreign(c, files'[d][m].tasks)
  <2>1. /\ Foreign(c, submitted[Home[c]])
        /\ \A d \in Proc \ {Home[c]}, m \in Number : Foreign(c, files[d][m].tasks)
    BY <1>15 DEF FileInv, FileOrder
  <2>2. Foreign(c, submitted'[Home[c]])
    <3>1. CASE Home[c] = r
      <4>1. Foreign(c, f) /\ f \in Seq(Task) /\ submitted[r] \in Seq(Task)
        BY <1>3, <1>5, <1>6, <1>13, <1>15, <3>1
      <4> QED BY <1>6, <1>12, <2>1, <3>1, <4>1, ForeignRead
    <3>2. CASE Home[c] # r
      BY <1>6, <1>15, <2>1, <3>2
    <3> QED BY <3>1, <3>2
  <2>3. \A d \in Proc \ {Home[c]}, m \in Number : Foreign(c, files'[d][m].tasks)
    BY <1>7, <2>1, EmptyPiece
  <2> QED BY <2>2, <2>3
<1>16. \A c \in Caller : FileOrder(c)'
  BY <1>14, <1>15, SameLines
<1> QED BY <1>0, <1>12, <1>16 DEF FileInv

\* No step breaks it that does not overrun
LEMMA FileKeeps == ASSUME FileInv, UNCHANGED job, FileNext, ~ overrun' PROVE FileInv'
<1>0. NumbersInv /\ ScriptInv
  BY DEF FileInv
<1>1. ASSUME NEW c \in Caller, FileSendTask(c) PROVE FileInv'
  BY <1>0, <1>1, SendTaskIsUsual, SendTaskKeepsOrder
<1>2. ASSUME NEW p \in Proc, FileSending(p) PROVE FileInv'
  BY <1>0, <1>2, WorkKeepsOrder, EndFileIsUsual, EndFileKeepsOrder, AddNameKeepsOrder
     DEF FileSending
<1>3. ASSUME NEW p \in Proc, FileReceiving(p) PROVE FileInv'
  BY <1>0, <1>3, WorkKeepsOrder, ReadFileIsUsual, ReadFileKeepsOrder, NoNameIsRead,
     EmptyListIsUsual, EmptyListKeepsOrder DEF FileReceiving
<1> QED BY <1>1, <1>2, <1>3 DEF FileNext

\* Nor one that leaves the files alone
LEMMA FileQuiet == ASSUME FileInv, UNCHANGED <<job, todo, submitted, fileVars>> PROVE FileInv'
<1>1. NumbersInv'
  <2>1. Proc' = Proc /\ UNCHANGED <<submitted, files, names, listExists, f_buffer, working>>
    BY DEF Proc, fileVars
  <2>2. \A p \in Proc : \A i : Waiting(p, i)' <=> Waiting(p, i)
    BY <2>1 DEF Waiting
  <2>3. NumbersInv
    BY DEF FileInv
  <2>4. FileKept'
    BY <2>1, <2>3 DEF NumbersInv, FileKept, Names, Content
  <2>5. \A p \in Proc : Filling(p)' /\ Naming(p)'
    BY <2>1, <2>2, <2>3 DEF NumbersInv, Filling, Naming
  <2>6. \A p \in Proc : \A i \in 1..Len(names[p]) : Named(p, i)'
    BY <2>1, <2>2, <2>3 DEF NumbersInv, Named
  <2>7. \A p, q \in Proc : \A i \in 1..Len(names[p]), j \in 1..Len(names[q]) : OnlyName(p, i, q, j)'
    BY <2>1, <2>2, <2>3 DEF NumbersInv, OnlyName
  <2> QED BY <2>1, <2>4, <2>5, <2>6, <2>7 DEF NumbersInv
<1>2. \A p \in Proc : \A i \in 1..Len(names[p]) : Waiting(p, i)' <=> Waiting(p, i)
  BY DEF Waiting, fileVars
<1>3. ScriptInv' /\ \A c \in Caller : Taken(c)' \in Nat /\ Taken(c)' >= Taken(c)
  BY SameTasks DEF ScriptInv, FileInv
<1>4. \A c \in Caller : FileOrder(c)'
  BY <1>1, <1>2, <1>3, QuietFiles DEF fileVars
<1> QED BY <1>1, <1>3, <1>4 DEF FileInv
-----------------------------------------------------------------------------
(* The types, after an overrun as before it                                *)

AnyContent == [tasks : Seq(Task), state : {"absent", "open", "ended", "headless"}]
ListLine == Names \cup {NoName}
Work == [at : {"out", "read", "empty", "send", "name", "crashed"}, next : Nat, number : Number]

FileTyped ==
    /\ files \in [Proc -> [Number -> AnyContent]]
    /\ names \in [Proc -> Seq(ListLine)]
    /\ listExists \in [Proc -> BOOLEAN]
    /\ f_buffer \in [Proc -> [Proc -> Number]]
    /\ f_wrote \in [Proc -> [Proc -> BOOLEAN]]
    /\ working \in [Proc -> Work]
    /\ \A p \in Proc : working[p].at = "read" => working[p].next # 0
    /\ submitted \in [Processor -> Seq(Task)]
    /\ keepGoing \in [Proc -> BOOLEAN] /\ overrun \in BOOLEAN

\* What a file is after a step
LEMMA Contents ==
    ASSUME NEW file \in AnyContent, NEW t \in Task, NEW k \in Nat
    PROVE  /\ {Absent, Fresh, Headless, WithEnd(file), WithTasks(file, t, k)} \subseteq AnyContent
           /\ file.tasks \in Seq(Task)
<1>1. Absent \in AnyContent /\ Fresh \in AnyContent /\ Headless \in AnyContent
  BY DEF Absent, Fresh, Headless, AnyContent
<1>2. file.tasks \in Seq(Task)
  BY DEF AnyContent
<1>3. WithEnd(file) \in AnyContent
  BY <1>1 DEF WithEnd, AnyContent
<1>4. file.tasks \o [i \in 1..k |-> t] \in Seq(Task)
  BY <1>2
<1>5. WithTasks(file, t, k) \in AnyContent
  BY <1>2, <1>4 DEF WithTasks, AnyContent
<1> QED BY <1>1, <1>2, <1>3, <1>5

\* At the start
LEMMA TypedStart == TransportInit /\ FileInit => FileTyped
<1> SUFFICES ASSUME TransportInit, FileInit PROVE FileTyped
  OBVIOUS
<1>0. FileKept /\ job \in Jobs
  BY FileStart DEF NumbersInv, TransportInit
<1>1. Content \subseteq AnyContent
  BY DEF Content, AnyContent
<1>2. files \in [Proc -> [Number -> AnyContent]]
  BY <1>0, <1>1 DEF FileKept
<1>3. names \in [Proc -> Seq(ListLine)]
  BY DEF FileInit
<1>4. working \in [Proc -> Work] /\ \A p \in Proc : working[p].at = "out"
  BY <1>0, Sizes DEF FileInit, Idle, Work
<1>5. /\ f_wrote \in [Proc -> [Proc -> BOOLEAN]] /\ keepGoing \in [Proc -> BOOLEAN]
      /\ overrun \in BOOLEAN
  BY DEF FileInit
<1> QED BY <1>0, <1>2, <1>3, <1>4, <1>5 DEF FileTyped, FileKept

\* What is appended to a list
LEMMA AppendedTyped ==
    ASSUME FileTyped, NEW p \in Proc, NEW S, Appended(p, S)
    PROVE  names' \in [Proc -> Seq(ListLine)] /\ listExists' \in [Proc -> BOOLEAN]
<1>1. names[p] \in Seq(ListLine) /\ NoName \in ListLine
  BY DEF FileTyped, ListLine
<1>2. Append(names[p], NoName) \in Seq(ListLine)
  BY <1>1
<1> QED BY <1>2 DEF FileTyped, Appended

\* SendTask appends a task to files, and lines to a list
LEMMA SendTaskTyped ==
    ASSUME FileTyped, ScriptInv, UNCHANGED job, NEW c \in Caller, FileSendTask(c)
    PROVE  FileTyped'
<1> DEFINE o == Home[c]
           t == Head(todo[c])
           Filled(n) == {q \in Goals(t, o) : f_buffer[o][q] = n}
           after == [n \in Number |->
             IF Filled(n) = {} THEN files[o][n]
             ELSE WithTasks(files[o][n], t, Cardinality(Filled(n)))]
           wrote == [q \in Proc |-> f_wrote[o][q] \/ q \in Goals(t, o)]
<1>1. /\ files' = [files EXCEPT ![o] = after] /\ f_wrote' = [f_wrote EXCEPT ![o] = wrote]
      /\ Appended(o, {n \in Number : Filled(n) # {}}) /\ todo[c] # <<>>
      /\ UNCHANGED <<submitted, f_buffer, working, keepGoing, overrun>>
  BY Zenon DEF FileSendTask
<1>2. o \in Proc /\ t \in Task /\ Goals(t, o) \subseteq Proc
  <2>1. t \in Task
    BY <1>1, TailOf DEF ScriptInv
  <2> QED BY <1>1, <2>1, HomeIsThere DEF Goals
<1>3. ASSUME NEW n \in Number PROVE Cardinality(Filled(n)) \in Nat
  <2>1. IsFiniteSet(Proc)
    <3>1. 0 \in Int /\ job.size - 1 \in Int
      BY Scripts DEF ScriptInv
    <3> QED BY <3>1, FS_Interval DEF Proc
  <2>2. Filled(n) \subseteq Proc
    BY <1>2
  <2> QED BY <2>1, <2>2, FS_Subset, FS_CardinalityType
<1> HIDE DEF o, t
<1>4. after \in [Number -> AnyContent]
  <2> SUFFICES ASSUME NEW n \in Number PROVE after[n] \in AnyContent
    BY Zenon
  <2>1. files[o][n] \in AnyContent
    BY <1>2 DEF FileTyped
  <2>2. WithTasks(files[o][n], t, Cardinality(Filled(n))) \in AnyContent
    BY <1>2, <1>3, <2>1, Contents
  <2> QED BY <2>1, <2>2
<1>5. wrote \in [Proc -> BOOLEAN]
  BY <1>2 DEF FileTyped
<1>6. names' \in [Proc -> Seq(ListLine)] /\ listExists' \in [Proc -> BOOLEAN]
  BY <1>1, <1>2, AppendedTyped
<1> HIDE DEF after, wrote
<1>7. files' \in [Proc -> [Number -> AnyContent]] /\ f_wrote' \in [Proc -> [Proc -> BOOLEAN]]
  BY <1>1, <1>4, <1>5 DEF FileTyped
<1>8. Proc' = Proc
  BY DEF Proc
<1> QED BY <1>1, <1>6, <1>7, <1>8 DEF FileTyped, Work, ListLine, Names

\* A file is ended and another is opened
LEMMA EndFileTyped ==
    ASSUME FileTyped, UNCHANGED job, NEW r \in Proc, EndFile(r) PROVE FileTyped'
<1> DEFINE q == working[r].next
           n == f_buffer[r][q]
           full == FreeNumber(r, n) = {}
           m == IF full THEN LastTried(n) ELSE NewNumber(r, n)
<1>1. q \in Proc /\ n \in Number /\ q \in Nat
  BY DEF EndFile, FileTyped, Work
<1>2. m \in Number
  <2>1. LastTried(n) \in Number
    BY <1>1, FileAssumption DEF LastTried, Number
  <2>2. ~ full => NewNumber(r, n) \in Number
    BY <1>1, NewIsFree
  <2> QED BY <2>1, <2>2
<1>3. PICK qq, nn, mm : qq = q /\ nn = n /\ mm = m
  OBVIOUS
<1>4. /\ files' = [files EXCEPT ![r][nn] = WithEnd(@), ![r][mm] = Fresh]
      /\ IF mm = 0
         THEN /\ names' = [names EXCEPT ![r] = <<NoName>>]
              /\ listExists' = [listExists EXCEPT ![r] = TRUE]
         ELSE Appended(r, {nn})
      /\ f_buffer' = [f_buffer EXCEPT ![r][qq] = IF full THEN nn ELSE mm]
      /\ f_wrote' = [f_wrote EXCEPT ![r][qq] = FALSE]
      /\ working' = [working EXCEPT ![r] = [at |-> "name", next |-> qq, number |-> nn]]
      /\ overrun' = (overrun \/ full \/ mm = 0)
      /\ UNCHANGED <<todo, submitted, keepGoing>>
  BY <1>3, Zenon DEF EndFile
<1>5. qq \in Proc /\ qq \in Nat /\ nn \in Number /\ mm \in Number
  BY <1>1, <1>2, <1>3
<1> HIDE DEF q, n, m, full
<1>6. files' \in [Proc -> [Number -> AnyContent]]
  <2>1. WithEnd(files[r][nn]) \in AnyContent /\ Fresh \in AnyContent
    <3>1. files[r][nn] \in AnyContent
      BY <1>5 DEF FileTyped
    <3>2. WithEnd(files[r][nn]) \in AnyContent
      BY <3>1 DEF WithEnd, AnyContent, Headless
    <3> QED BY <3>2 DEF Fresh, AnyContent
  <2> DEFINE ended == [files EXCEPT ![r][nn] = WithEnd(files[r][nn])]
  <2>2. ended \in [Proc -> [Number -> AnyContent]]
    BY <1>5, <2>1 DEF FileTyped
  <2>3. files' = [ended EXCEPT ![r][mm] = Fresh]
    BY <1>4
  <2> HIDE DEF ended
  <2> QED BY <1>5, <2>1, <2>2, <2>3
<1>7. names' \in [Proc -> Seq(ListLine)] /\ listExists' \in [Proc -> BOOLEAN]
  <2>1. CASE mm = 0
    <3>1. <<NoName>> \in Seq(ListLine)
      BY DEF ListLine
    <3> QED BY <1>4, <2>1, <3>1 DEF FileTyped
  <2>2. CASE mm # 0
    BY <1>4, <2>2, AppendedTyped
  <2> QED BY <2>1, <2>2
<1>8. /\ f_buffer' \in [Proc -> [Proc -> Number]] /\ f_wrote' \in [Proc -> [Proc -> BOOLEAN]]
      /\ overrun' \in BOOLEAN
  BY <1>4, <1>5 DEF FileTyped, full
<1>9. /\ working' \in [Proc -> Work]
      /\ \A p \in Proc : working'[p].at = "read" => working'[p].next # 0
  BY <1>4, <1>5 DEF FileTyped, Work
<1>10. Proc' = Proc
  BY DEF Proc
<1> QED BY <1>4, <1>6, <1>7, <1>8, <1>9, <1>10 DEF FileTyped, Work, ListLine, Names

\* A file is read, or the reader crashes
LEMMA ReadFileTyped ==
    ASSUME FileTyped, job \in Jobs, UNCHANGED job, NEW r \in Proc, ReadFile(r) PROVE FileTyped'
<1> DEFINE i == working[r].next
           name == names[r][i]
           file == files[name.of][name.number]
<1>0. /\ working[r].at = "read" /\ i <= Len(names[r]) /\ name # NoName
      /\ UNCHANGED <<todo, f_buffer, f_wrote, keepGoing, overrun>>
  BY DEF ReadFile
<1>1. PICK k \in 0..Len(file.tasks), goesOn \in BOOLEAN :
        /\ submitted' = [submitted EXCEPT ![r] = @ \o SubSeq(file.tasks, 1, k)]
        /\ IF goesOn
           THEN Removed(name) /\ working' = [working EXCEPT ![r].next = i + 1]
           ELSE /\ working' = [working EXCEPT ![r].at = "crashed"]
                /\ UNCHANGED <<files, listExists, names>>
  BY Zenon DEF ReadFile
<1>2. /\ i \in Nat /\ i # 0 /\ working[r] \in Work /\ names[r] \in Seq(ListLine)
  BY <1>0 DEF FileTyped, Work
<1>3. name.of \in Proc /\ name.number \in Number
  <2>1. Len(names[r]) \in Nat
    BY <1>2
  <2>2. i \in 1..Len(names[r])
    BY <1>0, <1>2, <2>1
  <2>3. name \in ListLine
    BY <1>2, <2>2
  <2> HIDE DEF name
  <2> QED BY <1>0, <2>3 DEF ListLine, Names
<1>4. file \in AnyContent
  <2> HIDE DEF name
  <2> QED BY <1>3 DEF FileTyped
<1> HIDE DEF i, name, file
<1>5. submitted' \in [Processor -> Seq(Task)]
  <2>1. file.tasks \in Seq(Task)
    BY <1>4 DEF AnyContent
  <2>2. SubSeq(file.tasks, 1, k) \in Seq(Task)
    BY <2>1
  <2>3. r \in Processor
    BY Sizes
  <2> QED BY <1>1, <2>2, <2>3, ConcatOf DEF FileTyped
<1>6. /\ files' \in [Proc -> [Number -> AnyContent]] /\ names' \in [Proc -> Seq(ListLine)]
      /\ listExists' \in [Proc -> BOOLEAN]
  <2>1. CASE goesOn
    <3>1. files' \in [Proc -> [Number -> AnyContent]]
      <4>1. Absent \in AnyContent
        BY DEF Absent, AnyContent
      <4>2. files' = [files EXCEPT ![name.of][name.number] = Absent]
        BY <1>1, <2>1 DEF Removed
      <4> QED BY <1>3, <4>1, <4>2 DEF FileTyped
    <3>2. names' \in [Proc -> Seq(ListLine)]
      <4>1. <<>> \in Seq(ListLine)
        OBVIOUS
      <4>2. names' = [names EXCEPT ![name.of] = <<>>] \/ names' = names
        BY <1>1, <2>1 DEF Removed
      <4> QED BY <4>1, <4>2 DEF FileTyped
    <3>3. listExists' \in [Proc -> BOOLEAN]
      <4> DEFINE stays == listExists[name.of] /\ name.number # 0
      <4>1. stays \in BOOLEAN
        BY Zenon
      <4>2. listExists' = [listExists EXCEPT ![name.of] = stays]
        BY <1>1, <2>1 DEF Removed
      <4> HIDE DEF stays
      <4> QED BY <4>1, <4>2 DEF FileTyped
    <3> QED BY <3>1, <3>2, <3>3
  <2>2. CASE ~ goesOn
    BY <1>1, <2>2 DEF FileTyped
  <2> QED BY <2>1, <2>2
<1>7. /\ working' \in [Proc -> Work]
      /\ \A p \in Proc : working'[p].at = "read" => working'[p].next # 0
  <2> DEFINE further == [working[r] EXCEPT !.next = i + 1]
             crash == [working[r] EXCEPT !.at = "crashed"]
  <2>1. further \in Work /\ further.next # 0 /\ crash \in Work /\ crash.at = "crashed"
    BY <1>2 DEF Work
  <2>2. working' = [working EXCEPT ![r] = further] \/ working' = [working EXCEPT ![r] = crash]
    BY <1>1
  <2> HIDE DEF further, crash
  <2> QED BY <2>1, <2>2 DEF FileTyped
<1>8. Proc' = Proc
  BY DEF Proc
<1> QED BY <1>0, <1>5, <1>6, <1>7, <1>8 DEF FileTyped, Work, ListLine, Names

\* The name goes to the list of the destination
LEMMA AddNameTyped ==
    ASSUME FileTyped, UNCHANGED job, NEW r \in Proc, AddName(r) PROVE FileTyped'
<1> DEFINE q == working[r].next
           name == [of |-> r, number |-> working[r].number]
<1>1. /\ names' = [names EXCEPT ![q] = Append(@, name)]
      /\ listExists' = [listExists EXCEPT ![q] = TRUE]
      /\ working' = [working EXCEPT ![r] = [at |-> "send", next |-> q + 1, number |-> 0]]
      /\ UNCHANGED <<submitted, files, f_buffer, f_wrote, keepGoing, overrun>>
  BY DEF AddName
<1>2. q \in Nat /\ name \in ListLine
  BY DEF FileTyped, Work, ListLine, Names
<1> HIDE DEF q, name
<1>3. names' \in [Proc -> Seq(ListLine)]
  <2>1. \A p \in Proc : Append(names[p], name) \in Seq(ListLine)
    BY <1>2 DEF FileTyped
  <2> QED BY <1>1, <2>1 DEF FileTyped
<1>4. listExists' \in [Proc -> BOOLEAN]
  BY <1>1 DEF FileTyped
<1>5. /\ working' \in [Proc -> Work]
      /\ \A p \in Proc : working'[p].at = "read" => working'[p].next # 0
  <2>1. [at |-> "send", next |-> q + 1, number |-> 0] \in Work
    BY <1>2, FileAssumption DEF Work, Number
  <2> QED BY <1>1, <2>1 DEF FileTyped
<1>6. Proc' = Proc
  BY DEF Proc
<1> QED BY <1>1, <1>3, <1>4, <1>5, <1>6 DEF FileTyped, Work, ListLine, Names

\* The list is emptied
LEMMA EmptyListTyped ==
    ASSUME FileTyped, UNCHANGED job, NEW r \in Proc, EmptyList(r) PROVE FileTyped'
<1>1. 0 \in Number
  BY FileAssumption DEF Number
<1>2. files' \in [Proc -> [Number -> AnyContent]]
  <2>1. Absent \in AnyContent
    BY DEF Absent, AnyContent
  <2> QED BY <1>1, <2>1 DEF EmptyList, FileTyped
<1>3. names' \in [Proc -> Seq(ListLine)] /\ listExists' \in [Proc -> BOOLEAN]
  BY DEF EmptyList, FileTyped
<1>4. /\ working' \in [Proc -> Work]
      /\ \A p \in Proc : working'[p].at = "read" => working'[p].next # 0
  BY <1>1 DEF EmptyList, FileTyped, Idle, Work
<1>5. Proc' = Proc /\ UNCHANGED <<submitted, f_buffer, f_wrote, keepGoing, overrun>>
  BY DEF Proc, EmptyList
<1> QED BY <1>2, <1>3, <1>4, <1>5 DEF FileTyped, Work, ListLine, Names

\* The steps that only change where a processor is
LEMMA WorkTyped ==
    ASSUME FileTyped, UNCHANGED job, NEW r \in Proc,
           \/ SendMessages(r) \/ NothingToSend(r) \/ AllSent(r) \/ OpenList(r) \/ EndOfList(r)
           \/ ReadNoName(r)
    PROVE  FileTyped'
<1>1. UNCHANGED <<submitted, files, names, f_buffer, f_wrote, overrun>> /\ Proc' = Proc
  BY DEF SendMessages, NothingToSend, AllSent, OpenList, EndOfList, ReadNoName, Proc
<1>2. listExists' \in [Proc -> BOOLEAN] /\ keepGoing' \in [Proc -> BOOLEAN]
  BY DEF SendMessages, NothingToSend, AllSent, OpenList, EndOfList, ReadNoName, FileTyped
<1>3. working[r] \in Work /\ 0 \in Number
  BY FileAssumption DEF FileTyped, Number
<1>4. PICK w \in Work : (w.at = "read" => w.next # 0) /\ working' = [working EXCEPT ![r] = w]
  <2>1. CASE SendMessages(r)
    <3>1. [at |-> "send", next |-> 0, number |-> 0] \in Work
      BY <1>3 DEF Work
    <3> QED BY <2>1, <3>1 DEF SendMessages
  <2>2. CASE NothingToSend(r)
    <3>1. [working[r] EXCEPT !.next = working[r].next + 1] \in Work
      BY <1>3 DEF Work
    <3> QED BY <1>3, <2>2, <3>1 DEF NothingToSend, Work
  <2>3. CASE AllSent(r)
    BY <1>3, <2>3 DEF AllSent, Idle, Work
  <2>4. CASE OpenList(r)
    <3>1. [at |-> "read", next |-> 1, number |-> 0] \in Work
      BY <1>3 DEF Work
    <3>2. CASE listExists[r]
      BY <2>4, <3>1, <3>2 DEF OpenList
    <3>3. CASE ~ listExists[r]
      <4>1. working' = [working EXCEPT ![r] = working[r]] /\ working[r].at = "out"
        BY <2>4, <3>3 DEF OpenList, FileTyped
      <4> QED BY <1>3, <4>1
    <3> QED BY <3>2, <3>3
  <2>5. CASE EndOfList(r)
    <3>1. [working[r] EXCEPT !.at = "empty"] \in Work
      BY <1>3 DEF Work
    <3> QED BY <1>3, <2>5, <3>1 DEF EndOfList, Work
  <2>6. CASE ReadNoName(r)
    <3>1. [working[r] EXCEPT !.at = "crashed"] \in Work
      BY <1>3 DEF Work
    <3> QED BY <1>3, <2>6, <3>1 DEF ReadNoName, Work
  <2> QED BY <2>1, <2>2, <2>3, <2>4, <2>5, <2>6
<1>5. /\ working' \in [Proc -> Work]
      /\ \A p \in Proc : working'[p].at = "read" => working'[p].next # 0
  BY <1>4 DEF FileTyped
<1> QED BY <1>1, <1>2, <1>5 DEF FileTyped, Work, ListLine, Names

\* Every step keeps the types, and the scripts
LEMMA FileTypesKeep ==
    ASSUME FileTyped, ScriptInv, UNCHANGED job, FileNext PROVE FileTyped' /\ ScriptInv'
<1>1. ASSUME NEW c \in Caller, FileSendTask(c) PROVE FileTyped' /\ ScriptInv'
  <2>1. todo[c] # <<>> /\ todo' = [todo EXCEPT ![c] = Tail(@)]
    BY <1>1 DEF FileSendTask
  <2> QED BY <1>1, <2>1, SendTaskTyped, NextTask
<1>2. ASSUME NEW p \in Proc, FileSending(p) \/ FileReceiving(p) PROVE FileTyped' /\ ScriptInv'
  <2>1. UNCHANGED todo
    BY <1>2 DEF FileSending, FileReceiving, SendMessages, NothingToSend, EndFile, AddName,
                AllSent, OpenList, ReadFile, ReadNoName, EndOfList, EmptyList
  <2>2. FileTyped'
    BY <1>2, WorkTyped, EndFileTyped, AddNameTyped, ReadFileTyped, EmptyListTyped
       DEF FileSending, FileReceiving, ScriptInv
  <2> QED BY <2>1, <2>2, SameTasks
<1> QED BY <1>1, <1>2 DEF FileNext

\* Once a processor has overrun, it has
LEMMA OverrunStays ==
    ASSUME FileNext \/ UNCHANGED fileVars, overrun PROVE overrun'
  BY DEF FileNext, FileSending, FileReceiving, FileSendTask, SendMessages, NothingToSend, EndFile,
         AddName, AllSent, OpenList, ReadFile, ReadNoName, EndOfList, EmptyList, fileVars
=============================================================================
