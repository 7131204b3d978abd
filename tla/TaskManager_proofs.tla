------------------------- MODULE TaskManager_proofs -------------------------
(***************************************************************************)
(* Proofs about TaskManager for any tasks, objects and numbers of threads: *)
(* types, no sleep on work, and that neither a grant nor a task is lost    *)
(* until the service thread ends.                                          *)
(***************************************************************************)
EXTENDS TaskManager, SequenceTheorems, TLAPS

Distinct(s) == \A i, j \in 1..Len(s) : s[i] = s[j] => i = j
Needed(t) == ToSet(Needs[t])

-----------------------------------------------------------------------------
(* The inductive invariant                                                 *)

TypeInv == /\ TypeOK
           /\ cursor # 0
           /\ mainAt \in {"waiting", "using"} => waited \in Task
           /\ mainAt = "starting" => pc = "absent"

\* Without a post nothing has changed behind the service thread in its round.
Asleep == {"absent", "test", "wait"}
AwakeInv ==
    semaphore = 0 =>
        /\ pc # "transfer" => submitted = <<>>
        /\ pc \notin {"transfer", "take"} => messages = <<>>
        /\ pc \in Asleep \cup {"lastScan"} => ~MayStart
        /\ pc = "lastScan" => \A i \in 1..Len(executing) :
                                  i < cursor => stage[executing[i]] # "finished"
        /\ pc \in Asleep => \A i \in 1..Len(executing) : stage[executing[i]] # "finished"

\* A task that was accepted is in exactly one queue.
InThread == {"started", "running", "released", "finished"}
QueueInv ==
    /\ Distinct(submitted) /\ Distinct(executable) /\ Distinct(executing)
    /\ ToSet(submitted) \cap taskList = {}
    /\ (ToSet(submitted) \cup taskList) \cap ToSet(executable) = {}
    /\ \A t \in Task :
         /\ stage[t] = "queued" <=> t \in ToSet(submitted) \cup taskList \cup ToSet(executable)
         /\ stage[t] \in InThread <=> t \in ToSet(executing)

\* Who submits, and that the shutdown is the last thing the main thread submits.
Outside == {"new", "submitting"}
MainIsDone == \A t \in MainTasks : stage[t] \notin Outside
SubmitInv ==
    /\ \A t \in Task : stage[t] = "submitting" =>
         IF t \in MainTasks THEN mainAt = "free" ELSE stage[Parent[t]] = "running"
    /\ \A t, u \in MainTasks : stage[t] = "submitting" /\ stage[u] = "submitting" => t = u
    /\ \A t \in MainTasks : Kind[t] \in Termination /\ stage[t] = "submitting" =>
         \A u \in MainTasks : stage[u] # "new"
    /\ \A t \in Task : Kind[t] \in Termination /\ stage[t] \notin Outside => MainIsDone
    /\ ~keepGoing => MainIsDone

\* The wait task the main thread needs, and no other, waits for it.
WaitInv ==
    /\ waited \notin execSemaphore
    /\ \A t \in execSemaphore : stage[t] \notin Outside
    /\ \A t \in Task : Kind[t] = "wait" /\ stage[t] \in {"queued", "started"} =>
         mainAt = "waiting" /\ waited = t
    /\ \A t \in mainSemaphore : mainAt = "waiting" /\ waited = t /\ stage[t] = "running"
    /\ mainAt = "using" => stage[waited] = "running"
    /\ mainAt \in {"waiting", "using"} => Kind[waited] = "wait"

\* Where a request is between its post and the end of its task.
Grant(t, o) == [kind |-> "granted", task |-> t, object |-> o]
Asked(t, o) == <<t, o>> \in ToSet(requests)
InTransit == ToSet(messages) \cup ToSet(batch)
Told(t, o) == Grant(t, o) \in InTransit
GrantsOnce(s) == \A i, j \in 1..Len(s) : s[i] = s[j] /\ s[i].kind = "granted" => i = j
Holding == {"queued", "started", "running"}
OnceInv == /\ Distinct(requests) /\ GrantsOnce(messages) /\ GrantsOnce(batch)
           /\ batch # <<>> => pc = "handle"
           /\ \A m \in ToSet(messages) \cap ToSet(batch) : m.kind # "granted"
CancelInv == \A m \in InTransit :
               m.kind = "cancel" => m.task \in Refusable /\ m.object \in Needed(m.task)
PairInv(t, o) ==
    /\ Asked(t, o) => /\ o \in Needed(t) \ granted[t] /\ t \in taskList
                      /\ ~Told(t, o) /\ holder[o] # t
    /\ Told(t, o) => o \in Needed(t) \ granted[t] /\ t \in taskList /\ holder[o] = t
    /\ o \in granted[t] /\ stage[t] \in Holding => holder[o] = t
    /\ holder[o] = t => (Told(t, o) \/ o \in granted[t]) /\ stage[t] \in Holding
TaskInv(t) ==
    /\ granted[t] \subseteq Needed(t)
    /\ stage[t] \in Outside \cup {"deleted"} \/ t \in ToSet(submitted) => granted[t] = {}
    /\ t \in ToSet(executable) \cup ToSet(executing) => granted[t] = Needed(t)
    /\ t \in taskList \ Refusable => \A o \in Needed(t) : Asked(t, o) \/ holder[o] = t
GrantInv == /\ OnceInv /\ CancelInv
            /\ \A t \in Task : TaskInv(t) /\ \A o \in Object : PairInv(t, o)

\* It holds until a cancellation takes a task, whichever has the number it names.
NothingLost == NobodyVanished => GrantInv

StopInv == pc = "stopped" => /\ ~keepGoing
                             /\ submitted = <<>> /\ taskList = {}
                             /\ executable = <<>> /\ executing = <<>>

-----------------------------------------------------------------------------
(* Sequences                                                               *)

\* The elements of a sequence, by position.
LEMMA Elements ==
    ASSUME NEW S, NEW s \in Seq(S)
    PROVE  /\ Len(s) \in Nat /\ DOMAIN s = 1..Len(s)
           /\ \A e : e \in ToSet(s) <=> \E i \in 1..Len(s) : s[i] = e
           /\ ToSet(s) \subseteq S
           /\ s = <<>> <=> ToSet(s) = {}
<1>1. Len(s) \in Nat /\ DOMAIN s = 1..Len(s) /\ \A i \in 1..Len(s) : s[i] \in S
  BY LenProperties, ElementOfSeq
<1>2. s = <<>> <=> Len(s) = 0
  BY EmptySeq
<1>3. \A e : e \in ToSet(s) <=> \E i \in 1..Len(s) : s[i] = e
  BY <1>1 DEF ToSet
<1>4. Len(s) # 0 => s[1] \in ToSet(s)
  BY <1>1, <1>3
<1>5. Len(s) = 0 => ToSet(s) = {}
  BY <1>1, <1>3
<1>6. QED
  BY <1>1, <1>2, <1>3, <1>4, <1>5

\* Appending adds one element, a new one if they are to stay distinct.
LEMMA Appended ==
    ASSUME NEW S, NEW s \in Seq(S), NEW e \in S
    PROVE  /\ Append(s, e) \in Seq(S)
           /\ ToSet(Append(s, e)) = ToSet(s) \cup {e}
           /\ Distinct(s) /\ e \notin ToSet(s) => Distinct(Append(s, e))
<1> DEFINE a == Append(s, e)
<1>1. /\ a \in Seq(S) /\ Len(a) = Len(s) + 1 /\ a[Len(s) + 1] = e
      /\ \A i \in 1..Len(s) : a[i] = s[i]
  BY AppendProperties
<1>2. Len(s) \in Nat /\ \A x : x \in ToSet(s) <=> \E i \in 1..Len(s) : s[i] = x
  BY Elements
<1>3. \A x : x \in ToSet(a) <=> \E i \in 1..Len(a) : a[i] = x
  BY <1>1, Elements
<1> HIDE DEF a
<1>4. \A x : x \in ToSet(a) <=> x \in ToSet(s) \cup {e}
  <2>1. ASSUME NEW x \in ToSet(a) PROVE x \in ToSet(s) \cup {e}
    BY <1>1, <1>2, <1>3
  <2>2. ASSUME NEW x \in ToSet(s) PROVE x \in ToSet(a)
    <3>1. PICK i \in 1..Len(s) : s[i] = x
      BY <1>2
    <3>2. i \in 1..Len(a) /\ a[i] = x
      BY <1>1, <1>2, <3>1
    <3>3. QED
      BY <1>3, <3>2
  <2>3. e \in ToSet(a)
    BY <1>1, <1>2, <1>3
  <2>4. QED
    BY <2>1, <2>2, <2>3
<1>5. ASSUME Distinct(s), e \notin ToSet(s) PROVE Distinct(a)
  BY <1>1, <1>2, <1>5 DEF Distinct
<1>6. QED
  BY <1>1, <1>4, <1>5 DEF a

\* Taking the head away leaves the others.
LEMMA HeadTaken ==
    ASSUME NEW S, NEW s \in Seq(S), s # <<>>
    PROVE  /\ Head(s) \in S /\ Tail(s) \in Seq(S) /\ Head(s) \in ToSet(s)
           /\ ToSet(s) = ToSet(Tail(s)) \cup {Head(s)}
           /\ Distinct(s) => Distinct(Tail(s)) /\ ToSet(Tail(s)) = ToSet(s) \ {Head(s)}
<1> DEFINE t == Tail(s)
<1>1. /\ Head(s) \in S /\ t \in Seq(S) /\ Len(t) = Len(s) - 1
      /\ \A i \in 1..Len(t) : t[i] = s[i + 1]
  BY HeadTailProperties
<1>2. /\ Len(s) \in Nat /\ Len(s) # 0
      /\ \A x : x \in ToSet(s) <=> \E i \in 1..Len(s) : s[i] = x
  BY Elements, EmptySeq
<1>3. \A x : x \in ToSet(t) <=> \E i \in 1..Len(t) : t[i] = x
  BY <1>1, Elements
<1>4. Head(s) = s[1]
  OBVIOUS
<1> HIDE DEF t
<1>5. ASSUME NEW x \in ToSet(s), x # Head(s) PROVE x \in ToSet(t)
  <2>1. PICK i \in 1..Len(s) : s[i] = x
    BY <1>2
  <2>2. i - 1 \in 1..Len(t) /\ t[i - 1] = x
    BY <1>1, <1>2, <1>4, <1>5, <2>1
  <2>3. QED
    BY <1>3, <2>2
<1>6. ASSUME NEW x \in ToSet(t)
      PROVE  \E i \in 2..Len(s) : s[i] = x
  <2>1. PICK i \in 1..Len(t) : t[i] = x
    BY <1>3
  <2>2. i + 1 \in 2..Len(s) /\ s[i + 1] = x
    BY <1>1, <1>2, <2>1
  <2>3. QED
    BY <2>2
<1>7. ASSUME NEW x \in ToSet(t) PROVE x \in ToSet(s)
  BY <1>2, <1>6
<1>8. Head(s) \in ToSet(s)
  BY <1>2, <1>4
<1>9. ASSUME Distinct(s) PROVE Distinct(t) /\ Head(s) \notin ToSet(t)
  <2>1. Distinct(t)
    BY <1>1, <1>2, <1>9 DEF Distinct
  <2>2. Head(s) \notin ToSet(t)
    BY <1>2, <1>4, <1>6, <1>9 DEF Distinct
  <2>3. QED
    BY <2>1, <2>2
<1>10. QED
  BY <1>1, <1>5, <1>7, <1>8, <1>9 DEF t

\* Taking an element away anywhere: the others stay, in their order.
LEMMA Removed ==
    ASSUME NEW S, NEW s \in Seq(S), NEW k \in 1..Len(s)
    PROVE  /\ RemoveAt(s, k) \in Seq(S)
           /\ Len(RemoveAt(s, k)) = Len(s) - 1
           /\ \A i \in 1..Len(s) - 1 : RemoveAt(s, k)[i] = IF i < k THEN s[i] ELSE s[i + 1]
<1>1. Len(s) \in Nat /\ \A j \in 1..Len(s) : s[j] \in S
  BY LenProperties, ElementOfSeq
<1> DEFINE a == SubSeq(s, 1, k - 1)
           b == SubSeq(s, k + 1, Len(s))
<1>2. /\ a \in Seq(S) /\ Len(a) = k - 1
      /\ \A i \in 1..k - 1 : a[i] = s[i]
  <2>1. /\ a \in Seq(S) /\ Len(a) = IF 1 <= k - 1 THEN (k - 1) - 1 + 1 ELSE 0
        /\ \A i \in 1..(k - 1) - 1 + 1 : a[i] = s[1 + i - 1]
    <3>1. k - 1 \in Int /\ 1 \in Int /\ \A i \in 1..k - 1 : s[i] \in S
      BY <1>1
    <3>2. QED
      BY <3>1, SubSeqProperties
  <2>2. QED
    BY <2>1, <1>1
<1>3. /\ b \in Seq(S) /\ Len(b) = Len(s) - k
      /\ \A i \in 1..Len(s) - k : b[i] = s[k + i]
  <2>1. /\ b \in Seq(S) /\ Len(b) = IF k + 1 <= Len(s) THEN Len(s) - (k + 1) + 1 ELSE 0
        /\ \A i \in 1..Len(s) - (k + 1) + 1 : b[i] = s[(k + 1) + i - 1]
    <3>1. k + 1 \in Int /\ Len(s) \in Int /\ \A i \in k + 1..Len(s) : s[i] \in S
      BY <1>1
    <3>2. QED
      BY <3>1, SubSeqProperties
  <2>2. QED
    BY <2>1, <1>1
<1>4. RemoveAt(s, k) = a \o b
  BY DEF RemoveAt
<1> HIDE DEF a, b
<1>5. /\ a \o b \in Seq(S) /\ Len(a \o b) = Len(a) + Len(b)
      /\ \A i \in 1..Len(a) + Len(b) :
           (a \o b)[i] = IF i <= Len(a) THEN a[i] ELSE b[i - Len(a)]
  BY <1>2, <1>3, ConcatProperties
<1>6. ASSUME NEW i \in 1..Len(s) - 1
      PROVE  (a \o b)[i] = IF i < k THEN s[i] ELSE s[i + 1]
  <2>1. i \in 1..Len(a) + Len(b) /\ (i < k <=> i <= Len(a))
    BY <1>1, <1>2, <1>3
  <2>2. CASE i < k
    BY <1>1, <1>2, <1>5, <2>1, <2>2
  <2>3. CASE ~(i < k)
    <3>1. i - Len(a) \in 1..Len(s) - k /\ k + (i - Len(a)) = i + 1
      BY <1>1, <1>2, <2>3
    <3>2. (a \o b)[i] = b[i - Len(a)]
      BY <1>5, <2>1, <2>3
    <3>3. QED
      BY <1>3, <2>3, <3>1, <3>2
  <2>4. QED
    BY <2>2, <2>3
<1>7. QED
  BY <1>1, <1>2, <1>3, <1>4, <1>5, <1>6

\* When they are distinct it is the one element that goes.
LEMMA RemovedDistinct ==
    ASSUME NEW S, NEW s \in Seq(S), NEW k \in 1..Len(s), Distinct(s)
    PROVE  /\ RemoveAt(s, k) \in Seq(S) /\ Distinct(RemoveAt(s, k))
           /\ ToSet(RemoveAt(s, k)) = ToSet(s) \ {s[k]}
           /\ s[k] \in ToSet(s)
<1> DEFINE r == RemoveAt(s, k)
<1>1. /\ r \in Seq(S) /\ Len(r) = Len(s) - 1
      /\ \A i \in 1..Len(s) - 1 : r[i] = IF i < k THEN s[i] ELSE s[i + 1]
  BY Removed
<1>2. Len(s) \in Nat /\ \A x : x \in ToSet(s) <=> \E i \in 1..Len(s) : s[i] = x
  BY Elements
<1>3. \A x : x \in ToSet(r) <=> \E i \in 1..Len(r) : r[i] = x
  BY <1>1, Elements
<1> HIDE DEF r
<1>4. Distinct(r)
  BY <1>1, <1>2 DEF Distinct
<1>5. ASSUME NEW x \in ToSet(r) PROVE x \in ToSet(s) /\ x # s[k]
  <2>1. PICK i \in 1..Len(r) : r[i] = x
    BY <1>3
  <2>2. \E j \in 1..Len(s) : s[j] = x /\ j # k
    BY <1>1, <1>2, <2>1
  <2>3. QED
    BY <1>2, <2>2 DEF Distinct
<1>6. ASSUME NEW x \in ToSet(s), x # s[k] PROVE x \in ToSet(r)
  <2>1. PICK i \in 1..Len(s) : s[i] = x
    BY <1>2
  <2>2. CASE i < k
    BY <1>1, <1>2, <1>3, <2>1, <2>2
  <2>3. CASE i > k
    <3>1. i - 1 \in 1..Len(r) /\ r[i - 1] = x
      BY <1>1, <1>2, <2>1, <2>3
    <3>2. QED
      BY <1>3, <3>1
  <2>4. QED
    BY <1>6, <2>1, <2>2, <2>3
<1>7. s[k] \in ToSet(s)
  BY <1>2
<1>8. QED
  BY <1>1, <1>4, <1>5, <1>6, <1>7 DEF r

\* Appending a whole sequence adds its elements.
LEMMA Joined ==
    ASSUME NEW S, NEW s \in Seq(S), NEW t \in Seq(S)
    PROVE  /\ s \o t \in Seq(S)
           /\ ToSet(s \o t) = ToSet(s) \cup ToSet(t)
           /\ Distinct(s) /\ Distinct(t) /\ ToSet(s) \cap ToSet(t) = {} => Distinct(s \o t)
<1> DEFINE c == s \o t
<1>1. /\ c \in Seq(S) /\ Len(c) = Len(s) + Len(t)
      /\ \A i \in 1..Len(s) + Len(t) : c[i] = IF i <= Len(s) THEN s[i] ELSE t[i - Len(s)]
  BY ConcatProperties
<1>2. /\ Len(s) \in Nat /\ Len(t) \in Nat
      /\ \A x : x \in ToSet(s) <=> \E i \in 1..Len(s) : s[i] = x
      /\ \A x : x \in ToSet(t) <=> \E i \in 1..Len(t) : t[i] = x
  BY Elements
<1>3. \A x : x \in ToSet(c) <=> \E i \in 1..Len(c) : c[i] = x
  BY <1>1, Elements
<1> HIDE DEF c
<1>4. ASSUME NEW x \in ToSet(c) PROVE x \in ToSet(s) \cup ToSet(t)
  <2>1. PICK i \in 1..Len(c) : c[i] = x
    BY <1>3
  <2>2. CASE i <= Len(s)
    BY <1>1, <1>2, <2>1, <2>2
  <2>3. CASE i > Len(s)
    <3>1. i - Len(s) \in 1..Len(t) /\ t[i - Len(s)] = x
      BY <1>1, <1>2, <2>1, <2>3
    <3>2. QED
      BY <1>2, <3>1
  <2>4. QED
    BY <1>1, <1>2, <2>1, <2>2, <2>3
<1>5. ASSUME NEW x \in ToSet(s) PROVE x \in ToSet(c)
  <2>1. PICK i \in 1..Len(s) : s[i] = x
    BY <1>2
  <2>2. i \in 1..Len(c) /\ c[i] = x
    BY <1>1, <1>2, <2>1
  <2>3. QED
    BY <1>3, <2>2
<1>6. ASSUME NEW x \in ToSet(t) PROVE x \in ToSet(c)
  <2>1. PICK i \in 1..Len(t) : t[i] = x
    BY <1>2
  <2>2. i + Len(s) \in 1..Len(c) /\ c[i + Len(s)] = x
    BY <1>1, <1>2, <2>1
  <2>3. QED
    BY <1>3, <2>2
<1>7. ASSUME Distinct(s), Distinct(t), ToSet(s) \cap ToSet(t) = {}
      PROVE  Distinct(c)
  <2>1. SUFFICES ASSUME NEW i \in 1..Len(c), NEW j \in 1..Len(c), c[i] = c[j], i < j
                 PROVE  FALSE
    BY <1>1, <1>2 DEF Distinct
  <2>2. CASE j <= Len(s)
    BY <1>1, <1>2, <1>7, <2>1, <2>2 DEF Distinct
  <2>3. CASE i > Len(s)
    <3>1. /\ i - Len(s) \in 1..Len(t) /\ j - Len(s) \in 1..Len(t)
          /\ t[i - Len(s)] = t[j - Len(s)]
      BY <1>1, <1>2, <2>1, <2>3
    <3>2. QED
      BY <1>2, <1>7, <2>1, <3>1 DEF Distinct
  <2>4. CASE i <= Len(s) /\ j > Len(s)
    <3>1. s[i] = t[j - Len(s)] /\ i \in 1..Len(s) /\ j - Len(s) \in 1..Len(t)
      BY <1>1, <1>2, <2>1, <2>4
    <3>2. QED
      BY <1>2, <1>7, <3>1
  <2>5. QED
    BY <1>1, <1>2, <2>1, <2>2, <2>3, <2>4
<1>8. QED
  BY <1>1, <1>4, <1>5, <1>6, <1>7 DEF c

\* The requests of a task: one for each object it needs.
LEMMA RequestsOfTask ==
    ASSUME NEW t \in Task
    PROVE  /\ RequestsOf(t) \in Seq(Task \X Object) /\ Distinct(RequestsOf(t))
           /\ ToSet(RequestsOf(t)) = {t} \X Needed(t)
           /\ Needed(t) \subseteq Object
<1> DEFINE n == Needs[t]
           r == RequestsOf(t)
<1>1. n \in Seq(Object)
  BY TaskAssumption
<1>2. /\ Len(n) \in Nat /\ DOMAIN n = 1..Len(n)
      /\ \A o : o \in ToSet(n) <=> \E i \in 1..Len(n) : n[i] = o
      /\ ToSet(n) \subseteq Object
  BY <1>1, Elements
<1>3. \A i \in 1..Len(n) : n[i] \in Object
  BY <1>1, ElementOfSeq
<1>4. r = [i \in 1..Len(n) |-> <<t, n[i]>>]
  BY <1>2 DEF RequestsOf
<1>5. r \in [1..Len(n) -> Task \X Object]
  BY <1>3, <1>4
<1>6. r \in Seq(Task \X Object) /\ Len(r) = Len(n)
  BY <1>2, <1>5, SeqDef
<1>7. Distinct(r)
  BY <1>2, <1>4, <1>6, NeedsAssumption DEF Distinct
<1>8. \A x : x \in ToSet(r) <=> \E i \in 1..Len(r) : r[i] = x
  BY <1>6, Elements
<1>9. \A x : x \in ToSet(r) <=> x \in {t} \X Needed(t)
  <2>1. ASSUME NEW x \in ToSet(r) PROVE x \in {t} \X Needed(t)
    <3>1. PICK i \in 1..Len(n) : r[i] = x
      BY <1>6, <1>8
    <3>2. x = <<t, n[i]>> /\ n[i] \in ToSet(n)
      BY <1>2, <1>4, <3>1
    <3>3. QED
      BY <3>2 DEF Needed
  <2>2. ASSUME NEW x \in {t} \X Needed(t) PROVE x \in ToSet(r)
    <3>1. PICK o \in ToSet(n) : x = <<t, o>>
      BY DEF Needed
    <3>2. PICK i \in 1..Len(n) : n[i] = o
      BY <1>2
    <3>3. i \in 1..Len(r) /\ r[i] = x
      BY <1>4, <1>6, <3>1, <3>2
    <3>4. QED
      BY <1>8, <3>3
  <2>3. QED
    BY <2>1, <2>2
<1>10. QED
  BY <1>2, <1>6, <1>7, <1>9 DEF Needed

-----------------------------------------------------------------------------
(* Types                                                                   *)

\* Posting keeps the count between zero and its bound, and above zero.
LEMMA PostedType ==
    ASSUME semaphore \in 0..MaxPosts
    PROVE  Posted(1) \in 0..MaxPosts /\ Posted(1) # 0
BY BoundsAssumption DEF Posted

\* The first state has the types.
LEMMA TypeInit == Init => TypeInv
<1> SUFFICES ASSUME Init PROVE TypeInv
  OBVIOUS
<1>1. \A S : <<>> \in Seq(S)
  BY EmptySeq
<1>2. /\ submitted \in Seq(Task) /\ executable \in Seq(Task) /\ executing \in Seq(Task)
      /\ messages \in Seq(Message) /\ batch \in Seq(Message)
      /\ requests \in Seq(Task \X Object)
  BY <1>1 DEF Init
<1>3. stage \in [Task -> Stage]
  BY DEF Init, Stage
<1>4. holder \in [Object -> Task \cup {NoTask}] /\ granted \in [Task -> SUBSET Object]
  BY DEF Init
<1>5. /\ taskList \subseteq Task /\ mainSemaphore \subseteq Task /\ execSemaphore \subseteq Task
      /\ semaphore \in 0..MaxPosts /\ cursor \in Nat /\ cursor # 0
  BY BoundsAssumption DEF Init
<1>6. stopSending \in BOOLEAN /\ keepGoing \in BOOLEAN
  BY DEF Init
<1>7. QED
  BY <1>2, <1>3, <1>4, <1>5, <1>6 DEF Init, TypeInv, TypeOK

\* The service thread's steps keep the types.
LEMMA ServiceTypes ==
    ASSUME TypeInv, Service
    PROVE  TypeInv'
<1> USE DEF TypeInv, TypeOK, Stage, queues, flags, main, data, service
<1>1. CASE Test
  BY <1>1 DEF Test
<1>2. CASE WaitWakeUpCall
  BY <1>2, BoundsAssumption DEF WaitWakeUpCall
<1>3. CASE TransferSubmittedTask
  <2> DEFINE t == Head(submitted)
  <2>1. t \in Task /\ submitted' \in Seq(Task)
    BY <1>3, HeadTaken DEF TransferSubmittedTask
  <2>2. requests' \in Seq(Task \X Object)
    BY <1>3, <2>1, RequestsOfTask, Joined DEF TransferSubmittedTask
  <2>3. executable' \in Seq(Task)
    <3>1. executable' = executable \/ executable' = Append(executable, t)
      BY <1>3 DEF TransferSubmittedTask
    <3>2. executable \in Seq(Task)
      OBVIOUS
    <3>3. Append(executable, t) \in Seq(Task)
      BY <2>1, <3>2, Appended
    <3>4. QED
      BY <3>1, <3>2, <3>3
  <2>4. semaphore' \in 0..MaxPosts
    BY <1>3, PostedType DEF TransferSubmittedTask, WakeUpCall
  <2>5. taskList' \subseteq Task
    BY <1>3, <2>1 DEF TransferSubmittedTask
  <2>6. QED
    BY <1>3, <2>1, <2>2, <2>3, <2>4, <2>5 DEF TransferSubmittedTask
<1>4. CASE EndTransfer
  BY <1>4 DEF EndTransfer
<1>5. CASE TakeMessages
  BY <1>5, EmptySeq DEF TakeMessages
<1>6. CASE HandleGrant
  <2>1. Head(batch) \in Message /\ batch' \in Seq(Message)
    BY <1>6, HeadTaken DEF HandleGrant
  <2>2. Head(batch).task \in Task /\ Head(batch).object \in Object
    BY <2>1 DEF Message
  <2>3. executable' \in Seq(Task)
    <3>1. executable' = executable \/ executable' = Append(executable, Head(batch).task)
      BY <1>6 DEF HandleGrant
    <3>2. executable \in Seq(Task)
      OBVIOUS
    <3>3. Append(executable, Head(batch).task) \in Seq(Task)
      BY <2>2, <3>2, Appended
    <3>4. QED
      BY <3>1, <3>2, <3>3
  <2>4. taskList' \subseteq Task
    BY <1>6 DEF HandleGrant
  <2>5. granted' \in [Task -> SUBSET Object]
    <3> DEFINE t == Head(batch).task
               objects == granted[t] \cup {Head(batch).object}
    <3>1. granted' = granted \/ granted' = [granted EXCEPT ![t] = objects]
      BY <1>6 DEF HandleGrant
    <3>2. objects \in SUBSET Object
      BY <2>2
    <3>3. QED
      BY <3>1, <3>2
  <2>6. QED
    BY <1>6, <2>1, <2>3, <2>4, <2>5 DEF HandleGrant
<1>7. CASE HandleCancel
  <2>1. batch' \in Seq(Message)
    BY <1>7, HeadTaken DEF HandleCancel
  <2>2. stage' \in [Task -> Stage]
    BY <1>7 DEF HandleCancel
  <2>3. holder' \in [Object -> Task \cup {NoTask}]
    BY <1>7 DEF HandleCancel
  <2>4. taskList' \subseteq Task
    BY <1>7 DEF HandleCancel
  <2>5. QED
    BY <1>7, <2>1, <2>2, <2>3, <2>4 DEF HandleCancel
<1>8. CASE EndMessages
  BY <1>8 DEF EndMessages
<1>9. CASE StartTask
  <2>1. Head(executable) \in Task /\ executable' \in Seq(Task)
    BY <1>9, HeadTaken DEF StartTask, MayStart
  <2>2. executing' \in Seq(Task)
    BY <1>9, <2>1, Appended DEF StartTask
  <2>3. QED
    BY <1>9, <2>1, <2>2 DEF StartTask
<1>10. CASE EndTrigger
  BY <1>10 DEF EndTrigger
<1>11. CASE Pass
  BY <1>11 DEF Pass
<1>12. CASE Join
  <2>1. cursor \in 1..Len(executing)
    BY <1>12, LenProperties DEF Join
  <2>2. executing' \in Seq(Task) /\ executing[cursor] \in Task
    BY <1>12, <2>1, Removed, ElementOfSeq DEF Join
  <2>3. semaphore' \in 0..MaxPosts
    BY <1>12, PostedType DEF Join, WakeUpCall
  <2>4. QED
    BY <1>12, <2>2, <2>3 DEF Join
<1>13. CASE EndScan
  BY <1>13 DEF EndScan, Scanning
<1>14. QED
  BY <1>1, <1>2, <1>3, <1>4, <1>5, <1>6, <1>7, <1>8, <1>9, <1>10, <1>11, <1>12, <1>13
     DEF Service

\* So do those of the other threads and of the data manager.
LEMMA OtherTypes ==
    ASSUME TypeInv
    PROVE  /\ MainStep => TypeInv'
           /\ DataManagerStep => TypeInv'
           /\ \A t \in Task : Submit(t) \/ ThreadExec(t) \/ CancelTask(t) => TypeInv'
<1> USE DEF TypeInv, TypeOK, Stage, queues, flags, main, data, service
<1>1. ASSUME MainStep PROVE TypeInv'
  BY <1>1 DEF MainStep, StartService, Wait, FinishWaiting
<1>2. ASSUME NEW o \in Object, GrantAccess(o) PROVE TypeInv'
  <2>1. PICK i \in Pending(o) :
          /\ requests' = RemoveAt(requests, i)
          /\ holder' = [holder EXCEPT ![o] = requests[i][1]]
          /\ messages' = Append(messages, Grant(requests[i][1], o))
    BY <1>2 DEF GrantAccess, Grant
  <2>2. i \in 1..Len(requests)
    BY LenProperties DEF Pending
  <2>3. requests[i] \in Task \X Object /\ requests' \in Seq(Task \X Object)
    BY <2>1, <2>2, ElementOfSeq, Removed
  <2>4. requests[i][1] \in Task
    BY <2>3
  <2>5. Grant(requests[i][1], o) \in Message
    BY <2>4 DEF Grant, Message
  <2>6. messages' \in Seq(Message)
    BY <2>1, <2>5, Appended
  <2>7. semaphore' \in 0..MaxPosts
    BY <1>2, PostedType DEF GrantAccess, WakeUpCall
  <2>8. QED
    BY <1>2, <2>1, <2>3, <2>4, <2>6, <2>7 DEF GrantAccess
<1>3. ASSUME NEW t \in Task, CancelTask(t) PROVE TypeInv'
  <2>1. PICK i \in DOMAIN requests :
          /\ requests[i][1] = t
          /\ requests' = RemoveAt(requests, i)
          /\ messages' = Append(messages,
                                [kind |-> "cancel", task |-> t, object |-> requests[i][2]])
    BY <1>3 DEF CancelTask
  <2>2. i \in 1..Len(requests)
    BY LenProperties
  <2>3. requests[i] \in Task \X Object /\ requests' \in Seq(Task \X Object)
    BY <2>1, <2>2, ElementOfSeq, Removed
  <2>4. [kind |-> "cancel", task |-> t, object |-> requests[i][2]] \in Message
    BY <2>3 DEF Message
  <2>5. messages' \in Seq(Message)
    BY <2>1, <2>4, Appended
  <2>6. semaphore' \in 0..MaxPosts
    BY <1>3, PostedType DEF CancelTask, WakeUpCall
  <2>7. QED
    BY <1>3, <2>3, <2>5, <2>6 DEF CancelTask
<1>4. ASSUME NEW t \in Task, BeginSubmit(t) PROVE TypeInv'
  <2>1. semaphore' \in 0..MaxPosts
    BY <1>4, PostedType DEF BeginSubmit, WakeUpCall
  <2>2. stage' \in [Task -> Stage]
    BY <1>4 DEF BeginSubmit
  <2>3. QED
    BY <1>4, <2>1, <2>2 DEF BeginSubmit
<1>5. ASSUME NEW t \in Task, PushSubmitted(t) PROVE TypeInv'
  <2>1. semaphore' \in 0..MaxPosts
    BY <1>5, PostedType DEF PushSubmitted, WakeUpCall
  <2>2. submitted' \in Seq(Task)
    BY <1>5, Appended DEF PushSubmitted
  <2>3. QED
    BY <1>5, <2>1, <2>2 DEF PushSubmitted
<1>6. ASSUME NEW t \in Task, Execute(t) PROVE TypeInv'
  BY <1>6 DEF Execute
<1>7. ASSUME NEW t \in Task, Release(t) \/ Finish(t) PROVE TypeInv'
  <2>1. semaphore' \in 0..MaxPosts
    BY <1>7, PostedType DEF Release, Finish, WakeUpCall
  <2>2. holder' \in [Object -> Task \cup {NoTask}]
    BY <1>7 DEF Release, Finish
  <2>3. QED
    BY <1>7, <2>1, <2>2 DEF Release, Finish
<1>8. QED
  BY <1>1, <1>2, <1>3, <1>4, <1>5, <1>6, <1>7 DEF DataManagerStep, Submit, ThreadExec

\* Every step keeps the types.
LEMMA TypeNext == TypeInv /\ [Next]_vars => TypeInv'
<1> SUFFICES ASSUME TypeInv, [Next]_vars PROVE TypeInv'
  OBVIOUS
<1>1. CASE UNCHANGED vars
  BY <1>1 DEF TypeInv, TypeOK, vars
<1>2. CASE Next
  BY <1>2, ServiceTypes, OtherTypes DEF Next
<1>3. QED
  BY <1>1, <1>2

\* The type invariant of a processor's task manager, for any tasks.
THEOREM TaskManagerTypes == Spec => []TypeOK
<1>1. TypeInv => TypeOK
  BY DEF TypeInv
<1>2. QED
  BY <1>1, TypeInit, TypeNext, PTL DEF Spec

-----------------------------------------------------------------------------
(* No sleep on work                                                        *)

\* The steps that post leave the semaphore above zero.
LEMMA AwakePosts ==
    ASSUME TypeInv, WakeUpCall
    PROVE  AwakeInv'
BY PostedType DEF TypeInv, TypeOK, WakeUpCall, AwakeInv

\* The service thread looks at everything between its wake-up and its next sleep.
LEMMA AwakeService ==
    ASSUME TypeInv, AwakeInv, Service
    PROVE  AwakeInv'
<1> USE DEF AwakeInv, Asleep, MayStart, queues, flags, main, data, service
<1>0. executing \in Seq(Task) /\ Len(executing) \in Nat /\ cursor \in Nat
  BY LenProperties DEF TypeInv, TypeOK
<1>1. CASE Test
  BY <1>1 DEF Test
<1>2. CASE WaitWakeUpCall
  BY <1>2 DEF WaitWakeUpCall
<1>3. CASE TransferSubmittedTask
  BY <1>3 DEF TransferSubmittedTask
<1>4. CASE EndTransfer
  BY <1>4 DEF EndTransfer
<1>5. CASE TakeMessages
  BY <1>5 DEF TakeMessages
<1>6. CASE HandleGrant
  BY <1>6 DEF HandleGrant
<1>7. CASE HandleCancel
  BY <1>7 DEF HandleCancel
<1>8. CASE EndMessages
  BY <1>8 DEF EndMessages
<1>9. CASE StartTask
  BY <1>9 DEF StartTask
<1>10. CASE EndTrigger
  BY <1>0, <1>10 DEF EndTrigger
<1>11. CASE Pass
  BY <1>0, <1>11 DEF Pass
<1>12. CASE Join
  BY <1>12, AwakePosts DEF Join
<1>13. CASE EndScan
  BY <1>0, <1>13 DEF EndScan, Scanning
<1>14. QED
  BY <1>1, <1>2, <1>3, <1>4, <1>5, <1>6, <1>7, <1>8, <1>9, <1>10, <1>11, <1>12, <1>13
     DEF Service

\* Whoever changes a queue, or ends a task, posts.
LEMMA AwakeNext == TypeInv /\ AwakeInv /\ [Next]_vars => AwakeInv'
<1> SUFFICES ASSUME TypeInv, AwakeInv, [Next]_vars PROVE AwakeInv'
  OBVIOUS
<1> USE DEF queues, flags, main, data, service
<1>1. CASE UNCHANGED vars
  BY <1>1 DEF AwakeInv, MayStart, vars
<1>2. CASE Service
  BY <1>2, AwakeService
<1>3. CASE MainStep
  BY <1>3 DEF AwakeInv, MayStart, Asleep, MainStep, StartService, Wait, FinishWaiting, TypeInv
<1>4. CASE DataManagerStep
  BY <1>4, AwakePosts DEF DataManagerStep, GrantAccess
<1>5. ASSUME NEW t \in Task, CancelTask(t) PROVE AwakeInv'
  BY <1>5, AwakePosts DEF CancelTask
<1>6. ASSUME NEW t \in Task, PushSubmitted(t) \/ Release(t) \/ Finish(t) PROVE AwakeInv'
  BY <1>6, AwakePosts DEF PushSubmitted, Release, Finish
<1>7. ASSUME NEW t \in Task, BeginSubmit(t) \/ Execute(t), semaphore' = semaphore
      PROVE  AwakeInv'
  <2>1. \A u \in Task : stage'[u] = "finished" => stage[u] = "finished"
    BY <1>7 DEF BeginSubmit, Execute, TypeInv, TypeOK
  <2>2. /\ UNCHANGED <<submitted, messages, executable, executing, cursor, pc>>
        /\ \A i \in 1..Len(executing) : executing[i] \in Task
    BY <1>7, ElementOfSeq DEF BeginSubmit, Execute, TypeInv, TypeOK
  <2>3. QED
    BY <1>7, <2>1, <2>2 DEF AwakeInv, MayStart
<1>8. ASSUME NEW t \in Task, BeginSubmit(t) \/ Execute(t), WakeUpCall
      PROVE  AwakeInv'
  BY <1>8, AwakePosts
<1>9. ASSUME NEW t \in Task, BeginSubmit(t) \/ Execute(t) PROVE AwakeInv'
  BY <1>7, <1>8, <1>9 DEF BeginSubmit, Execute
<1>10. QED
  BY <1>1, <1>2, <1>3, <1>4, <1>5, <1>6, <1>9 DEF Next, Submit, ThreadExec

\* The service thread never sleeps for good beside work that it could do.
THEOREM NeverAsleepOnWork == Spec => []NoSleepOnWork
<1>1. Init => AwakeInv
  <2>1. ASSUME Init PROVE AwakeInv
    BY <2>1, EmptySeq DEF Init, AwakeInv, MayStart
  <2>2. QED
    BY <2>1
<1>2. TypeInv /\ AwakeInv => NoSleepOnWork
  <2> SUFFICES ASSUME TypeInv, AwakeInv, pc = "wait", semaphore = 0
               PROVE  /\ submitted = <<>> /\ messages = <<>> /\ ~MayStart
                      /\ \A t \in ToSet(executing) : stage[t] # "finished"
    BY DEF NoSleepOnWork
  <2>1. \A t : t \in ToSet(executing) => \E i \in 1..Len(executing) : executing[i] = t
    BY Elements DEF TypeInv, TypeOK
  <2>2. QED
    BY <2>1 DEF AwakeInv, Asleep
<1>3. QED
  BY <1>1, <1>2, TypeInit, TypeNext, AwakeNext, PTL DEF Spec

-----------------------------------------------------------------------------
(* Every task in one queue                                                 *)

\* Steps that leave the queues alone and move no task between the stages that
\* the queues are about.
LEMMA QueuesUntouched ==
    ASSUME QueueInv, UNCHANGED queues,
           \A t \in Task : /\ stage'[t] = "queued" <=> stage[t] = "queued"
                           /\ stage'[t] \in InThread <=> stage[t] \in InThread
    PROVE  QueueInv'
BY DEF QueueInv, queues, Distinct

\* A task that is submitted was in no queue before.
LEMMA QueuePush ==
    ASSUME TypeInv, QueueInv, NEW t \in Task, PushSubmitted(t)
    PROVE  QueueInv'
<1>1. /\ t \notin ToSet(submitted) \cup taskList \cup ToSet(executable)
      /\ t \notin ToSet(executing)
  BY DEF PushSubmitted, QueueInv, InThread
<1>2. ToSet(submitted') = ToSet(submitted) \cup {t} /\ Distinct(submitted')
  BY <1>1, Appended DEF PushSubmitted, TypeInv, TypeOK, QueueInv
<1>3. UNCHANGED <<taskList, executable, executing>>
  BY DEF PushSubmitted
<1>4. \A u \in Task : stage'[u] = IF u = t THEN "queued" ELSE stage[u]
  BY DEF PushSubmitted, TypeInv, TypeOK
<1>5. stage[t] = "submitting"
  BY DEF PushSubmitted
<1>6. QED
  BY <1>1, <1>2, <1>3, <1>4, <1>5 DEF QueueInv, InThread

\* The first submitted task goes to fTaskList or to fExecutable.
LEMMA QueueTransfer ==
    ASSUME TypeInv, QueueInv, TransferSubmittedTask
    PROVE  QueueInv'
<1> DEFINE t == Head(submitted)
<1>1. /\ t \in Task /\ t \in ToSet(submitted)
      /\ Distinct(submitted') /\ ToSet(submitted') = ToSet(submitted) \ {t}
  BY HeadTaken DEF TransferSubmittedTask, TypeInv, TypeOK, QueueInv
<1>2. t \notin ToSet(executable) /\ t \notin taskList
  BY <1>1 DEF QueueInv
<1>3. UNCHANGED <<executing, stage>>
  BY DEF TransferSubmittedTask
<1> HIDE DEF t
<1>4. CASE taskList' = taskList \cup {t} /\ executable' = executable
  BY <1>1, <1>2, <1>3, <1>4 DEF QueueInv
<1>5. CASE taskList' = taskList /\ executable' = Append(executable, t)
  <2>1. ToSet(executable') = ToSet(executable) \cup {t} /\ Distinct(executable')
    BY <1>1, <1>2, <1>5, Appended DEF TypeInv, TypeOK, QueueInv
  <2>2. QED
    BY <1>1, <1>2, <1>3, <1>5, <2>1 DEF QueueInv
<1>6. QED
  BY <1>4, <1>5 DEF TransferSubmittedTask, t

\* A task that has all it needs goes from fTaskList to fExecutable.
LEMMA QueueGrant ==
    ASSUME TypeInv, QueueInv, HandleGrant
    PROVE  QueueInv'
<1> DEFINE t == Head(batch).task
<1>1. UNCHANGED <<submitted, executing, stage>>
  BY DEF HandleGrant
<1> HIDE DEF t
<1>2. CASE UNCHANGED <<taskList, executable>>
  BY <1>1, <1>2, QueuesUntouched DEF queues
<1>3. CASE t \in taskList /\ taskList' = taskList \ {t} /\ executable' = Append(executable, t)
  <2>1. t \in Task /\ t \notin ToSet(executable) /\ t \notin ToSet(submitted)
    BY <1>3 DEF QueueInv, TypeInv, TypeOK
  <2>2. ToSet(executable') = ToSet(executable) \cup {t} /\ Distinct(executable')
    BY <1>3, <2>1, Appended DEF TypeInv, TypeOK, QueueInv
  <2>3. QED
    BY <1>1, <1>3, <2>1, <2>2 DEF QueueInv
<1>4. QED
  BY <1>2, <1>3 DEF HandleGrant, t

\* A cancelled task leaves fTaskList.
LEMMA QueueCancel ==
    ASSUME TypeInv, QueueInv, HandleCancel
    PROVE  QueueInv'
<1>1. PICK out \in SUBSET taskList :
        /\ taskList' = taskList \ out
        /\ stage' = [t \in Task |-> IF t \in out THEN "vanished" ELSE stage[t]]
  BY DEF HandleCancel
<1>2. UNCHANGED <<submitted, executable, executing>>
  BY DEF HandleCancel
<1>3. \A t \in Task : stage'[t] = IF t \in out THEN "vanished" ELSE stage[t]
  BY <1>1
<1>4. \A t \in out : t \notin ToSet(submitted) /\ t \notin ToSet(executable)
                     /\ t \notin ToSet(executing) /\ stage[t] = "queued"
  BY DEF QueueInv, InThread, TypeInv, TypeOK
<1>5. QED
  BY <1>1, <1>2, <1>3, <1>4 DEF QueueInv, InThread

\* The first executable task gets its thread.
LEMMA QueueStart ==
    ASSUME TypeInv, QueueInv, StartTask
    PROVE  QueueInv'
<1> DEFINE t == Head(executable)
<1>1. /\ t \in Task /\ t \in ToSet(executable)
      /\ Distinct(executable') /\ ToSet(executable') = ToSet(executable) \ {t}
  BY HeadTaken DEF StartTask, MayStart, TypeInv, TypeOK, QueueInv
<1>2. /\ t \notin ToSet(submitted) /\ t \notin taskList /\ stage[t] = "queued"
      /\ t \notin ToSet(executing)
  BY <1>1 DEF QueueInv, InThread
<1>3. executing' = Append(executing, t)
  BY DEF StartTask
<1>4. ToSet(executing') = ToSet(executing) \cup {t} /\ Distinct(executing')
  BY <1>1, <1>2, <1>3, Appended DEF TypeInv, TypeOK, QueueInv
<1>5. UNCHANGED <<submitted, taskList>>
  BY DEF StartTask
<1>6. \A u \in Task : stage'[u] = IF u = t THEN "started" ELSE stage[u]
  BY DEF StartTask, TypeInv, TypeOK
<1> HIDE DEF t
<1>7. QED
  BY <1>1, <1>2, <1>4, <1>5, <1>6 DEF QueueInv, InThread

\* A joined task leaves fExecuting.
LEMMA QueueJoin ==
    ASSUME TypeInv, QueueInv, Join
    PROVE  QueueInv'
<1> DEFINE t == executing[cursor]
<1>1. cursor \in 1..Len(executing)
  BY LenProperties DEF Join, TypeInv, TypeOK
<1>2. /\ t \in ToSet(executing)
      /\ Distinct(executing') /\ ToSet(executing') = ToSet(executing) \ {t}
  BY <1>1, RemovedDistinct DEF Join, TypeInv, TypeOK, QueueInv
<1>3. t \in Task /\ stage[t] = "finished"
  BY <1>1, ElementOfSeq DEF Join, TypeInv, TypeOK
<1>4. UNCHANGED <<submitted, taskList, executable>>
  BY DEF Join
<1>5. \A u \in Task : stage'[u] = IF u = t THEN "joined" ELSE stage[u]
  BY DEF Join, TypeInv, TypeOK
<1> HIDE DEF t
<1>6. QED
  BY <1>2, <1>3, <1>4, <1>5 DEF QueueInv, InThread

\* Every step keeps each task in one queue.
LEMMA QueueNext ==
    ASSUME TypeInv, QueueInv, [Next]_vars
    PROVE  QueueInv'
<1> USE DEF queues, flags, main, data, service
<1>1. ASSUME NEW t \in Task, BeginSubmit(t) \/ Execute(t) \/ Release(t) \/ Finish(t)
      PROVE  QueueInv'
  <2>1. UNCHANGED queues
    BY <1>1 DEF BeginSubmit, Execute, Release, Finish
  <2>2. \A u \in Task : u # t => stage'[u] = stage[u]
    BY <1>1 DEF BeginSubmit, Execute, Release, Finish, TypeInv, TypeOK
  <2>3. /\ stage'[t] = "queued" <=> stage[t] = "queued"
        /\ stage'[t] \in InThread <=> stage[t] \in InThread
    BY <1>1 DEF BeginSubmit, Execute, Release, Finish, TypeInv, TypeOK, InThread
  <2>4. QED
    BY <2>1, <2>2, <2>3, QueuesUntouched
<1>2. CASE UNCHANGED vars \/ MainStep \/ DataManagerStep \/ \E t \in Task : CancelTask(t)
  <2>1. UNCHANGED <<queues, stage>>
    BY <1>2 DEF vars, MainStep, StartService, Wait, FinishWaiting, DataManagerStep,
                GrantAccess, CancelTask
  <2>2. QED
    BY <2>1, QueuesUntouched
<1>3. CASE Service
  <2>1. CASE \/ Test \/ WaitWakeUpCall \/ EndTransfer \/ TakeMessages \/ EndMessages
             \/ EndTrigger \/ Pass \/ EndScan
    <3>1. UNCHANGED <<queues, stage>>
      BY <2>1 DEF Test, WaitWakeUpCall, EndTransfer, TakeMessages, EndMessages, EndTrigger,
                  Pass, EndScan
    <3>2. QED
      BY <3>1, QueuesUntouched
  <2>2. QED
    BY <1>3, <2>1, QueueTransfer, QueueGrant, QueueCancel, QueueStart, QueueJoin DEF Service
<1>4. QED
  BY <1>1, <1>2, <1>3, QueuePush DEF Next, Submit, ThreadExec

-----------------------------------------------------------------------------
(* The stages of a task and who submits it                                 *)

\* How a task may move on in a step.
Moves(t) ==
    \/ stage'[t] = stage[t]
    \/ BeginSubmit(t) \/ PushSubmitted(t) \/ Execute(t) \/ Release(t) \/ Finish(t)
    \/ stage[t] = "queued" /\ stage'[t] \in {"started", "vanished"}
    \/ stage[t] = "finished" /\ stage'[t] = "joined"

\* Every step moves a task on like this or leaves it where it is.
LEMMA StageMoves ==
    ASSUME TypeInv, QueueInv, [Next]_vars, NEW t \in Task
    PROVE  Moves(t)
<1> USE DEF data, service, main, queues
<1>1. CASE \E u \in Task : BeginSubmit(u) \/ PushSubmitted(u) \/ ThreadExec(u)
  <2>1. PICK u \in Task : BeginSubmit(u) \/ PushSubmitted(u) \/ ThreadExec(u)
    BY <1>1
  <2>2. CASE u = t
    BY <2>1, <2>2 DEF Moves, ThreadExec
  <2>3. CASE u # t
    BY <2>1, <2>3 DEF Moves, ThreadExec, BeginSubmit, PushSubmitted, Execute, Release, Finish,
                      TypeInv, TypeOK
  <2>4. QED
    BY <2>2, <2>3
<1>2. CASE UNCHANGED vars \/ MainStep \/ DataManagerStep \/ \E u \in Task : CancelTask(u)
  BY <1>2 DEF Moves, vars, MainStep, StartService, Wait, FinishWaiting, DataManagerStep,
              GrantAccess, CancelTask
<1>3. CASE HandleCancel
  <2>1. stage'[t] = stage[t] \/ (t \in taskList /\ stage'[t] = "vanished")
    BY <1>3 DEF HandleCancel
  <2>2. t \in taskList => stage[t] = "queued"
    BY DEF QueueInv
  <2>3. QED
    BY <2>1, <2>2 DEF Moves
<1>4. CASE StartTask
  <2>1. Head(executable) \in Task /\ stage[Head(executable)] = "queued"
    BY <1>4, HeadTaken DEF StartTask, MayStart, QueueInv, TypeInv, TypeOK
  <2>2. QED
    BY <1>4, <2>1 DEF StartTask, Moves, TypeInv, TypeOK
<1>5. CASE Join
  BY <1>5 DEF Join, Moves, TypeInv, TypeOK
<1>6. CASE \/ Test \/ WaitWakeUpCall \/ TransferSubmittedTask \/ EndTransfer \/ TakeMessages
           \/ HandleGrant \/ EndMessages \/ EndTrigger \/ Pass \/ EndScan
  BY <1>6 DEF Moves, Test, WaitWakeUpCall, TransferSubmittedTask, EndTransfer, TakeMessages,
              HandleGrant, EndMessages, EndTrigger, Pass, EndScan
<1>7. QED
  BY <1>1, <1>2, <1>3, <1>4, <1>5, <1>6 DEF Next, Service, Submit

\* Nobody comes back to where it was not accepted yet, and a task that has
\* begun stays until it has submitted its own.
LEMMA StageOrder ==
    ASSUME TypeInv, QueueInv, [Next]_vars, NEW t \in Task
    PROVE  /\ stage[t] # "new" => stage'[t] # "new"
           /\ stage[t] \notin Outside => stage'[t] \notin Outside
           /\ stage'[t] = "submitting" => stage[t] = "submitting" \/ BeginSubmit(t)
           /\ stage[t] = "submitting" => stage'[t] = "submitting" \/ PushSubmitted(t)
           /\ stage[t] = "running" => stage'[t] = "running" \/ Release(t)
           /\ stage'[t] = "started" => stage[t] \in {"started", "queued"}
           /\ stage'[t] = "queued" => stage[t] = "queued" \/ PushSubmitted(t)
           /\ stage[t] \notin Outside /\ stage'[t] \in Holding => stage[t] \in Holding
<1>1. Moves(t)
  BY StageMoves
<1>2. QED
  BY <1>1 DEF Moves, BeginSubmit, PushSubmitted, Execute, Release, Finish, Outside, Holding,
              TypeInv, TypeOK

\* The main thread's place changes by its own steps, or when it starts to wait.
LEMMA MainMoves ==
    ASSUME [Next]_vars
    PROVE  \/ UNCHANGED <<mainAt, waited>>
           \/ StartService \/ Wait \/ FinishWaiting
           \/ \E t \in Task : PushSubmitted(t) /\ Kind[t] = "wait"
BY DEF main, vars, Next, Service, Test, WaitWakeUpCall, TransferSubmittedTask, EndTransfer,
       TakeMessages, HandleGrant, HandleCancel, EndMessages, StartTask, EndTrigger, Pass, Join,
       EndScan, MainStep, DataManagerStep, GrantAccess, Submit, ThreadExec, CancelTask,
       BeginSubmit, PushSubmitted, Execute, Release, Finish

\* Only a task that stops the environment puts the flag down.
LEMMA KeepGoingMoves ==
    ASSUME TypeInv, [Next]_vars
    PROVE  keepGoing' = keepGoing \/ \E t \in Task : Execute(t) /\ Kind[t] = "shutdown"
<1>1. CASE \E t \in Task : Execute(t)
  <2>1. PICK t \in Task : Execute(t)
    BY <1>1
  <2>2. keepGoing' = (keepGoing /\ Kind[t] # "shutdown") /\ keepGoing \in BOOLEAN
    BY <2>1 DEF Execute, TypeInv, TypeOK
  <2>3. QED
    BY <2>1, <2>2
<1>2. CASE ~\E t \in Task : Execute(t)
  BY <1>2
     DEF flags, vars, Next, Service, Test, WaitWakeUpCall, TransferSubmittedTask, EndTransfer,
         TakeMessages, HandleGrant, HandleCancel, EndMessages, StartTask, EndTrigger, Pass, Join,
         EndScan, MainStep, StartService, Wait, FinishWaiting, DataManagerStep, GrantAccess,
         Submit, ThreadExec, CancelTask, BeginSubmit, PushSubmitted, Release, Finish
<1>3. QED
  BY <1>1, <1>2

\* The state that submission and the end of it depend on is as the code leaves it.
LEMMA SubmitNext ==
    ASSUME TypeInv, QueueInv, SubmitInv, [Next]_vars
    PROVE  SubmitInv'
<1>1. MainTasks \subseteq Task
  BY DEF MainTasks
<1>2. \A t \in Task \ MainTasks : Parent[t] \in Task
  BY TaskAssumption DEF MainTasks
<1>3. MainIsDone => MainIsDone'
  BY <1>1, StageOrder DEF MainIsDone
<1>4. ASSUME NEW t \in Task, BeginSubmit(t), t \in MainTasks
      PROVE  /\ mainAt = "free"
             /\ \A u \in MainTasks : stage[u] # "submitting"
             /\ Kind[t] \in Termination => \A u \in MainTasks \ {t} : stage[u] # "new"
  BY <1>4 DEF BeginSubmit, MaySubmit
<1>5. \A t \in Task : stage'[t] = "submitting" =>
        IF t \in MainTasks THEN mainAt' = "free" ELSE stage'[Parent[t]] = "running"
  <2> SUFFICES ASSUME NEW t \in Task, stage'[t] = "submitting"
               PROVE  IF t \in MainTasks THEN mainAt' = "free"
                      ELSE stage'[Parent[t]] = "running"
    OBVIOUS
  <2>1. stage[t] = "submitting" \/ BeginSubmit(t)
    BY StageOrder
  <2>2. CASE t \in MainTasks
    <3>1. mainAt = "free"
      BY <1>4, <2>1, <2>2 DEF SubmitInv
    <3>2. ASSUME NEW u \in Task, PushSubmitted(u), Kind[u] = "wait" PROVE FALSE
      <4>1. u \in MainTasks /\ stage[u] = "submitting" /\ stage'[u] = "queued"
        BY <3>2, TaskAssumption DEF MainTasks, PushSubmitted, TypeInv, TypeOK
      <4>2. t # u
        BY <4>1
      <4>3. stage[t] # "submitting"
        BY <1>1, <2>2, <4>1, <4>2 DEF SubmitInv
      <4>4. QED
        BY <1>4, <2>1, <2>2, <4>1, <4>3
    <3>3. mainAt' = mainAt
      BY <3>1, <3>2, MainMoves DEF StartService, Wait, FinishWaiting
    <3>4. QED
      BY <2>2, <3>1, <3>3
  <2>3. CASE t \notin MainTasks
    <3>1. Parent[t] \in Task /\ stage[Parent[t]] = "running"
      BY <1>2, <2>1, <2>3 DEF SubmitInv, BeginSubmit, MaySubmit
    <3>2. ASSUME Release(Parent[t]) PROVE FALSE
      <4>1. stage[t] \notin {"new", "submitting"}
        BY <3>1, <3>2 DEF Release, Executed
      <4>2. QED
        BY <2>1, <4>1 DEF BeginSubmit
    <3>3. QED
      BY <2>3, <3>1, <3>2, StageOrder
  <2>4. QED
    BY <2>2, <2>3
<1>6. \A t, u \in MainTasks : stage'[t] = "submitting" /\ stage'[u] = "submitting" => t = u
  <2> SUFFICES ASSUME NEW t \in MainTasks, NEW u \in MainTasks,
                      stage'[t] = "submitting", stage'[u] = "submitting"
               PROVE  t = u
    OBVIOUS
  <2>1. /\ stage[t] = "submitting" \/ BeginSubmit(t)
        /\ stage[u] = "submitting" \/ BeginSubmit(u)
    BY <1>1, StageOrder
  <2>2. CASE stage[t] = "submitting" /\ stage[u] = "submitting"
    BY <2>2 DEF SubmitInv
  <2>3. CASE BeginSubmit(t) /\ BeginSubmit(u)
    BY <1>1, <2>3 DEF BeginSubmit, TypeInv, TypeOK
  <2>4. QED
    BY <1>1, <1>4, <2>1, <2>2, <2>3
<1>7. \A t \in MainTasks : Kind[t] \in Termination /\ stage'[t] = "submitting" =>
        \A u \in MainTasks : stage'[u] # "new"
  <2> SUFFICES ASSUME NEW t \in MainTasks, Kind[t] \in Termination, stage'[t] = "submitting",
                      NEW u \in MainTasks
               PROVE  stage'[u] # "new"
    OBVIOUS
  <2>1. CASE u = t
    BY <2>1
  <2>2. CASE u # t
    <3>1. stage[t] = "submitting" \/ BeginSubmit(t)
      BY <1>1, StageOrder
    <3>2. stage[u] # "new"
      BY <1>1, <1>4, <2>2, <3>1 DEF SubmitInv
    <3>3. QED
      BY <1>1, <3>2, StageOrder
  <2>3. QED
    BY <2>1, <2>2
<1>8. \A t \in Task : Kind[t] \in Termination /\ stage'[t] \notin Outside => MainIsDone'
  <2> SUFFICES ASSUME NEW t \in Task, Kind[t] \in Termination, stage'[t] \notin Outside
               PROVE  MainIsDone'
    OBVIOUS
  <2>1. CASE stage[t] \notin Outside
    BY <1>3, <2>1 DEF SubmitInv
  <2>2. CASE stage[t] \in Outside
    <3>1. PushSubmitted(t)
      <4>1. Moves(t)
        BY StageMoves
      <4>2. QED
        BY <2>2, <4>1 DEF Moves, Outside, BeginSubmit, Execute, Release, Finish, TypeInv, TypeOK
    <3>2. CASE t \in MainTasks
      <4>1. \A u \in MainTasks : stage[u] # "new" /\ (u # t => stage[u] # "submitting")
        BY <3>1, <3>2 DEF PushSubmitted, SubmitInv
      <4>2. \A u \in MainTasks : stage'[u] \notin Outside
        BY <1>1, <3>1, <4>1 DEF PushSubmitted, Outside, TypeInv, TypeOK
      <4>3. QED
        BY <4>2 DEF MainIsDone
    <3>3. CASE t \notin MainTasks
      <4>1. Parent[t] \in Task /\ stage[Parent[t]] = "running"
        BY <1>2, <3>1, <3>3 DEF PushSubmitted, SubmitInv
      <4>2. Kind[Parent[t]] \in Termination
        BY <3>3, ChainAssumption DEF Termination, MainTasks
      <4>3. QED
        BY <1>3, <4>1, <4>2 DEF SubmitInv, Outside
    <3>4. QED
      BY <3>2, <3>3
  <2>3. QED
    BY <2>1, <2>2
<1>9. ~keepGoing' => MainIsDone'
  <2>1. CASE keepGoing' = keepGoing
    BY <1>3, <2>1 DEF SubmitInv
  <2>2. ASSUME NEW t \in Task, Execute(t), Kind[t] = "shutdown" PROVE MainIsDone
    BY <2>2 DEF Execute, SubmitInv, Outside, Termination
  <2>3. QED
    BY <1>3, <2>1, <2>2, KeepGoingMoves
<1>10. QED
  BY <1>5, <1>6, <1>7, <1>8, <1>9 DEF SubmitInv

-----------------------------------------------------------------------------
(* The main thread and its wait task                                       *)

\* The two semaphores are posted by the one and taken by the other.
LEMMA SemaphoreMoves ==
    ASSUME [Next]_vars
    PROVE  /\ execSemaphore' = execSemaphore \/ FinishWaiting
           /\ \/ mainSemaphore' = mainSemaphore \/ Wait
              \/ \E t \in Task : Execute(t) /\ Kind[t] = "wait"
BY DEF main, vars, Next, Service, Test, WaitWakeUpCall, TransferSubmittedTask, EndTransfer,
       TakeMessages, HandleGrant, HandleCancel, EndMessages, StartTask, EndTrigger, Pass, Join,
       EndScan, MainStep, StartService, DataManagerStep, GrantAccess, Submit, ThreadExec,
       CancelTask, BeginSubmit, PushSubmitted, Execute, Release, Finish, Wait, FinishWaiting

\* The wait task the main thread is at does not end before it is told to.
LEMMA WaitedStays ==
    ASSUME TypeInv, QueueInv, WaitInv, [Next]_vars, mainAt \in {"waiting", "using"},
           stage[waited] = "running"
    PROVE  stage'[waited] = "running"
<1>1. waited \in Task /\ Kind[waited] = "wait" /\ waited \notin execSemaphore
  BY DEF WaitInv, TypeInv
<1>2. ~Release(waited)
  BY <1>1 DEF Release, Executed
<1>3. QED
  BY <1>1, <1>2, StageOrder

\* The main thread and its wait task keep in step.
LEMMA WaitNext ==
    ASSUME TypeInv, QueueInv, SubmitInv, WaitInv, [Next]_vars
    PROVE  WaitInv'
<1>0. mainSemaphore \subseteq Task /\ execSemaphore \subseteq Task /\ NoTask \notin Task
  BY TaskAssumption DEF TypeInv, TypeOK
<1>1. ASSUME NEW t \in Task, PushSubmitted(t), Kind[t] = "wait" PROVE WaitInv'
  <2>1. /\ mainAt' = "waiting" /\ waited' = t /\ stage[t] = "submitting"
        /\ UNCHANGED <<mainSemaphore, execSemaphore>>
    BY <1>1 DEF PushSubmitted
  <2>2. t \in MainTasks
    BY <1>1, TaskAssumption DEF MainTasks
  <2>3. mainAt = "free"
    BY <2>1, <2>2 DEF SubmitInv
  <2>4. mainSemaphore = {}
    BY <2>3 DEF WaitInv
  <2>5. t \notin execSemaphore
    BY <2>1 DEF WaitInv, Outside
  <2>6. \A u \in execSemaphore : stage'[u] \notin Outside
    BY <1>0, StageOrder DEF WaitInv
  <2>7. \A u \in Task : Kind[u] = "wait" /\ stage'[u] \in {"queued", "started"} => u = t
    <3>1. \A u \in Task : Kind[u] = "wait" => stage[u] \notin {"queued", "started"}
      BY <2>3 DEF WaitInv
    <3>2. \A u \in Task : u # t => stage'[u] = stage[u]
      BY <1>1 DEF PushSubmitted, TypeInv, TypeOK
    <3>3. QED
      BY <3>1, <3>2
  <2>8. QED
    BY <1>1, <2>1, <2>4, <2>5, <2>6, <2>7 DEF WaitInv
<1>2. CASE Wait
  <2>1. /\ mainAt = "waiting" /\ waited \in mainSemaphore /\ mainAt' = "using"
        /\ mainSemaphore' = mainSemaphore \ {waited}
        /\ UNCHANGED <<stage, waited, execSemaphore>>
    BY <1>2 DEF Wait
  <2>2. mainSemaphore' = {} /\ stage[waited] = "running"
    BY <2>1 DEF WaitInv
  <2>3. QED
    BY <2>1, <2>2 DEF WaitInv
<1>3. CASE FinishWaiting
  <2>1. /\ mainAt = "using" /\ mainAt' = "free" /\ waited' = NoTask
        /\ execSemaphore' = execSemaphore \cup {waited}
        /\ UNCHANGED <<stage, mainSemaphore>>
    BY <1>3 DEF FinishWaiting
  <2>2. waited \in Task /\ stage[waited] = "running" /\ mainSemaphore = {}
    BY <2>1 DEF WaitInv, TypeInv
  <2>3. \A u \in Task : Kind[u] = "wait" => stage[u] \notin {"queued", "started"}
    BY <2>1 DEF WaitInv
  <2>4. QED
    BY <1>0, <2>1, <2>2, <2>3 DEF WaitInv, Outside
<1>4. ASSUME NEW t \in Task, Execute(t), Kind[t] = "wait" PROVE WaitInv'
  <2>1. /\ stage[t] = "started" /\ stage' = [stage EXCEPT ![t] = "running"]
        /\ mainSemaphore' = mainSemaphore \cup {t}
        /\ UNCHANGED <<mainAt, waited, execSemaphore>>
    BY <1>4 DEF Execute
  <2>2. mainAt = "waiting" /\ waited = t
    BY <1>4, <2>1 DEF WaitInv
  <2>3. stage'[t] = "running" /\ \A u \in Task : u # t => stage'[u] = stage[u]
    BY <2>1 DEF TypeInv, TypeOK
  <2>4. QED
    BY <1>0, <2>1, <2>2, <2>3 DEF WaitInv, Outside
<1>5. CASE UNCHANGED <<mainAt, waited, mainSemaphore, execSemaphore>>
  <2>1. waited' \notin execSemaphore'
    BY <1>5 DEF WaitInv
  <2>2. \A t \in execSemaphore' : stage'[t] \notin Outside
    BY <1>0, <1>5, StageOrder DEF WaitInv
  <2>3. ASSUME NEW t \in Task, Kind[t] = "wait", stage'[t] \in {"queued", "started"}
        PROVE  mainAt' = "waiting" /\ waited' = t
    <3>1. CASE PushSubmitted(t)
      BY <1>5, <2>3, <3>1 DEF PushSubmitted
    <3>2. CASE ~PushSubmitted(t)
      <4>1. stage[t] \in {"queued", "started"}
        BY <2>3, <3>2, StageOrder
      <4>2. QED
        BY <1>5, <2>3, <4>1 DEF WaitInv
    <3>3. QED
      BY <3>1, <3>2
  <2>4. ASSUME NEW t \in mainSemaphore'
        PROVE  mainAt' = "waiting" /\ waited' = t /\ stage'[t] = "running"
    <3>1. t \in mainSemaphore
      BY <1>5
    <3>2. mainAt = "waiting" /\ waited = t /\ stage[t] = "running"
      BY <3>1 DEF WaitInv
    <3>3. QED
      BY <1>5, <3>2, WaitedStays
  <2>5. mainAt' = "using" => stage'[waited'] = "running"
    BY <1>5, WaitedStays DEF WaitInv
  <2>6. mainAt' \in {"waiting", "using"} => Kind[waited'] = "wait"
    BY <1>5 DEF WaitInv
  <2>7. QED
    BY <2>1, <2>2, <2>3, <2>4, <2>5, <2>6 DEF WaitInv
<1>6. CASE StartService
  <2>1. /\ mainAt = "starting" /\ mainAt' = "free"
        /\ UNCHANGED <<stage, waited, mainSemaphore, execSemaphore>>
    BY <1>6 DEF StartService
  <2>2. QED
    BY <2>1 DEF WaitInv
<1>7. QED
  <2>1. CASE StartService \/ Wait \/ FinishWaiting
    BY <1>2, <1>3, <1>6, <2>1
  <2>2. CASE \E t \in Task : PushSubmitted(t) /\ Kind[t] = "wait"
    BY <1>1, <2>2
  <2>3. CASE \E t \in Task : Execute(t) /\ Kind[t] = "wait"
    BY <1>4, <2>3
  <2>4. QED
    BY <1>5, <2>1, <2>2, <2>3, MainMoves, SemaphoreMoves

-----------------------------------------------------------------------------
(* No grant is lost                                                        *)

\* A task holds objects between its submission and their release.
LEMMA HoldingMoves ==
    ASSUME TypeInv, QueueInv, [Next]_vars, NEW t \in Task
    PROVE  /\ stage'[t] \in Holding => stage[t] \in Holding \/ PushSubmitted(t)
           /\ stage[t] \in Holding =>
                stage'[t] \in Holding \/ Release(t) \/ stage'[t] = "vanished"
           /\ stage'[t] \in Outside \cup {"deleted"} => stage[t] \in Outside \cup {"deleted"}
<1>1. Moves(t)
  BY StageMoves
<1>2. QED
  BY <1>1 DEF Moves, BeginSubmit, PushSubmitted, Execute, Release, Finish, Outside, Holding,
              TypeInv, TypeOK

\* Steps that leave the requests, the grants and fTaskList alone.
LEMMA GrantsUntouched ==
    ASSUME TypeInv, QueueInv, GrantInv, [Next]_vars,
           UNCHANGED <<requests, messages, batch, holder, granted, taskList>>,
           batch # <<>> => pc' = "handle",
           \A t \in Task : stage'[t] # "vanished" \/ stage[t] = "vanished",
           \A t \in Task : t \in ToSet(submitted') => t \in ToSet(submitted) \/ PushSubmitted(t),
           ToSet(executable') \cup ToSet(executing')
             \subseteq ToSet(executable) \cup ToSet(executing)
    PROVE  GrantInv'
<1>1. OnceInv' /\ CancelInv'
  BY DEF GrantInv, OnceInv, CancelInv, InTransit, Distinct, GrantsOnce
<1>2. ASSUME NEW t \in Task PROVE TaskInv(t)'
  <2>1. TaskInv(t)
    BY DEF GrantInv
  <2>2. stage'[t] \in Outside \cup {"deleted"} => granted[t] = {}
    BY <2>1, HoldingMoves DEF TaskInv
  <2>3. t \in ToSet(submitted') => granted[t] = {}
    BY <2>1 DEF TaskInv, PushSubmitted, Outside
  <2>4. t \in ToSet(executable') \cup ToSet(executing') => granted[t] = Needed(t)
    BY <2>1 DEF TaskInv
  <2>5. QED
    BY <2>1, <2>2, <2>3, <2>4 DEF TaskInv, Asked
<1>3. ASSUME NEW t \in Task, NEW o \in Object PROVE PairInv(t, o)'
  <2>1. PairInv(t, o) /\ TaskInv(t)
    BY DEF GrantInv
  <2>2. stage'[t] \in Holding => stage[t] \in Holding \/ granted[t] = {}
    BY <2>1, HoldingMoves DEF TaskInv, PushSubmitted, Outside
  <2>3. holder[o] = t => stage'[t] \in Holding
    <3>1. Release(t) => holder[o] # t
      BY TaskAssumption DEF Release
    <3>2. QED
      BY <2>1, <3>1, HoldingMoves DEF PairInv, Holding
  <2>4. QED
    BY <2>1, <2>2, <2>3 DEF PairInv, Asked, Told, InTransit
<1>4. QED
  BY <1>1, <1>2, <1>3 DEF GrantInv

\* The service thread's steps that only turn its round.
LEMMA GrantQuiet ==
    ASSUME TypeInv, QueueInv, GrantInv, [Next]_vars,
           \/ Test \/ WaitWakeUpCall \/ EndTransfer \/ EndMessages
           \/ EndTrigger \/ Pass \/ EndScan \/ Join \/ StartTask
    PROVE  GrantInv'
<1> USE DEF queues, flags, main, data, service
<1>1. UNCHANGED <<requests, messages, batch, holder, granted, taskList, submitted>>
  BY DEF Test, WaitWakeUpCall, EndTransfer, EndMessages, EndTrigger, Pass, EndScan, Join,
         StartTask
<1>2. batch # <<>> => pc' = "handle"
  BY DEF Test, WaitWakeUpCall, EndTransfer, EndMessages, EndTrigger, Pass, EndScan, Join,
         StartTask, Scanning, GrantInv, OnceInv
<1>3. \A t \in Task : stage'[t] # "vanished" \/ stage[t] = "vanished"
  BY DEF Test, WaitWakeUpCall, EndTransfer, EndMessages, EndTrigger, Pass, EndScan, Join,
         StartTask, TypeInv, TypeOK
<1>4. ToSet(executable') \cup ToSet(executing')
        \subseteq ToSet(executable) \cup ToSet(executing)
  <2>1. CASE StartTask
    <3>1. Head(executable) \in Task /\ ToSet(executable) = ToSet(executable') \cup {Head(executable)}
      BY <2>1, HeadTaken DEF StartTask, MayStart, TypeInv, TypeOK
    <3>2. ToSet(executing') = ToSet(executing) \cup {Head(executable)}
      BY <2>1, <3>1, Appended DEF StartTask, TypeInv, TypeOK
    <3>3. QED
      BY <3>1, <3>2
  <2>2. CASE Join
    <3>1. cursor \in 1..Len(executing)
      BY <2>2, LenProperties DEF Join, TypeInv, TypeOK
    <3>2. ToSet(executing') = ToSet(executing) \ {executing[cursor]}
      BY <2>2, <3>1, RemovedDistinct DEF Join, TypeInv, TypeOK, QueueInv
    <3>3. executable' = executable
      BY <2>2 DEF Join
    <3>4. QED
      BY <3>2, <3>3
  <2>3. CASE ~StartTask /\ ~Join
    BY <2>3 DEF Test, WaitWakeUpCall, EndTransfer, EndMessages, EndTrigger, Pass, EndScan
  <2>4. QED
    BY <2>1, <2>2, <2>3
<1>5. QED
  BY <1>1, <1>2, <1>3, <1>4, GrantsUntouched

\* The steps of the other threads that grant and release nothing.
LEMMA GrantThreads ==
    ASSUME TypeInv, QueueInv, GrantInv, [Next]_vars,
           \/ UNCHANGED vars \/ MainStep
           \/ \E t \in Task : BeginSubmit(t) \/ PushSubmitted(t) \/ Execute(t) \/ Finish(t)
    PROVE  GrantInv'
<1> USE DEF queues, flags, main, data, service
<1>1. UNCHANGED <<requests, messages, batch, holder, granted, taskList, executable, executing>>
  BY DEF vars, MainStep, StartService, Wait, FinishWaiting, BeginSubmit, PushSubmitted, Execute,
         Finish
<1>2. batch # <<>> => pc' = "handle"
  <2>1. pc' = pc \/ StartService
    BY DEF vars, MainStep, Wait, FinishWaiting, BeginSubmit, PushSubmitted, Execute, Finish
  <2>2. StartService => pc = "absent"
    BY DEF StartService, TypeInv
  <2>3. batch # <<>> => pc = "handle"
    BY DEF GrantInv, OnceInv
  <2>4. QED
    BY <2>1, <2>2, <2>3
<1>3. \A t \in Task : stage'[t] # "vanished" \/ stage[t] = "vanished"
  BY DEF vars, MainStep, StartService, Wait, FinishWaiting, BeginSubmit, PushSubmitted, Execute,
         Finish, TypeInv, TypeOK
<1>4. ASSUME NEW t \in Task, t \in ToSet(submitted')
      PROVE  t \in ToSet(submitted) \/ PushSubmitted(t)
  <2>1. CASE submitted' = submitted
    BY <1>4, <2>1
  <2>2. ASSUME NEW u \in Task, PushSubmitted(u)
        PROVE  t \in ToSet(submitted) \/ PushSubmitted(t)
    <3>1. ToSet(submitted') = ToSet(submitted) \cup {u}
      BY <2>2, Appended DEF PushSubmitted, TypeInv, TypeOK
    <3>2. QED
      BY <1>4, <2>2, <3>1
  <2>3. QED
    BY <2>1, <2>2
       DEF vars, MainStep, StartService, Wait, FinishWaiting, BeginSubmit, Execute, Finish
<1>5. QED
  BY <1>1, <1>2, <1>3, <1>4, GrantsUntouched

\* A submitted task asks for what it needs when it goes to fTaskList; one that
\* needs nothing has it.
LEMMA GrantTransfer ==
    ASSUME TypeInv, QueueInv, GrantInv, TransferSubmittedTask
    PROVE  GrantInv'
<1> DEFINE t == Head(submitted)
<1>1. /\ t \in Task /\ t \in ToSet(submitted)
      /\ Distinct(submitted') /\ ToSet(submitted') = ToSet(submitted) \ {t}
  BY HeadTaken DEF TransferSubmittedTask, TypeInv, TypeOK, QueueInv
<1>2. /\ t \notin taskList /\ t \notin ToSet(executable) /\ stage[t] = "queued"
      /\ t \notin ToSet(executing) /\ granted[t] = {}
  BY <1>1 DEF QueueInv, InThread, GrantInv, TaskInv
<1>3. \A o \in Object : ~Asked(t, o) /\ ~Told(t, o) /\ holder[o] # t
  BY <1>1, <1>2 DEF GrantInv, PairInv
<1>4. /\ ToSet(requests') = ToSet(requests) \cup ({t} \X Needed(t))
      /\ Needed(t) \subseteq Object /\ Distinct(requests')
  <2>1. /\ RequestsOf(t) \in Seq(Task \X Object) /\ Distinct(RequestsOf(t))
        /\ ToSet(RequestsOf(t)) = {t} \X Needed(t) /\ Needed(t) \subseteq Object
    BY <1>1, RequestsOfTask
  <2>2. ToSet(requests) \cap ({t} \X Needed(t)) = {}
    BY <1>3, <2>1 DEF Asked
  <2>3. requests' = requests \o RequestsOf(t) /\ requests \in Seq(Task \X Object)
    BY DEF TransferSubmittedTask, TypeInv, TypeOK
  <2>4. Distinct(requests)
    BY DEF GrantInv, OnceInv
  <2>5. QED
    BY <2>1, <2>2, <2>3, <2>4, Joined
<1>5. UNCHANGED <<executing, messages, batch, pc, stage, holder, granted>>
  BY DEF TransferSubmittedTask, service
<1>6. \/ Needed(t) = {} /\ taskList' = taskList /\ ToSet(executable') = ToSet(executable) \cup {t}
      \/ Needed(t) # {} /\ taskList' = taskList \cup {t} /\ executable' = executable
  <2>1. CASE Needed(t) = {}
    <3>1. executable' = Append(executable, t) /\ taskList' = taskList
      BY <1>2, <2>1 DEF TransferSubmittedTask, CanExecute, Needed
    <3>2. QED
      BY <1>1, <2>1, <3>1, Appended DEF TypeInv, TypeOK
  <2>2. CASE Needed(t) # {}
    BY <1>2, <2>2 DEF TransferSubmittedTask, CanExecute, Needed
  <2>3. QED
    BY <2>1, <2>2
<1> HIDE DEF t
<1>7. \A u, o : Asked(u, o)' <=> Asked(u, o) \/ (u = t /\ o \in Needed(t))
  BY <1>4 DEF Asked
<1>8. OnceInv' /\ CancelInv'
  BY <1>4, <1>5 DEF GrantInv, OnceInv, CancelInv, InTransit
<1>9. ASSUME NEW u \in Task PROVE TaskInv(u)'
  <2>1. TaskInv(u)
    BY DEF GrantInv
  <2>2. CASE u = t
    BY <1>1, <1>2, <1>5, <1>6, <1>7, <2>1, <2>2 DEF TaskInv, Outside
  <2>3. CASE u # t
    <3>1. /\ u \in ToSet(submitted') <=> u \in ToSet(submitted)
          /\ u \in ToSet(executable') <=> u \in ToSet(executable)
          /\ u \in taskList' <=> u \in taskList
      BY <1>1, <1>6, <2>3
    <3>2. \A o : Asked(u, o)' <=> Asked(u, o)
      BY <1>7, <2>3
    <3>3. QED
      BY <1>5, <2>1, <3>1, <3>2 DEF TaskInv
  <2>4. QED
    BY <2>2, <2>3
<1>10. ASSUME NEW u \in Task, NEW o \in Object PROVE PairInv(u, o)'
  <2>1. PairInv(u, o) /\ (Told(u, o)' <=> Told(u, o))
    BY <1>5 DEF GrantInv, Told, InTransit
  <2>2. taskList \subseteq taskList'
    BY <1>6
  <2>3. CASE u = t
    <3>1. ~Told(u, o)' /\ holder'[o] # u /\ granted'[u] = {}
      BY <1>2, <1>3, <1>5, <2>1, <2>3
    <3>2. Asked(u, o)' => o \in Needed(u) /\ u \in taskList'
      BY <1>3, <1>6, <1>7, <2>3
    <3>3. QED
      BY <3>1, <3>2 DEF PairInv
  <2>4. CASE u # t
    BY <1>5, <1>7, <2>1, <2>2, <2>4 DEF PairInv
  <2>5. QED
    BY <2>3, <2>4
<1>11. QED
  BY <1>8, <1>9, <1>10 DEF GrantInv

\* The messages are taken all together, when none of the last ones is left.
LEMMA GrantTake ==
    ASSUME TypeInv, QueueInv, GrantInv, TakeMessages
    PROVE  GrantInv'
<1>1. batch = <<>> /\ batch' = messages /\ messages' = <<>> /\ pc' = "handle"
  BY DEF TakeMessages, GrantInv, OnceInv
<1>2. UNCHANGED <<queues, stage, requests, holder, granted>>
  BY DEF TakeMessages, data
<1>3. ToSet(batch) = {} /\ ToSet(messages') = {}
  BY <1>1, Elements DEF TypeInv, TypeOK
<1>4. InTransit' = InTransit
  BY <1>1, <1>3 DEF InTransit
<1>5. GrantsOnce(messages')
  BY <1>1 DEF GrantsOnce
<1>6. OnceInv' /\ CancelInv'
  BY <1>1, <1>2, <1>3, <1>4, <1>5 DEF GrantInv, OnceInv, CancelInv, GrantsOnce, Distinct
<1>7. QED
  BY <1>2, <1>4, <1>6 DEF GrantInv, TaskInv, PairInv, Asked, Told, queues

\* A grant that was posted once is gone when it is taken.
LEMMA GrantTaken ==
    ASSUME NEW s \in Seq(Message), s # <<>>, GrantsOnce(s)
    PROVE  /\ GrantsOnce(Tail(s))
           /\ Head(s).kind = "granted" => ToSet(Tail(s)) = ToSet(s) \ {Head(s)}
<1>1. /\ ToSet(s) = ToSet(Tail(s)) \cup {Head(s)} /\ Tail(s) \in Seq(Message)
  BY HeadTaken
<1>2. /\ Len(Tail(s)) = Len(s) - 1 /\ Len(s) \in Nat /\ Len(s) # 0
      /\ \A i \in 1..Len(Tail(s)) : Tail(s)[i] = s[i + 1]
  BY HeadTailProperties, EmptySeq, LenProperties
<1>3. GrantsOnce(Tail(s))
  BY <1>2 DEF GrantsOnce
<1>4. ASSUME Head(s).kind = "granted", Head(s) \in ToSet(Tail(s)) PROVE FALSE
  <2>1. PICK i \in 1..Len(Tail(s)) : Tail(s)[i] = Head(s)
    BY <1>1, <1>4, Elements
  <2>2. s[i + 1] = s[1] /\ i + 1 \in 1..Len(s) /\ s[1].kind = "granted"
    BY <1>2, <1>4, <2>1
  <2>3. QED
    BY <1>2, <2>2 DEF GrantsOnce
<1>5. QED
  BY <1>1, <1>3, <1>4

\* A grant reaches its task in fTaskList, which goes when it was the last one.
LEMMA GrantHandle ==
    ASSUME TypeInv, QueueInv, GrantInv, HandleGrant
    PROVE  GrantInv'
<1> DEFINE m == Head(batch)
           t == m.task
           p == m.object
<1>1. m \in Message /\ m \in ToSet(batch) /\ m.kind = "granted" /\ batch # <<>>
  BY HeadTaken DEF HandleGrant, TypeInv, TypeOK
<1>2. t \in Task /\ p \in Object /\ m = Grant(t, p)
  BY <1>1 DEF Message, Grant
<1>3. Told(t, p)
  BY <1>1, <1>2 DEF Told, InTransit
<1>4. p \in Needed(t) \ granted[t] /\ t \in taskList /\ holder[p] = t
  BY <1>2, <1>3 DEF GrantInv, PairInv
<1>5. UNCHANGED <<submitted, executing, messages, pc, stage, requests, holder>>
  BY DEF HandleGrant
<1>6. ToSet(batch') = ToSet(batch) \ {m} /\ GrantsOnce(batch')
  BY <1>1, GrantTaken DEF HandleGrant, TypeInv, TypeOK, GrantInv, OnceInv
<1>7. InTransit' = InTransit \ {m}
  BY <1>1, <1>5, <1>6 DEF InTransit, GrantInv, OnceInv
<1>8. granted' = [granted EXCEPT ![t] = granted[t] \cup {p}]
  BY <1>4 DEF HandleGrant
<1>9. \/ Needed(t) = granted[t] \cup {p} /\ taskList' = taskList \ {t}
         /\ ToSet(executable') = ToSet(executable) \cup {t}
      \/ taskList' = taskList /\ executable' = executable
  <2>1. CASE Needed(t) = granted[t] \cup {p}
    <3>1. executable' = Append(executable, t) /\ taskList' = taskList \ {t}
      BY <1>4, <2>1 DEF HandleGrant, CanExecute, Needed
    <3>2. QED
      BY <1>2, <2>1, <3>1, Appended DEF TypeInv, TypeOK
  <2>2. CASE Needed(t) # granted[t] \cup {p}
    BY <1>4, <2>2 DEF HandleGrant, CanExecute, Needed
  <2>3. QED
    BY <2>1, <2>2
<1>10. pc = "handle"
  BY DEF HandleGrant
<1> HIDE DEF m, t, p
<1>11. \A u \in Task : granted'[u] = IF u = t THEN granted[t] \cup {p} ELSE granted[u]
  BY <1>8 DEF TypeInv, TypeOK
<1>12. \A u, o : Told(u, o)' <=> Told(u, o) /\ ~(u = t /\ o = p)
  BY <1>2, <1>7 DEF Told, Grant
<1>13. \A u, o : Asked(u, o)' <=> Asked(u, o)
  BY <1>5 DEF Asked
<1>14. OnceInv' /\ CancelInv'
  <2>1. OnceInv'
    BY <1>5, <1>6, <1>10 DEF GrantInv, OnceInv
  <2>2. CancelInv'
    BY <1>7 DEF GrantInv, CancelInv
  <2>3. QED
    BY <2>1, <2>2
<1>15. t \notin ToSet(submitted) /\ t \notin ToSet(executing) /\ stage[t] = "queued"
  BY <1>2, <1>4 DEF QueueInv, InThread
<1>16. ASSUME NEW u \in Task PROVE TaskInv(u)'
  <2>1. TaskInv(u)
    BY DEF GrantInv
  <2>2. CASE u = t
    <3>1. granted'[u] = granted[u] \cup {p}
      BY <1>11, <2>2
    <3>2. granted'[u] \subseteq Needed(u)
      BY <1>4, <2>1, <2>2, <3>1 DEF TaskInv
    <3>3. stage'[u] \notin Outside \cup {"deleted"} /\ u \notin ToSet(submitted')
      BY <1>5, <1>15, <2>2 DEF Outside
    <3>4. u \in ToSet(executable') \cup ToSet(executing') => granted'[u] = Needed(u)
      <4>1. u \notin ToSet(executable)
        BY <1>4, <2>2 DEF QueueInv
      <4>2. QED
        BY <1>5, <1>9, <1>15, <2>2, <3>1, <4>1
    <3>5. u \in taskList' => u \in taskList
      BY <1>9
    <3>6. QED
      BY <1>5, <1>13, <2>1, <3>2, <3>3, <3>4, <3>5 DEF TaskInv
  <2>3. CASE u # t
    <3>1. granted'[u] = granted[u]
      BY <1>11, <2>3
    <3>2. /\ u \in ToSet(executable') <=> u \in ToSet(executable)
          /\ u \in taskList' <=> u \in taskList
      BY <1>9, <2>3
    <3>3. QED
      BY <1>5, <1>13, <2>1, <3>1, <3>2 DEF TaskInv
  <2>4. QED
    BY <2>2, <2>3
<1>17. ASSUME NEW u \in Task, NEW o \in Object PROVE PairInv(u, o)'
  <2>1. PairInv(u, o)
    BY DEF GrantInv
  <2>2. CASE u # t
    <3>1. granted'[u] = granted[u]
      BY <1>11, <2>2
    <3>2. u \in taskList' <=> u \in taskList
      BY <1>9, <2>2
    <3>3. Told(u, o)' <=> Told(u, o)
      BY <1>12, <2>2
    <3>4. QED
      BY <1>5, <1>13, <2>1, <3>1, <3>2, <3>3 DEF PairInv
  <2>3. CASE u = t /\ o = p
    <3>1. ~Told(u, o)' /\ o \in granted'[u] /\ holder'[o] = u /\ ~Asked(u, o)'
      BY <1>3, <1>4, <1>5, <1>11, <1>12, <1>13, <2>1, <2>3 DEF PairInv
    <3>2. stage'[u] \in Holding
      BY <1>5, <1>15, <2>3 DEF Holding
    <3>3. QED
      BY <3>1, <3>2 DEF PairInv
  <2>4. CASE u = t /\ o # p
    <3>1. o \in granted'[u] <=> o \in granted[u]
      BY <1>11, <2>4
    <3>2. Told(u, o)' <=> Told(u, o)
      BY <1>12, <2>4
    <3>3. u \in taskList' \/ o \notin Needed(u) \ granted[u]
      BY <1>4, <1>9, <2>4
    <3>4. QED
      BY <1>5, <1>13, <2>1, <3>1, <3>2, <3>3 DEF PairInv
  <2>5. QED
    BY <2>2, <2>3, <2>4
<1>18. QED
  BY <1>14, <1>16, <1>17 DEF GrantInv

\* A cancellation that takes no task leaves everything but its message as it was.
LEMMA GrantCancelled ==
    ASSUME TypeInv, QueueInv, GrantInv, HandleCancel, NobodyVanished'
    PROVE  GrantInv'
<1> DEFINE m == Head(batch)
<1>1. /\ m \in Message /\ m \in ToSet(batch) /\ m.kind = "cancel" /\ batch # <<>>
      /\ ToSet(batch) = ToSet(batch') \cup {m}
  BY HeadTaken DEF HandleCancel, TypeInv, TypeOK
<1> DEFINE out == {t \in taskList : Cancelled(t, m.object)}
<1>2. /\ taskList' = taskList \ out
      /\ stage' = [t \in Task |-> IF t \in out THEN "vanished" ELSE stage[t]]
      /\ holder' = [o \in Object |-> IF \E t \in out : o \in ToSet(Needs[t]) THEN NoTask
                                      ELSE holder[o]]
  BY DEF HandleCancel
<1>3. out = {}
  BY <1>2 DEF NobodyVanished, TypeInv, TypeOK
<1>4. UNCHANGED <<taskList, stage, holder>>
  BY <1>2, <1>3 DEF TypeInv, TypeOK
<1>5. UNCHANGED <<submitted, executable, executing, messages, pc, requests, granted>>
  BY DEF HandleCancel
<1>6. GrantsOnce(batch')
  BY <1>1, GrantTaken DEF HandleCancel, TypeInv, TypeOK, GrantInv, OnceInv
<1>7. InTransit' \subseteq InTransit /\ InTransit \subseteq InTransit' \cup {m}
  BY <1>1, <1>5 DEF InTransit
<1>8. pc = "handle"
  BY DEF HandleCancel
<1>9. OnceInv'
  BY <1>1, <1>5, <1>6, <1>8 DEF GrantInv, OnceInv
<1>10. CancelInv'
  BY <1>7 DEF GrantInv, CancelInv
<1> HIDE DEF m
<1>11. \A t, o : Told(t, o)' <=> Told(t, o)
  <2>1. \A t, o : Grant(t, o) # m
    BY <1>1 DEF Grant
  <2>2. QED
    BY <1>7, <2>1 DEF Told, Grant
<1>12. \A t, o : Asked(t, o)' <=> Asked(t, o)
  BY <1>5 DEF Asked
<1>13. QED
  BY <1>4, <1>5, <1>9, <1>10, <1>11, <1>12 DEF GrantInv, TaskInv, PairInv

\* An object is granted to a task that asked for it, and to nobody else.
LEMMA GrantGranted ==
    ASSUME TypeInv, QueueInv, GrantInv, NEW p \in Object, GrantAccess(p)
    PROVE  GrantInv'
<1>1. PICK i \in Pending(p) :
        /\ requests' = RemoveAt(requests, i)
        /\ holder' = [holder EXCEPT ![p] = requests[i][1]]
        /\ messages' = Append(messages, Grant(requests[i][1], p))
  BY DEF GrantAccess, Grant
<1> DEFINE t == requests[i][1]
           m == Grant(t, p)
<1>2. i \in 1..Len(requests) /\ requests[i][2] = p
  BY LenProperties DEF Pending, TypeInv, TypeOK
<1>3. requests[i] \in Task \X Object
  BY <1>2, ElementOfSeq DEF TypeInv, TypeOK
<1>4. t \in Task /\ requests[i] = <<t, p>>
  BY <1>2, <1>3
<1>5. /\ Distinct(requests') /\ ToSet(requests') = ToSet(requests) \ {<<t, p>>}
      /\ <<t, p>> \in ToSet(requests)
  <2>1. requests \in Seq(Task \X Object) /\ Distinct(requests)
    BY DEF TypeInv, TypeOK, GrantInv, OnceInv
  <2>2. /\ Distinct(requests') /\ ToSet(requests') = ToSet(requests) \ {requests[i]}
        /\ requests[i] \in ToSet(requests)
    BY <1>1, <1>2, <2>1, RemovedDistinct
  <2>3. QED
    BY <1>4, <2>2
<1>6. UNCHANGED <<queues, batch, pc, stage, granted>> /\ holder[p] = NoTask
  BY DEF GrantAccess, service
<1>7. m \in Message
  BY <1>4 DEF Grant, Message
<1>8. Asked(t, p) /\ ~Told(t, p) /\ p \in Needed(t) \ granted[t] /\ t \in taskList
  BY <1>4, <1>5 DEF Asked, GrantInv, PairInv
<1>9. stage[t] = "queued"
  BY <1>4, <1>8 DEF QueueInv
<1>10. m \notin ToSet(messages) /\ m \notin ToSet(batch)
  BY <1>8 DEF Told, InTransit
<1>11. messages' = Append(messages, m)
  BY <1>1
<1>12. \A u \in Object : holder'[u] = IF u = p THEN t ELSE holder[u]
  BY <1>1 DEF TypeInv, TypeOK
<1> HIDE DEF t, m
<1>13. ToSet(messages') = ToSet(messages) \cup {m} /\ GrantsOnce(messages')
  <2>1. ToSet(messages') = ToSet(messages) \cup {m}
    BY <1>7, <1>11, Appended DEF TypeInv, TypeOK
  <2>2. /\ Len(messages') = Len(messages) + 1 /\ messages'[Len(messages) + 1] = m
        /\ \A j \in 1..Len(messages) : messages'[j] = messages[j]
        /\ Len(messages) \in Nat
    BY <1>7, <1>11, AppendProperties, LenProperties DEF TypeInv, TypeOK
  <2>3. \A j \in 1..Len(messages) : messages[j] # m
    BY <1>10, Elements DEF TypeInv, TypeOK
  <2>4. GrantsOnce(messages)
    BY DEF GrantInv, OnceInv
  <2>5. QED
    BY <2>1, <2>2, <2>3, <2>4 DEF GrantsOnce
<1>14. InTransit' = InTransit \cup {m}
  BY <1>6, <1>13 DEF InTransit
<1>15. OnceInv'
  BY <1>5, <1>6, <1>10, <1>13 DEF GrantInv, OnceInv
<1>16. CancelInv'
  <2>1. m.kind # "cancel"
    BY DEF m, Grant
  <2>2. QED
    BY <1>14, <2>1 DEF GrantInv, CancelInv
<1>17. \A u, o : Asked(u, o)' <=> Asked(u, o) /\ ~(u = t /\ o = p)
  BY <1>5 DEF Asked
<1>18. \A u, o : Told(u, o)' <=> Told(u, o) \/ (u = t /\ o = p)
  BY <1>14 DEF Told, m, Grant
<1>19. ASSUME NEW u \in Task PROVE TaskInv(u)'
  <2>1. TaskInv(u)
    BY DEF GrantInv
  <2>2. \A o \in Object : Asked(u, o) \/ holder[o] = u => Asked(u, o)' \/ holder'[o] = u
    BY <1>6, <1>12, <1>17, TaskAssumption
  <2>3. Needed(u) \subseteq Object
    BY RequestsOfTask
  <2>4. QED
    BY <1>6, <2>1, <2>2, <2>3 DEF TaskInv, queues
<1>20. ASSUME NEW u \in Task, NEW o \in Object PROVE PairInv(u, o)'
  <2>1. PairInv(u, o) /\ UNCHANGED <<taskList, stage, granted>>
    BY <1>6 DEF GrantInv, queues
  <2>2. CASE o # p
    <3>1. /\ Asked(u, o)' <=> Asked(u, o)
          /\ Told(u, o)' <=> Told(u, o)
          /\ holder'[o] = holder[o]
      BY <1>12, <1>17, <1>18, <2>2
    <3>2. QED
      BY <2>1, <3>1 DEF PairInv
  <2>3. CASE o = p /\ u = t
    <3>1. ~Asked(u, o)' /\ Told(u, o)' /\ holder'[o] = u
      BY <1>12, <1>17, <1>18, <2>3
    <3>2. stage'[u] \in Holding /\ o \in Needed(u) \ granted'[u] /\ u \in taskList'
      BY <1>8, <1>9, <2>1, <2>3 DEF Holding
    <3>3. QED
      BY <3>1, <3>2 DEF PairInv
  <2>4. CASE o = p /\ u # t
    <3>1. /\ Asked(u, o)' <=> Asked(u, o)
          /\ Told(u, o)' <=> Told(u, o)
          /\ holder'[o] # u /\ holder[o] # u
      BY <1>6, <1>12, <1>17, <1>18, <2>4, TaskAssumption
    <3>2. QED
      BY <2>1, <3>1 DEF PairInv
  <2>5. QED
    BY <2>2, <2>3, <2>4
<1>21. QED
  BY <1>15, <1>16, <1>19, <1>20 DEF GrantInv

\* A request that is refused was a refusable task's.
LEMMA GrantRefused ==
    ASSUME TypeInv, QueueInv, GrantInv, NEW t \in Task, CancelTask(t)
    PROVE  GrantInv'
<1>1. PICK i \in DOMAIN requests :
        /\ requests[i][1] = t
        /\ requests' = RemoveAt(requests, i)
        /\ messages' = Append(messages,
                              [kind |-> "cancel", task |-> t, object |-> requests[i][2]])
  BY DEF CancelTask
<1> DEFINE p == requests[i][2]
           m == [kind |-> "cancel", task |-> t, object |-> p]
<1>2. i \in 1..Len(requests)
  BY LenProperties DEF TypeInv, TypeOK
<1>3. requests[i] \in Task \X Object
  BY <1>2, ElementOfSeq DEF TypeInv, TypeOK
<1>4. p \in Object /\ requests[i] = <<t, p>>
  BY <1>1, <1>3
<1>5. /\ Distinct(requests') /\ ToSet(requests') = ToSet(requests) \ {<<t, p>>}
      /\ <<t, p>> \in ToSet(requests)
  <2>1. requests \in Seq(Task \X Object) /\ Distinct(requests)
    BY DEF TypeInv, TypeOK, GrantInv, OnceInv
  <2>2. /\ Distinct(requests') /\ ToSet(requests') = ToSet(requests) \ {requests[i]}
        /\ requests[i] \in ToSet(requests)
    BY <1>1, <1>2, <2>1, RemovedDistinct
  <2>3. QED
    BY <1>4, <2>2
<1>6. UNCHANGED <<queues, batch, pc, stage, holder, granted>> /\ t \in Refusable
  BY DEF CancelTask, service
<1>7. m \in Message /\ m.kind = "cancel" /\ m.task = t /\ m.object = p
  BY <1>4 DEF Message
<1>8. p \in Needed(t)
  BY <1>4, <1>5 DEF Asked, GrantInv, PairInv
<1>9. messages' = Append(messages, m)
  BY <1>1
<1> HIDE DEF m, p
<1>10. ToSet(messages') = ToSet(messages) \cup {m} /\ GrantsOnce(messages')
  <2>1. ToSet(messages') = ToSet(messages) \cup {m}
    BY <1>7, <1>9, Appended DEF TypeInv, TypeOK
  <2>2. /\ Len(messages') = Len(messages) + 1 /\ messages'[Len(messages) + 1] = m
        /\ \A j \in 1..Len(messages) : messages'[j] = messages[j]
        /\ Len(messages) \in Nat
    BY <1>7, <1>9, AppendProperties, LenProperties DEF TypeInv, TypeOK
  <2>3. GrantsOnce(messages)
    BY DEF GrantInv, OnceInv
  <2>4. QED
    BY <1>7, <2>1, <2>2, <2>3 DEF GrantsOnce
<1>11. InTransit' = InTransit \cup {m}
  BY <1>6, <1>10 DEF InTransit
<1>12. OnceInv'
  BY <1>5, <1>6, <1>7, <1>10 DEF GrantInv, OnceInv
<1>13. CancelInv'
  BY <1>6, <1>7, <1>8, <1>11 DEF GrantInv, CancelInv
<1>14. \A u, o : Told(u, o)' <=> Told(u, o)
  BY <1>7, <1>11 DEF Told, Grant
<1>15. \A u, o : Asked(u, o)' <=> Asked(u, o) /\ ~(u = t /\ o = p)
  BY <1>5 DEF Asked
<1>16. ASSUME NEW u \in Task PROVE TaskInv(u)'
  <2>1. TaskInv(u) /\ UNCHANGED <<submitted, taskList, executable, executing, stage, granted>>
    BY <1>6 DEF GrantInv, queues
  <2>2. u \notin Refusable => \A o \in Needed(u) : Asked(u, o)' <=> Asked(u, o)
    BY <1>6, <1>15
  <2>3. QED
    BY <1>6, <2>1, <2>2 DEF TaskInv
<1>17. ASSUME NEW u \in Task, NEW o \in Object PROVE PairInv(u, o)'
  <2>1. PairInv(u, o)
    BY DEF GrantInv
  <2>2. QED
    BY <1>6, <1>14, <1>15, <2>1 DEF PairInv, queues
<1>18. QED
  BY <1>12, <1>13, <1>16, <1>17 DEF GrantInv

\* A task that is done gives up everything it held.
LEMMA GrantReleased ==
    ASSUME TypeInv, QueueInv, GrantInv, NEW t \in Task, Release(t)
    PROVE  GrantInv'
<1>1. UNCHANGED <<queues, requests, messages, batch, pc, granted>> /\ stage[t] = "running"
  BY DEF Release, service
<1>2. /\ \A u \in Task : stage'[u] = IF u = t THEN "released" ELSE stage[u]
      /\ \A o \in Object : holder'[o] = IF holder[o] = t THEN NoTask ELSE holder[o]
  BY DEF Release, TypeInv, TypeOK
<1>3. t \in ToSet(executing) /\ t \notin taskList /\ t \notin ToSet(submitted)
  BY <1>1 DEF QueueInv, InThread
<1>4. OnceInv' /\ CancelInv'
  BY <1>1 DEF GrantInv, OnceInv, CancelInv, InTransit
<1>5. ASSUME NEW u \in Task PROVE TaskInv(u)'
  <2>1. TaskInv(u) /\ Needed(u) \subseteq Object
    BY RequestsOfTask DEF GrantInv
  <2>2. u = t => stage'[u] = "released" /\ u \notin taskList
    BY <1>2, <1>3
  <2>3. u # t => stage'[u] = stage[u] /\ \A o \in Object : holder[o] = u => holder'[o] = u
    BY <1>2
  <2>4. QED
    BY <1>1, <1>3, <2>1, <2>2, <2>3 DEF TaskInv, Asked, queues, Outside
<1>6. ASSUME NEW u \in Task, NEW o \in Object PROVE PairInv(u, o)'
  <2>1. PairInv(u, o)
    BY DEF GrantInv
  <2>2. (Asked(u, o)' <=> Asked(u, o)) /\ (Told(u, o)' <=> Told(u, o))
    BY <1>1 DEF Asked, Told, InTransit
  <2>3. CASE u = t
    <3>1. ~Asked(u, o) /\ ~Told(u, o)
      BY <1>3, <2>1, <2>3 DEF PairInv
    <3>2. holder'[o] # u /\ stage'[u] \notin Holding
      BY <1>2, <2>3, TaskAssumption DEF Holding
    <3>3. QED
      BY <2>2, <3>1, <3>2 DEF PairInv
  <2>4. CASE u # t
    <3>1. stage'[u] = stage[u] /\ (holder'[o] = u <=> holder[o] = u)
      BY <1>2, <2>4, TaskAssumption
    <3>2. QED
      BY <1>1, <2>1, <2>2, <3>1 DEF PairInv, queues
  <2>5. QED
    BY <2>3, <2>4
<1>7. QED
  BY <1>4, <1>5, <1>6 DEF GrantInv

\* A task that a cancellation has taken stays away.
LEMMA VanishedStays ==
    ASSUME TypeInv, QueueInv, [Next]_vars, NobodyVanished'
    PROVE  NobodyVanished
<1> SUFFICES ASSUME NEW t \in Task, stage[t] = "vanished" PROVE FALSE
  BY DEF NobodyVanished
<1>1. Moves(t)
  BY StageMoves
<1>2. stage'[t] = "vanished"
  BY <1>1 DEF Moves, BeginSubmit, PushSubmitted, Execute, Release, Finish
<1>3. QED
  BY <1>2 DEF NobodyVanished

\* Every step keeps track of every request and of every grant, or takes a task.
LEMMA GrantNext ==
    ASSUME TypeInv, QueueInv, NothingLost, [Next]_vars
    PROVE  NothingLost'
<1>0. SUFFICES ASSUME NobodyVanished', GrantInv PROVE GrantInv'
  BY VanishedStays DEF NothingLost
<1>1. CASE Service
  BY <1>0, <1>1, GrantQuiet, GrantTransfer, GrantTake, GrantHandle, GrantCancelled DEF Service
<1>2. CASE UNCHANGED vars \/ MainStep
  BY <1>0, <1>2, GrantThreads
<1>3. CASE DataManagerStep
  BY <1>0, <1>3, GrantGranted DEF DataManagerStep
<1>4. ASSUME NEW t \in Task, Submit(t) \/ ThreadExec(t) \/ CancelTask(t) PROVE GrantInv'
  BY <1>0, <1>4, GrantThreads, GrantReleased, GrantRefused DEF Submit, ThreadExec
<1>5. QED
  BY <1>1, <1>2, <1>3, <1>4 DEF Next

\* A task that waits has its requests and its grants on the way to it, and what
\* is granted is with a task that is served; the main thread uses data that is
\* its wait task's.
LEMMA GrantsReach ==
    ASSUME TypeInv, QueueInv, WaitInv, NothingLost
    PROVE  GrantsReachTheirTask
<1>0. SUFFICES ASSUME GrantInv
               PROVE  /\ \A t \in Task : Abandoned(t) => t \in Refusable
                      /\ \A o \in Object : holder[o] # NoTask =>
                           \/ holder[o] \in taskList
                           \/ holder[o] \in ToSet(executable) \cup ToSet(executing)
                      /\ mainAt = "using" => \A o \in Needed(waited) : holder[o] = waited
  BY DEF NothingLost, GrantsReachTheirTask, Needed
<1>1. \A t, o : Told(t, o) => \E m \in ToSet(messages \o batch) :
                                 m.kind = "granted" /\ m.task = t /\ m.object = o
  <2>1. ToSet(messages \o batch) = InTransit
    BY Joined DEF InTransit, TypeInv, TypeOK
  <2>2. QED
    BY <2>1 DEF Told, Grant
<1>2. ASSUME NEW t \in Task, NEW o \in Needed(t), t \in taskList, t \notin Refusable
      PROVE  Waiting(t, o)
  <2>1. o \in Object
    BY RequestsOfTask
  <2>2. Asked(t, o) \/ holder[o] = t
    BY <1>0, <1>2 DEF GrantInv, TaskInv
  <2>3. holder[o] = t => Told(t, o) \/ o \in granted[t]
    BY <1>0, <2>1 DEF GrantInv, PairInv
  <2>4. QED
    BY <1>1, <2>2, <2>3 DEF Waiting, Asked
<1>3. ASSUME NEW o \in Object, holder[o] # NoTask
      PROVE  holder[o] \in taskList \cup ToSet(executable) \cup ToSet(executing)
  <2> DEFINE t == holder[o]
  <2>1. t \in Task
    BY <1>3 DEF TypeInv, TypeOK
  <2> HIDE DEF t
  <2>2. holder[o] = t
    BY DEF t
  <2>3. PairInv(t, o) /\ TaskInv(t)
    BY <1>0, <2>1 DEF GrantInv
  <2>4. stage[t] \in Holding /\ (t \in taskList \/ granted[t] # {})
    BY <2>2, <2>3 DEF PairInv
  <2>5. t \notin ToSet(submitted) \/ t \in taskList
    BY <2>3, <2>4 DEF TaskInv
  <2>6. t \in ToSet(submitted) \cup taskList \cup ToSet(executable) \cup ToSet(executing)
    BY <2>1, <2>4 DEF QueueInv, Holding, InThread
  <2>7. QED
    BY <2>2, <2>5, <2>6
<1>4. ASSUME mainAt = "using", NEW o \in Needed(waited) PROVE holder[o] = waited
  <2>1. waited \in Task /\ stage[waited] = "running" /\ o \in Object
    BY <1>4, RequestsOfTask DEF WaitInv, TypeInv
  <2>2. waited \in ToSet(executing)
    BY <2>1 DEF QueueInv, InThread
  <2>3. o \in granted[waited]
    BY <1>0, <1>4, <2>1, <2>2 DEF GrantInv, TaskInv
  <2>4. QED
    BY <1>0, <2>1, <2>3 DEF GrantInv, PairInv, Holding
<1>5. QED
  BY <1>2, <1>3, <1>4 DEF Abandoned, Needed, TypeInv, TypeOK

\* The invariants hold before anything is submitted.
LEMMA QueuesInit == Init => QueueInv /\ SubmitInv /\ WaitInv /\ NothingLost
<1> SUFFICES ASSUME Init PROVE QueueInv /\ SubmitInv /\ WaitInv /\ NothingLost
  OBVIOUS
<1>1. ToSet(<<>>) = {} /\ Len(<<>>) = 0
  BY DEF ToSet
<1>2. QueueInv
  BY <1>1 DEF Init, QueueInv, Distinct, InThread
<1>3. SubmitInv
  BY DEF Init, SubmitInv, MainTasks, Outside
<1>4. WaitInv
  BY DEF Init, WaitInv, Outside
<1>5. OnceInv /\ CancelInv
  BY <1>1 DEF Init, OnceInv, CancelInv, InTransit, Distinct, GrantsOnce
<1>6. \A t \in Task : TaskInv(t) /\ \A o \in Object : PairInv(t, o)
  BY <1>1, TaskAssumption
     DEF Init, TaskInv, PairInv, Asked, Told, InTransit, Outside, Holding
<1>7. QED
  BY <1>2, <1>3, <1>4, <1>5, <1>6 DEF GrantInv, NothingLost

\* Until a cancellation has taken a task, however tasks and objects are numbered,
\* no grant gets lost between the data manager, the messages and fTaskList, and
\* no object stays with a task that has gone (GrantsReachTheirTask).
THEOREM GrantsAreNotLost == Spec => []GrantsReachTheirTask
<1>1. TypeInv /\ QueueInv /\ NothingLost /\ [Next]_vars => NothingLost'
  BY GrantNext
<1>2. TypeInv /\ QueueInv /\ SubmitInv /\ WaitInv /\ [Next]_vars
        => QueueInv' /\ SubmitInv' /\ WaitInv'
  BY QueueNext, SubmitNext, WaitNext
<1>3. TypeInv /\ QueueInv /\ WaitInv /\ NothingLost => GrantsReachTheirTask
  BY GrantsReach
<1>4. QED
  BY <1>1, <1>2, <1>3, TypeInit, TypeNext, QueuesInit, PTL DEF Spec

-----------------------------------------------------------------------------
(* The end of the service thread                                           *)

\* When the flag is down and the queues are empty nobody submits any more: the
\* main thread is done, and every other submission is a running task's.
LEMMA NobodySubmits ==
    ASSUME TypeInv, QueueInv, SubmitInv, StopInv, pc = "stopped", NEW t \in Task
    PROVE  stage[t] \notin {"submitting", "queued"} \cup InThread
<1>1. ToSet(submitted) = {} /\ taskList = {} /\ ToSet(executable) = {} /\ ToSet(executing) = {}
  BY Elements DEF StopInv, TypeInv, TypeOK
<1>2. \A u \in Task : stage[u] \notin {"queued"} \cup InThread
  BY <1>1 DEF QueueInv
<1>3. ASSUME stage[t] = "submitting" PROVE FALSE
  <2>1. t \notin MainTasks
    BY <1>3 DEF StopInv, SubmitInv, MainIsDone, Outside
  <2>2. stage[Parent[t]] = "running" /\ Parent[t] \in Task
    BY <1>3, <2>1, TaskAssumption DEF SubmitInv, MainTasks
  <2>3. QED
    BY <1>2, <2>2 DEF InThread
<1>4. QED
  BY <1>2, <1>3

\* The test that ends the service thread cannot become wrong behind it.
LEMMA StopNext ==
    ASSUME TypeInv, QueueInv, SubmitInv, StopInv, [Next]_vars
    PROVE  StopInv'
<1> USE DEF queues, flags, main, data, service
<1>1. SUFFICES ASSUME pc' = "stopped"
               PROVE  /\ ~keepGoing' /\ submitted' = <<>> /\ taskList' = {}
                      /\ executable' = <<>> /\ executing' = <<>>
  BY DEF StopInv
<1>2. CASE Service
  <2>1. Test /\ ~KeepRunning
    BY <1>1, <1>2 DEF Service, Test, WaitWakeUpCall, TransferSubmittedTask, EndTransfer,
          TakeMessages, HandleGrant, HandleCancel, EndMessages, StartTask, EndTrigger, Pass, Join,
          EndScan, Scanning
  <2>2. QED
    BY <2>1 DEF Test, KeepRunning
<1>3. CASE ~Service
  <2>1. pc = "stopped"
    BY <1>1, <1>3 DEF vars, Next, MainStep, StartService, Wait, FinishWaiting, DataManagerStep,
          GrantAccess, Submit, ThreadExec, CancelTask, BeginSubmit, PushSubmitted, Execute,
          Release, Finish
  <2>2. \A t \in Task : ~PushSubmitted(t) /\ ~Execute(t)
    BY <2>1, NobodySubmits DEF PushSubmitted, Execute, InThread
  <2>3. UNCHANGED <<queues, keepGoing>>
    BY <1>3, <2>2 DEF vars, Next, MainStep, StartService, Wait, FinishWaiting, DataManagerStep,
          GrantAccess, Submit, ThreadExec, CancelTask, BeginSubmit, Release, Finish
  <2>4. QED
    BY <2>1, <2>3 DEF StopInv
<1>4. QED
  BY <1>2, <1>3

\* The service thread only ends when every task it has accepted has been joined,
\* or was taken by a cancellation, and if none was taken nobody holds an object
\* (StopsWithNothingLeft).
THEOREM StoppedWithNothingLeft == Spec => []StopsWithNothingLeft
<1> DEFINE Inv == TypeInv /\ QueueInv /\ SubmitInv /\ NothingLost /\ StopInv
<1>1. Init => Inv
  BY TypeInit, QueuesInit DEF Init, StopInv
<1>2. Inv /\ [Next]_vars => Inv'
  BY TypeNext, QueueNext, SubmitNext, GrantNext, StopNext
<1>3. Inv => StopsWithNothingLeft
  <2> SUFFICES ASSUME Inv, pc = "stopped"
               PROVE  /\ \A t \in Task : stage[t] \in {"new", "deleted", "joined", "vanished"}
                      /\ NobodyVanished => \A o \in Object : holder[o] = NoTask
    BY DEF StopsWithNothingLeft
  <2>1. \A t \in Task : stage[t] \notin {"submitting", "queued"} \cup InThread
    BY NobodySubmits
  <2>2. \A t \in Task : stage[t] \in {"new", "deleted", "joined", "vanished"}
    BY <2>1 DEF InThread, TypeInv, TypeOK, Stage
  <2>3. NobodyVanished => \A t \in Task, o \in Object : holder[o] # t
    BY <2>1 DEF NothingLost, GrantInv, PairInv, Holding, InThread
  <2>4. QED
    BY <2>2, <2>3 DEF TypeInv, TypeOK
<1>4. QED
  BY <1>1, <1>2, <1>3, PTL DEF Spec
=============================================================================
