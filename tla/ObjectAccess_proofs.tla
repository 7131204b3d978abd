------------------------ MODULE ObjectAccess_proofs ------------------------
(***************************************************************************)
(* Proofs that the object of DataManager is one object: in one place, with *)
(* the label of the last write, given to one writer or to readers, and not *)
(* to be waited for beside a version that is free.  They are about tasks   *)
(* that share a processor with the object, whatever they ask for, about    *)
(* writers of any version, wherever they run, and about writers that each  *)
(* name a version of their own, one on a processor: what other workloads   *)
(* do, DMRemoteReader and DMLateWriter show.                               *)
(***************************************************************************)
EXTENDS DataManager_proofs

\* Writers that all name any version, or writers in turn, one on a processor
AnyWriters == \A t \in Present : TaskMode[t] = "Write" /\ TaskVersion[t] = AnyVersion
InTurn == WritersInTurn /\ \A t, u \in Present : TaskProc[t] = TaskProc[u] => t = u
Migrating == AnyWriters \/ InTurn
Simple == OneProcessor \/ Migrating

-----------------------------------------------------------------------------
(* Messages that carry the object, in a queue                              *)

NoCarrier(s) == \A i \in DOMAIN s : ~IsCarrier(s[i])
OneCarrier(s, w) == \E i \in DOMAIN s : /\ IsCarrier(s[i]) /\ s[i].tag.version = w
                                        /\ \A j \in DOMAIN s : IsCarrier(s[j]) => j = i

\* r carries what s carries.
CarriesSame(r, s) == /\ NoCarrier(s) => NoCarrier(r)
                     /\ \A w : OneCarrier(s, w) => OneCarrier(r, w)

LEMMA SequencePlain ==
    ASSUME NEW S, NEW s \in Seq(S)
    PROVE  /\ Len(s) \in Nat /\ DOMAIN s = 1..Len(s) /\ \A i \in 1..Len(s) : s[i] \in S
           /\ \A m \in S : /\ Append(s, m) \in Seq(S) /\ DOMAIN Append(s, m) = 1..Len(s) + 1
                           /\ Append(s, m)[Len(s) + 1] = m
                           /\ \A i \in 1..Len(s) : Append(s, m)[i] = s[i]
           /\ s # <<>> => /\ Len(s) # 0 /\ Head(s) = s[1] /\ Tail(s) \in Seq(S)
                          /\ DOMAIN Tail(s) = 1..Len(s) - 1
                          /\ \A i \in 1..Len(s) - 1 : Tail(s)[i] = s[i + 1]
<1>1. Len(s) \in Nat /\ DOMAIN s = 1..Len(s) /\ \A i \in 1..Len(s) : s[i] \in S
  BY LenProperties, ElementOfSeq
<1>2. ASSUME NEW m \in S
      PROVE  /\ Append(s, m) \in Seq(S) /\ DOMAIN Append(s, m) = 1..Len(s) + 1
             /\ Append(s, m)[Len(s) + 1] = m
             /\ \A i \in 1..Len(s) : Append(s, m)[i] = s[i]
  BY <1>1, AppendProperties, LenProperties
<1>3. ASSUME s # <<>>
      PROVE  /\ Len(s) # 0 /\ Head(s) = s[1] /\ Tail(s) \in Seq(S)
             /\ DOMAIN Tail(s) = 1..Len(s) - 1
             /\ \A i \in 1..Len(s) - 1 : Tail(s)[i] = s[i + 1]
  BY <1>1, <1>3, HeadTailProperties, LenProperties, EmptySeq
<1>4. QED
  BY <1>1, <1>2, <1>3

LEMMA AppendCarrier ==
    ASSUME NEW s \in Seq(Message), NEW m \in Message
    PROVE  /\ ~IsCarrier(m) => CarriesSame(Append(s, m), s)
           /\ NoCarrier(s) /\ IsCarrier(m) => OneCarrier(Append(s, m), m.tag.version)
           /\ s # <<>> => Head(Append(s, m)) = Head(s)
<1> DEFINE r == Append(s, m)
<1>1. /\ Len(s) \in Nat /\ DOMAIN s = 1..Len(s) /\ DOMAIN r = 1..Len(s) + 1
      /\ r[Len(s) + 1] = m /\ \A i \in 1..Len(s) : r[i] = s[i]
  BY SequencePlain
<1>2. r \in Seq(Message) /\ r # <<>> /\ Head(r) = r[1]
  BY SequencePlain, AppendProperties
<1>3. s # <<>> => Head(s) = s[1] /\ 1 \in 1..Len(s)
  BY <1>1, SequencePlain
<1> HIDE DEF r
<1>4. s # <<>> => Head(r) = Head(s)
  BY <1>1, <1>2, <1>3
<1>5. ASSUME ~IsCarrier(m) PROVE CarriesSame(r, s)
  <2>1. \A i \in DOMAIN r : IsCarrier(r[i]) => i \in DOMAIN s /\ IsCarrier(s[i])
    BY <1>1, <1>5
  <2>2. \A i \in DOMAIN s : i \in DOMAIN r /\ r[i] = s[i]
    BY <1>1
  <2>3. QED
    BY <2>1, <2>2, Zenon DEF CarriesSame, NoCarrier, OneCarrier
<1>6. ASSUME NoCarrier(s), IsCarrier(m) PROVE OneCarrier(r, m.tag.version)
  <2>1. \A i \in DOMAIN r : IsCarrier(r[i]) => i = Len(s) + 1
    BY <1>1, <1>6 DEF NoCarrier
  <2>2. Len(s) + 1 \in DOMAIN r
    BY <1>1
  <2>3. QED
    BY <1>1, <1>6, <2>1, <2>2 DEF OneCarrier
<1>7. QED
  BY <1>4, <1>5, <1>6 DEF r

LEMMA TailCarrier ==
    ASSUME NEW s \in Seq(Message), s # <<>>
    PROVE  /\ ~IsCarrier(Head(s)) => CarriesSame(Tail(s), s)
           /\ NoCarrier(s) => ~IsCarrier(Head(s))
           /\ \A w : OneCarrier(s, w) /\ IsCarrier(Head(s)) =>
                       NoCarrier(Tail(s)) /\ Head(s).tag.version = w
<1> DEFINE r == Tail(s)
<1>1. /\ Len(s) \in Nat /\ Len(s) # 0 /\ DOMAIN s = 1..Len(s) /\ DOMAIN r = 1..Len(s) - 1
      /\ Head(s) = s[1] /\ \A i \in 1..Len(s) - 1 : r[i] = s[i + 1]
  BY SequencePlain
<1> HIDE DEF r
<1>2. /\ \A i \in DOMAIN r : i + 1 \in DOMAIN s /\ r[i] = s[i + 1] /\ i + 1 # 1 /\ i \in Int
      /\ \A i \in DOMAIN s : i # 1 => i - 1 \in DOMAIN r /\ r[i - 1] = s[i] /\ i \in Int
      /\ 1 \in DOMAIN s
  BY <1>1
<1>3. NoCarrier(s) => ~IsCarrier(Head(s))
  BY <1>1, <1>2 DEF NoCarrier
<1>4. ASSUME NEW w, OneCarrier(s, w), IsCarrier(Head(s))
      PROVE  NoCarrier(r) /\ Head(s).tag.version = w
  <2>1. PICK i \in DOMAIN s : /\ IsCarrier(s[i]) /\ s[i].tag.version = w
                              /\ \A j \in DOMAIN s : IsCarrier(s[j]) => j = i
    BY <1>4 DEF OneCarrier
  <2>2. i = 1
    BY <1>1, <1>2, <1>4, <2>1
  <2>3. \A j \in DOMAIN r : ~IsCarrier(r[j])
    BY <1>2, <2>1, <2>2
  <2>4. QED
    BY <1>1, <2>1, <2>2, <2>3 DEF NoCarrier
<1>5. ASSUME ~IsCarrier(Head(s)) PROVE CarriesSame(r, s)
  <2>1. NoCarrier(s) => NoCarrier(r)
    BY <1>2 DEF NoCarrier
  <2>2. ASSUME NEW w, OneCarrier(s, w) PROVE OneCarrier(r, w)
    <3>1. PICK i \in DOMAIN s : /\ IsCarrier(s[i]) /\ s[i].tag.version = w
                                /\ \A j \in DOMAIN s : IsCarrier(s[j]) => j = i
      BY <2>2 DEF OneCarrier
    <3>2. i # 1 /\ i - 1 \in DOMAIN r /\ r[i - 1] = s[i]
      BY <1>1, <1>2, <1>5, <3>1
    <3>3. ASSUME NEW j \in DOMAIN r, IsCarrier(r[j]) PROVE j = i - 1
      <4>1. j + 1 = i /\ j \in Int /\ i \in Int
        BY <1>2, <3>1, <3>2, <3>3
      <4>2. QED
        BY <4>1
    <3>4. QED
      BY <3>1, <3>2, <3>3 DEF OneCarrier
  <2>3. QED
    BY <2>1, <2>2 DEF CarriesSame
<1>6. QED
  BY <1>3, <1>4, <1>5 DEF r

LEMMA DroppedCarrier ==
    ASSUME NEW s \in Seq(Message), NEW h
    PROVE  /\ CarriesSame(MessagesWithout(s, h), s)
           /\ s # <<>> => Head(MessagesWithout(s, h)).kind = Head(s).kind
<1> DEFINE r == MessagesWithout(s, h)
<1>1. /\ Len(s) \in Nat /\ DOMAIN s = 1..Len(s) /\ \A i \in 1..Len(s) : s[i] \in Message
      /\ s # <<>> => Len(s) # 0 /\ Head(s) = s[1]
  BY SequencePlain
<1>2. /\ DOMAIN r = DOMAIN s
      /\ \A i \in DOMAIN s : r[i].kind = s[i].kind /\ r[i].tag = s[i].tag
  BY <1>1 DEF MessagesWithout, Message
<1>3. s # <<>> => Head(r) = r[1]
  <2>1. \A m \in Message : [m EXCEPT !.refs = @ \ {h}] \in Message
    BY DEF Message
  <2>2. r \in [1..Len(s) -> Message]
    BY <1>1, <2>1 DEF MessagesWithout
  <2>3. r \in Seq(Message) /\ Len(r) = Len(s)
    BY <1>1, <2>2, SeqDef
  <2>4. s # <<>> => r # <<>>
    BY <1>1, <2>3, EmptySeq
  <2>5. QED
    BY <2>3, <2>4, HeadTailProperties
<1> HIDE DEF r
<1>4. \A i \in DOMAIN s : IsCarrier(r[i]) <=> IsCarrier(s[i])
  BY <1>2 DEF IsCarrier
<1>5. CarriesSame(r, s)
  BY <1>2, <1>4 DEF CarriesSame, NoCarrier, OneCarrier
<1>6. QED
  BY <1>1, <1>2, <1>3, <1>5 DEF r

\* An owner task in the network carries the object in its first message.
LEMMA SentCarrier ==
    ASSUME NEW s \in Seq(Message), NoCarrier(s), NEW tag \in Unnamed, tag.version \in Nat,
           NEW n \in Nat, NEW q \in [1..n -> Unnamed]
    PROVE  OneCarrier(s \o OwnerTask(tag, q), tag.version)
<1> DEFINE o == <<[kind |-> "owner", tag |-> tag, refs |-> {}]>>
           r == [i \in DOMAIN q |-> Request(q[i])]
           d == <<[kind |-> "dispose", tag |-> tag, refs |-> {}]>>
           t == OwnerTask(tag, q)
<1>1. t \in Seq(Message) /\ t = (o \o r) \o d
  BY OwnerTaskType, SubTypes, ProcAssumption DEF OwnerTask
<1>2. /\ [kind |-> "owner", tag |-> tag, refs |-> {}] \in Message
      /\ [kind |-> "dispose", tag |-> tag, refs |-> {}] \in Message
      /\ \A x \in Unnamed : Request(x) \in Message /\ ~IsCarrier(Request(x))
  BY DEF Unnamed, Message, Request, IsCarrier
<1>3. r \in [1..n -> Message] /\ \A i \in 1..n : ~IsCarrier(r[i])
  <2>1. DOMAIN q = 1..n
    OBVIOUS
  <2>2. QED
    BY <1>2, <2>1
<1>4. r \in Seq(Message) /\ Len(r) = n /\ o \in Seq(Message) /\ d \in Seq(Message)
      /\ Len(o) = 1 /\ o[1] = [kind |-> "owner", tag |-> tag, refs |-> {}]
      /\ Len(d) = 1 /\ d[1] = [kind |-> "dispose", tag |-> tag, refs |-> {}]
  BY <1>2, <1>3, SeqDef
<1>5. /\ o[1].kind = "owner" /\ o[1].tag = tag /\ ~IsCarrier(d[1])
  BY <1>4 DEF IsCarrier
<1> HIDE DEF o, r, d, t
<1>6. o \o r \in Seq(Message) /\ Len(o \o r) = n + 1
      /\ \A i \in 1..n + 1 : (o \o r)[i] = IF i <= 1 THEN o[i] ELSE r[i - 1]
  <2>1. /\ o \o r \in Seq(Message) /\ Len(o \o r) = Len(o) + Len(r)
        /\ \A i \in 1..Len(o) + Len(r) :
             (o \o r)[i] = IF i <= Len(o) THEN o[i] ELSE r[i - Len(o)]
    BY <1>4, ConcatProperties
  <2>2. Len(o) + Len(r) = n + 1 /\ Len(o) = 1
    BY <1>4
  <2>3. QED
    BY <2>1, <2>2
<1>7. Len(t) = n + 2 /\ \A i \in 1..n + 2 : t[i] = IF i <= n + 1 THEN (o \o r)[i] ELSE d[i - (n + 1)]
  <2>1. /\ Len(t) = Len(o \o r) + Len(d)
        /\ \A i \in 1..Len(o \o r) + Len(d) :
             t[i] = IF i <= Len(o \o r) THEN (o \o r)[i] ELSE d[i - Len(o \o r)]
    BY <1>1, <1>4, <1>6, ConcatProperties
  <2>2. Len(o \o r) + Len(d) = n + 2
    BY <1>4, <1>6
  <2>3. QED
    BY <1>6, <2>1, <2>2
<1>8. t[1] = o[1]
  <2>1. 1 \in 1..n + 2 /\ 1 \in 1..n + 1 /\ 1 <= n + 1 /\ 1 <= 1
    OBVIOUS
  <2>2. t[1] = (o \o r)[1]
    BY <1>7, <2>1
  <2>3. (o \o r)[1] = o[1]
    BY <1>6, <2>1
  <2>4. QED
    BY <2>2, <2>3
<1>9. ASSUME NEW i \in 1..n + 2, i # 1 PROVE ~IsCarrier(t[i])
  <2>1. CASE i <= n + 1
    <3>1. i - 1 \in 1..n /\ i \in 1..n + 1 /\ ~(i <= 1)
      BY <1>9, <2>1
    <3>2. t[i] = r[i - 1]
      BY <1>6, <1>7, <2>1, <3>1
    <3>3. QED
      BY <1>3, <3>1, <3>2 DEF r
  <2>2. CASE ~(i <= n + 1)
    <3>1. i - (n + 1) = 1
      BY <1>9, <2>2
    <3>2. QED
      BY <1>5, <1>7, <2>2, <3>1
  <2>3. QED
    BY <2>1, <2>2
<1> DEFINE u == s \o t
<1>10. /\ DOMAIN u = 1..Len(s) + (n + 2) /\ Len(s) \in Nat /\ DOMAIN s = 1..Len(s)
       /\ \A i \in 1..Len(s) + (n + 2) : u[i] = IF i <= Len(s) THEN s[i] ELSE t[i - Len(s)]
  <2>1. /\ u \in Seq(Message) /\ Len(u) = Len(s) + Len(t)
        /\ \A i \in 1..Len(s) + Len(t) : u[i] = IF i <= Len(s) THEN s[i] ELSE t[i - Len(s)]
    BY <1>1, ConcatProperties
  <2>2. DOMAIN u = 1..Len(u) /\ Len(s) \in Nat /\ DOMAIN s = 1..Len(s)
    BY <2>1, LenProperties
  <2>3. QED
    BY <1>7, <2>1, <2>2
<1> HIDE DEF u
<1>11. u[Len(s) + 1] = o[1] /\ Len(s) + 1 \in DOMAIN u
  BY <1>8, <1>10
<1>12. ASSUME NEW i \in DOMAIN u, IsCarrier(u[i]) PROVE i = Len(s) + 1
  <2>1. CASE i <= Len(s)
    <3>1. i \in DOMAIN s /\ u[i] = s[i]
      BY <1>10, <2>1
    <3>2. QED
      BY <1>12, <3>1 DEF NoCarrier
  <2>2. CASE ~(i <= Len(s))
    <3>1. i - Len(s) \in 1..n + 2 /\ u[i] = t[i - Len(s)]
      BY <1>10, <2>2
    <3>2. i - Len(s) = 1
      BY <1>9, <1>12, <3>1
    <3>3. QED
      BY <1>10, <3>2
  <2>3. QED
    BY <2>1, <2>2
<1>13. IsCarrier(u[Len(s) + 1]) /\ u[Len(s) + 1].tag.version = tag.version
  BY <1>5, <1>11 DEF IsCarrier
<1>14. QED
  BY <1>11, <1>12, <1>13 DEF OneCarrier, u, t

-----------------------------------------------------------------------------
(* Where the object is                                                     *)

\* In the map of its keeper, there with its owner message still in hand, in the
\* keeper's message queue, on the network, or with a writer
Place == {"map", "submitted", "queue", "net", "hand"}

Submitting(p) == pc[p] \in {"nested", "settle"}
Elsewhere(k) == \A p \in Proc \ {k} : /\ copies[p] = {} /\ ~Submitting(p)
                                      /\ NoCarrier(dmq[p]) /\ NoCarrier(net[p])
MapIs(k, place, w) ==
    /\ place \in {"map", "submitted"} =>
         \E c \in Copy : /\ copies[k] = {c} /\ c.label = w
                         /\ place = "submitted" => Handler \in c.refs
    /\ place \notin {"map", "submitted"} => copies[k] = {}
QueueIs(k, place, w) ==
    /\ place \in {"queue", "submitted"} => OneCarrier(dmq[k], w)
    /\ place \notin {"queue", "submitted"} => NoCarrier(dmq[k])
NetIs(k, place, w) == IF place = "net" THEN OneCarrier(net[k], w) ELSE NoCarrier(net[k])
HandIs(k, place, w) ==
    /\ \A t \in Task : Writing(t) => place = "hand" /\ TaskProc[t] = k /\ got[t] = w
    /\ place = "hand" => \E t \in Task : Writing(t) /\ \A u \in Task : Writing(u) => u = t
ServiceIs(k, place) ==
    /\ Submitting(k) <=> place = "submitted"
    /\ place = "submitted" => dmq[k] # <<>> /\ IsCarrier(Head(dmq[k]))

KeptBy(k, place, w) == /\ Elsewhere(k) /\ MapIs(k, place, w) /\ QueueIs(k, place, w)
                       /\ NetIs(k, place, w) /\ HandIs(k, place, w) /\ ServiceIs(k, place)

ObjectInv == \E k \in Proc, place \in Place : KeptBy(k, place, WritesDone)

\* Steps that leave the object where it is: the maps and queues carry what they
\* carried, and the same writer writes.
MapsKept == \A p \in Proc :
    /\ copies[p] = {} => copies'[p] = {}
    /\ \A c \in Copy : copies[p] = {c} =>
         \E d \in Copy : /\ copies'[p] = {d} /\ d.label = c.label
                         /\ Handler \in c.refs => Handler \in d.refs
QueuesKept == \A p \in Proc : /\ CarriesSame(dmq'[p], dmq[p]) /\ CarriesSame(net'[p], net[p])
                              /\ Submitting(p)' <=> Submitting(p)
                              /\ Submitting(p) /\ dmq[p] # <<>> /\ IsCarrier(Head(dmq[p])) =>
                                   dmq'[p] # <<>> /\ IsCarrier(Head(dmq'[p]))
HandsKept == \A t \in Task : /\ Writing(t)' <=> Writing(t)
                             /\ Writing(t) => got'[t] = got[t]

LEMMA ObjectStays ==
    ASSUME NEW k \in Proc, NEW place \in Place, NEW w, KeptBy(k, place, w),
           MapsKept, QueuesKept, HandsKept
    PROVE  KeptBy(k, place, w)'
<1> USE DEF KeptBy
<1>1. Elsewhere(k)'
  BY DEF Elsewhere, MapsKept, QueuesKept, CarriesSame, Submitting, NoCarrier, IsCarrier
<1>2. MapIs(k, place, w)'
  <2>1. CASE place \in {"map", "submitted"}
    <3>1. PICK c \in Copy : /\ copies[k] = {c} /\ c.label = w
                            /\ place = "submitted" => Handler \in c.refs
      BY <2>1 DEF MapIs
    <3>2. QED
      BY <2>1, <3>1 DEF MapIs, MapsKept
  <2>2. CASE place \notin {"map", "submitted"}
    BY <2>2 DEF MapIs, MapsKept
  <2>3. QED
    BY <2>1, <2>2
<1>3. QueueIs(k, place, w)' /\ NetIs(k, place, w)'
  <2>1. CarriesSame(dmq'[k], dmq[k]) /\ CarriesSame(net'[k], net[k])
    BY DEF QueuesKept
  <2>2. QED
    BY <2>1 DEF QueueIs, NetIs, CarriesSame, NoCarrier, OneCarrier, IsCarrier
<1>4. HandIs(k, place, w)'
  BY DEF HandIs, HandsKept
<1>5. ServiceIs(k, place)'
  BY DEF ServiceIs, QueuesKept, Submitting, IsCarrier
<1>6. QED
  BY <1>1, <1>2, <1>3, <1>4, <1>5

\* Parts of such steps
DmqKept == \A p \in Proc : /\ CarriesSame(dmq'[p], dmq[p])
                           /\ Submitting(p) /\ dmq[p] # <<>> /\ IsCarrier(Head(dmq[p])) =>
                                dmq'[p] # <<>> /\ IsCarrier(Head(dmq'[p]))
NetKept == \A p \in Proc : CarriesSame(net'[p], net[p])
PcKept == \A p \in Proc : Submitting(p)' <=> Submitting(p)

LEMMA UnchangedKept ==
    /\ UNCHANGED copies => MapsKept
    /\ UNCHANGED dmq => DmqKept
    /\ UNCHANGED net => NetKept
    /\ UNCHANGED pc => PcKept
    /\ UNCHANGED <<phase, got>> => HandsKept
    /\ DmqKept /\ NetKept /\ PcKept => QueuesKept
<1>1. \A s : CarriesSame(s, s)
  BY DEF CarriesSame
<1>2. UNCHANGED dmq => DmqKept
  BY <1>1 DEF DmqKept
<1>3. UNCHANGED net => NetKept
  BY <1>1 DEF NetKept
<1>4. UNCHANGED copies => MapsKept
  BY DEF MapsKept
<1>5. UNCHANGED pc => PcKept
  BY DEF PcKept, Submitting
<1>6. UNCHANGED <<phase, got>> => HandsKept
  BY DEF HandsKept, Writing
<1>7. DmqKept /\ NetKept /\ PcKept => QueuesKept
  BY DEF DmqKept, NetKept, PcKept, QueuesKept
<1>8. QED
  BY <1>2, <1>3, <1>4, <1>5, <1>6, <1>7

\* Letting a pointer go
LEMMA DropKept ==
    ASSUME TypeInv, NEW q \in Proc, NEW h, h # Handler, DropPointer(q, h)
    PROVE  MapsKept /\ DmqKept
<1>0. copies \in [Proc -> SUBSET Copy] /\ dmq \in [Proc -> Seq(Message)]
  BY DEF TypeInv, PlainTypes, DmqTypes
<1>1. copies' = [copies EXCEPT ![q] = WithoutHolder(@, h)]
      /\ dmq' = [dmq EXCEPT ![q] = MessagesWithout(@, h)]
  BY DEF DropPointer
<1>2. MapsKept
  <2>1. WithoutHolder({}, h) = {}
    BY DEF WithoutHolder
  <2>2. ASSUME NEW c \in Copy
        PROVE  \E d \in Copy : /\ WithoutHolder({c}, h) = {d} /\ d.label = c.label
                               /\ Handler \in c.refs => Handler \in d.refs
    <3> DEFINE d == [c EXCEPT !.refs = @ \ {h}]
    <3>1. d \in Copy /\ d.label = c.label /\ (Handler \in c.refs => Handler \in d.refs)
      BY DEF Copy
    <3>2. WithoutHolder({c}, h) = {d}
      BY DEF WithoutHolder
    <3>3. QED
      BY <3>1, <3>2
  <2>3. ASSUME NEW p \in Proc
        PROVE  /\ copies[p] = {} => copies'[p] = {}
               /\ \A c \in Copy : copies[p] = {c} =>
                    \E d \in Copy : /\ copies'[p] = {d} /\ d.label = c.label
                                    /\ Handler \in c.refs => Handler \in d.refs
    <3>1. CASE p = q
      <4>1. copies'[p] = WithoutHolder(copies[p], h)
        BY <1>0, <1>1, <3>1
      <4>2. QED
        BY <2>1, <2>2, <4>1
    <3>2. CASE p # q
      BY <1>0, <1>1, <3>2
    <3>3. QED
      BY <3>1, <3>2
  <2>4. QED
    BY <2>3 DEF MapsKept
<1>3. DmqKept
  <2>1. /\ CarriesSame(MessagesWithout(dmq[q], h), dmq[q])
        /\ dmq[q] # <<>> => Head(MessagesWithout(dmq[q], h)).kind = Head(dmq[q]).kind
    BY <1>0, DroppedCarrier
  <2>2. \A p \in Proc : dmq[p] # <<>> => dmq'[p] # <<>>
    BY DropPointerTypes
  <2>3. \A s : CarriesSame(s, s)
    BY DEF CarriesSame
  <2>4. ASSUME NEW p \in Proc
        PROVE  /\ CarriesSame(dmq'[p], dmq[p])
               /\ dmq[p] # <<>> => Head(dmq'[p]).kind = Head(dmq[p]).kind
    <3>1. CASE p = q
      BY <1>0, <1>1, <2>1, <3>1
    <3>2. CASE p # q
      BY <1>0, <1>1, <2>3, <3>2
    <3>3. QED
      BY <3>1, <3>2
  <2>5. QED
    BY <2>2, <2>4 DEF DmqKept, IsCarrier
<1>4. QED
  BY <1>2, <1>3

\* A message that does not carry the object, put at the end of a queue
LEMMA AppendKept ==
    ASSUME TypeInv, NEW q \in Proc, NEW m \in Message, ~IsCarrier(m)
    PROVE  /\ dmq' = [dmq EXCEPT ![q] = Append(@, m)] => DmqKept
           /\ net' = [net EXCEPT ![q] = Append(@, m)] => NetKept
<1>0. /\ dmq \in [Proc -> Seq(Message)] /\ dmq[q] \in Seq(Message)
      /\ net \in [Proc -> Seq(Packet)] /\ net[q] \in Seq(Message)
  BY QueueTypes DEF TypeInv, DmqTypes, NetTypes
<1>1. /\ CarriesSame(Append(dmq[q], m), dmq[q])
      /\ dmq[q] # <<>> => Head(Append(dmq[q], m)) = Head(dmq[q])
      /\ CarriesSame(Append(net[q], m), net[q])
  BY <1>0, AppendCarrier
<1>2. \A s : CarriesSame(s, s)
  BY DEF CarriesSame
<1>3. Append(dmq[q], m) # <<>>
  BY <1>0, AppendProperties
<1>4. ASSUME dmq' = [dmq EXCEPT ![q] = Append(@, m)] PROVE DmqKept
  BY <1>0, <1>1, <1>2, <1>3, <1>4 DEF DmqKept
<1>5. ASSUME net' = [net EXCEPT ![q] = Append(@, m)] PROVE NetKept
  BY <1>0, <1>1, <1>2, <1>5 DEF NetKept
<1>6. QED
  BY <1>4, <1>5

\* A message that does not carry the object, taken from the front of one
LEMMA TailKept ==
    ASSUME TypeInv, NEW q \in Proc
    PROVE  /\ dmq[q] # <<>> /\ ~IsCarrier(Head(dmq[q])) /\ dmq' = [dmq EXCEPT ![q] = Tail(@)]
                => DmqKept
           /\ net[q] # <<>> /\ ~IsCarrier(Head(net[q])) /\ net' = [net EXCEPT ![q] = Tail(@)]
                => NetKept
<1>0. /\ dmq \in [Proc -> Seq(Message)] /\ dmq[q] \in Seq(Message)
      /\ net \in [Proc -> Seq(Packet)] /\ net[q] \in Seq(Message)
  BY QueueTypes DEF TypeInv, DmqTypes, NetTypes
<1>1. \A s : CarriesSame(s, s)
  BY DEF CarriesSame
<1>2. ASSUME dmq[q] # <<>>, ~IsCarrier(Head(dmq[q])), dmq' = [dmq EXCEPT ![q] = Tail(@)]
      PROVE  DmqKept
  <2>1. CarriesSame(Tail(dmq[q]), dmq[q])
    BY <1>0, <1>2, TailCarrier
  <2>2. QED
    BY <1>0, <1>1, <1>2, <2>1 DEF DmqKept
<1>3. ASSUME net[q] # <<>>, ~IsCarrier(Head(net[q])), net' = [net EXCEPT ![q] = Tail(@)]
      PROVE  NetKept
  <2>1. CarriesSame(Tail(net[q]), net[q])
    BY <1>0, <1>3, TailCarrier
  <2>2. QED
    BY <1>0, <1>1, <1>3, <2>1 DEF NetKept
<1>4. QED
  BY <1>2, <1>3

-----------------------------------------------------------------------------
(* The object through the steps of tasks and of threads                    *)

\* What a processor files with another is for writing, and in time; its own
\* pending requests are its tasks'.
NotBehind(version, w) == version = AnyVersion \/ version >= w
Plain == \A p \in Proc : \A i \in DOMAIN acc[p] :
            IF acc[p][i].proc = p THEN acc[p][i].task # NoTask
            ELSE acc[p][i].mode = "Write" /\ NotBehind(acc[p][i].version, WritesDone)

\* A writer's data hold the object from the write on; no other step of a task
\* moves it.
LEMMA ObjectTaskStep ==
    ASSUME TypeInv, NEW k \in Proc, NEW place \in Place, NEW w, KeptBy(k, place, w),
           NEW u \in Task, TaskStep(u)
    PROVE  IF PostData(u) THEN KeptBy(k, "queue", w + 1)' ELSE KeptBy(k, place, w)'
<1> DEFINE q == TaskProc[u]
<1>0. /\ q \in Proc /\ TaskMode[u] \in Mode /\ TaskVersion[u] \in Nat \cup {AnyVersion}
      /\ dmq \in [Proc -> Seq(Message)] /\ got \in [Task -> Nat] /\ phase \in [Task -> Phase]
  BY TaskAssumption DEF TypeInv, DmqTypes, PlainTypes
<1>1. CASE PostRequests(u)
  <2> DEFINE m == Request([task |-> u, proc |-> q, mode |-> TaskMode[u],
                           version |-> TaskVersion[u]])
  <2>1. m \in Message /\ ~IsCarrier(m)
    BY <1>0 DEF Request, Message, Tag, IsCarrier
  <2>2. dmq' = [dmq EXCEPT ![q] = Append(@, m)] /\ UNCHANGED <<copies, net, pc, got>>
        /\ phase[u] = "submitted" /\ phase' = [phase EXCEPT ![u] = "waiting"]
    BY <1>1 DEF PostRequests
  <2>3. ~PostData(u)
    BY <2>2 DEF PostData
  <2>4. HandsKept
    BY <1>0, <2>2 DEF HandsKept, Writing
  <2> HIDE DEF m
  <2>5. DmqKept
    BY <1>0, <2>1, <2>2, AppendKept
  <2>6. QED
    BY <2>2, <2>3, <2>4, <2>5, UnchangedKept, ObjectStays
<1>2. CASE PostData(u)
  <2> DEFINE m == Data(q, got[u] + 1, {u})
  <2>1. /\ Writing(u) /\ dmq' = [dmq EXCEPT ![q] = Append(@, m)]
        /\ UNCHANGED <<copies, net, pc, got>> /\ phase' = [phase EXCEPT ![u] = "posting"]
    BY <1>2 DEF PostData, Writing, Writers
  <2>2. place = "hand" /\ q = k /\ got[u] = w /\ \A t \in Task : Writing(t) => t = u
    BY <2>1 DEF KeptBy, HandIs
  <2>3. m \in Message /\ IsCarrier(m) /\ m.tag.version = w + 1
    BY <1>0, <2>2 DEF Data, Message, Tag, Mode, Holder, IsCarrier
  <2> HIDE DEF m
  <2>4. NoCarrier(dmq[k]) /\ dmq[k] \in Seq(Message)
    BY <2>2, QueueTypes DEF KeptBy, QueueIs
  <2>5. OneCarrier(Append(dmq[k], m), w + 1)
    BY <2>3, <2>4, AppendCarrier
  <2>6. dmq'[k] = Append(dmq[k], m) /\ \A p \in Proc \ {k} : dmq'[p] = dmq[p]
    BY <1>0, <2>1, <2>2
  <2>7. Elsewhere(k)'
    BY <2>1, <2>6 DEF KeptBy, Elsewhere, Submitting, NoCarrier, IsCarrier
  <2>8. \A t \in Task : ~Writing(t)'
    BY <1>0, <2>1, <2>2 DEF Writing
  <2>9. MapIs(k, "queue", w + 1)' /\ NetIs(k, "queue", w + 1)' /\ HandIs(k, "queue", w + 1)'
        /\ ServiceIs(k, "queue")'
    BY <2>1, <2>2, <2>8 DEF KeptBy, MapIs, NetIs, HandIs, ServiceIs, Submitting, NoCarrier,
                            IsCarrier
  <2>10. QueueIs(k, "queue", w + 1)'
    BY <2>5, <2>6 DEF QueueIs, OneCarrier, IsCarrier
  <2>11. QED
    BY <1>2, <2>7, <2>9, <2>10 DEF KeptBy
<1>3. CASE ClearPointer(u)
  <2>1. /\ DropPointer(q, u) /\ UNCHANGED <<net, pc, got>>
        /\ phase' = [phase EXCEPT ![u] = "cleared"]
        /\ phase[u] = (IF TaskMode[u] = "Write" THEN "posting" ELSE "holding")
    BY <1>3 DEF ClearPointer
  <2>2. ~PostData(u) /\ HandsKept
    BY <1>0, <2>1 DEF HandsKept, Writing, Writers, PostData
  <2>3. MapsKept /\ DmqKept
    BY <1>0, <2>1, DropKept, HolderAssumption
  <2>4. QED
    BY <2>1, <2>2, <2>3, UnchangedKept, ObjectStays
<1>4. CASE ObjectChanged(u)
  <2>1. /\ UNCHANGED <<copies, dmq, net, pc, got>> /\ phase[u] = "cleared"
        /\ phase' = [phase EXCEPT ![u] = "done"]
    BY <1>4 DEF ObjectChanged
  <2>2. ~PostData(u) /\ HandsKept
    BY <1>0, <2>1 DEF HandsKept, Writing, PostData
  <2>3. QED
    BY <2>1, <2>2, UnchangedKept, ObjectStays
<1>5. QED
  BY <1>1, <1>2, <1>3, <1>4 DEF TaskStep

\* The communication thread moves the object from the network to the queue.
LEMMA ObjectDeliver ==
    ASSUME TypeInv, NEW k \in Proc, NEW place \in Place, NEW w, KeptBy(k, place, w),
           NEW p \in Proc, Deliver(p) \/ ForgetStrayGrant(p)
    PROVE  \E l \in Place : KeptBy(k, l, w)'
<1>0. /\ dmq \in [Proc -> Seq(Message)] /\ net \in [Proc -> Seq(Packet)]
      /\ UNCHANGED <<pc, phase, got>>
  BY DEF TypeInv, DmqTypes, NetTypes, Deliver, ForgetStrayGrant
<1>1. CASE ForgetStrayGrant(p)
  <2>1. MapsKept /\ DmqKept /\ UNCHANGED net
    BY <1>1, DropKept, HolderAssumption DEF ForgetStrayGrant
  <2>2. QED
    BY <1>0, <2>1, UnchangedKept, ObjectStays
<1>2. CASE Deliver(p)
  <2> DEFINE m == Head(net[p])
  <2>1. net[p] # <<>> /\ net' = [net EXCEPT ![p] = Tail(@)] /\ m \in Packet /\ m \in Message
    BY <1>2, QueueTypes DEF Deliver
  <2>2. CASE m.kind = "request"
    <3>1. ~IsCarrier(m) /\ dmq' = [dmq EXCEPT ![p] = Append(@, m)] /\ UNCHANGED copies
      BY <1>2, <2>2 DEF Deliver, IsCarrier
    <3>2. NetKept /\ DmqKept
      BY <2>1, <3>1, TailKept, AppendKept
    <3>3. QED
      BY <1>0, <3>1, <3>2, UnchangedKept, ObjectStays
  <2>3. CASE m.kind = "dispose"
    <3>1. ~IsCarrier(m) /\ DropPointer(p, Daemon)
      BY <1>2, <2>3 DEF Deliver, IsCarrier
    <3>2. NetKept
      BY <2>1, <3>1, TailKept
    <3>3. MapsKept /\ DmqKept
      BY <3>1, DropKept, HolderAssumption
    <3>4. QED
      BY <1>0, <3>2, <3>3, UnchangedKept, ObjectStays
  <2>4. CASE m.kind = "owner"
    <3> DEFINE n == [m EXCEPT !.refs = {Daemon}]
    <3>1. dmq' = [dmq EXCEPT ![p] = Append(@, n)] /\ UNCHANGED copies /\ IsCarrier(m)
      BY <1>2, <2>4 DEF Deliver, IsCarrier
    <3>2. n \in Message /\ n.kind = "owner" /\ n.tag = m.tag /\ IsCarrier(n)
      BY <2>1, <2>4 DEF Message, Holder, IsCarrier
    <3>3. p = k /\ place = "net" /\ NoCarrier(Tail(net[p])) /\ m.tag.version = w
      <4>1. net[p] \in Seq(Message)
        BY QueueTypes
      <4>2. ~NoCarrier(net[p])
        BY <2>1, <3>1, <4>1, TailCarrier
      <4>3. p = k /\ place = "net"
        BY <4>2 DEF KeptBy, Elsewhere, NetIs
      <4>4. OneCarrier(net[p], w)
        BY <4>3 DEF KeptBy, NetIs
      <4>5. QED
        BY <2>1, <3>1, <4>1, <4>3, <4>4, TailCarrier
    <3> HIDE DEF n
    <3>4. NoCarrier(dmq[k]) /\ dmq[k] \in Seq(Message)
      BY <3>3, QueueTypes DEF KeptBy, QueueIs
    <3>5. OneCarrier(Append(dmq[k], n), w)
      BY <3>2, <3>3, <3>4, AppendCarrier
    <3>6. /\ dmq'[k] = Append(dmq[k], n) /\ \A q \in Proc \ {k} : dmq'[q] = dmq[q]
          /\ net'[k] = Tail(net[k]) /\ \A q \in Proc \ {k} : net'[q] = net[q]
      BY <1>0, <2>1, <3>1, <3>3
    <3>7. Elsewhere(k)'
      BY <1>0, <3>1, <3>6 DEF KeptBy, Elsewhere, Submitting, NoCarrier, IsCarrier
    <3>8. MapIs(k, "queue", w)' /\ HandIs(k, "queue", w)' /\ ServiceIs(k, "queue")'
      BY <1>0, <3>1, <3>3 DEF KeptBy, MapIs, HandIs, ServiceIs, Submitting, Writing
    <3>9. QueueIs(k, "queue", w)' /\ NetIs(k, "queue", w)'
      BY <3>3, <3>5, <3>6 DEF QueueIs, NetIs, OneCarrier, NoCarrier, IsCarrier
    <3>10. "queue" \in Place
      BY DEF Place
    <3>11. QED
      BY <3>7, <3>8, <3>9, <3>10 DEF KeptBy
  <2>5. QED
    BY <1>2, <2>2, <2>3, <2>4 DEF Deliver
<1>3. QED
  BY <1>1, <1>2

\* A message carries the object only on its keeper.
LEMMA CarrierAtKeeper ==
    ASSUME TypeInv, NEW k \in Proc, NEW place \in Place, NEW w, KeptBy(k, place, w),
           NEW p \in Proc, dmq[p] # <<>>, IsCarrier(Head(dmq[p]))
    PROVE  /\ p = k /\ place \in {"queue", "submitted"} /\ Head(dmq[p]).tag.version = w
           /\ NoCarrier(Tail(dmq[p]))
<1>0. dmq[p] \in Seq(Message)
  BY QueueTypes
<1>1. ~NoCarrier(dmq[p])
  BY <1>0, TailCarrier
<1>2. p = k /\ place \in {"queue", "submitted"}
  BY <1>1 DEF KeptBy, Elsewhere, QueueIs
<1>3. OneCarrier(dmq[p], w)
  BY <1>2 DEF KeptBy, QueueIs
<1>4. QED
  BY <1>0, <1>2, <1>3, TailCarrier

\* The keeper submits the version it was sent.
LEMMA ObjectSubmitted ==
    ASSUME TypeInv, NEW k \in Proc, NEW place \in Place, NEW w, KeptBy(k, place, w),
           NEW p \in Proc, HandleData(p) \/ HandleOwner(p) \/ SettleOwner(p)
    PROVE  \E l \in Place : KeptBy(k, l, w)'
<1>0. /\ dmq \in [Proc -> Seq(Message)] /\ net \in [Proc -> Seq(Packet)] /\ pc \in [Proc -> Where]
      /\ copies \in [Proc -> SUBSET Copy] /\ UNCHANGED <<net, phase, got>>
  BY DEF TypeInv, DmqTypes, NetTypes, PlainTypes, HandleData, HandleOwner, SettleOwner
<1> DEFINE m == Head(dmq[p])
<1>1. "map" \in Place /\ "submitted" \in Place
  BY DEF Place
<1>2. ASSUME NEW refs, dmq[p] # <<>>, IsCarrier(m), m.refs \in SUBSET Holder,
             copies' = WithVersion(p, m.tag.version, refs), refs \in SUBSET Holder,
             p = k, place = "queue", m.tag.version \in Nat
      PROVE  /\ copies'[k] = {[label |-> w, refs |-> refs]}
             /\ [label |-> w, refs |-> refs] \in Copy
             /\ \A q \in Proc \ {k} : copies'[q] = copies[q]
  <2>1. copies[k] = {}
    BY <1>2 DEF KeptBy, MapIs
  <2>2. m.tag.version = w
    BY <1>2, CarrierAtKeeper
  <2>3. ~HasLabel(p, w)
    BY <1>2, <2>1 DEF HasLabel
  <2>4. copies' = [copies EXCEPT ![k] = @ \cup {[label |-> w, refs |-> refs]}]
    BY <1>2, <2>2, <2>3 DEF WithVersion
  <2>5. QED
    BY <1>0, <1>2, <2>1, <2>2, <2>4 DEF Copy
<1>3. dmq[p] # <<>> => m \in Message /\ m.refs \in SUBSET Holder /\ (IsCarrier(m) => m.tag.version \in Nat)
  BY QueueTypes DEF MessageAt, Message, Labelled, IsCarrier
<1>4. CASE HandleData(p)
  <2>1. /\ dmq[p] # <<>> /\ IsCarrier(m) /\ pc[p] = "idle"
        /\ copies' = WithVersion(p, m.tag.version, m.refs)
        /\ dmq' = [dmq EXCEPT ![p] = Tail(@)] /\ pc' = [pc EXCEPT ![p] = "verify"]
    BY <1>4 DEF HandleData, NextMessage, IsCarrier
  <2>2. p = k /\ place = "queue" /\ NoCarrier(Tail(dmq[p]))
    BY <2>1, CarrierAtKeeper DEF KeptBy, ServiceIs, Submitting
  <2>3. /\ copies'[k] = {[label |-> w, refs |-> m.refs]} /\ [label |-> w, refs |-> m.refs] \in Copy
        /\ \A q \in Proc \ {k} : copies'[q] = copies[q]
    BY <1>2, <1>3, <2>1, <2>2
  <2>4. /\ dmq'[k] = Tail(dmq[k]) /\ pc'[k] = "verify"
        /\ \A q \in Proc \ {k} : dmq'[q] = dmq[q] /\ pc'[q] = pc[q]
    BY <1>0, <2>1, <2>2
  <2>5. Elsewhere(k)'
    BY <1>0, <2>3, <2>4 DEF KeptBy, Elsewhere, Submitting, NoCarrier, IsCarrier
  <2>6. MapIs(k, "map", w)'
    BY <2>3 DEF MapIs
  <2>7. QueueIs(k, "map", w)' /\ ServiceIs(k, "map")'
    BY <2>2, <2>4 DEF QueueIs, ServiceIs, Submitting, NoCarrier, IsCarrier
  <2>8. NetIs(k, "map", w)' /\ HandIs(k, "map", w)'
    BY <1>0, <2>2 DEF KeptBy, NetIs, HandIs, Writing, NoCarrier, IsCarrier
  <2>9. QED
    BY <1>1, <2>5, <2>6, <2>7, <2>8 DEF KeptBy
<1>5. CASE HandleOwner(p)
  <2>1. /\ dmq[p] # <<>> /\ IsCarrier(m) /\ pc[p] = "idle"
        /\ copies' = WithVersion(p, m.tag.version, m.refs \cup {Handler})
        /\ UNCHANGED dmq /\ pc' = [pc EXCEPT ![p] = "nested"]
    BY <1>5 DEF HandleOwner, NextMessage, IsCarrier
  <2>2. p = k /\ place = "queue"
    BY <2>1, CarrierAtKeeper DEF KeptBy, ServiceIs, Submitting
  <2> DEFINE c == [label |-> w, refs |-> m.refs \cup {Handler}]
  <2>3. m.refs \cup {Handler} \in SUBSET Holder
    BY <1>3, <2>1 DEF Holder
  <2>4. /\ copies'[k] = {c} /\ c \in Copy /\ \A q \in Proc \ {k} : copies'[q] = copies[q]
    BY <1>2, <1>3, <2>1, <2>2, <2>3
  <2>5. pc'[k] = "nested" /\ \A q \in Proc \ {k} : pc'[q] = pc[q]
    BY <1>0, <2>1, <2>2
  <2>6. Elsewhere(k)'
    BY <1>0, <2>1, <2>4, <2>5 DEF KeptBy, Elsewhere, Submitting, NoCarrier, IsCarrier
  <2>7. MapIs(k, "submitted", w)'
    BY <2>4 DEF MapIs
  <2>8. QueueIs(k, "submitted", w)' /\ ServiceIs(k, "submitted")'
    BY <2>1, <2>2, <2>5 DEF KeptBy, QueueIs, ServiceIs, Submitting, OneCarrier, IsCarrier
  <2>9. NetIs(k, "submitted", w)' /\ HandIs(k, "submitted", w)'
    BY <1>0, <2>2 DEF KeptBy, NetIs, HandIs, Writing, NoCarrier, IsCarrier
  <2>10. QED
    BY <1>1, <2>6, <2>7, <2>8, <2>9 DEF KeptBy
<1>6. CASE SettleOwner(p)
  <2>1. /\ pc[p] = "settle" /\ pc' = [pc EXCEPT ![p] = "verify"]
        /\ copies' = [copies EXCEPT ![p] = WithoutHolder(@, Handler)]
        /\ dmq' = [dmq EXCEPT ![p] = Tail(@)]
    BY <1>6 DEF SettleOwner
  <2>2. p = k /\ place = "submitted"
    BY <2>1 DEF KeptBy, Elsewhere, ServiceIs, Submitting
  <2>3. NoCarrier(Tail(dmq[k]))
    BY <2>2, CarrierAtKeeper DEF KeptBy, ServiceIs
  <2>4. PICK c \in Copy : copies[k] = {c} /\ c.label = w
    BY <2>2 DEF KeptBy, MapIs
  <2> DEFINE d == [c EXCEPT !.refs = @ \ {Handler}]
  <2>5. d \in Copy /\ d.label = w /\ copies'[k] = {d}
    <3>1. d \in Copy /\ d.label = w
      BY <2>4 DEF Copy
    <3>2. copies'[k] = WithoutHolder({c}, Handler)
      BY <1>0, <2>1, <2>2, <2>4
    <3>3. WithoutHolder({c}, Handler) = {d}
      BY DEF WithoutHolder
    <3>4. QED
      BY <3>1, <3>2, <3>3
  <2>6. /\ dmq'[k] = Tail(dmq[k]) /\ pc'[k] = "verify"
        /\ \A q \in Proc \ {k} : dmq'[q] = dmq[q] /\ pc'[q] = pc[q] /\ copies'[q] = copies[q]
    BY <1>0, <2>1, <2>2
  <2>7. Elsewhere(k)'
    BY <1>0, <2>6 DEF KeptBy, Elsewhere, Submitting, NoCarrier, IsCarrier
  <2>8. MapIs(k, "map", w)'
    BY <2>5 DEF MapIs
  <2>9. QueueIs(k, "map", w)' /\ ServiceIs(k, "map")'
    BY <2>3, <2>6 DEF QueueIs, ServiceIs, Submitting, NoCarrier, IsCarrier
  <2>10. NetIs(k, "map", w)' /\ HandIs(k, "map", w)'
    BY <1>0, <2>2 DEF KeptBy, NetIs, HandIs, Writing, NoCarrier, IsCarrier
  <2>11. QED
    BY <1>1, <2>7, <2>8, <2>9, <2>10 DEF KeptBy
<1>7. QED
  BY <1>4, <1>5, <1>6

\* Requests, flushes and the end of a look at the requests do not move it.
LEMMA ObjectRequests ==
    ASSUME TypeInv, NEW k \in Proc, NEW place \in Place, NEW w, KeptBy(k, place, w),
           NEW p \in Proc,
           ForwardRequest(p) \/ QueueRequest(p) \/ FlushData(p) \/ EndVerify(p)
    PROVE  KeptBy(k, place, w)'
<1>0. pc \in [Proc -> Where] /\ owner \in [Proc -> Proc] /\ UNCHANGED <<copies, phase, got>>
  BY DEF TypeInv, PlainTypes, ForwardRequest, QueueRequest, FlushData, EndVerify
<1>1. ASSUME NEW m, m = Head(dmq[p]), dmq[p] # <<>>, m.kind = "request",
             dmq' = [dmq EXCEPT ![p] = Tail(@)]
      PROVE  DmqKept /\ m.tag \in Tag
  <2>1. m \in Message /\ ~IsCarrier(m)
    BY <1>1, QueueTypes DEF IsCarrier
  <2>2. QED
    BY <1>1, <2>1, TailKept DEF Message
<1>2. ASSUME NEW tag \in Tag, net' = net \/ net' = [net EXCEPT ![owner[p]] = Append(@, Request(tag))]
      PROVE  NetKept
  <2>1. Request(tag) \in Message /\ ~IsCarrier(Request(tag))
    BY DEF Request, Message, IsCarrier
  <2>2. owner[p] \in Proc
    BY <1>0
  <2> DEFINE m == Request(tag)
  <2> HIDE DEF m
  <2>3. QED
    BY <1>2, <2>1, <2>2, AppendKept, UnchangedKept DEF m
<1>3. CASE ForwardRequest(p)
  <2>1. /\ dmq[p] # <<>> /\ Head(dmq[p]).kind = "request" /\ dmq' = [dmq EXCEPT ![p] = Tail(@)]
        /\ net' = [net EXCEPT ![owner[p]] = Append(@, Request(Head(dmq[p]).tag))] /\ UNCHANGED pc
    BY <1>3 DEF ForwardRequest, NextMessage
  <2>2. DmqKept /\ NetKept
    BY <1>1, <1>2, <2>1
  <2>3. QED
    BY <1>0, <2>1, <2>2, UnchangedKept, ObjectStays
<1>4. CASE QueueRequest(p)
  <2>1. /\ dmq[p] # <<>> /\ Head(dmq[p]).kind = "request" /\ dmq' = [dmq EXCEPT ![p] = Tail(@)]
        /\ \/ net' = net
           \/ net' = [net EXCEPT ![owner[p]] = Append(@, Request(Filed(Head(dmq[p]).tag, p)))]
        /\ pc[p] = "idle" /\ pc' = [pc EXCEPT ![p] = "verify"]
    BY <1>4 DEF QueueRequest, NextMessage
  <2>2. DmqKept /\ Head(dmq[p]).tag \in Tag
    BY <1>1, <2>1
  <2>3. Filed(Head(dmq[p]).tag, p) \in Tag
    BY <2>2 DEF Filed, Tag
  <2>4. NetKept
    BY <1>2, <2>1, <2>3
  <2>5. PcKept
    BY <1>0, <2>1 DEF PcKept, Submitting
  <2>6. QED
    BY <1>0, <2>2, <2>4, <2>5, UnchangedKept, ObjectStays
<1>5. CASE FlushData(p) \/ EndVerify(p)
  <2>1. UNCHANGED <<dmq, net>>
    BY <1>5 DEF FlushData, EndVerify
  <2>2. PcKept
    BY <1>0, <1>5 DEF FlushData, EndVerify, Leave, PcKept, Submitting
  <2>3. QED
    BY <1>0, <2>1, <2>2, UnchangedKept, ObjectStays
<1>6. QED
  BY <1>3, <1>4, <1>5

\* A service thread looks at requests beside the object only where it is kept.
LEMMA AtKeeper ==
    ASSUME TypeInv, NEW k \in Proc, NEW place \in Place, NEW w, KeptBy(k, place, w),
           NEW p \in Proc, NEW c \in copies[p]
    PROVE  /\ p = k /\ copies[k] = {c} /\ c.label = w /\ c \in Copy /\ place \in {"map", "submitted"}
           /\ c.refs = {} => place = "map"
           /\ \A t \in Task : ~Writing(t)
           /\ NoCarrier(net[k]) /\ (place = "map" => NoCarrier(dmq[k]))
<1>1. p = k /\ place \in {"map", "submitted"}
  BY DEF KeptBy, Elsewhere, MapIs
<1>2. PICK d \in Copy : /\ copies[k] = {d} /\ d.label = w
                        /\ place = "submitted" => Handler \in d.refs
  BY <1>1 DEF KeptBy, MapIs
<1>3. c = d
  BY <1>1, <1>2
<1>4. /\ \A t \in Task : ~Writing(t)
      /\ NoCarrier(net[k]) /\ (place = "map" => NoCarrier(dmq[k]))
  BY <1>1 DEF KeptBy, HandIs, NetIs, QueueIs
<1>5. QED
  BY <1>1, <1>2, <1>3, <1>4

\* Who is told that a request comes too late is a task there, ...
LEMMA ObjectRejected ==
    ASSUME TypeInv, RequestsInv, Plain,
           NEW k \in Proc, NEW place \in Place, NEW w, w = WritesDone, KeptBy(k, place, w),
           NEW p \in Proc, NEW c \in copies[p], RejectRequest(p, c)
    PROVE  /\ KeptBy(k, place, w)'
           /\ \E t \in Task : phase[t] = "waiting" /\ phase' = [phase EXCEPT ![t] = "refused"]
<1>1. PICK i \in DOMAIN acc[p] :
        /\ IsFirst(i, Incompatible(acc[p], c.label))
        /\ \/ /\ acc[p][i].proc # p
           \/ /\ acc[p][i].proc = p
              /\ phase' = [t \in Task |-> IF t = acc[p][i].task THEN "refused" ELSE phase[t]]
              /\ UNCHANGED net
  BY DEF RejectRequest
<1>2. ~NotBehind(acc[p][i].version, w)
  <2>1. c.label = w
    BY AtKeeper
  <2>2. QED
    BY <1>1, <2>1 DEF IsFirst, Incompatible, AmICompatible, NotBehind
<1> DEFINE t == acc[p][i].task
<1>3. acc[p][i].proc = p /\ t # NoTask
  BY <1>1, <1>2 DEF Plain
<1>4. t \in Task
  BY <1>3, PendingTypes DEF TypeInv, TagAt, Tag
<1>5. phase[t] = "waiting"
  BY <1>4, Answering
<1>6. phase' = [phase EXCEPT ![t] = "refused"]
  BY <1>1, <1>3 DEF TypeInv, PlainTypes
<1>7. UNCHANGED <<copies, dmq, net, pc, got>>
  BY <1>1, <1>3 DEF RejectRequest
<1>8. HandsKept
  BY <1>5, <1>6, <1>7 DEF HandsKept, Writing, TypeInv, PlainTypes
<1>9. QED
  BY <1>4, <1>5, <1>6, <1>7, <1>8, UnchangedKept, ObjectStays

\* ... and so is who is given the version to read, ...
LEMMA ObjectRead ==
    ASSUME TypeInv, RequestsInv, Plain,
           NEW k \in Proc, NEW place \in Place, NEW w, KeptBy(k, place, w),
           NEW p \in Proc, NEW c \in copies[p], GrantRead(p, c)
    PROVE  /\ KeptBy(k, place, w)'
           /\ \E t \in Task :
                /\ phase[t] = "waiting" /\ phase' = [phase EXCEPT ![t] = "holding"]
                /\ TaskMode[t] = "Read" /\ TaskVersion[t] \in {AnyVersion, w}
                /\ got' = [got EXCEPT ![t] = w]
                /\ copies' = [copies EXCEPT ![p] = {WithHolder(c, t)}]
<1>0. /\ copies \in [Proc -> SUBSET Copy] /\ phase \in [Task -> Phase] /\ got \in [Task -> Nat]
      /\ p = k /\ copies[p] = {c} /\ c.label = w /\ c \in Copy
  BY AtKeeper DEF TypeInv, PlainTypes
<1>1. PICK i \in DOMAIN acc[p] :
        LET tag == acc[p][i]
            h == IF tag.task = NoTask THEN Stray ELSE tag.task
        IN
        /\ IsFirst(i, Compatible(acc[p], c.label, "Read"))
        /\ \/ /\ tag.proc = p
              /\ Grant(tag, c.label)
              /\ copies' = [copies EXCEPT ![p] = (@ \ {c}) \cup {WithHolder(c, h)}]
              /\ UNCHANGED <<net, changed>>
           \/ tag.proc # p
  BY DEF GrantRead
<1> DEFINE t == acc[p][i].task
<1>2. acc[p][i].mode = "Read" /\ acc[p][i].version \in {AnyVersion, w}
  BY <1>0, <1>1 DEF IsFirst, Compatible, CanExecute
<1>3. acc[p][i].proc = p /\ t # NoTask
  BY <1>2 DEF Plain
<1>4. t \in Task
  BY <1>3, PendingTypes DEF TypeInv, TagAt, Tag
<1>5. phase[t] = "waiting" /\ TaskMode[t] = "Read" /\ TaskVersion[t] \in {AnyVersion, w}
  BY <1>2, <1>4, Answering
<1>6. phase' = [phase EXCEPT ![t] = "holding"] /\ got' = [got EXCEPT ![t] = w]
  <2>1. Grant(acc[p][i], w)
    BY <1>0, <1>1, <1>3
  <2>2. QED
    BY <1>0, <1>4, <2>1 DEF Grant
<1>7. copies' = [copies EXCEPT ![p] = {WithHolder(c, t)}]
  BY <1>0, <1>1, <1>3
<1>8. UNCHANGED <<dmq, net, pc>>
  BY <1>1, <1>3 DEF GrantRead
<1>9. HandsKept
  BY <1>0, <1>4, <1>5, <1>6 DEF HandsKept, Writing, Writers
<1>10. MapsKept
  <2> DEFINE d == WithHolder(c, t)
  <2>1. d \in Copy /\ d.label = c.label /\ (Handler \in c.refs => Handler \in d.refs)
    BY <1>0, <1>4 DEF WithHolder, Copy, Holder
  <2>2. copies'[p] = {d} /\ \A q \in Proc : q # p => copies'[q] = copies[q]
    BY <1>0, <1>7
  <2> HIDE DEF d
  <2>3. QED
    BY <1>0, <2>1, <2>2 DEF MapsKept
<1>11. KeptBy(k, place, w)'
  BY <1>8, <1>9, <1>10, UnchangedKept, ObjectStays
<1>12. QED
  BY <1>4, <1>5, <1>6, <1>7, <1>11

\* ... or to write it, and then the map lets it go.
LEMMA ObjectWritten ==
    ASSUME TypeInv, RequestsInv, Plain,
           NEW k \in Proc, NEW place \in Place, NEW w, KeptBy(k, place, w),
           NEW p \in Proc, NEW c \in copies[p], GrantLocalWrite(p, c)
    PROVE  /\ KeptBy(k, "hand", w)' /\ c.refs = {} /\ copies'[k] = {}
           /\ \E t \in Task :
                /\ phase[t] = "waiting" /\ phase' = [phase EXCEPT ![t] = "holding"]
                /\ TaskMode[t] = "Write" /\ TaskVersion[t] \in {AnyVersion, w}
<1>0. /\ copies \in [Proc -> SUBSET Copy] /\ phase \in [Task -> Phase] /\ got \in [Task -> Nat]
      /\ pc \in [Proc -> Where]
      /\ p = k /\ copies[p] = {c} /\ c.label = w /\ c \in Copy
      /\ NoCarrier(net[k]) /\ \A u \in Task : ~Writing(u)
  BY AtKeeper DEF TypeInv, PlainTypes
<1>1. c.refs = {} /\ place = "map" /\ NoCarrier(dmq[k])
  BY AtKeeper DEF GrantLocalWrite, MayWrite
<1>2. PICK i \in DOMAIN acc[p] : /\ IsFirst(i, Compatible(acc[p], c.label, "Write"))
                                 /\ acc[p][i].proc = p
                                 /\ Grant(acc[p][i], c.label)
  BY DEF GrantLocalWrite
<1> DEFINE t == acc[p][i].task
<1>3. acc[p][i].mode = "Write" /\ acc[p][i].version \in {AnyVersion, w}
  BY <1>0, <1>2 DEF IsFirst, Compatible, CanExecute
<1>4. t # NoTask
  BY <1>2 DEF Plain
<1>5. t \in Task
  BY <1>4, PendingTypes DEF TypeInv, TagAt, Tag
<1>6. /\ phase[t] = "waiting" /\ TaskMode[t] = "Write" /\ TaskVersion[t] \in {AnyVersion, w}
      /\ TaskProc[t] = p
  BY <1>3, <1>5, Answering
<1>7. phase' = [phase EXCEPT ![t] = "holding"] /\ got' = [got EXCEPT ![t] = w]
  BY <1>0, <1>2, <1>5 DEF Grant
<1>8. /\ copies'[k] = {} /\ \A q \in Proc \ {k} : copies'[q] = copies[q]
      /\ UNCHANGED <<dmq, net>>
  BY <1>0 DEF GrantLocalWrite
<1>9. \A q \in Proc : Submitting(q)' => Submitting(q)
  BY <1>0 DEF GrantLocalWrite, MayWrite, Verifying, Leave, Submitting
<1>10. Elsewhere(k)'
  BY <1>8, <1>9 DEF KeptBy, Elsewhere, NoCarrier, IsCarrier
<1>11. HandIs(k, "hand", w)'
  <2>1. \A u \in Task : Writing(u)' <=> u = t
    BY <1>0, <1>5, <1>6, <1>7 DEF Writing, Writers
  <2>2. got'[t] = w
    BY <1>0, <1>5, <1>7
  <2>3. QED
    BY <1>0, <1>5, <1>6, <2>1, <2>2 DEF HandIs
<1>12. ServiceIs(k, "hand")'
  BY <1>1, <1>9 DEF KeptBy, ServiceIs
<1>13. MapIs(k, "hand", w)' /\ QueueIs(k, "hand", w)' /\ NetIs(k, "hand", w)'
  BY <1>0, <1>1, <1>8 DEF MapIs, QueueIs, NetIs, NoCarrier, IsCarrier
<1>14. QED
  BY <1>1, <1>5, <1>6, <1>7, <1>8, <1>10, <1>11, <1>12, <1>13 DEF KeptBy

\* The object leaves for the processor of the request that is served.
LEMMA ObjectSent ==
    ASSUME TypeInv, Plain,
           NEW k \in Proc, NEW place \in Place, NEW w, KeptBy(k, place, w), w \in Nat,
           NEW p \in Proc, NEW c \in copies[p], TransferOwnership(p, c)
    PROVE  /\ \E q \in Proc \ {k} : KeptBy(q, "net", w)' /\ owner' = [owner EXCEPT ![k] = q]
           /\ p = k /\ c.refs = {} /\ copies'[k] = {}
<1>0. /\ copies \in [Proc -> SUBSET Copy] /\ pc \in [Proc -> Where] /\ net \in [Proc -> Seq(Packet)]
      /\ p = k /\ copies[p] = {c} /\ c.label = w /\ c \in Copy
      /\ NoCarrier(net[k]) /\ \A u \in Task : ~Writing(u)
  BY AtKeeper DEF TypeInv, PlainTypes, NetTypes
<1>1. c.refs = {} /\ place = "map" /\ NoCarrier(dmq[k])
  BY AtKeeper DEF TransferOwnership, MayWrite
<1>2. PICK i \in DOMAIN acc[p] :
        /\ acc[p][i].proc # p
        /\ \E n \in 0..Len(acc[p]) :
             \E s \in [1..n -> TransferredTags(p, acc[p][i].proc)] :
               SendOwnerTask(p, [acc[p][i] EXCEPT !.version = c.label], s)
        /\ owner' = [owner EXCEPT ![p] = acc[p][i].proc]
  BY ZenonT(60) DEF TransferOwnership
<1> DEFINE tag == acc[p][i]
           sent == [tag EXCEPT !.version = c.label]
<1>3. PICK n \in 0..Len(acc[p]) : \E s \in [1..n -> TransferredTags(p, tag.proc)] :
        SendOwnerTask(p, sent, s)
  BY <1>2
<1>4. PICK s \in [1..n -> TransferredTags(p, tag.proc)] : SendOwnerTask(p, sent, s)
  BY <1>3
<1>5. \A j \in DOMAIN acc[p] : acc[p][j] \in TagAt(p) /\ (acc[p][j].proc # p => acc[p][j] \in Unnamed)
  BY PendingTypes DEF TypeInv
<1>6. TransferredTags(p, tag.proc) \subseteq Unnamed
  <2>1. \A x \in TagAt(p) : Localised(x, p) \in Unnamed
    BY DEF Localised, Filed, TagAt, Unnamed, Tag
  <2>2. QED
    BY <1>5, <2>1 DEF TransferredTags
<1>7. s \in [1..n -> Unnamed] /\ n \in Nat
  <2>1. Len(acc[p]) \in Nat
    BY QueueTypes, LenProperties
  <2>2. QED
    BY <1>6, <2>1
<1>q. PICK q \in Proc : q = tag.proc
  BY <1>5 DEF TagAt, Tag
<1>8. sent \in Unnamed /\ sent.version = w /\ sent.proc = q /\ q # k
  BY <1>0, <1>2, <1>5, <1>q DEF Unnamed, Tag
<1>9. net' = [net EXCEPT ![q] = @ \o OwnerTask(sent, s)]
  BY <1>4, <1>8 DEF SendOwnerTask
<1> HIDE DEF sent
<1>10. NoCarrier(net[q]) /\ NoCarrier(dmq[q]) /\ copies[q] = {} /\ net[q] \in Seq(Message)
       /\ ~Submitting(q)
  BY <1>8, QueueTypes DEF KeptBy, Elsewhere
<1>11. OneCarrier(net[q] \o OwnerTask(sent, s), w)
  BY <1>7, <1>8, <1>10, SentCarrier
<1>12. /\ copies'[k] = {} /\ \A x \in Proc \ {k} : copies'[x] = copies[x]
       /\ UNCHANGED <<dmq, phase, got>>
  BY <1>0 DEF TransferOwnership
<1>13. \A x \in Proc : Submitting(x)' => Submitting(x)
  BY <1>0 DEF TransferOwnership, MayWrite, Verifying, Leave, Submitting
<1>14. ~Submitting(k)
  BY <1>1 DEF KeptBy, ServiceIs
<1>15. net'[q] = net[q] \o OwnerTask(sent, s) /\ \A x \in Proc \ {q} : net'[x] = net[x]
  BY <1>0, <1>8, <1>9
<1>16. Elsewhere(q)'
  <2>1. ASSUME NEW x \in Proc \ {q}
        PROVE  copies'[x] = {} /\ ~Submitting(x)' /\ NoCarrier(dmq[x]) /\ NoCarrier(net[x])
    <3>1. CASE x = k
      BY <1>0, <1>1, <1>12, <1>13, <1>14, <3>1
    <3>2. CASE x # k
      BY <1>12, <1>13, <2>1, <3>2 DEF KeptBy, Elsewhere
    <3>3. QED
      BY <3>1, <3>2
  <2>2. QED
    BY <1>12, <1>15, <2>1 DEF Elsewhere, NoCarrier, IsCarrier
<1>17. HandIs(q, "net", w)'
  BY <1>0, <1>12 DEF HandIs, Writing
<1>18. ServiceIs(q, "net")'
  BY <1>10, <1>13, <1>8 DEF ServiceIs
<1>19. MapIs(q, "net", w)' /\ QueueIs(q, "net", w)'
  BY <1>8, <1>10, <1>12 DEF MapIs, QueueIs, NoCarrier, IsCarrier
<1>20. NetIs(q, "net", w)'
  BY <1>11, <1>15 DEF NetIs, OneCarrier, IsCarrier
<1>21. KeptBy(q, "net", w)' /\ owner' = [owner EXCEPT ![k] = q]
  BY <1>0, <1>2, <1>q, <1>16, <1>17, <1>18, <1>19, <1>20 DEF KeptBy
<1>22. QED
  BY <1>0, <1>1, <1>8, <1>12, <1>21

\* Only a writer that posts its data changes the number of writes.
LEMMA OneTaskSteps ==
    ASSUME TypeInv, NEW u \in Task, TaskStep(u), ~PostData(u), NEW t \in Task
    PROVE  ~PostData(t)
<1>1. phase \in [Task -> Phase] /\ phase'[u] # "posting" /\ \A x \in Task : x # u => phase'[x] = phase[x]
  BY DEF TypeInv, PlainTypes, TaskStep, PostRequests, ClearPointer, ObjectChanged
<1>2. PostData(t) => phase'[t] = "posting" /\ phase[t] = "holding"
  BY <1>1 DEF PostData
<1>3. QED
  BY <1>1, <1>2

LEMMA OnlyTasksPost ==
    ASSUME TypeInv,
           (\E p \in Proc : Deliver(p) \/ ForgetStrayGrant(p) \/ Service(p)) \/ UNCHANGED vars,
           NEW t \in Task
    PROVE  ~PostData(t)
<1>1. ASSUME PostData(t) PROVE phase[t] = "holding" /\ phase'[t] = "posting"
  BY <1>1 DEF PostData, TypeInv, PlainTypes
<1>2. phase'[t] \in {phase[t], "holding", "refused"}
  <2>1. CASE \E p \in Proc : \E c \in copies[p] : RejectRequest(p, c)
    BY <2>1 DEF RejectRequest
  <2>2. CASE \E p \in Proc : \E c \in copies[p] : GrantRead(p, c) \/ GrantLocalWrite(p, c)
    <3>1. ASSUME NEW p \in Proc, NEW c, GrantRead(p, c)
          PROVE  UNCHANGED phase \/ \E tag, label : Grant(tag, label)
      BY <3>1, Zenon DEF GrantRead
    <3>2. ASSUME NEW p \in Proc, NEW c, GrantLocalWrite(p, c)
          PROVE  \E tag, label : Grant(tag, label)
      BY <3>2, Zenon DEF GrantLocalWrite
    <3>3. UNCHANGED phase \/ \E tag, label : Grant(tag, label)
      BY <2>2, <3>1, <3>2
    <3>4. QED
      BY <3>3 DEF Grant
  <2>3. CASE \/ \E p \in Proc : Deliver(p) \/ ForgetStrayGrant(p)
             \/ \E p \in Proc : HandleMessage(p) \/ SettleOwner(p) \/ FlushData(p) \/ EndVerify(p)
             \/ \E p \in Proc : \E c \in copies[p] : TransferOwnership(p, c)
             \/ UNCHANGED vars
    <3>1. UNCHANGED phase
      BY <2>3 DEF Deliver, ForgetStrayGrant, HandleMessage, HandleData, HandleOwner,
                  ForwardRequest, QueueRequest, SettleOwner, FlushData, TransferOwnership,
                  EndVerify, vars
    <3>2. QED
      BY <3>1
  <2>4. QED
    BY <2>1, <2>2, <2>3 DEF Service, Verify
<1>3. QED
  BY <1>1, <1>2

\* Every step keeps the object in one place, with the label of the last write.
LEMMA ObjectNext ==
    ASSUME TypeInv, RequestsInv, IsFiniteSet(DoneWriters), Plain, ObjectInv, [Next]_vars
    PROVE  ObjectInv'
<1>1. /\ WritesDone \in Nat
      /\ \A u \in Task : PostData(u) => WritesDone' = WritesDone + 1
      /\ (\A u \in Task : ~PostData(u)) => WritesDone' = WritesDone
  BY WritesGrow
<1>2. PICK w \in Nat : w = WritesDone
  BY <1>1
<1>3. PICK k \in Proc, place \in Place : KeptBy(k, place, w)
  BY <1>2, Zenon DEF ObjectInv
<1>4. ASSUME NEW v, v = WritesDone', NEW q \in Proc, NEW l \in Place, KeptBy(q, l, v)'
      PROVE  ObjectInv'
  BY <1>4, Zenon DEF ObjectInv, KeptBy, MapIs, QueueIs, NetIs, HandIs, OneCarrier
<1>5. "queue" \in Place /\ "net" \in Place /\ "hand" \in Place
  BY DEF Place
<1>6. ASSUME NEW u \in Task, TaskStep(u) PROVE ObjectInv'
  <2>1. CASE PostData(u)
    <3>1. KeptBy(k, "queue", w + 1)'
      BY <1>3, <1>6, <2>1, ObjectTaskStep
    <3>2. QED
      BY <1>1, <1>2, <1>4, <1>5, <2>1, <3>1
  <2>2. CASE ~PostData(u)
    <3>1. KeptBy(k, place, w)'
      BY <1>3, <1>6, <2>2, ObjectTaskStep
    <3>2. \A t \in Task : ~PostData(t)
      BY <1>6, <2>2, OneTaskSteps
    <3>3. QED
      BY <1>1, <1>2, <1>3, <1>4, <3>1, <3>2
  <2>3. QED
    BY <2>1, <2>2
<1>7. ASSUME \A t \in Task : ~PostData(t), \E q \in Proc, l \in Place : KeptBy(q, l, w)'
      PROVE  ObjectInv'
  BY <1>1, <1>2, <1>4, <1>7
<1>8. ASSUME NEW p \in Proc, Deliver(p) \/ ForgetStrayGrant(p) \/ Service(p)
      PROVE  ObjectInv'
  <2>1. \A t \in Task : ~PostData(t)
    BY <1>8, OnlyTasksPost
  <2>2. CASE Deliver(p) \/ ForgetStrayGrant(p)
    BY <1>3, <1>7, <2>1, <2>2, ObjectDeliver
  <2>3. CASE HandleData(p) \/ HandleOwner(p) \/ SettleOwner(p)
    BY <1>3, <1>7, <2>1, <2>3, ObjectSubmitted
  <2>4. CASE ForwardRequest(p) \/ QueueRequest(p) \/ FlushData(p) \/ EndVerify(p)
    <3>1. KeptBy(k, place, w)'
      BY <1>3, <2>4, ObjectRequests
    <3>2. QED
      BY <1>3, <1>7, <2>1, <3>1
  <2>5. ASSUME NEW c \in copies[p], RejectRequest(p, c) PROVE ObjectInv'
    BY <1>2, <1>3, <1>7, <2>1, <2>5, ObjectRejected
  <2>6. ASSUME NEW c \in copies[p], GrantRead(p, c) PROVE ObjectInv'
    BY <1>3, <1>7, <2>1, <2>6, ObjectRead
  <2>7. ASSUME NEW c \in copies[p], GrantLocalWrite(p, c) PROVE ObjectInv'
    BY <1>3, <1>5, <1>7, <2>1, <2>7, ObjectWritten
  <2>8. ASSUME NEW c \in copies[p], TransferOwnership(p, c) PROVE ObjectInv'
    BY <1>3, <1>5, <1>7, <2>1, <2>8, ObjectSent
  <2>9. QED
    BY <1>8, <2>2, <2>3, <2>4, <2>5, <2>6, <2>7, <2>8 DEF Service, HandleMessage, Verify
<1>9. CASE UNCHANGED vars
  <2>1. \A t \in Task : ~PostData(t)
    BY <1>9, OnlyTasksPost
  <2>2. KeptBy(k, place, w)'
    BY <1>3, <1>9, UnchangedKept, ObjectStays DEF vars
  <2>3. QED
    BY <1>3, <1>7, <2>1, <2>2
<1>10. QED
  BY <1>6, <1>8, <1>9 DEF Next

LEMMA ObjectStart == Init => KeptBy(Home, "queue", 0) /\ WritesDone = 0
<1> SUFFICES ASSUME Init PROVE KeptBy(Home, "queue", 0) /\ WritesDone = 0
  OBVIOUS
<1>1. WritesDone = 0
  <2>1. \A t \in Task : phase[t] \in {"submitted", "absent"}
    BY DEF Init
  <2>2. {t \in Writers : Finished(t)} = {}
    BY <2>1 DEF Writers, Finished
  <2>3. QED
    BY <2>2, FS_EmptySet DEF WritesDone
<1>2. OneCarrier(dmq[Home], 0) /\ \A p \in Proc \ {Home} : NoCarrier(dmq[p])
  BY ProcAssumption DEF Init, OneCarrier, NoCarrier, IsCarrier, Data
<1>3. \A p \in Proc : copies[p] = {} /\ ~Submitting(p) /\ NoCarrier(net[p])
  BY DEF Init, Submitting, NoCarrier
<1>4. \A t \in Task : ~Writing(t)
  BY DEF Init, Writing
<1>5. Home \in Proc
  BY ProcAssumption
<1>6. Elsewhere(Home)
  BY <1>2, <1>3 DEF Elsewhere
<1>7. MapIs(Home, "queue", 0) /\ QueueIs(Home, "queue", 0)
  BY <1>2, <1>3, <1>5 DEF MapIs, QueueIs
<1>8. NetIs(Home, "queue", 0) /\ HandIs(Home, "queue", 0) /\ ServiceIs(Home, "queue")
  BY <1>3, <1>4, <1>5 DEF NetIs, HandIs, ServiceIs
<1>9. QED
  BY <1>1, <1>6, <1>7, <1>8 DEF KeptBy

LEMMA ObjectInit == Init => ObjectInv
<1> SUFFICES ASSUME Init PROVE ObjectInv
  OBVIOUS
<1>1. KeptBy(Home, "queue", 0) /\ WritesDone = 0 /\ Home \in Proc /\ "queue" \in Place
  BY ObjectStart, ProcAssumption DEF Place
<1>2. QED
  BY <1>1, Zenon DEF ObjectInv

-----------------------------------------------------------------------------
(* Tasks that share a processor with the object: nothing leaves it.        *)

\* What may become of a task's phase
LEMMA PhaseMoves ==
    ASSUME TypeInv, RequestsInv, [Next]_vars, NEW t \in Task, phase'[t] # phase[t]
    PROVE  phase[t] # "absent" /\ phase'[t] # "absent"
<1>1. phase \in [Task -> Phase]
  BY DEF TypeInv, PlainTypes
<1>2. CASE \E u \in Task : TaskStep(u)
  BY <1>1, <1>2 DEF TaskStep, PostRequests, PostData, ClearPointer, ObjectChanged
<1>3. ASSUME NEW p \in Proc, NEW i \in DOMAIN acc[p],
             \/ phase' = [u \in Task |-> IF u = acc[p][i].task THEN "refused" ELSE phase[u]]
             \/ \E label : Grant(acc[p][i], label)
      PROVE  phase[t] = "waiting" /\ phase'[t] \in {"refused", "holding"}
  <2>1. acc[p][i].task = t /\ phase'[t] \in {"refused", "holding"}
    BY <1>3 DEF Grant
  <2>2. QED
    BY <2>1, Answering
<1>4. CASE \E p \in Proc : \E c \in copies[p] : RejectRequest(p, c)
  <2>1. \E p \in Proc : \E i \in DOMAIN acc[p] :
          phase' = [u \in Task |-> IF u = acc[p][i].task THEN "refused" ELSE phase[u]]
    BY <1>4 DEF RejectRequest
  <2>2. QED
    BY <1>3, <2>1
<1>5. CASE \E p \in Proc : \E c \in copies[p] : GrantRead(p, c) \/ GrantLocalWrite(p, c)
  <2>1. \E p \in Proc : \E i \in DOMAIN acc[p] : \E label : Grant(acc[p][i], label)
    BY <1>5 DEF GrantRead, GrantLocalWrite
  <2>2. QED
    BY <1>3, <2>1
<1>6. CASE \/ \E p \in Proc : Deliver(p) \/ ForgetStrayGrant(p)
           \/ \E p \in Proc : HandleMessage(p) \/ SettleOwner(p) \/ FlushData(p) \/ EndVerify(p)
           \/ \E p \in Proc : \E c \in copies[p] : TransferOwnership(p, c)
           \/ UNCHANGED vars
  <2>1. UNCHANGED phase
    BY <1>6 DEF Deliver, ForgetStrayGrant, HandleMessage, HandleData, HandleOwner,
                ForwardRequest, QueueRequest, SettleOwner, FlushData, TransferOwnership,
                EndVerify, vars
  <2>2. QED
    BY <2>1
<1>7. QED
  BY <1>2, <1>4, <1>5, <1>6 DEF Next, Service, Verify

\* A workload stays what it is.
LEMMA SimpleStays ==
    ASSUME TypeInv, RequestsInv, [Next]_vars
    PROVE  /\ Present' = Present /\ (OneProcessor' <=> OneProcessor) /\ (Migrating' <=> Migrating)
           /\ (Simple' <=> Simple)
<1>1. phase \in [Task -> Phase]
  BY DEF TypeInv, PlainTypes
<1>2. ASSUME NEW t \in Task, phase'[t] # phase[t]
      PROVE  phase[t] # "absent" /\ phase'[t] # "absent"
  BY <1>1, <1>2, PhaseMoves
<1>3. Present' = Present
  BY <1>2 DEF Present
<1>4. QED
  BY <1>3 DEF OneProcessor, Migrating, AnyWriters, InTurn, WritersInTurn, Simple

\* The message of a queue over a set are of the set, whoever lets a pointer go.
LEMMA DroppedType ==
    ASSUME NEW S, S \subseteq Message, \A m \in S : \A h : [m EXCEPT !.refs = @ \ {h}] \in S,
           NEW s \in Seq(S), NEW h
    PROVE  MessagesWithout(s, h) \in Seq(S) /\ (MessagesWithout(s, h) = <<>> <=> s = <<>>)
<1>1. Len(s) \in Nat /\ DOMAIN s = 1..Len(s) /\ \A i \in 1..Len(s) : s[i] \in S
  BY SequencePlain
<1>2. MessagesWithout(s, h) \in [1..Len(s) -> S]
  BY <1>1 DEF MessagesWithout
<1>3. MessagesWithout(s, h) \in Seq(S) /\ Len(MessagesWithout(s, h)) = Len(s)
  BY <1>1, <1>2, SeqDef
<1>4. QED
  BY <1>1, <1>3, EmptySeq

HomeTag == {tag \in Tag : tag.proc = Home /\ tag.task # NoTask}
HomeMessage == {m \in Message : /\ m.kind = "data" \/ (m.kind = "request" /\ m.tag \in HomeTag)
                                /\ Stray \notin m.refs}
HomeInv == /\ acc[Home] \in Seq(HomeTag) /\ dmq[Home] \in Seq(HomeMessage)
           /\ pc[Home] \notin {"nested", "settle"}
           /\ \A p \in Proc : owner[p] = Home /\ net[p] = <<>>
           /\ \A p \in Proc \ {Home} : acc[p] = <<>> /\ dmq[p] = <<>> /\ copies[p] = {}
           /\ \A c \in copies[Home] : Stray \notin c.refs

LEMMA HomeRequests ==
    ASSUME TypeInv, HomeInv, NEW i \in DOMAIN acc[Home]
    PROVE  /\ acc[Home][i] \in HomeTag /\ RemoveAt(acc[Home], i) \in Seq(HomeTag)
<1>1. acc[Home] \in Seq(HomeTag)
  BY DEF HomeInv
<1>2. DOMAIN acc[Home] = 1..Len(acc[Home])
  BY <1>1, LenProperties
<1>3. QED
  BY <1>1, <1>2, ElementOfSeq, RemoveAtType

LEMMA HomeDrops ==
    ASSUME TypeInv, HomeInv, NEW h, DropPointer(Home, h), UNCHANGED <<owner, acc, net, pc>>
    PROVE  HomeInv'
<1>1. /\ HomeMessage \subseteq Message
      /\ \A m \in HomeMessage : \A x : [m EXCEPT !.refs = @ \ {x}] \in HomeMessage
  BY DEF HomeMessage, Message
<1>2. MessagesWithout(dmq[Home], h) \in Seq(HomeMessage)
  BY <1>1, DroppedType DEF HomeInv
<1>3. /\ Home \in Proc /\ dmq \in [Proc -> Seq(Message)] /\ copies \in [Proc -> SUBSET Copy]
  BY ProcAssumption DEF TypeInv, DmqTypes, PlainTypes
<1>4. /\ dmq'[Home] = MessagesWithout(dmq[Home], h)
      /\ copies'[Home] = WithoutHolder(copies[Home], h)
      /\ \A p \in Proc \ {Home} : dmq'[p] = dmq[p] /\ copies'[p] = copies[p]
  BY <1>3 DEF DropPointer
<1>5. \A c \in copies'[Home] : Stray \notin c.refs
  <2>1. \A c \in copies[Home] : Stray \notin c.refs /\ c \in Copy
    BY <1>3 DEF HomeInv
  <2>2. \A c \in Copy : [c EXCEPT !.refs = @ \ {h}].refs = c.refs \ {h}
    BY DEF Copy
  <2>3. QED
    BY <1>4, <2>1, <2>2 DEF WithoutHolder
<1>6. QED
  BY <1>2, <1>4, <1>5 DEF HomeInv

LEMMA HomeTaskStep ==
    ASSUME TypeInv, OneProcessor, HomeInv, NEW u \in Task, TaskStep(u)
    PROVE  HomeInv'
<1> DEFINE q == TaskProc[u]
<1>0. /\ Home \in Proc /\ dmq \in [Proc -> Seq(Message)] /\ copies \in [Proc -> SUBSET Copy]
      /\ got \in [Task -> Nat] /\ TaskMode[u] \in Mode /\ TaskVersion[u] \in Nat \cup {AnyVersion}
      /\ dmq[Home] \in Seq(HomeMessage) /\ UNCHANGED <<owner, acc, net, pc>>
  BY ProcAssumption, TaskAssumption
     DEF TypeInv, DmqTypes, PlainTypes, HomeInv, TaskStep, PostRequests, PostData, ClearPointer,
         ObjectChanged
<1>1. q = Home
  <2>1. phase[u] # "absent"
    BY DEF TaskStep, PostRequests, PostData, ClearPointer, ObjectChanged
  <2>2. QED
    BY <2>1 DEF OneProcessor, Present
<1>2. ASSUME dmq'[Home] \in Seq(HomeMessage), \A p \in Proc \ {Home} : dmq'[p] = dmq[p],
             UNCHANGED copies
      PROVE  HomeInv'
  BY <1>0, <1>2 DEF HomeInv
<1>3. ASSUME NEW m \in HomeMessage, dmq' = [dmq EXCEPT ![q] = Append(@, m)], UNCHANGED copies
      PROVE  HomeInv'
  <2>1. Append(dmq[Home], m) \in Seq(HomeMessage)
    BY <1>0, <1>3, SequencePlain
  <2>2. QED
    BY <1>0, <1>1, <1>2, <1>3, <2>1
<1>4. CASE PostRequests(u)
  <2>1. Request([task |-> u, proc |-> q, mode |-> TaskMode[u], version |-> TaskVersion[u]])
          \in HomeMessage
    BY <1>0, <1>1, HolderAssumption DEF HomeMessage, HomeTag, Request, Message, Tag
  <2>2. QED
    BY <1>3, <1>4, <2>1 DEF PostRequests
<1>5. CASE PostData(u)
  <2> DEFINE m == Data(q, got[u] + 1, {u})
  <2>1. m \in HomeMessage
    <3>1. q \in Proc /\ got[u] + 1 \in Nat
      BY <1>0, <1>1
    <3>2. m \in Message /\ m.kind = "data"
      BY <3>1 DEF Data, Message, Tag, Mode, Holder
    <3>3. Stray \notin m.refs
      BY HolderAssumption DEF Data
    <3> HIDE DEF m
    <3>4. QED
      BY <3>2, <3>3 DEF HomeMessage
  <2>2. QED
    BY <1>3, <1>5, <2>1 DEF PostData
<1>6. CASE ClearPointer(u)
  BY <1>1, <1>6, HomeDrops DEF ClearPointer
<1>7. CASE ObjectChanged(u)
  BY <1>0, <1>2, <1>7 DEF ObjectChanged
<1>8. QED
  BY <1>4, <1>5, <1>6, <1>7 DEF TaskStep

LEMMA HomeService ==
    ASSUME TypeInv, HomeInv, NEW p \in Proc, Deliver(p) \/ ForgetStrayGrant(p) \/ Service(p)
    PROVE  HomeInv'
<1>0. /\ Home \in Proc /\ dmq \in [Proc -> Seq(Message)] /\ copies \in [Proc -> SUBSET Copy]
      /\ acc \in [Proc -> Seq(Tag)] /\ pc \in [Proc -> Where] /\ owner[Home] = Home
      /\ dmq[Home] \in Seq(HomeMessage) /\ acc[Home] \in Seq(HomeTag)
  BY ProcAssumption DEF TypeInv, DmqTypes, AccTypes, PlainTypes, HomeInv
<1>1. CASE Deliver(p)
  BY <1>1 DEF Deliver, HomeInv
<1>2. CASE ForgetStrayGrant(p)
  <2>1. p = Home
    BY <1>2 DEF ForgetStrayGrant, HomeInv
  <2>2. QED
    BY <1>2, <2>1, HomeDrops DEF ForgetStrayGrant
<1>3. ASSUME dmq[p] # <<>>
      PROVE  /\ p = Home /\ Head(dmq[p]) \in HomeMessage /\ Tail(dmq[p]) \in Seq(HomeMessage)
  <2>1. p = Home
    BY <1>3 DEF HomeInv
  <2>2. QED
    BY <1>0, <1>3, <2>1, HeadTailProperties
<1>4. CASE HandleMessage(p) \/ SettleOwner(p)
  <2>1. dmq[p] # <<>>
    BY <1>4 DEF HandleMessage, HandleData, HandleOwner, ForwardRequest, QueueRequest, SettleOwner,
                NextMessage, TypeInv, InHand
  <2>2. p = Home /\ Head(dmq[p]) \in HomeMessage /\ Tail(dmq[p]) \in Seq(HomeMessage)
    BY <1>3, <2>1
  <2>3. ~HandleOwner(p) /\ ~SettleOwner(p) /\ ~ForwardRequest(p)
    BY <1>0, <2>2 DEF HandleOwner, NextMessage, SettleOwner, ForwardRequest, HomeMessage, HomeInv
  <2>4. CASE HandleData(p)
    <3>1. /\ \A q \in Proc \ {Home} : copies'[q] = copies[q]
          /\ \A c \in copies'[Home] : Stray \notin c.refs
      BY <1>0, <2>2, <2>4 DEF HandleData, WithVersion, HomeInv, HomeMessage
    <3>2. dmq' = [dmq EXCEPT ![Home] = Tail(@)] /\ pc' = [pc EXCEPT ![Home] = "verify"]
          /\ UNCHANGED <<owner, acc, net>>
      BY <2>2, <2>4 DEF HandleData
    <3>3. QED
      BY <1>0, <2>2, <3>1, <3>2 DEF HomeInv
  <2>5. CASE QueueRequest(p)
    <3>1. Head(dmq[p]).tag \in HomeTag
      BY <2>2, <2>5 DEF QueueRequest, NextMessage, HomeMessage
    <3>2. PICK n \in 0..Len(acc[p]) : acc' = [acc EXCEPT ![p] = InsertAt(@, n + 1, Head(dmq[p]).tag)]
      BY <2>5 DEF QueueRequest
    <3>3. InsertAt(acc[p], n + 1, Head(dmq[p]).tag) \in Seq(HomeTag)
      BY <1>0, <2>2, <3>1, InsertAtType
    <3>4. dmq' = [dmq EXCEPT ![p] = Tail(@)] /\ pc' = [pc EXCEPT ![p] = "verify"]
          /\ UNCHANGED <<owner, copies>> /\ net' = net
      BY <1>0, <2>2, <2>5 DEF QueueRequest
    <3>5. QED
      BY <1>0, <2>2, <3>2, <3>3, <3>4 DEF HomeInv
  <2>6. QED
    BY <1>4, <2>3, <2>4, <2>5 DEF HandleMessage
<1>5. CASE FlushData(p) \/ EndVerify(p)
  BY <1>0, <1>5 DEF FlushData, EndVerify, Leave, HomeInv
<1>6. ASSUME NEW c \in copies[p],
             \/ RejectRequest(p, c) \/ GrantRead(p, c)
             \/ GrantLocalWrite(p, c) \/ TransferOwnership(p, c)
      PROVE  HomeInv'
  <2>1. p = Home
    BY <1>6 DEF HomeInv
  <2>2. \A i \in DOMAIN acc[p] :
          /\ acc[p][i].proc = p /\ RemoveAt(acc[p], i) \in Seq(HomeTag)
    BY <2>1, HomeRequests DEF HomeTag
  <2>3. /\ \E i \in DOMAIN acc[p] : acc' = [acc EXCEPT ![p] = RemoveAt(@, i)]
        /\ UNCHANGED <<owner, dmq, net>>
        /\ \A q \in Proc \ {Home} : copies'[q] = copies[q]
        /\ \A d \in copies'[Home] : Stray \notin d.refs
        /\ pc'[Home] \in {pc[Home], "idle"}
    <3>1. CASE RejectRequest(p, c)
      BY <2>2, <3>1 DEF RejectRequest, HomeInv
    <3>2. CASE GrantRead(p, c)
      <4>1. PICK i \in DOMAIN acc[p] :
              /\ acc' = [acc EXCEPT ![p] = RemoveAt(@, i)]
              /\ \/ /\ copies' = [copies EXCEPT ![p] = (@ \ {c}) \cup
                         {WithHolder(c, IF acc[p][i].task = NoTask THEN Stray ELSE acc[p][i].task)}]
                    /\ UNCHANGED net
                 \/ acc[p][i].proc # p
        BY <3>2 DEF GrantRead
      <4>2. acc[p][i] \in HomeTag
        BY <2>1, HomeRequests
      <4>3. acc[p][i].task # NoTask /\ acc[p][i].task # Stray
        BY <4>2, HolderAssumption DEF HomeTag, Tag
      <4>4. Stray \notin WithHolder(c, acc[p][i].task).refs
        BY <1>0, <2>1, <4>3 DEF WithHolder, HomeInv, Copy
      <4>5. copies' = [copies EXCEPT ![p] = (@ \ {c}) \cup {WithHolder(c, acc[p][i].task)}]
            /\ UNCHANGED net
        BY <2>2, <4>1, <4>3
      <4>6. \A d \in copies'[Home] : Stray \notin d.refs
        BY <1>0, <2>1, <4>4, <4>5 DEF HomeInv
      <4>7. \A q \in Proc \ {Home} : copies'[q] = copies[q]
        BY <1>0, <2>1, <4>5
      <4>8. UNCHANGED <<owner, dmq, pc>>
        BY <3>2 DEF GrantRead
      <4>9. QED
        BY <4>1, <4>5, <4>6, <4>7, <4>8
    <3>3. CASE GrantLocalWrite(p, c)
      BY <1>0, <2>1, <3>3 DEF GrantLocalWrite, Leave, HomeInv
    <3>4. CASE TransferOwnership(p, c)
      BY <2>2, <3>4 DEF TransferOwnership
    <3>5. QED
      BY <1>6, <3>1, <3>2, <3>3, <3>4
  <2>4. PICK i \in DOMAIN acc[p] : acc' = [acc EXCEPT ![p] = RemoveAt(@, i)]
    BY <2>3
  <2>5. acc'[Home] \in Seq(HomeTag) /\ \A q \in Proc \ {Home} : acc'[q] = acc[q]
    BY <1>0, <2>1, <2>2, <2>4
  <2>6. QED
    BY <2>3, <2>5 DEF HomeInv
<1>7. QED
  BY <1>1, <1>2, <1>4, <1>5, <1>6 DEF Service, Verify

\* On one processor, requests are its tasks'.
LEMMA HomeNext ==
    ASSUME TypeInv, OneProcessor, HomeInv, [Next]_vars PROVE HomeInv'
<1>1. UNCHANGED vars => HomeInv'
  BY DEF vars, HomeInv
<1>2. QED
  BY <1>1, HomeTaskStep, HomeService DEF Next

LEMMA HomePlain ==
    ASSUME TypeInv, HomeInv PROVE Plain
<1>1. \A p \in Proc : \A i \in DOMAIN acc[p] : p = Home
  BY DEF HomeInv
<1>2. QED
  BY <1>1, HomeRequests DEF Plain, HomeTag

-----------------------------------------------------------------------------
(* Every request is a task's own, or filed for a task of the processor     *)
(* that filed it.                                                          *)

FiledTag(P) == {tag \in Tag : \E t \in P : /\ TaskProc[t] = tag.proc /\ TaskMode[t] = tag.mode
                                           /\ TaskVersion[t] = tag.version}
FiledMessage(P) == {m \in Message : m.kind = "request" => m.tag \in FiledTag(P)}
FiledOf(P) == \A p \in Proc : /\ acc[p] \in Seq(FiledTag(P))
                              /\ dmq[p] \in Seq(FiledMessage(P))
                              /\ net[p] \in Seq(FiledMessage(P))
FiledInv == FiledOf(Present)

\* What is filed for a task asks for what the task asks for.
LEMMA FiledLocal ==
    ASSUME NEW P, NEW p \in Proc, NEW tag \in FiledTag(P)
    PROVE  /\ tag.proc = p => Filed(tag, p) \in FiledTag(P)
           /\ tag \in TagAt(p) => Localised(tag, p) \in FiledTag(P) /\ Localised(tag, p).proc = tag.proc
<1>1. ASSUME tag.proc = p PROVE Filed(tag, p) \in FiledTag(P) /\ Filed(tag, p).proc = p
  <2>1. /\ Filed(tag, p) \in Tag /\ Filed(tag, p).proc = tag.proc
        /\ Filed(tag, p).mode = tag.mode /\ Filed(tag, p).version = tag.version
    BY <1>1 DEF Filed, FiledTag, Tag
  <2> DEFINE f == Filed(tag, p)
  <2> HIDE DEF f
  <2>2. QED
    BY <1>1, <2>1 DEF FiledTag, f
<1>2. ASSUME tag \in TagAt(p)
      PROVE  Localised(tag, p) \in FiledTag(P) /\ Localised(tag, p).proc = tag.proc
  BY <1>1, <1>2 DEF Localised, TagAt, OwnTag
<1>3. QED
  BY <1>1, <1>2

LEMMA TagNumbers ==
    ASSUME NEW tag \in Tag
    PROVE  tag.version \in Int /\ tag.proc \in Int
<1>1. tag.proc \in Proc /\ tag.version \in Nat \cup {AnyVersion}
  BY DEF Tag
<1>2. \A v \in Nat \cup {AnyVersion} : v \in Int
  BY DEF AnyVersion
<1>3. \A q \in Proc : q \in Int
  BY ProcAssumption
<1>4. QED
  BY <1>1, <1>2, <1>3, Zenon

\* Writers whose requests one processor files all name one version.
LEMMA OneVersion ==
    ASSUME Migrating, NEW a \in FiledTag(Present), NEW b \in FiledTag(Present), a.proc = b.proc
    PROVE  a.version = b.version /\ a.mode = "Write"
<1>1. PICK t \in Present : /\ TaskProc[t] = a.proc /\ TaskMode[t] = a.mode
                           /\ TaskVersion[t] = a.version
  BY DEF FiledTag
<1>2. PICK u \in Present : TaskProc[u] = b.proc /\ TaskVersion[u] = b.version
  BY DEF FiledTag
<1>3. QED
  BY <1>1, <1>2 DEF Migrating, AnyWriters, InTurn, WritersInTurn, Writers

\* The queues' elements, and what is left without one
LEMMA FiledQueues ==
    ASSUME TypeInv, NEW P, FiledOf(P), NEW p \in Proc
    PROVE  /\ \A i \in DOMAIN acc[p] : /\ acc[p][i] \in FiledTag(P) /\ acc[p][i] \in TagAt(p)
                                       /\ RemoveAt(acc[p], i) \in Seq(FiledTag(P))
           /\ dmq[p] # <<>> => /\ Head(dmq[p]) \in FiledMessage(P) /\ Head(dmq[p]) \in MessageAt(p)
                               /\ Tail(dmq[p]) \in Seq(FiledMessage(P))
           /\ net[p] # <<>> => /\ Head(net[p]) \in FiledMessage(P)
                               /\ Tail(net[p]) \in Seq(FiledMessage(P))
<1>1. /\ acc[p] \in Seq(FiledTag(P)) /\ dmq[p] \in Seq(FiledMessage(P))
      /\ net[p] \in Seq(FiledMessage(P))
  BY DEF FiledOf
<1>2. DOMAIN acc[p] = 1..Len(acc[p]) /\ \A i \in 1..Len(acc[p]) : acc[p][i] \in FiledTag(P)
  BY <1>1, SequencePlain
<1>3. \A i \in DOMAIN acc[p] : RemoveAt(acc[p], i) \in Seq(FiledTag(P))
  BY <1>1, <1>2, RemoveAtType
<1>4. QED
  BY <1>1, <1>2, <1>3, QueueTypes, HeadTailProperties

\* An owner task brings requests that were filed.
LEMMA FiledTask ==
    ASSUME NEW P, NEW tag \in Unnamed, NEW n \in Nat, NEW s \in [1..n -> FiledTag(P)]
    PROVE  OwnerTask(tag, s) \in Seq(FiledMessage(P))
<1>1. \A x \in FiledTag(P) : Request(x) \in FiledMessage(P)
  BY DEF FiledTag, Request, FiledMessage, Message
<1>2. DOMAIN s = 1..n
  OBVIOUS
<1>3. [i \in DOMAIN s |-> Request(s[i])] \in Seq(FiledMessage(P))
  <2>1. [i \in 1..n |-> Request(s[i])] \in [1..n -> FiledMessage(P)]
    BY <1>1
  <2>2. QED
    BY <2>1, <1>2, SeqDef
<1>4. /\ [kind |-> "owner", tag |-> tag, refs |-> {}] \in FiledMessage(P)
      /\ [kind |-> "dispose", tag |-> tag, refs |-> {}] \in FiledMessage(P)
  BY DEF Unnamed, FiledMessage, Message
<1>5. /\ <<[kind |-> "owner", tag |-> tag, refs |-> {}]>> \in Seq(FiledMessage(P))
      /\ <<[kind |-> "dispose", tag |-> tag, refs |-> {}]>> \in Seq(FiledMessage(P))
  BY <1>4
<1>6. QED
  BY <1>3, <1>5, ConcatProperties DEF OwnerTask

LEMMA FiledSent ==
    ASSUME TypeInv, NEW P, FiledOf(P), NEW p, NEW tag \in Unnamed, NEW n \in Nat,
           NEW s \in [1..n -> FiledTag(P)], SendOwnerTask(p, tag, s)
    PROVE  \A q \in Proc : net'[q] \in Seq(FiledMessage(P))
<1>0. net \in [Proc -> Seq(Packet)] /\ tag.proc \in Proc
  BY DEF TypeInv, NetTypes, Unnamed, Tag
<1>1. net[tag.proc] \o OwnerTask(tag, s) \in Seq(FiledMessage(P))
  BY <1>0, FiledTask, ConcatProperties DEF FiledOf
<1>2. net' = [net EXCEPT ![tag.proc] = @ \o OwnerTask(tag, s)]
  BY DEF SendOwnerTask
<1> DEFINE t == OwnerTask(tag, s)
<1> HIDE DEF t
<1>3. QED
  BY <1>0, <1>1, <1>2 DEF FiledOf, t

LEMMA FiledDrop ==
    ASSUME TypeInv, NEW P, FiledOf(P), NEW p \in Proc, NEW h, DropPointer(p, h)
    PROVE  \A q \in Proc : dmq'[q] \in Seq(FiledMessage(P))
<1>1. /\ FiledMessage(P) \subseteq Message
      /\ \A m \in FiledMessage(P) : \A x : [m EXCEPT !.refs = @ \ {x}] \in FiledMessage(P)
  BY DEF FiledMessage, Message
<1>2. MessagesWithout(dmq[p], h) \in Seq(FiledMessage(P))
  BY <1>1, DroppedType DEF FiledOf
<1>3. dmq \in [Proc -> Seq(Message)] /\ dmq' = [dmq EXCEPT ![p] = MessagesWithout(@, h)]
  BY DEF TypeInv, DmqTypes, DropPointer
<1>4. QED
  BY <1>2, <1>3 DEF FiledOf

\* A message put at the end of a queue or taken from its front
LEMMA FiledMoves ==
    ASSUME TypeInv, NEW P, FiledOf(P), NEW p \in Proc
    PROVE  /\ \A m \in FiledMessage(P) : dmq' = [dmq EXCEPT ![p] = Append(@, m)] =>
                \A q \in Proc : dmq'[q] \in Seq(FiledMessage(P))
           /\ \A m \in FiledMessage(P) : net' = [net EXCEPT ![p] = Append(@, m)] =>
                \A q \in Proc : net'[q] \in Seq(FiledMessage(P))
           /\ dmq[p] # <<>> /\ dmq' = [dmq EXCEPT ![p] = Tail(@)] =>
                \A q \in Proc : dmq'[q] \in Seq(FiledMessage(P))
           /\ net[p] # <<>> /\ net' = [net EXCEPT ![p] = Tail(@)] =>
                \A q \in Proc : net'[q] \in Seq(FiledMessage(P))
<1>0. /\ dmq \in [Proc -> Seq(Message)] /\ net \in [Proc -> Seq(Packet)]
      /\ \A q \in Proc : dmq[q] \in Seq(FiledMessage(P)) /\ net[q] \in Seq(FiledMessage(P))
  BY DEF TypeInv, DmqTypes, NetTypes, FiledOf
<1>1. \A m \in FiledMessage(P) : /\ Append(dmq[p], m) \in Seq(FiledMessage(P))
                                 /\ Append(net[p], m) \in Seq(FiledMessage(P))
  BY <1>0, SequencePlain
<1>2. /\ dmq[p] # <<>> => Tail(dmq[p]) \in Seq(FiledMessage(P))
      /\ net[p] # <<>> => Tail(net[p]) \in Seq(FiledMessage(P))
  BY FiledQueues
<1> DEFINE S == Seq(FiledMessage(P))
<1> HIDE DEF S
<1>3. QED
  BY <1>0, <1>1, <1>2 DEF S

LEMMA FiledTaskStep ==
    ASSUME TypeInv, NEW u \in Task, TaskStep(u), FiledOf(Present)
    PROVE  \A P : P = Present => FiledOf(P)'
<1> SUFFICES ASSUME NEW P, P = Present PROVE FiledOf(P)'
  OBVIOUS
<1> DEFINE q == TaskProc[u]
<1>0. /\ q \in Proc /\ TaskMode[u] \in Mode /\ TaskVersion[u] \in Nat \cup {AnyVersion}
      /\ got[u] \in Nat /\ UNCHANGED <<acc, net>> /\ FiledOf(P)
  BY TaskAssumption DEF TypeInv, PlainTypes, TaskStep, PostRequests, PostData, ClearPointer,
                        ObjectChanged
<1>1. (\A p \in Proc : dmq'[p] \in Seq(FiledMessage(P))) => FiledOf(P)'
  BY <1>0 DEF FiledOf
<1>2. CASE PostRequests(u)
  <2> DEFINE tag == [task |-> u, proc |-> q, mode |-> TaskMode[u], version |-> TaskVersion[u]]
  <2>1. u \in P
    BY <1>2 DEF PostRequests, Present
  <2>2. tag \in FiledTag(P)
    BY <1>0, <2>1 DEF FiledTag, Tag
  <2>3. Request(tag) \in FiledMessage(P)
    <3> HIDE DEF tag
    <3> QED
      BY <2>2 DEF FiledTag, Request, FiledMessage, Message
  <2>4. dmq' = [dmq EXCEPT ![q] = Append(@, Request(tag))]
    BY <1>2 DEF PostRequests
  <2> HIDE DEF tag
  <2>5. QED
    BY <1>0, <1>1, <2>3, <2>4, FiledMoves
<1>3. CASE PostData(u)
  <2> DEFINE m == Data(q, got[u] + 1, {u})
  <2>1. m \in FiledMessage(P)
    BY <1>0 DEF Data, FiledMessage, Message, Tag, Mode, Holder
  <2>2. dmq' = [dmq EXCEPT ![q] = Append(@, m)]
    BY <1>3 DEF PostData
  <2> HIDE DEF m
  <2>3. QED
    BY <1>0, <1>1, <2>1, <2>2, FiledMoves
<1>4. CASE ClearPointer(u)
  BY <1>0, <1>1, <1>4, FiledDrop DEF ClearPointer
<1>5. CASE ObjectChanged(u)
  BY <1>0, <1>1, <1>5 DEF ObjectChanged, FiledOf
<1>6. QED
  BY <1>2, <1>3, <1>4, <1>5 DEF TaskStep

LEMMA FiledMessages ==
    ASSUME TypeInv, NEW P, FiledOf(P), NEW p \in Proc,
           \/ Deliver(p) \/ ForgetStrayGrant(p) \/ HandleMessage(p)
           \/ SettleOwner(p) \/ FlushData(p) \/ EndVerify(p)
    PROVE  FiledOf(P)'
<1> DEFINE S == Seq(FiledMessage(P))
           m == Head(dmq[p])
<1>0. /\ owner \in [Proc -> Proc] /\ acc \in [Proc -> Seq(Tag)]
      /\ \A q \in Proc : dmq[q] \in S /\ net[q] \in S
  BY DEF TypeInv, PlainTypes, AccTypes, FiledOf
<1>1. ASSUME UNCHANGED acc, \A q \in Proc : dmq'[q] \in S, \A q \in Proc : net'[q] \in S
      PROVE  FiledOf(P)'
  BY <1>1 DEF FiledOf
<1>2. CASE Deliver(p)
  <2> DEFINE h == Head(net[p])
             o == [h EXCEPT !.refs = {Daemon}]
  <2>1. h \in FiledMessage(P) /\ UNCHANGED acc /\ \A q \in Proc : net'[q] \in S
    BY <1>2, FiledQueues, FiledMoves DEF Deliver
  <2>2. o \in FiledMessage(P)
    BY <2>1 DEF FiledMessage, Message, Holder
  <2>3. \/ dmq' = [dmq EXCEPT ![p] = Append(@, h)]
        \/ dmq' = [dmq EXCEPT ![p] = Append(@, o)]
        \/ DropPointer(p, Daemon)
    BY <1>2 DEF Deliver
  <2> HIDE DEF h, o
  <2>4. \A q \in Proc : dmq'[q] \in S
    BY <2>1, <2>2, <2>3, FiledMoves, FiledDrop
  <2>5. QED
    BY <1>1, <2>1, <2>4
<1>3. CASE ForgetStrayGrant(p)
  BY <1>0, <1>1, <1>3, FiledDrop DEF ForgetStrayGrant
<1>4. CASE HandleData(p) \/ SettleOwner(p)
  <2>1. /\ dmq[p] # <<>> /\ dmq' = [dmq EXCEPT ![p] = Tail(@)] /\ UNCHANGED <<acc, net>>
    BY <1>4 DEF HandleData, NextMessage, SettleOwner, TypeInv, InHand
  <2>2. QED
    BY <1>0, <1>1, <2>1, FiledMoves
<1>5. CASE HandleOwner(p) \/ FlushData(p) \/ EndVerify(p)
  BY <1>0, <1>1, <1>5 DEF HandleOwner, FlushData, EndVerify
<1>6. CASE ForwardRequest(p)
  <2>1. /\ dmq[p] # <<>> /\ m.kind = "request" /\ dmq' = [dmq EXCEPT ![p] = Tail(@)]
        /\ net' = [net EXCEPT ![owner[p]] = Append(@, Request(m.tag))] /\ UNCHANGED acc
    BY <1>6 DEF ForwardRequest, NextMessage
  <2>2. m.tag \in FiledTag(P)
    BY <2>1, FiledQueues DEF FiledMessage
  <2>3. Request(m.tag) \in FiledMessage(P) /\ owner[p] \in Proc
    BY <1>0, <2>2 DEF FiledTag, Request, FiledMessage, Message
  <2> DEFINE r == Request(m.tag)
  <2> HIDE DEF r
  <2>4. QED
    BY <1>1, <2>1, <2>3, FiledMoves DEF r
<1>7. CASE QueueRequest(p)
  <2>1. /\ dmq[p] # <<>> /\ m.kind = "request" /\ dmq' = [dmq EXCEPT ![p] = Tail(@)]
        /\ \/ UNCHANGED net
           \/ /\ m.tag.proc = p
              /\ net' = [net EXCEPT ![owner[p]] = Append(@, Request(Filed(m.tag, p)))]
        /\ \E n \in 0..Len(acc[p]) : acc' = [acc EXCEPT ![p] = InsertAt(@, n + 1, m.tag)]
    BY <1>7 DEF QueueRequest, NextMessage
  <2>2. m.tag \in FiledTag(P)
    BY <2>1, FiledQueues DEF FiledMessage
  <2>3. m.tag.proc = p => Request(Filed(m.tag, p)) \in FiledMessage(P)
    <3>1. m.tag.proc = p => Filed(m.tag, p) \in FiledTag(P)
      BY <2>2, FiledLocal
    <3> DEFINE f == Filed(m.tag, p)
    <3> HIDE DEF f
    <3>2. QED
      BY <3>1 DEF FiledTag, Request, FiledMessage, Message, f
  <2> DEFINE r == Request(Filed(m.tag, p))
  <2> HIDE DEF r
  <2>4. (\A q \in Proc : dmq'[q] \in S) /\ (\A q \in Proc : net'[q] \in S)
    BY <1>0, <2>1, <2>3, FiledMoves DEF r
  <2>5. PICK n \in 0..Len(acc[p]) : acc' = [acc EXCEPT ![p] = InsertAt(@, n + 1, m.tag)]
    BY <2>1
  <2>6. InsertAt(acc[p], n + 1, m.tag) \in Seq(FiledTag(P))
    BY <2>2, InsertAtType DEF FiledOf
  <2>7. \A q \in Proc : acc'[q] \in Seq(FiledTag(P))
    BY <1>0, <2>5, <2>6 DEF FiledOf
  <2>8. QED
    BY <2>4, <2>7 DEF FiledOf
<1>8. QED
  BY <1>2, <1>3, <1>4, <1>5, <1>6, <1>7 DEF HandleMessage

LEMMA FiledVerify ==
    ASSUME TypeInv, NEW P, FiledOf(P), NEW p \in Proc, NEW c \in copies[p],
           \/ RejectRequest(p, c) \/ GrantRead(p, c)
           \/ GrantLocalWrite(p, c) \/ TransferOwnership(p, c)
    PROVE  FiledOf(P)'
<1>0. /\ c.label \in Nat /\ acc \in [Proc -> Seq(Tag)] /\ UNCHANGED dmq
      /\ <<>> \in [1..0 -> FiledTag(P)] /\ 0 \in Nat
  BY DEF TypeInv, PlainTypes, AccTypes, Copy, RejectRequest, GrantRead, GrantLocalWrite,
         TransferOwnership
<1>1. ASSUME NEW s \in Seq(FiledTag(P)), acc' = [acc EXCEPT ![p] = s],
             \A q \in Proc : net'[q] \in Seq(FiledMessage(P))
      PROVE  FiledOf(P)'
  BY <1>0, <1>1 DEF FiledOf
<1>2. UNCHANGED net => \A q \in Proc : net'[q] \in Seq(FiledMessage(P))
  BY DEF FiledOf
<1>3. \A i \in DOMAIN acc[p] : acc[p][i].proc # p =>
        /\ [acc[p][i] EXCEPT !.mode = "Read"] \in Unnamed
        /\ [acc[p][i] EXCEPT !.version = c.label] \in Unnamed
  <2>1. \A tag \in Unnamed : /\ [tag EXCEPT !.mode = "Read"] \in Unnamed
                             /\ [tag EXCEPT !.version = c.label] \in Unnamed
    BY <1>0 DEF Unnamed, Tag, Mode
  <2>2. QED
    BY <2>1, PendingTypes DEF TypeInv
<1>4. CASE ~TransferOwnership(p, c)
  <2>1. PICK i \in DOMAIN acc[p] :
          /\ acc' = [acc EXCEPT ![p] = RemoveAt(@, i)]
          /\ \/ UNCHANGED net
             \/ /\ acc[p][i].proc # p
                /\ \/ SendOwnerTask(p, [acc[p][i] EXCEPT !.mode = "Read"], <<>>)
                   \/ SendOwnerTask(p, [acc[p][i] EXCEPT !.version = c.label], <<>>)
    BY <1>4 DEF RejectRequest, GrantRead, GrantLocalWrite
  <2>2. \A q \in Proc : net'[q] \in Seq(FiledMessage(P))
    BY <1>0, <1>2, <1>3, <2>1, FiledSent
  <2>3. QED
    BY <1>1, <2>1, <2>2, FiledQueues
<1>5. CASE TransferOwnership(p, c)
  <2>1. PICK i \in DOMAIN acc[p] :
          /\ acc[p][i].proc # p
          /\ \E n \in 0..Len(acc[p]) :
               \E s \in [1..n -> TransferredTags(p, acc[p][i].proc)] :
                 SendOwnerTask(p, [acc[p][i] EXCEPT !.version = c.label], s)
          /\ \E n \in 0..Len(acc[p]) : \E f \in [1..n -> RetainedIndices(p)] :
               acc' = [acc EXCEPT ![p] = [k \in 1..n |-> acc[p][f[k]]]]
    BY <1>5, ZenonT(60) DEF TransferOwnership
  <2>2. TransferredTags(p, acc[p][i].proc) \subseteq FiledTag(P)
    BY FiledQueues, FiledLocal DEF TransferredTags
  <2>3. \A q \in Proc : net'[q] \in Seq(FiledMessage(P))
    <3>1. PICK n \in 0..Len(acc[p]) :
            \E s \in [1..n -> TransferredTags(p, acc[p][i].proc)] :
              SendOwnerTask(p, [acc[p][i] EXCEPT !.version = c.label], s)
      BY <2>1
    <3>2. PICK s \in [1..n -> TransferredTags(p, acc[p][i].proc)] :
            SendOwnerTask(p, [acc[p][i] EXCEPT !.version = c.label], s)
      BY <3>1
    <3>3. s \in [1..n -> FiledTag(P)] /\ n \in Nat
      BY <2>2, <3>1, LenProperties DEF TypeInv, AccTypes
    <3>4. QED
      BY <1>3, <2>1, <3>2, <3>3, FiledSent
  <2>4. PICK n \in 0..Len(acc[p]) : \E f \in [1..n -> RetainedIndices(p)] :
          acc' = [acc EXCEPT ![p] = [k \in 1..n |-> acc[p][f[k]]]]
    BY <2>1
  <2>5. PICK f \in [1..n -> RetainedIndices(p)] :
          acc' = [acc EXCEPT ![p] = [k \in 1..n |-> acc[p][f[k]]]]
    BY <2>4
  <2>6. [k \in 1..n |-> acc[p][f[k]]] \in Seq(FiledTag(P))
    <3>1. n \in Nat
      BY LenProperties DEF TypeInv, AccTypes
    <3>2. [k \in 1..n |-> acc[p][f[k]]] \in [1..n -> FiledTag(P)]
      BY <2>5, FiledQueues DEF RetainedIndices
    <3>3. QED
      BY <3>1, <3>2, SeqDef
  <2>7. QED
    BY <1>1, <2>3, <2>5, <2>6
<1>6. QED
  BY <1>4, <1>5

LEMMA FiledInit == Init => FiledInv
<1> SUFFICES ASSUME Init PROVE FiledInv
  OBVIOUS
<1> DEFINE S == FiledMessage(Present)
           m == Data(Home, 0, {})
<1>1. m \in S
  BY ProcAssumption DEF Data, FiledMessage, Message, Tag, Mode
<1>2. \A p \in Proc : /\ acc[p] = <<>> /\ net[p] = <<>>
                      /\ dmq[p] = IF p = Home THEN <<m>> ELSE <<>>
  BY DEF Init
<1> HIDE DEF m, S
<1>3. <<m>> \in Seq(S) /\ <<>> \in Seq(S) /\ <<>> \in Seq(FiledTag(Present))
  BY <1>1
<1>4. QED
  BY <1>2, <1>3 DEF FiledInv, FiledOf, S

LEMMA FiledNext ==
    ASSUME TypeInv, RequestsInv, FiledInv, [Next]_vars
    PROVE  FiledInv'
<1>1. Present' = Present
  BY SimpleStays
<1>2. FiledOf(Present)
  BY DEF FiledInv
<1>3. PICK P : P = Present
  OBVIOUS
<1>4. FiledOf(P)
  BY <1>2, <1>3
<1>5. FiledOf(P)'
  <2>1. CASE UNCHANGED vars
    BY <1>4, <2>1 DEF vars, FiledOf
  <2>2. CASE \E u \in Task : TaskStep(u)
    BY <1>2, <1>3, <2>2, FiledTaskStep
  <2>3. CASE \E p \in Proc : Service(p) \/ Deliver(p) \/ ForgetStrayGrant(p)
    BY <1>4, <2>3, FiledMessages, FiledVerify DEF Service, Verify
  <2>4. QED
    BY <2>1, <2>2, <2>3 DEF Next
<1>6. P = Present'
  BY <1>1, <1>3
<1>7. QED
  BY <1>5, <1>6 DEF FiledInv, FiledOf

-----------------------------------------------------------------------------
(* Elements of a sequence that are in a set K: whether there is one, only  *)
(* one, or none before the first element in a set O                        *)

Has(s, K) == \E i \in DOMAIN s : s[i] \in K
Once(s, K) == \A i, j \in DOMAIN s : s[i] \in K /\ s[j] \in K => i = j
Behind(s, K, O) == \A i \in DOMAIN s : s[i] \in K => \E j \in DOMAIN s : j < i /\ s[j] \in O

LEMMA Drawn ==
    ASSUME NEW r, NEW s, NEW f \in [DOMAIN r -> DOMAIN s],
           \A i \in DOMAIN r : r[i] = s[f[i]],
           \A i, j \in DOMAIN r : f[i] = f[j] => i = j, NEW K
    PROVE  (Has(r, K) => Has(s, K)) /\ (Once(s, K) => Once(r, K))
BY DEF Has, Once

LEMMA AppendOf ==
    ASSUME NEW S, NEW s \in Seq(S), NEW m \in S, NEW K, NEW O
    PROVE  /\ Has(Append(s, m), K) <=> Has(s, K) \/ m \in K
           /\ Once(s, K) /\ (m \notin K \/ ~Has(s, K)) => Once(Append(s, m), K)
           /\ Behind(s, K, O) /\ (m \notin K \/ Has(s, O)) => Behind(Append(s, m), K, O)
<1> DEFINE r == Append(s, m)
           n == Len(s)
<1>1. /\ n \in Nat /\ DOMAIN s = 1..n /\ DOMAIN r = 1..n + 1
      /\ r[n + 1] = m /\ \A i \in 1..n : r[i] = s[i]
  BY SequencePlain
<1> HIDE DEF r, n
<1>2. /\ \A i \in DOMAIN s : i \in DOMAIN r /\ r[i] = s[i] /\ i < n + 1 /\ i # n + 1
      /\ \A i \in DOMAIN r : i # n + 1 => i \in DOMAIN s /\ r[i] = s[i]
      /\ n + 1 \in DOMAIN r /\ r[n + 1] = m
  BY <1>1
<1>3. Has(r, K) <=> Has(s, K) \/ m \in K
  BY <1>2, Zenon DEF Has
<1>4. Once(s, K) /\ (m \notin K \/ ~Has(s, K)) => Once(r, K)
  BY <1>2 DEF Once, Has
<1>5. Behind(s, K, O) /\ (m \notin K \/ Has(s, O)) => Behind(r, K, O)
  BY <1>2 DEF Behind, Has
<1>6. QED
  BY <1>3, <1>4, <1>5 DEF r

LEMMA TailOf ==
    ASSUME NEW S, NEW s \in Seq(S), s # <<>>, NEW K, NEW O
    PROVE  /\ Has(s, K) <=> Has(Tail(s), K) \/ Head(s) \in K
           /\ Once(s, K) => Once(Tail(s), K) /\ ~(Head(s) \in K /\ Has(Tail(s), K))
           /\ Behind(s, K, O) => Head(s) \notin K
           /\ Behind(s, K, O) /\ Head(s) \notin O => Behind(Tail(s), K, O)
<1> DEFINE r == Tail(s)
           n == Len(s)
<1>1. /\ n \in Nat /\ n # 0 /\ DOMAIN s = 1..n /\ DOMAIN r = 1..n - 1
      /\ Head(s) = s[1] /\ \A i \in 1..n - 1 : r[i] = s[i + 1]
  BY SequencePlain
<1> HIDE DEF r, n
<1>2. /\ \A i \in DOMAIN r : i + 1 \in DOMAIN s /\ r[i] = s[i + 1] /\ i + 1 # 1 /\ i \in Int
      /\ \A i \in DOMAIN s : i # 1 => i - 1 \in DOMAIN r /\ r[i - 1] = s[i]
      /\ \A i \in DOMAIN s : ~(i < 1) /\ i \in Int
      /\ 1 \in DOMAIN s
  BY <1>1
<1>3. Has(s, K) <=> Has(r, K) \/ Head(s) \in K
  BY <1>1, <1>2 DEF Has
<1>4. ASSUME Once(s, K) PROVE Once(r, K) /\ ~(Head(s) \in K /\ Has(r, K))
  <2>1. ASSUME NEW i \in DOMAIN r, NEW j \in DOMAIN r, r[i] \in K, r[j] \in K PROVE i = j
    <3>1. i + 1 = j + 1 /\ i \in Int /\ j \in Int
      BY <1>2, <1>4, <2>1 DEF Once
    <3>2. QED
      BY <3>1
  <2>2. ASSUME NEW i \in DOMAIN r, r[i] \in K, Head(s) \in K PROVE FALSE
    BY <1>1, <1>2, <1>4, <2>2 DEF Once
  <2>3. QED
    BY <2>1, <2>2 DEF Once, Has
<1>5. Behind(s, K, O) => Head(s) \notin K
  BY <1>1, <1>2 DEF Behind
<1>6. ASSUME Behind(s, K, O), Head(s) \notin O PROVE Behind(r, K, O)
  <2>1. ASSUME NEW i \in DOMAIN r, r[i] \in K
        PROVE  \E j \in DOMAIN r : j < i /\ r[j] \in O
    <3>1. PICK j \in DOMAIN s : j < i + 1 /\ s[j] \in O
      BY <1>2, <1>6, <2>1 DEF Behind
    <3>2. j # 1 /\ j \in Int /\ i \in Int
      BY <1>1, <1>2, <1>6, <3>1
    <3>3. j - 1 \in DOMAIN r /\ r[j - 1] \in O /\ j - 1 < i
      BY <1>2, <3>1, <3>2
    <3>4. QED
      BY <3>3
  <2>2. QED
    BY <2>1 DEF Behind
<1>7. QED
  BY <1>3, <1>4, <1>5, <1>6 DEF r

LEMMA InsertOf ==
    ASSUME NEW S, NEW s \in Seq(S), NEW e \in S, NEW n \in 0..Len(s), NEW K
    PROVE  /\ Has(InsertAt(s, n + 1, e), K) <=> Has(s, K) \/ e \in K
           /\ Once(s, K) /\ (e \notin K \/ ~Has(s, K)) => Once(InsertAt(s, n + 1, e), K)
           /\ InsertAt(s, n + 1, e) # <<>>
<1> DEFINE r == InsertAt(s, n + 1, e)
<1>1. DOMAIN s = 1..Len(s) /\ Len(s) \in Nat
  BY LenProperties
<1>2. /\ r \in Seq(S) /\ Len(r) = Len(s) + 1
      /\ \A i \in 1..Len(s) + 1 :
           r[i] = IF i <= n THEN s[i] ELSE IF i = n + 1 THEN e ELSE s[i - 1]
  BY Inserted
<1>3. DOMAIN r = 1..Len(s) + 1 /\ r # <<>>
  BY <1>1, <1>2, LenProperties
<1> HIDE DEF r
<1> DEFINE f(i) == IF i <= n THEN i ELSE i - 1
           g(i) == IF i <= n THEN i ELSE i + 1
<1>4. /\ \A i \in DOMAIN r : i # n + 1 => f(i) \in DOMAIN s /\ r[i] = s[f(i)]
      /\ \A i, j \in DOMAIN r : i # n + 1 /\ j # n + 1 /\ f(i) = f(j) => i = j
      /\ \A i \in DOMAIN s : g(i) \in DOMAIN r /\ r[g(i)] = s[i]
      /\ n + 1 \in DOMAIN r /\ r[n + 1] = e
  BY <1>1, <1>2, <1>3
<1> HIDE DEF f, g
<1>5. Has(r, K) <=> Has(s, K) \/ e \in K
  BY <1>4 DEF Has
<1>6. Once(s, K) /\ (e \notin K \/ ~Has(s, K)) => Once(r, K)
  <2>1. ASSUME Once(s, K), e \notin K \/ ~Has(s, K),
               NEW i \in DOMAIN r, NEW j \in DOMAIN r, r[i] \in K, r[j] \in K
        PROVE  i = j
    <3>1. CASE e \in K
      BY <1>4, <2>1, <3>1 DEF Has
    <3>2. CASE e \notin K
      <4>1. i # n + 1 /\ j # n + 1
        BY <1>4, <2>1, <3>2
      <4>2. f(i) = f(j)
        BY <1>4, <2>1, <4>1 DEF Once
      <4>3. QED
        BY <1>4, <4>1, <4>2
    <3>3. QED
      BY <3>1, <3>2
  <2>2. QED
    BY <2>1 DEF Once
<1>7. QED
  BY <1>3, <1>5, <1>6 DEF r

LEMMA RemoveOf ==
    ASSUME NEW S, NEW s \in Seq(S), NEW k \in DOMAIN s, NEW K
    PROVE  /\ Has(RemoveAt(s, k), K) => Has(s, K)
           /\ Once(s, K) => Once(RemoveAt(s, k), K)
<1> DEFINE r == RemoveAt(s, k)
<1>1. DOMAIN s = 1..Len(s) /\ Len(s) \in Nat
  BY LenProperties
<1>2. /\ r \in Seq(S) /\ Len(r) = Len(s) - 1
      /\ \A i \in 1..Len(s) - 1 : r[i] = IF i < k THEN s[i] ELSE s[i + 1]
  BY <1>1, Removed
<1>3. DOMAIN r = 1..Len(s) - 1
  BY <1>2, LenProperties
<1> HIDE DEF r
<1> DEFINE f == [i \in DOMAIN r |-> IF i < k THEN i ELSE i + 1]
<1>4. /\ f \in [DOMAIN r -> DOMAIN s] /\ \A i \in DOMAIN r : r[i] = s[f[i]]
      /\ \A i, j \in DOMAIN r : f[i] = f[j] => i = j
  BY <1>1, <1>2, <1>3
<1> HIDE DEF f
<1>5. QED
  BY <1>4, Drawn DEF r

LEMMA ConcatOf ==
    ASSUME NEW S, NEW s \in Seq(S), NEW t \in Seq(S), NEW K, NEW O
    PROVE  /\ Has(s \o t, K) <=> Has(s, K) \/ Has(t, K)
           /\ Once(s, K) /\ Once(t, K) /\ ~(Has(s, K) /\ Has(t, K)) => Once(s \o t, K)
           /\ Behind(s, K, O) /\ Behind(t, K, O) => Behind(s \o t, K, O)
<1> DEFINE r == s \o t
           n == Len(s)
           l == Len(t)
<1>1. /\ n \in Nat /\ l \in Nat /\ DOMAIN s = 1..n /\ DOMAIN t = 1..l
  BY LenProperties
<1>2. /\ r \in Seq(S) /\ Len(r) = n + l
      /\ \A i \in 1..n + l : r[i] = IF i <= n THEN s[i] ELSE t[i - n]
  BY ConcatProperties
<1>3. DOMAIN r = 1..n + l
  BY <1>2, LenProperties
<1> HIDE DEF r, n, l
<1>4. /\ \A i \in DOMAIN s : i \in DOMAIN r /\ r[i] = s[i]
      /\ \A i \in DOMAIN t : n + i \in DOMAIN r /\ r[n + i] = t[i]
      /\ \A i \in DOMAIN r : \/ i \in DOMAIN s /\ r[i] = s[i]
                             \/ i - n \in DOMAIN t /\ r[i] = t[i - n]
      /\ \A i \in DOMAIN r : i \in Int
      /\ n \in Int /\ \A i \in DOMAIN s \cup DOMAIN t : i \in Int
  BY <1>1, <1>2, <1>3
<1>5. Has(r, K) <=> Has(s, K) \/ Has(t, K)
  BY <1>4 DEF Has
<1>6. ASSUME Once(s, K), Once(t, K), ~(Has(s, K) /\ Has(t, K)),
             NEW i \in DOMAIN r, NEW j \in DOMAIN r, r[i] \in K, r[j] \in K
      PROVE  i = j
  <2>1. CASE Has(s, K)
    BY <1>4, <1>6, <2>1 DEF Has, Once
  <2>2. CASE ~Has(s, K)
    <3>1. i - n \in DOMAIN t /\ t[i - n] \in K /\ j - n \in DOMAIN t /\ t[j - n] \in K
      BY <1>4, <1>6, <2>2 DEF Has
    <3>2. i - n = j - n
      BY <1>6, <3>1 DEF Once
    <3>3. QED
      BY <1>4, <3>2
  <2>3. QED
    BY <2>1, <2>2
<1>7. ASSUME Behind(s, K, O), Behind(t, K, O), NEW i \in DOMAIN r, r[i] \in K
      PROVE  \E j \in DOMAIN r : j < i /\ r[j] \in O
  <2>1. CASE i \in DOMAIN s /\ r[i] = s[i]
    BY <1>4, <1>7, <2>1 DEF Behind
  <2>2. CASE i - n \in DOMAIN t /\ r[i] = t[i - n]
    <3>1. PICK j \in DOMAIN t : j < i - n /\ t[j] \in O
      BY <1>7, <2>2 DEF Behind
    <3>2. n + j < i
      BY <1>4, <3>1
    <3>3. QED
      BY <1>4, <3>1, <3>2
  <2>3. QED
    BY <1>4, <2>1, <2>2
<1>8. QED
  BY <1>5, <1>6, <1>7 DEF r, Once, Behind

\* Sequences that agree on what is in K and in O
LEMMA SameOf ==
    ASSUME NEW r, NEW s, DOMAIN r = DOMAIN s, NEW K, NEW O,
           \A i \in DOMAIN s : (r[i] \in K <=> s[i] \in K) /\ (r[i] \in O <=> s[i] \in O)
    PROVE  /\ Has(r, K) <=> Has(s, K)
           /\ Once(s, K) => Once(r, K)
           /\ Behind(s, K, O) => Behind(r, K, O)
BY Zenon DEF Has, Once, Behind

-----------------------------------------------------------------------------
(* Writers only: the object moves to whoever is next.                      *)

\* A pending request at p is for writing.  It names its task or is another
\* processor's: a request filed by p does not come back to p.
PlainTag(p) == {tag \in TagAt(p) : /\ tag.mode = "Write"
                                   /\ tag.proc = p => tag.task # NoTask}
PlainMessage(p) == {m \in Message : /\ m.kind = "request" => m.tag \in PlainTag(p)
                                    /\ m.kind = "owner" => m.tag.mode = "Write"
                                    /\ Stray \notin m.refs}
MigTypes == \A p \in Proc : /\ acc[p] \in Seq(PlainTag(p))
                            /\ dmq[p] \in Seq(PlainMessage(p))
                            /\ net[p] \in Seq(PlainMessage(p))
                            /\ \A c \in copies[p] : Stray \notin c.refs

\* Requests filed by processors, and the owner messages they may travel behind
FiledBy(x) == {tag \in Tag : tag.task = NoTask /\ tag.proc = x}
RequestsOf(X) == {m \in Message : m.kind = "request" /\ m.tag.task = NoTask /\ m.tag.proc \in X}
Owners == {m \in Message : m.kind = "owner"}
Arriving(p) == Has(dmq[p], Owners) \/ Has(net[p], Owners)

\* The request of x is at most one, in one place.
Site == {"acc", "dmq", "net"}
AskedAt(site, p, x) == \/ site = "acc" /\ Has(acc[p], FiledBy(x))
                       \/ site = "dmq" /\ Has(dmq[p], RequestsOf({x}))
                       \/ site = "net" /\ Has(net[p], RequestsOf({x}))
Asked(x) == \E site \in Site, p \in Proc : AskedAt(site, p, x)
OnePlace(x) == \A s, t \in Site : \A p, q \in Proc : AskedAt(s, p, x) /\ AskedAt(t, q, x) => s = t /\ p = q
OneRequest(x) == \A p \in Proc : /\ Once(acc[p], FiledBy(x))
                                 /\ Once(dmq[p], RequestsOf({x}))
                                 /\ Once(net[p], RequestsOf({x}))

\* Only the keeper k believes that it owns the object, once it has handled the
\* message that says so; nobody asks for k then, and who asks has a reason.
OwnerIs(k) == \A p \in Proc : owner[p] = p <=> p = k /\ ~Arriving(k)
AskersWait(k) == \A x \in Proc : Asked(x) \/ (x = k /\ Arriving(k)) => acc[x] # <<>>
OwnOnly == \A p \in Proc : owner[p] # p => \A i \in DOMAIN acc[p] : acc[p][i].proc = p

\* Hints lead to processors that owned the object later.  A request at p is of
\* one that owned it before p, unless it travels behind the object itself.
NotBefore(r, p) == {x \in Proc : r[x] >= r[p]}
FollowsObject(p, X) == /\ Behind(dmq[p], RequestsOf(X), Owners)
                       /\ Has(dmq[p], Owners) \/ Behind(net[p], RequestsOf(X), Owners)
Ranked(r) == /\ \A p, q \in Proc : owner[p] = q /\ q # p /\ ~Arriving(q) => r[p] < r[q]
             /\ \A p \in Proc : FollowsObject(p, NotBefore(r, p))
RankInv == \E n \in Nat : \E r \in [Proc -> 0..n] : Ranked(r)

MigInv(k) == /\ MigTypes /\ OwnerIs(k) /\ ~Asked(k) /\ AskersWait(k) /\ OwnOnly
             /\ \A x \in Proc : OnePlace(x) /\ OneRequest(x)
             /\ RankInv

\* Steps that leave hints and requests where they are
SameAsks(r, s) == /\ Has(r, Owners) <=> Has(s, Owners)
                  /\ \A X \in SUBSET Proc :
                       /\ Has(r, RequestsOf(X)) => Has(s, RequestsOf(X))
                       /\ Once(s, RequestsOf(X)) => Once(r, RequestsOf(X))
                       /\ Behind(s, RequestsOf(X), Owners) => Behind(r, RequestsOf(X), Owners)
AsksKept == \A p \in Proc : SameAsks(dmq'[p], dmq[p]) /\ SameAsks(net'[p], net[p])

LEMMA MigFrame ==
    ASSUME TypeInv, NEW k \in Proc, MigInv(k), MigTypes', UNCHANGED <<owner, acc>>, AsksKept
    PROVE  MigInv(k)'
<1>1. \A p \in Proc : Arriving(p)' <=> Arriving(p)
  BY DEF AsksKept, SameAsks, Arriving, Has, Owners
<1>2. \A x \in Proc : {x} \in SUBSET Proc
  OBVIOUS
<1>3. \A s \in Site, p, x \in Proc : AskedAt(s, p, x)' => AskedAt(s, p, x)
  <2>1. \A p, x \in Proc :
          /\ Has(dmq'[p], RequestsOf({x})) => Has(dmq[p], RequestsOf({x}))
          /\ Has(net'[p], RequestsOf({x})) => Has(net[p], RequestsOf({x}))
    BY <1>2, Zenon DEF AsksKept, SameAsks
  <2>2. QED
    BY <2>1 DEF AskedAt, Has, RequestsOf, FiledBy
<1>4. \A x \in Proc : Asked(x)' => Asked(x)
  BY <1>3, Zenon DEF Asked
<1>5. OwnerIs(k)' /\ ~Asked(k)' /\ AskersWait(k)' /\ OwnOnly'
  BY <1>1, <1>4 DEF MigInv, OwnerIs, AskersWait, OwnOnly
<1>6. ASSUME NEW x \in Proc PROVE OnePlace(x)'
  <2>1. \A s, t \in Site : \A p, q \in Proc :
          AskedAt(s, p, x)' /\ AskedAt(t, q, x)' => s = t /\ p = q
    BY <1>3 DEF MigInv, OnePlace
  <2>2. QED
    BY <2>1 DEF OnePlace
<1>7. \A x \in Proc : OneRequest(x)'
  BY <1>2, Zenon DEF MigInv, OneRequest, AsksKept, SameAsks, Once, RequestsOf, FiledBy
<1>8. RankInv'
  <2>1. PICK n \in Nat : \E r \in [Proc -> 0..n] : Ranked(r)
    BY DEF MigInv, RankInv
  <2>2. PICK r \in [Proc -> 0..n] : Ranked(r)
    BY <2>1
  <2>3. ASSUME NEW X \in SUBSET Proc, NEW p \in Proc, FollowsObject(p, X)
        PROVE  FollowsObject(p, X)'
    BY <2>3 DEF FollowsObject, AsksKept, SameAsks, Has, Behind, RequestsOf, Owners
  <2>4. \A p \in Proc : NotBefore(r, p) \in SUBSET Proc
    BY DEF NotBefore
  <2>5. Ranked(r)'
    <3>1. \A p \in Proc : FollowsObject(p, NotBefore(r, p))'
      BY <2>2, <2>3, <2>4 DEF Ranked
    <3>2. \A p \in Proc : owner[p] \in Proc /\ owner'[p] = owner[p]
      BY DEF TypeInv, PlainTypes
    <3>3. \A p, q \in Proc : owner'[p] = q /\ q # p /\ ~Arriving(q)' => r[p] < r[q]
      BY <1>1, <2>2, <3>2 DEF Ranked
    <3>4. QED
      BY <3>1, <3>3 DEF Ranked, NotBefore
  <2>6. QED
    BY <2>5 DEF RankInv
<1>9. QED
  BY <1>5, <1>6, <1>7, <1>8 DEF MigInv

\* Messages that neither give the object nor ask for it
Idle(m) == m.kind # "owner" /\ ~(m.kind = "request" /\ m.tag.task = NoTask)

LEMMA IdleAsks ==
    ASSUME NEW s \in Seq(Message)
    PROVE  /\ SameAsks(s, s)
           /\ \A m \in Message : Idle(m) => SameAsks(Append(s, m), s)
           /\ s # <<>> /\ Idle(Head(s)) => SameAsks(Tail(s), s)
           /\ \A h : SameAsks(MessagesWithout(s, h), s)
<1>0. \A m : Idle(m) => m \notin Owners /\ \A X : m \notin RequestsOf(X)
  BY DEF Idle, Owners, RequestsOf
<1>1. SameAsks(s, s)
  BY DEF SameAsks
<1>2. ASSUME NEW m \in Message, Idle(m) PROVE SameAsks(Append(s, m), s)
  BY <1>0, <1>2, AppendOf DEF SameAsks
<1>3. ASSUME s # <<>>, Idle(Head(s)) PROVE SameAsks(Tail(s), s)
  BY <1>0, <1>3, TailOf DEF SameAsks
<1>4. ASSUME NEW h PROVE SameAsks(MessagesWithout(s, h), s)
  <2> DEFINE r == MessagesWithout(s, h)
  <2>1. \A i \in DOMAIN s : s[i] \in Message
    BY SequencePlain
  <2>2. r \in Seq(Message) /\ DOMAIN r = DOMAIN s
    <3>1. \A m \in Message : \A x : [m EXCEPT !.refs = @ \ {x}] \in Message
      BY DEF Message
    <3>2. r \in Seq(Message)
      BY <3>1, DroppedType
    <3>3. QED
      BY <3>2 DEF MessagesWithout
  <2>3. \A i \in DOMAIN s : r[i] \in Message /\ r[i].kind = s[i].kind /\ r[i].tag = s[i].tag
    <3>1. \A i \in DOMAIN s : r[i].kind = s[i].kind /\ r[i].tag = s[i].tag
      BY <2>1 DEF MessagesWithout, Message
    <3>2. \A i \in DOMAIN s : r[i] \in Message
      BY <2>2, SequencePlain
    <3>3. QED
      BY <3>1, <3>2
  <2> HIDE DEF r
  <2>4. \A i \in DOMAIN s : /\ r[i] \in Owners <=> s[i] \in Owners
                            /\ \A X : r[i] \in RequestsOf(X) <=> s[i] \in RequestsOf(X)
    BY <2>1, <2>3 DEF Owners, RequestsOf
  <2>5. Has(r, Owners) <=> Has(s, Owners)
    BY <2>2, <2>4 DEF Has
  <2>6. \A X \in SUBSET Proc : /\ Has(r, RequestsOf(X)) <=> Has(s, RequestsOf(X))
                               /\ Once(s, RequestsOf(X)) => Once(r, RequestsOf(X))
                               /\ Behind(s, RequestsOf(X), Owners) => Behind(r, RequestsOf(X), Owners)
    BY <2>2, <2>4, SameOf
  <2>7. QED
    BY <2>5, <2>6 DEF SameAsks, r
<1>5. QED
  BY <1>1, <1>2, <1>3, <1>4

\* The types of the queues, and their heads
LEMMA PlainQueues ==
    ASSUME TypeInv, MigTypes, NEW p \in Proc
    PROVE  /\ dmq[p] \in Seq(Message) /\ net[p] \in Seq(Message) /\ acc[p] \in Seq(Tag)
           /\ dmq[p] \in Seq(PlainMessage(p)) /\ net[p] \in Seq(PlainMessage(p))
           /\ acc[p] \in Seq(PlainTag(p))
           /\ \A i \in DOMAIN acc[p] : acc[p][i] \in PlainTag(p)
           /\ dmq[p] # <<>> => /\ Head(dmq[p]) \in PlainMessage(p) /\ Head(dmq[p]) \in MessageAt(p)
                               /\ Tail(dmq[p]) \in Seq(PlainMessage(p))
           /\ net[p] # <<>> => /\ Head(net[p]) \in PlainMessage(p) /\ Head(net[p]) \in Packet
                               /\ Tail(net[p]) \in Seq(PlainMessage(p))
BY QueueTypes, SequencePlain DEF MigTypes

LEMMA MigDrops ==
    ASSUME TypeInv, MigTypes, NEW p \in Proc, NEW h, DropPointer(p, h)
    PROVE  /\ \A q \in Proc : SameAsks(dmq'[q], dmq[q])
           /\ \A q \in Proc : /\ dmq'[q] \in Seq(PlainMessage(q))
                              /\ \A c \in copies'[q] : Stray \notin c.refs
<1>0. dmq \in [Proc -> Seq(Message)] /\ copies \in [Proc -> SUBSET Copy]
  BY DEF TypeInv, DmqTypes, PlainTypes
<1>1. dmq' = [dmq EXCEPT ![p] = MessagesWithout(@, h)]
      /\ copies' = [copies EXCEPT ![p] = WithoutHolder(@, h)]
  BY DEF DropPointer
<1>2. \A q \in Proc : SameAsks(dmq'[q], dmq[q])
  BY <1>0, <1>1, IdleAsks
<1>3. MessagesWithout(dmq[p], h) \in Seq(PlainMessage(p))
  <2>1. PlainMessage(p) \subseteq Message
        /\ \A m \in PlainMessage(p) : \A x : [m EXCEPT !.refs = @ \ {x}] \in PlainMessage(p)
    BY DEF PlainMessage, Message
  <2>2. QED
    BY <2>1, PlainQueues, DroppedType
<1>4. \A c \in WithoutHolder(copies[p], h) : Stray \notin c.refs
  <2>1. \A c \in copies[p] : Stray \notin c.refs /\ c \in Copy
    BY <1>0 DEF MigTypes
  <2>2. \A c \in Copy : [c EXCEPT !.refs = @ \ {h}].refs = c.refs \ {h}
    BY DEF Copy
  <2>3. QED
    BY <2>1, <2>2 DEF WithoutHolder
<1>5. ASSUME NEW q \in Proc
      PROVE  dmq'[q] \in Seq(PlainMessage(q)) /\ \A c \in copies'[q] : Stray \notin c.refs
  <2>1. CASE q = p
    BY <1>0, <1>1, <1>3, <1>4, <2>1
  <2>2. CASE q # p
    BY <1>0, <1>1, <2>2 DEF MigTypes
  <2>3. QED
    BY <2>1, <2>2
<1>6. QED
  BY <1>2, <1>5

\* A task posts requests of its own and data.
LEMMA MigTaskStep ==
    ASSUME TypeInv, Migrating, NEW k \in Proc, MigInv(k), NEW u \in Task, TaskStep(u)
    PROVE  MigInv(k)'
<1> DEFINE q == TaskProc[u]
<1>0. /\ q \in Proc /\ got \in [Task -> Nat] /\ dmq \in [Proc -> Seq(Message)]
      /\ MigTypes /\ UNCHANGED <<owner, acc, net>>
      /\ TaskMode[u] = "Write" /\ TaskVersion[u] \in Nat \cup {AnyVersion}
  <2>1. phase[u] # "absent"
    BY DEF TaskStep, PostRequests, PostData, ClearPointer, ObjectChanged
  <2>2. QED
    BY <2>1, TaskAssumption
       DEF TypeInv, DmqTypes, PlainTypes, MigInv, TaskStep, PostRequests, PostData, ClearPointer,
           ObjectChanged, Migrating, AnyWriters, InTurn, WritersInTurn, Writers, Present
<1>1. \A p \in Proc : SameAsks(net'[p], net[p]) /\ SameAsks(dmq[p], dmq[p])
  BY <1>0, PlainQueues, IdleAsks
<1>2. ASSUME NEW m \in PlainMessage(q), Idle(m), dmq' = [dmq EXCEPT ![q] = Append(@, m)],
             UNCHANGED copies
      PROVE  MigInv(k)'
  <2>1. m \in Message
    BY DEF PlainMessage
  <2>2. SameAsks(Append(dmq[q], m), dmq[q]) /\ Append(dmq[q], m) \in Seq(PlainMessage(q))
    BY <1>0, <1>2, <2>1, IdleAsks, PlainQueues, SequencePlain
  <2>3. AsksKept
    BY <1>0, <1>1, <1>2, <2>2 DEF AsksKept
  <2>4. MigTypes'
    <3>1. \A p \in Proc : dmq'[p] \in Seq(PlainMessage(p))
      BY <1>0, <1>2, <2>2 DEF MigTypes
    <3>2. QED
      BY <1>0, <1>2, <3>1 DEF MigTypes
  <2>5. QED
    BY <1>0, <2>3, <2>4, MigFrame
<1>3. CASE PostRequests(u)
  <2> DEFINE m == Request([task |-> u, proc |-> q, mode |-> TaskMode[u], version |-> TaskVersion[u]])
  <2>1. m.tag \in PlainTag(q) /\ m \in Message /\ Stray \notin m.refs /\ m.kind = "request"
        /\ m.tag.task = u
    BY <1>0, HolderAssumption
       DEF Request, Message, Tag, Mode, PlainTag, TagAt, OwnTag
  <2>2. dmq' = [dmq EXCEPT ![q] = Append(@, m)] /\ UNCHANGED copies
    BY <1>3 DEF PostRequests
  <2> HIDE DEF m
  <2>3. m \in PlainMessage(q) /\ Idle(m)
    BY <2>1, HolderAssumption DEF PlainMessage, Idle
  <2>4. QED
    BY <1>2, <2>2, <2>3
<1>4. CASE PostData(u)
  <2> DEFINE m == Data(q, got[u] + 1, {u})
  <2>1. m \in Message /\ Stray \notin m.refs /\ m.kind = "data"
    <3>1. got[u] + 1 \in Nat
      BY <1>0
    <3>2. QED
      BY <1>0, <3>1, HolderAssumption DEF Data, Message, Tag, Mode, Holder
  <2>2. dmq' = [dmq EXCEPT ![q] = Append(@, m)] /\ UNCHANGED copies
    BY <1>4 DEF PostData
  <2> HIDE DEF m
  <2>3. m \in PlainMessage(q) /\ Idle(m)
    BY <2>1 DEF PlainMessage, Idle
  <2>4. QED
    BY <1>2, <2>2, <2>3
<1>5. CASE ClearPointer(u)
  <2>1. DropPointer(q, u)
    BY <1>5 DEF ClearPointer
  <2>2. AsksKept /\ MigTypes'
    BY <1>0, <1>1, <2>1, MigDrops DEF AsksKept, MigTypes
  <2>3. QED
    BY <1>0, <2>2, MigFrame
<1>6. CASE ObjectChanged(u)
  <2>1. UNCHANGED <<copies, dmq>>
    BY <1>6 DEF ObjectChanged
  <2>2. AsksKept /\ MigTypes'
    BY <1>0, <1>1, <2>1 DEF AsksKept, MigTypes
  <2>3. QED
    BY <1>0, <2>2, MigFrame
<1>7. QED
  BY <1>3, <1>4, <1>5, <1>6 DEF TaskStep

\* A request that moves from one place to another is in one place still.
LEMMA PlaceKept ==
    ASSUME NEW x \in Proc, OnePlace(x), NEW a \in Site, NEW b \in Site, NEW p \in Proc, NEW q \in Proc,
           AskedAt(a, p, x),
           \A s \in Site, y \in Proc : AskedAt(s, y, x)' =>
             \/ AskedAt(s, y, x) /\ ~(s = a /\ y = p)
             \/ s = b /\ y = q
    PROVE  OnePlace(x)' /\ (Asked(x)' => Asked(x))
<1>1. \A s \in Site, y \in Proc : AskedAt(s, y, x)' => s = b /\ y = q
  BY DEF OnePlace
<1>2. OnePlace(x)'
  BY <1>1 DEF OnePlace
<1>3. QED
  BY <1>2 DEF Asked

LEMMA PlaceStays ==
    ASSUME NEW x \in Proc, OnePlace(x), \A s \in Site, y \in Proc : AskedAt(s, y, x)' => AskedAt(s, y, x)
    PROVE  OnePlace(x)' /\ (Asked(x)' => Asked(x))
<1>1. OnePlace(x)'
  <2>1. \A s, t \in Site : \A p, q \in Proc : AskedAt(s, p, x)' /\ AskedAt(t, q, x)' => s = t /\ p = q
    BY DEF OnePlace
  <2>2. QED
    BY <2>1 DEF OnePlace
<1>2. QED
  BY <1>1 DEF Asked

\* What is asked for where depends on the queues alone.
LEMMA AskedNow ==
    ASSUME NEW p \in Proc, NEW x
    PROVE  /\ AskedAt("acc", p, x)' <=> Has(acc'[p], FiledBy(x))
           /\ AskedAt("dmq", p, x)' <=> Has(dmq'[p], RequestsOf({x}))
           /\ AskedAt("net", p, x)' <=> Has(net'[p], RequestsOf({x}))
           /\ AskedAt("acc", p, x) <=> Has(acc[p], FiledBy(x))
           /\ AskedAt("dmq", p, x) <=> Has(dmq[p], RequestsOf({x}))
           /\ AskedAt("net", p, x) <=> Has(net[p], RequestsOf({x}))
BY DEF AskedAt, Has, FiledBy, RequestsOf

\* Requests and the object pass from the network to the queue in their order.
LEMMA MigDeliverRequest ==
    ASSUME TypeInv, NEW k \in Proc, MigInv(k), NEW p \in Proc, net[p] # <<>>,
           Head(net[p]).kind = "request", Deliver(p)
    PROVE  MigInv(k)'
<1> DEFINE m == Head(net[p])
<1>0. /\ dmq \in [Proc -> Seq(Message)] /\ net \in [Proc -> Seq(Packet)]
      /\ MigTypes /\ UNCHANGED <<owner, acc, copies>>
      /\ dmq' = [dmq EXCEPT ![p] = Append(@, m)] /\ net' = [net EXCEPT ![p] = Tail(@)]
  BY DEF TypeInv, DmqTypes, NetTypes, MigInv, Deliver
<1>1. /\ dmq[p] \in Seq(Message) /\ net[p] \in Seq(Message)
      /\ m \in Message /\ m \in PlainMessage(p) /\ m.tag.task = NoTask /\ m.tag \in Tag
      /\ dmq[p] \in Seq(PlainMessage(p)) /\ Tail(net[p]) \in Seq(PlainMessage(p))
  BY <1>0, PlainQueues DEF Packet, Unnamed, PlainMessage
<1>2. PICK x \in Proc : x = m.tag.proc
  BY <1>1 DEF Tag
<1>3. \A X : m \in RequestsOf(X) <=> x \in X
  BY <1>1, <1>2 DEF RequestsOf
<1>4. m \notin Owners
  BY DEF Owners
<1>a. \A K : /\ Has(Append(dmq[p], m), K) <=> Has(dmq[p], K) \/ m \in K
             /\ Once(dmq[p], K) /\ (m \notin K \/ ~Has(dmq[p], K)) => Once(Append(dmq[p], m), K)
             /\ Behind(dmq[p], K, Owners) /\ (m \notin K \/ Has(dmq[p], Owners)) =>
                  Behind(Append(dmq[p], m), K, Owners)
  BY <1>1, AppendOf
<1>b. \A K : /\ Has(net[p], K) <=> Has(Tail(net[p]), K) \/ m \in K
             /\ Once(net[p], K) => Once(Tail(net[p]), K) /\ ~(m \in K /\ Has(Tail(net[p]), K))
             /\ Behind(net[p], K, Owners) => m \notin K
             /\ Behind(net[p], K, Owners) => Behind(Tail(net[p]), K, Owners)
  BY <1>1, <1>4, TailOf
<1> HIDE DEF m
<1>5. /\ dmq'[p] = Append(dmq[p], m) /\ net'[p] = Tail(net[p])
      /\ \A q \in Proc : q # p => dmq'[q] = dmq[q] /\ net'[q] = net[q]
  BY <1>0
<1>6. \A q \in Proc : Arriving(q)' <=> Arriving(q)
  <2>1. (Has(dmq'[p], Owners) <=> Has(dmq[p], Owners)) /\ (Has(net'[p], Owners) <=> Has(net[p], Owners))
    BY <1>4, <1>5, <1>a, <1>b
  <2>2. QED
    BY <1>5, <2>1 DEF Arriving, Has, Owners
<1>7. MigTypes'
  <2>1. Append(dmq[p], m) \in Seq(PlainMessage(p))
    BY <1>1, SequencePlain
  <2>2. QED
    BY <1>0, <1>1, <1>5, <2>1 DEF MigTypes
<1>8. ASSUME NEW y \in Proc PROVE OnePlace(y)' /\ OneRequest(y)' /\ (Asked(y)' => Asked(y))
  <2> DEFINE K == RequestsOf({y})
  <2>0. OnePlace(y) /\ OneRequest(y) /\ (m \in K <=> y = x)
    BY <1>3 DEF MigInv
  <2>1. /\ Has(dmq'[p], K) <=> Has(dmq[p], K) \/ m \in K
        /\ Has(net'[p], K) => Has(net[p], K)
        /\ m \in K => ~Has(net'[p], K)
        /\ Once(net'[p], K)
    BY <1>5, <1>a, <1>b, <2>0 DEF OneRequest
  <2>2. m \in K => ~Has(dmq[p], K)
    <3>1. "dmq" \in Site /\ "net" \in Site /\ "dmq" # "net"
      BY DEF Site
    <3>2. m \in K => Has(net[p], K)
      BY <1>b
    <3>3. QED
      BY <2>0, <3>1, <3>2, AskedNow DEF OnePlace
  <2>3. Once(dmq'[p], K)
    BY <1>5, <1>a, <2>0, <2>2 DEF OneRequest
  <2>4. OneRequest(y)'
    <3>1. \A q \in Proc : /\ Once(acc'[q], FiledBy(y)) /\ Once(dmq'[q], K) /\ Once(net'[q], K)
      BY <1>0, <1>5, <2>0, <2>1, <2>3 DEF OneRequest
    <3>2. QED
      BY <3>1 DEF OneRequest, Once, FiledBy, RequestsOf
  <2>5. CASE y = x
    <3>1. AskedAt("net", p, y)
      BY <1>b, <2>0, <2>5, AskedNow
    <3>2. ASSUME NEW s \in Site, NEW q \in Proc, AskedAt(s, q, y)'
          PROVE  \/ AskedAt(s, q, y) /\ ~(s = "net" /\ q = p)
                 \/ s = "dmq" /\ q = p
      <4>1. CASE s = "acc"
        BY <1>0, <3>2, <4>1, AskedNow
      <4>2. CASE s = "dmq"
        BY <1>5, <3>2, <4>2, AskedNow
      <4>3. CASE s = "net"
        BY <1>5, <2>0, <2>1, <2>5, <3>2, <4>3, AskedNow
      <4>4. QED
        BY <4>1, <4>2, <4>3 DEF Site
    <3>3. "net" \in Site /\ "dmq" \in Site
      BY DEF Site
    <3>4. QED
      BY <2>0, <2>4, <3>1, <3>2, <3>3, PlaceKept
  <2>6. CASE y # x
    <3>1. ASSUME NEW s \in Site, NEW q \in Proc, AskedAt(s, q, y)' PROVE AskedAt(s, q, y)
      <4>1. CASE s = "acc"
        BY <1>0, <3>1, <4>1, AskedNow
      <4>2. CASE s = "dmq"
        BY <1>5, <2>0, <2>1, <2>6, <3>1, <4>2, AskedNow
      <4>3. CASE s = "net"
        BY <1>5, <2>1, <3>1, <4>3, AskedNow
      <4>4. QED
        BY <4>1, <4>2, <4>3 DEF Site
    <3>2. QED
      BY <2>0, <2>4, <3>1, PlaceStays
  <2>7. QED
    BY <2>5, <2>6
<1>9. RankInv'
  <2>1. PICK n \in Nat : \E r \in [Proc -> 0..n] : Ranked(r)
    BY DEF MigInv, RankInv
  <2>2. PICK r \in [Proc -> 0..n] : Ranked(r)
    BY <2>1
  <2>3. ASSUME NEW q \in Proc, NEW X, FollowsObject(q, X) PROVE FollowsObject(q, X)'
    <3> DEFINE K == RequestsOf(X)
    <3>1. CASE q # p
      BY <1>5, <2>3, <3>1 DEF FollowsObject, Has, Behind, RequestsOf, Owners
    <3>2. CASE q = p
      <4>1. Behind(dmq[p], K, Owners) /\ (Has(dmq[p], Owners) \/ Behind(net[p], K, Owners))
        BY <2>3, <3>2 DEF FollowsObject
      <4>2. Behind(net[p], K, Owners) => m \notin K /\ Behind(Tail(net[p]), K, Owners)
        BY <1>b
      <4>3. Behind(Append(dmq[p], m), K, Owners)
        BY <1>a, <4>1, <4>2
      <4>4. Has(dmq[p], Owners) => Has(Append(dmq[p], m), Owners)
        BY <1>a
      <4>5. /\ Behind(dmq'[p], K, Owners)
            /\ Has(dmq'[p], Owners) \/ Behind(net'[p], K, Owners)
        BY <1>5, <4>1, <4>2, <4>3, <4>4
      <4>6. QED
        BY <3>2, <4>5 DEF FollowsObject, Has, Behind, RequestsOf, Owners
    <3>3. QED
      BY <3>1, <3>2
  <2>4. \A q \in Proc : FollowsObject(q, NotBefore(r, q))'
    BY <2>2, <2>3 DEF Ranked
  <2>5. Ranked(r)'
    BY <1>0, <1>6, <2>2, <2>4 DEF Ranked, NotBefore
  <2>6. QED
    BY <2>5 DEF RankInv
<1>10. QED
  BY <1>0, <1>6, <1>7, <1>8, <1>9 DEF MigInv, OwnerIs, AskersWait, OwnOnly

LEMMA MigDeliverOwner ==
    ASSUME TypeInv, NEW k \in Proc, MigInv(k), NEW p \in Proc, net[p] # <<>>,
           Head(net[p]).kind = "owner", Deliver(p)
    PROVE  MigInv(k)'
<1> DEFINE m == Head(net[p])
           o == [m EXCEPT !.refs = {Daemon}]
<1>0. /\ dmq \in [Proc -> Seq(Message)] /\ net \in [Proc -> Seq(Packet)]
      /\ MigTypes /\ UNCHANGED <<owner, acc, copies>>
      /\ dmq' = [dmq EXCEPT ![p] = Append(@, o)] /\ net' = [net EXCEPT ![p] = Tail(@)]
  BY DEF TypeInv, DmqTypes, NetTypes, MigInv, Deliver
<1>1. /\ dmq[p] \in Seq(Message) /\ net[p] \in Seq(Message) /\ m \in Message /\ m \in PlainMessage(p)
      /\ dmq[p] \in Seq(PlainMessage(p)) /\ Tail(net[p]) \in Seq(PlainMessage(p))
  BY <1>0, PlainQueues DEF Packet, PlainMessage
<1>2. o \in Message /\ o.kind = "owner" /\ o.tag = m.tag /\ o.refs = {Daemon}
  BY <1>1 DEF Message, Holder
<1>3. o \in PlainMessage(p)
  <2>1. m.tag.mode = "Write" /\ Stray # Daemon
    BY <1>1, HolderAssumption DEF PlainMessage
  <2> HIDE DEF o, m
  <2>2. QED
    BY <1>2, <2>1 DEF PlainMessage
<1>4. m \in Owners /\ o \in Owners /\ \A X : m \notin RequestsOf(X) /\ o \notin RequestsOf(X)
  BY <1>1, <1>2 DEF Owners, RequestsOf
<1>a. \A K : /\ Has(Append(dmq[p], o), K) <=> Has(dmq[p], K) \/ o \in K
             /\ Once(dmq[p], K) /\ (o \notin K \/ ~Has(dmq[p], K)) => Once(Append(dmq[p], o), K)
             /\ Behind(dmq[p], K, Owners) /\ (o \notin K \/ Has(dmq[p], Owners)) =>
                  Behind(Append(dmq[p], o), K, Owners)
  BY <1>1, <1>2, AppendOf
<1>b. \A K : /\ Has(net[p], K) <=> Has(Tail(net[p]), K) \/ m \in K
             /\ Once(net[p], K) => Once(Tail(net[p]), K)
  BY <1>1, TailOf
<1> HIDE DEF m, o
<1>5. /\ dmq'[p] = Append(dmq[p], o) /\ net'[p] = Tail(net[p])
      /\ \A q \in Proc : q # p => dmq'[q] = dmq[q] /\ net'[q] = net[q]
  BY <1>0
<1>6. \A q \in Proc : Arriving(q)' <=> Arriving(q)
  <2>1. Has(dmq'[p], Owners) /\ Has(net[p], Owners)
    BY <1>4, <1>5, <1>a, <1>b
  <2>2. QED
    BY <1>5, <2>1 DEF Arriving, Has, Owners
<1>7. MigTypes'
  <2>1. Append(dmq[p], o) \in Seq(PlainMessage(p))
    BY <1>1, <1>3, SequencePlain
  <2>2. QED
    BY <1>0, <1>1, <1>5, <2>1 DEF MigTypes
<1>8. ASSUME NEW y \in Proc PROVE OnePlace(y)' /\ OneRequest(y)' /\ (Asked(y)' => Asked(y))
  <2> DEFINE K == RequestsOf({y})
  <2>0. OnePlace(y) /\ OneRequest(y)
    BY DEF MigInv
  <2>1. /\ Has(dmq'[p], K) <=> Has(dmq[p], K)
        /\ Has(net'[p], K) <=> Has(net[p], K)
        /\ Once(net'[p], K) /\ Once(dmq'[p], K)
    BY <1>4, <1>5, <1>a, <1>b, <2>0 DEF OneRequest
  <2>2. OneRequest(y)'
    <3>1. \A q \in Proc : /\ Once(acc'[q], FiledBy(y)) /\ Once(dmq'[q], K) /\ Once(net'[q], K)
      BY <1>0, <1>5, <2>0, <2>1 DEF OneRequest
    <3>2. QED
      BY <3>1 DEF OneRequest, Once, FiledBy, RequestsOf
  <2>3. ASSUME NEW s \in Site, NEW q \in Proc, AskedAt(s, q, y)' PROVE AskedAt(s, q, y)
    <3>1. CASE s = "acc"
      BY <1>0, <2>3, <3>1, AskedNow
    <3>2. CASE s = "dmq"
      BY <1>5, <2>1, <2>3, <3>2, AskedNow
    <3>3. CASE s = "net"
      BY <1>5, <2>1, <2>3, <3>3, AskedNow
    <3>4. QED
      BY <3>1, <3>2, <3>3 DEF Site
  <2>4. QED
    BY <2>0, <2>2, <2>3, PlaceStays
<1>9. RankInv'
  <2>1. PICK n \in Nat : \E r \in [Proc -> 0..n] : Ranked(r)
    BY DEF MigInv, RankInv
  <2>2. PICK r \in [Proc -> 0..n] : Ranked(r)
    BY <2>1
  <2>3. ASSUME NEW q \in Proc, NEW X, FollowsObject(q, X) PROVE FollowsObject(q, X)'
    <3> DEFINE K == RequestsOf(X)
    <3>1. CASE q # p
      BY <1>5, <2>3, <3>1 DEF FollowsObject, Has, Behind, RequestsOf, Owners
    <3>2. CASE q = p
      <4>1. Behind(dmq[p], K, Owners)
        BY <2>3, <3>2 DEF FollowsObject
      <4>2. Behind(dmq'[p], K, Owners) /\ Has(dmq'[p], Owners)
        BY <1>4, <1>5, <1>a, <4>1
      <4>3. QED
        BY <3>2, <4>2 DEF FollowsObject, Has, Behind, RequestsOf, Owners
    <3>3. QED
      BY <3>1, <3>2
  <2>4. \A q \in Proc : FollowsObject(q, NotBefore(r, q))'
    BY <2>2, <2>3 DEF Ranked
  <2>5. Ranked(r)'
    BY <1>0, <1>6, <2>2, <2>4 DEF Ranked, NotBefore
  <2>6. QED
    BY <2>5 DEF RankInv
<1>10. QED
  BY <1>0, <1>6, <1>7, <1>8, <1>9 DEF MigInv, OwnerIs, AskersWait, OwnOnly

LEMMA MigDeliver ==
    ASSUME TypeInv, NEW k \in Proc, MigInv(k), NEW p \in Proc, Deliver(p) \/ ForgetStrayGrant(p)
    PROVE  MigInv(k)'
<1>0. /\ net \in [Proc -> Seq(Packet)] /\ MigTypes /\ UNCHANGED <<owner, acc>>
  BY DEF TypeInv, NetTypes, MigInv, Deliver, ForgetStrayGrant
<1>1. ~ForgetStrayGrant(p)
  BY <1>0 DEF ForgetStrayGrant, MigTypes
<1>2. Deliver(p) /\ net[p] # <<>>
  BY <1>1 DEF Deliver
<1> DEFINE m == Head(net[p])
<1>3. CASE m.kind = "dispose"
  <2>1. DropPointer(p, Daemon) /\ net' = [net EXCEPT ![p] = Tail(@)]
    BY <1>2, <1>3 DEF Deliver
  <2>2. SameAsks(Tail(net[p]), net[p]) /\ Tail(net[p]) \in Seq(PlainMessage(p))
    BY <1>0, <1>2, <1>3, PlainQueues, IdleAsks DEF Idle
  <2>3. \A q \in Proc : SameAsks(net'[q], net[q]) /\ net'[q] \in Seq(PlainMessage(q))
    BY <1>0, <2>1, <2>2, PlainQueues, IdleAsks
  <2>4. AsksKept
    BY <1>0, <2>1, <2>3, MigDrops DEF AsksKept
  <2>5. MigTypes'
    BY <1>0, <2>1, <2>3, MigDrops DEF MigTypes
  <2>6. QED
    BY <1>0, <2>4, <2>5, MigFrame
<1>4. CASE m.kind = "request"
  BY <1>2, <1>4, MigDeliverRequest
<1>5. CASE m.kind = "owner"
  BY <1>2, <1>5, MigDeliverOwner
<1>6. QED
  BY <1>2, <1>3, <1>4, <1>5 DEF Deliver

\* A version that is submitted, a flush and the end of a look at the requests
LEMMA MigQuiet ==
    ASSUME TypeInv, NEW k \in Proc, MigInv(k), NEW p \in Proc,
           HandleData(p) \/ HandleOwner(p) \/ FlushData(p) \/ EndVerify(p)
    PROVE  MigInv(k)'
<1>0. /\ dmq \in [Proc -> Seq(Message)] /\ copies \in [Proc -> SUBSET Copy] /\ MigTypes
      /\ UNCHANGED <<owner, acc, net>>
  BY DEF TypeInv, DmqTypes, PlainTypes, MigInv, HandleData, HandleOwner, FlushData, EndVerify
<1>1. \A q \in Proc : SameAsks(net'[q], net[q]) /\ SameAsks(dmq[q], dmq[q])
  BY <1>0, PlainQueues, IdleAsks
<1> DEFINE m == Head(dmq[p])
<1>2. ASSUME dmq[p] # <<>>, NEW refs, Stray \notin refs, copies' = WithVersion(p, m.tag.version, refs)
      PROVE  \A q \in Proc : \A c \in copies'[q] : Stray \notin c.refs
  BY <1>0, <1>2 DEF WithVersion, MigTypes
<1>3. CASE HandleData(p)
  <2>1. /\ dmq[p] # <<>> /\ m.kind = "data" /\ dmq' = [dmq EXCEPT ![p] = Tail(@)]
        /\ copies' = WithVersion(p, m.tag.version, m.refs)
    BY <1>3 DEF HandleData, NextMessage
  <2>2. m \in PlainMessage(p) /\ Tail(dmq[p]) \in Seq(PlainMessage(p))
        /\ SameAsks(Tail(dmq[p]), dmq[p])
    BY <1>0, <2>1, PlainQueues, IdleAsks DEF Idle
  <2>3. \A q \in Proc : \A c \in copies'[q] : Stray \notin c.refs
    BY <1>2, <2>1, <2>2 DEF PlainMessage
  <2>4. \A q \in Proc : SameAsks(dmq'[q], dmq[q]) /\ dmq'[q] \in Seq(PlainMessage(q))
    BY <1>0, <1>1, <2>1, <2>2 DEF MigTypes
  <2>5. AsksKept /\ MigTypes'
    BY <1>0, <1>1, <2>3, <2>4 DEF AsksKept, MigTypes
  <2>6. QED
    BY <1>0, <2>5, MigFrame
<1>4. CASE HandleOwner(p)
  <2>1. /\ dmq[p] # <<>> /\ UNCHANGED dmq
        /\ copies' = WithVersion(p, m.tag.version, m.refs \cup {Handler})
    BY <1>4 DEF HandleOwner, NextMessage
  <2>2. m \in PlainMessage(p)
    BY <1>0, <2>1, PlainQueues
  <2>3. \A q \in Proc : \A c \in copies'[q] : Stray \notin c.refs
    BY <1>2, <2>1, <2>2, HolderAssumption DEF PlainMessage
  <2>4. AsksKept /\ MigTypes'
    BY <1>0, <1>1, <2>1, <2>3 DEF AsksKept, MigTypes
  <2>5. QED
    BY <1>0, <2>4, MigFrame
<1>5. CASE FlushData(p) \/ EndVerify(p)
  <2>1. UNCHANGED <<copies, dmq>>
    BY <1>5 DEF FlushData, EndVerify
  <2>2. AsksKept /\ MigTypes'
    BY <1>0, <1>1, <2>1 DEF AsksKept, MigTypes
  <2>3. QED
    BY <1>0, <2>2, MigFrame
<1>6. QED
  BY <1>3, <1>4, <1>5

\* The message a service thread has in hand is the owner message it submitted.
HandledOwner == \A p \in Proc : Submitting(p) => Head(dmq[p]).kind = "owner"

LEMMA HandledDrop ==
    ASSUME TypeInv, HandledOwner, UNCHANGED pc, NEW p \in Proc, NEW h, DropPointer(p, h)
    PROVE  HandledOwner'
<1>1. ASSUME NEW q \in Proc, Submitting(q) PROVE Head(dmq'[q]).kind = "owner"
  <2>1. dmq[q] # <<>> /\ dmq[q] \in Seq(Message) /\ Head(dmq[q]).kind = "owner"
    BY <1>1 DEF TypeInv, InHand, DmqTypes, HandledOwner, Submitting
  <2>2. Head(MessagesWithout(dmq[q], h)).kind = "owner"
    BY <2>1, DroppedCarrier
  <2>3. dmq'[q] = dmq[q] \/ dmq'[q] = MessagesWithout(dmq[q], h)
    BY DEF DropPointer, TypeInv, DmqTypes
  <2>4. QED
    BY <2>1, <2>2, <2>3
<1>2. QED
  BY <1>1 DEF HandledOwner, Submitting

LEMMA HandledAppend ==
    ASSUME TypeInv, HandledOwner, UNCHANGED pc, NEW p \in Proc, NEW m \in Message,
           dmq' = [dmq EXCEPT ![p] = Append(@, m)]
    PROVE  HandledOwner'
<1>1. ASSUME NEW q \in Proc, Submitting(q) PROVE Head(dmq'[q]).kind = "owner"
  <2>1. dmq[q] # <<>> /\ dmq[q] \in Seq(Message) /\ Head(dmq[q]).kind = "owner"
    BY <1>1 DEF TypeInv, InHand, DmqTypes, HandledOwner, Submitting
  <2>2. Head(Append(dmq[q], m)) = Head(dmq[q])
    BY <2>1, AppendCarrier
  <2>3. dmq'[q] = dmq[q] \/ dmq'[q] = Append(dmq[q], m)
    BY DEF TypeInv, DmqTypes
  <2>4. QED
    BY <2>1, <2>2, <2>3
<1>2. QED
  BY <1>1 DEF HandledOwner, Submitting

LEMMA HandledKept ==
    ASSUME HandledOwner, NEW p \in Proc, \A q \in Proc \ {p} : pc'[q] = pc[q] /\ dmq'[q] = dmq[q],
           Submitting(p)' => dmq'[p] = dmq[p] /\ (Submitting(p) \/ Head(dmq[p]).kind = "owner")
    PROVE  HandledOwner'
BY DEF HandledOwner, Submitting

LEMMA HandledNext == TypeInv /\ HandledOwner /\ Next => HandledOwner'
<1> SUFFICES ASSUME TypeInv, HandledOwner, Next PROVE HandledOwner'
  OBVIOUS
<1>0. pc \in [Proc -> Where] /\ dmq \in [Proc -> Seq(Message)] /\ TaskProc \in [Task -> Proc]
  BY TaskAssumption DEF TypeInv, PlainTypes, DmqTypes
<1>1. ASSUME NEW t \in Task, TaskStep(t) PROVE HandledOwner'
  <2> DEFINE p == TaskProc[t]
  <2>0. p \in Proc /\ TaskMode[t] \in Mode /\ TaskVersion[t] \in Nat \cup {AnyVersion} /\ got[t] \in Nat
    BY TaskAssumption DEF TypeInv, PlainTypes
  <2>1. CASE PostRequests(t)
    <3> DEFINE m == Request([task |-> t, proc |-> p, mode |-> TaskMode[t], version |-> TaskVersion[t]])
    <3>1. m \in Message
      BY <2>0 DEF Request, Message, Tag
    <3>2. dmq' = [dmq EXCEPT ![p] = Append(@, m)] /\ UNCHANGED pc
      BY <2>1 DEF PostRequests
    <3>3. QED
      BY <2>0, <3>1, <3>2, HandledAppend
  <2>2. CASE PostData(t)
    <3> DEFINE m == Data(p, got[t] + 1, {t})
    <3>1. m \in Message
      BY <2>0 DEF Data, Message, Tag, Mode, Holder
    <3>2. dmq' = [dmq EXCEPT ![p] = Append(@, m)] /\ UNCHANGED pc
      BY <2>2 DEF PostData
    <3>3. QED
      BY <2>0, <3>1, <3>2, HandledAppend
  <2>3. CASE ClearPointer(t)
    BY <1>0, <2>3, HandledDrop DEF ClearPointer
  <2>4. CASE ObjectChanged(t)
    BY <2>4 DEF ObjectChanged, HandledOwner, Submitting
  <2>5. QED
    BY <1>1, <2>1, <2>2, <2>3, <2>4 DEF TaskStep
<1>2. ASSUME NEW p \in Proc, Service(p) PROVE HandledOwner'
  <2>1. \A q \in Proc \ {p} : pc'[q] = pc[q] /\ dmq'[q] = dmq[q]
    BY <1>0, <1>2 DEF Service, HandleMessage, HandleData, HandleOwner, ForwardRequest, QueueRequest,
       SettleOwner, FlushData, Verify, RejectRequest, GrantRead, GrantLocalWrite, TransferOwnership,
       EndVerify, Leave
  <2>2. Submitting(p)' => dmq'[p] = dmq[p] /\ (Submitting(p) \/ Head(dmq[p]).kind = "owner")
    <3>1. CASE HandleMessage(p) \/ SettleOwner(p) \/ FlushData(p)
      BY <1>0, <3>1 DEF HandleMessage, HandleData, HandleOwner, ForwardRequest, QueueRequest,
         SettleOwner, FlushData, NextMessage, Submitting
    <3>2. CASE Verify(p)
      BY <1>0, <3>2 DEF Verify, RejectRequest, GrantRead, GrantLocalWrite, TransferOwnership,
         EndVerify, Leave, MayWrite, Verifying, Submitting
    <3>3. QED
      BY <1>2, <3>1, <3>2 DEF Service
  <2>3. QED
    BY <2>1, <2>2, HandledKept
<1>3. ASSUME NEW p \in Proc, Deliver(p) PROVE HandledOwner'
  <2> DEFINE m == Head(net[p])
  <2>1. m \in Message /\ UNCHANGED pc
    BY <1>3, QueueTypes DEF Deliver
  <2>2. CASE m.kind = "dispose"
    BY <1>3, <2>1, <2>2, HandledDrop DEF Deliver
  <2>3. CASE m.kind # "dispose"
    <3>1. PICK n \in Message : dmq' = [dmq EXCEPT ![p] = Append(@, n)]
      <4>1. [m EXCEPT !.refs = {Daemon}] \in Message
        BY <2>1 DEF Message, Holder
      <4>2. QED
        BY <1>3, <2>1, <2>3, <4>1 DEF Deliver
    <3>2. QED
      BY <2>1, <3>1, HandledAppend
  <2>4. QED
    BY <2>2, <2>3
<1>4. ASSUME NEW p \in Proc, ForgetStrayGrant(p) PROVE HandledOwner'
  BY <1>4, HandledDrop DEF ForgetStrayGrant
<1>5. QED
  BY <1>1, <1>2, <1>3, <1>4 DEF Next

LEMMA NoOwner == ASSUME NEW s, NoCarrier(s) PROVE ~Has(s, Owners)
BY DEF NoCarrier, Has, Owners, IsCarrier

\* The keeper becomes the owner: it outranks everybody, and nobody asks for it.
LEMMA MigSettle ==
    ASSUME TypeInv, NEW k \in Proc, NEW place \in Place, NEW w, KeptBy(k, place, w), MigInv(k),
           HandledOwner, NEW p \in Proc, SettleOwner(p)
    PROVE  MigInv(k)'
<1>0. /\ dmq \in [Proc -> Seq(Message)] /\ copies \in [Proc -> SUBSET Copy] /\ owner \in [Proc -> Proc]
      /\ MigTypes /\ UNCHANGED <<acc, net>>
  BY DEF TypeInv, DmqTypes, PlainTypes, MigInv, SettleOwner
<1>1. /\ pc[p] = "settle" /\ dmq' = [dmq EXCEPT ![p] = Tail(@)]
      /\ copies' = [copies EXCEPT ![p] = WithoutHolder(@, Handler)]
      /\ owner' = [owner EXCEPT ![p] =
                     IF Head(dmq[p]).tag.mode = "Read" THEN Head(dmq[p]).tag.proc ELSE p]
  BY DEF SettleOwner
<1>2. p = k /\ place = "submitted"
  BY <1>1 DEF KeptBy, Elsewhere, ServiceIs, Submitting
<1> DEFINE m == Head(dmq[k])
<1>3. dmq[k] # <<>> /\ IsCarrier(m) /\ NoCarrier(Tail(dmq[k])) /\ NoCarrier(net[k])
  BY <1>2, CarrierAtKeeper DEF KeptBy, ServiceIs, NetIs
<1>4. /\ m \in PlainMessage(k) /\ Tail(dmq[k]) \in Seq(PlainMessage(k)) /\ dmq[k] \in Seq(Message)
  BY <1>0, <1>3, PlainQueues
<1>5. owner' = [owner EXCEPT ![k] = k]
  <2>2. m.kind = "owner"
    BY <1>1, <1>2 DEF HandledOwner, Submitting
  <2>3. m.tag.mode = "Write"
    BY <1>4, <2>2 DEF PlainMessage
  <2>4. QED
    BY <1>1, <1>2, <2>3
<1>6. /\ dmq'[k] = Tail(dmq[k]) /\ \A q \in Proc : q # k => dmq'[q] = dmq[q]
      /\ owner'[k] = k /\ \A q \in Proc : q # k => owner'[q] = owner[q]
  BY <1>0, <1>1, <1>2, <1>5
<1>7. ~Arriving(k)' /\ \A q \in Proc : q # k => (Arriving(q)' <=> Arriving(q))
  <2>1. ~Has(dmq'[k], Owners) /\ ~Has(net[k], Owners)
    BY <1>3, <1>6, NoOwner
  <2>2. QED
    BY <1>0, <1>6, <2>1 DEF Arriving, Has, Owners
<1>8. \A q \in Proc : q # k => ~Arriving(q)
  BY NoOwner DEF KeptBy, Elsewhere, Arriving
<1>9. MigTypes'
  <2>1. \A q \in Proc : dmq'[q] \in Seq(PlainMessage(q))
    BY <1>0, <1>4, <1>6 DEF MigTypes
  <2>2. \A c \in WithoutHolder(copies[k], Handler) : Stray \notin c.refs
    <3>1. \A c \in copies[k] : Stray \notin c.refs /\ c \in Copy
      BY <1>0 DEF MigTypes
    <3>2. \A c \in Copy : [c EXCEPT !.refs = @ \ {Handler}].refs = c.refs \ {Handler}
      BY DEF Copy
    <3>3. QED
      BY <3>1, <3>2 DEF WithoutHolder
  <2>3. \A q \in Proc : \A c \in copies'[q] : Stray \notin c.refs
    BY <1>0, <1>1, <1>2, <2>2 DEF MigTypes
  <2>4. QED
    BY <1>0, <2>1, <2>3 DEF MigTypes
<1>b. \A K : /\ Has(dmq'[k], K) => Has(dmq[k], K)
             /\ Once(dmq[k], K) => Once(dmq'[k], K)
  <2>1. ASSUME NEW K
        PROVE  /\ Has(Tail(dmq[k]), K) => Has(dmq[k], K)
               /\ Once(dmq[k], K) => Once(Tail(dmq[k]), K)
    <3>1. Has(dmq[k], K) <=> Has(Tail(dmq[k]), K) \/ Head(dmq[k]) \in K
      BY <1>3, <1>4, TailOf
    <3>2. Once(dmq[k], K) => Once(Tail(dmq[k]), K) /\ ~(Head(dmq[k]) \in K /\ Has(Tail(dmq[k]), K))
      BY <1>3, <1>4, TailOf, Zenon
    <3>3. QED
      BY <3>1, <3>2
  <2>2. QED
    BY <1>6, <2>1
<1>10. ASSUME NEW y \in Proc PROVE OnePlace(y)' /\ OneRequest(y)' /\ (Asked(y)' => Asked(y))
  <2>0. OnePlace(y) /\ OneRequest(y)
    BY DEF MigInv
  <2>1. OneRequest(y)'
    <3>1. \A q \in Proc : /\ Once(acc'[q], FiledBy(y)) /\ Once(dmq'[q], RequestsOf({y}))
                          /\ Once(net'[q], RequestsOf({y}))
      BY <1>0, <1>6, <1>b, <2>0 DEF OneRequest
    <3>2. QED
      BY <3>1 DEF OneRequest, Once, FiledBy, RequestsOf
  <2>2. ASSUME NEW s \in Site, NEW q \in Proc, AskedAt(s, q, y)' PROVE AskedAt(s, q, y)
    <3>1. CASE s = "acc"
      BY <1>0, <2>2, <3>1, AskedNow
    <3>2. CASE s = "dmq"
      BY <1>6, <1>b, <2>2, <3>2, AskedNow
    <3>3. CASE s = "net"
      BY <1>0, <2>2, <3>3, AskedNow
    <3>4. QED
      BY <3>1, <3>2, <3>3 DEF Site
  <2>3. QED
    BY <2>0, <2>1, <2>2, PlaceStays
<1>11. OwnerIs(k)' /\ ~Asked(k)' /\ AskersWait(k)' /\ OwnOnly'
  <2>1. Arriving(k)
    <3>1. m \in Owners
      BY <1>1, <1>2, <1>4 DEF HandledOwner, Submitting, Owners, PlainMessage
    <3>2. Has(dmq[k], Owners)
      BY <1>3, <1>4, <3>1, TailOf
    <3>3. QED
      BY <3>2 DEF Arriving
  <2>2. \A q \in Proc : owner[q] # q
    BY <2>1 DEF MigInv, OwnerIs
  <2>3. OwnerIs(k)'
    BY <1>6, <1>7, <2>2 DEF OwnerIs
  <2>4. ~Asked(k)' /\ AskersWait(k)'
    BY <1>0, <1>7, <1>10 DEF MigInv, AskersWait
  <2>5. OwnOnly'
    BY <1>0, <1>6, <2>2 DEF MigInv, OwnOnly
  <2>6. QED
    BY <2>3, <2>4, <2>5
<1>12. RankInv'
  <2>1. PICK n \in Nat : \E r \in [Proc -> 0..n] : Ranked(r)
    BY DEF MigInv, RankInv
  <2>2. PICK r \in [Proc -> 0..n] : Ranked(r)
    BY <2>1
  <2> DEFINE v == [r EXCEPT ![k] = n + 1]
  <2>3. n + 1 \in Nat /\ v \in [Proc -> 0..n + 1]
    BY <2>1, <2>2
  <2>4. v[k] = n + 1 /\ (\A q \in Proc : q # k => v[q] = r[q]) /\ \A q \in Proc : r[q] < n + 1
    BY <2>1, <2>2
  <2> HIDE DEF v
  <2>5. ASSUME NEW q \in Proc PROVE FollowsObject(q, NotBefore(v, q))'
    <3> DEFINE K == RequestsOf(NotBefore(v, q))
    <3>1. ASSUME NEW s \in Seq(Message), ~Has(s, RequestsOf({k})), NEW i \in DOMAIN s, s[i] \in K
          PROVE  s[i] \in RequestsOf(NotBefore(r, q)) /\ q # k
      <4>1. s[i] \in Message /\ s[i].kind = "request" /\ s[i].tag.task = NoTask
            /\ s[i].tag.proc \in NotBefore(v, q)
        BY <3>1 DEF RequestsOf
      <4>2. s[i].tag.proc # k
        BY <3>1, <4>1 DEF Has, RequestsOf
      <4>3. q # k /\ s[i].tag.proc \in NotBefore(r, q)
        <5>1. PICK y \in Proc : y = s[i].tag.proc /\ v[y] >= v[q]
          BY <4>1 DEF NotBefore
        <5>2. v[y] = r[y] /\ r[y] < n + 1 /\ r[y] \in Int
          BY <2>2, <2>4, <4>2, <5>1
        <5>3. q # k
          BY <2>1, <2>4, <5>1, <5>2
        <5>4. QED
          BY <2>4, <5>1, <5>2, <5>3 DEF NotBefore
      <4>4. QED
        BY <4>1, <4>3 DEF RequestsOf
    <3>2. ~Has(dmq[q], RequestsOf({k})) /\ ~Has(net[q], RequestsOf({k}))
      BY AskedNow DEF MigInv, Asked, Site
    <3>3. FollowsObject(q, NotBefore(r, q)) /\ dmq[q] \in Seq(Message) /\ net[q] \in Seq(Message)
      BY <1>0, <2>2, PlainQueues DEF Ranked
    <3>4. CASE q = k
      <4>1. Behind(dmq[q], K, Owners) /\ Behind(net[q], K, Owners)
        BY <3>1, <3>2, <3>3, <3>4 DEF Behind
      <4>2. ~Has(Tail(dmq[q]), K)
        <5>1. ~Has(dmq[q], K)
          BY <3>1, <3>2, <3>3, <3>4 DEF Has
        <5>2. QED
          BY <1>3, <1>4, <3>4, <5>1, TailOf
      <4>3. Behind(dmq'[q], K, Owners) /\ Behind(net'[q], K, Owners)
        BY <1>0, <1>6, <3>4, <4>1, <4>2 DEF Behind, Has
      <4>4. QED
        BY <4>3 DEF FollowsObject, NotBefore, Has, Behind, RequestsOf, Owners
    <3>5. CASE q # k
      <4>1. Behind(dmq[q], K, Owners)
        BY <3>1, <3>2, <3>3 DEF Behind, FollowsObject
      <4>2. Has(dmq[q], Owners) \/ Behind(net[q], K, Owners)
        BY <3>1, <3>2, <3>3 DEF Behind, FollowsObject
      <4>3. Behind(dmq'[q], K, Owners) /\ (Has(dmq'[q], Owners) \/ Behind(net'[q], K, Owners))
        BY <1>0, <1>6, <3>5, <4>1, <4>2
      <4>4. QED
        BY <4>3 DEF FollowsObject, NotBefore, Has, Behind, RequestsOf, Owners
    <3>6. QED
      BY <3>4, <3>5
  <2>6. \A x, y \in Proc : owner'[x] = y /\ y # x /\ ~Arriving(y)' => v[x] < v[y]
    <3>1. ASSUME NEW x \in Proc, NEW y \in Proc, owner'[x] = y, y # x PROVE v[x] < v[y]
      <4>1. x # k /\ owner[x] = y /\ v[x] = r[x] /\ r[x] < n + 1
        BY <1>6, <2>4, <3>1
      <4>2. CASE y = k
        BY <2>4, <4>1, <4>2
      <4>3. CASE y # k
        BY <1>8, <2>2, <2>4, <3>1, <4>1, <4>3 DEF Ranked
      <4>4. QED
        BY <4>2, <4>3
    <3>2. QED
      BY <3>1
  <2>7. Ranked(v)'
    BY <2>5, <2>6 DEF Ranked, NotBefore
  <2>8. QED
    BY <2>3, <2>7 DEF RankInv
<1>13. QED
  BY <1>9, <1>10, <1>11, <1>12 DEF MigInv

\* A request is passed on to a processor that owned the object after this one.
LEMMA MigForward ==
    ASSUME TypeInv, NEW k \in Proc, NEW place \in Place, NEW w, KeptBy(k, place, w), MigInv(k),
           NEW p \in Proc, ForwardRequest(p)
    PROVE  MigInv(k)'
<1> DEFINE m == Head(dmq[p])
           o == Request(m.tag)
<1>0. /\ dmq \in [Proc -> Seq(Message)] /\ net \in [Proc -> Seq(Packet)] /\ owner \in [Proc -> Proc]
      /\ MigTypes /\ UNCHANGED <<owner, acc, copies>>
      /\ dmq[p] # <<>> /\ m.kind = "request" /\ owner[p] # p /\ m.tag.proc # p
      /\ dmq' = [dmq EXCEPT ![p] = Tail(@)]
      /\ net' = [net EXCEPT ![owner[p]] = Append(@, o)]
  BY DEF TypeInv, DmqTypes, NetTypes, PlainTypes, MigInv, ForwardRequest, NextMessage
<1>1. /\ dmq[p] \in Seq(Message) /\ m \in Message /\ m \in PlainMessage(p) /\ m.tag \in Tag
      /\ m.tag \in PlainTag(p) /\ Tail(dmq[p]) \in Seq(PlainMessage(p))
  BY <1>0, PlainQueues DEF PlainMessage, Message
<1>2. PICK x \in Proc : x = m.tag.proc
  BY <1>1 DEF Tag
<1>3. PICK y \in Proc : y = owner[p]
  BY <1>0
<1>4. m.tag.task = NoTask /\ m.tag.mode = "Write"
  BY <1>0, <1>1 DEF PlainTag, TagAt, OwnTag
<1>5. o \in Message /\ o.kind = "request" /\ o.tag = m.tag /\ o.refs = {}
  BY <1>1 DEF Request, Message
<1>6. m \notin Owners /\ o \notin Owners /\ \A X : /\ m \in RequestsOf(X) <=> x \in X
                                                   /\ o \in RequestsOf(X) <=> x \in X
  BY <1>0, <1>1, <1>2, <1>4, <1>5 DEF RequestsOf, Owners
<1>7. net[y] \in Seq(Message) /\ net[y] \in Seq(PlainMessage(y))
  BY <1>0, PlainQueues
<1> HIDE DEF o
<1>a. \A K : /\ Has(Append(net[y], o), K) <=> Has(net[y], K) \/ o \in K
             /\ Once(net[y], K) /\ (o \notin K \/ ~Has(net[y], K)) => Once(Append(net[y], o), K)
             /\ Behind(net[y], K, Owners) /\ (o \notin K \/ Has(net[y], Owners)) =>
                  Behind(Append(net[y], o), K, Owners)
  BY <1>5, <1>7, AppendOf
<1>b. \A K : /\ Has(dmq[p], K) <=> Has(Tail(dmq[p]), K) \/ m \in K
             /\ Once(dmq[p], K) => Once(Tail(dmq[p]), K) /\ ~(m \in K /\ Has(Tail(dmq[p]), K))
             /\ Behind(dmq[p], K, Owners) => m \notin K
             /\ Behind(dmq[p], K, Owners) => Behind(Tail(dmq[p]), K, Owners)
  BY <1>0, <1>1, <1>6, TailOf
<1> HIDE DEF m
<1>8. /\ dmq'[p] = Tail(dmq[p]) /\ net'[y] = Append(net[y], o) /\ y # p
      /\ \A q \in Proc : (q # p => dmq'[q] = dmq[q]) /\ (q # y => net'[q] = net[q])
  BY <1>0, <1>3
<1>9. \A q \in Proc : Arriving(q)' <=> Arriving(q)
  <2>1. (Has(dmq'[p], Owners) <=> Has(dmq[p], Owners)) /\ (Has(net'[y], Owners) <=> Has(net[y], Owners))
    BY <1>6, <1>8, <1>a, <1>b
  <2>2. QED
    BY <1>8, <2>1 DEF Arriving, Has, Owners
<1>10. AskedAt("dmq", p, x) /\ x # k
  <2>1. AskedAt("dmq", p, x)
    BY <1>6, <1>b, AskedNow
  <2>2. QED
    BY <2>1 DEF MigInv, Asked, Site
<1>11. PICK n \in Nat : \E r \in [Proc -> 0..n] : Ranked(r)
  BY DEF MigInv, RankInv
<1>12. PICK r \in [Proc -> 0..n] : Ranked(r)
  BY <1>11
<1>13. r[x] < r[p] /\ (~Arriving(y) => r[p] < r[y])
  <2>1. x \notin NotBefore(r, p)
    BY <1>6, <1>12, <1>b DEF Ranked, FollowsObject
  <2>2. r[x] \in Int /\ r[p] \in Int
    BY <1>11, <1>12
  <2>3. r[x] < r[p]
    BY <2>1, <2>2 DEF NotBefore
  <2>4. ~Arriving(y) => r[p] < r[y]
    BY <1>3, <1>8, <1>12 DEF Ranked
  <2>5. QED
    BY <2>3, <2>4
<1>14. y # x
  <2>1. ASSUME y = x PROVE FALSE
    <3>1. r[x] \in Int /\ r[p] \in Int
      BY <1>11, <1>12
    <3>2. Arriving(x)
      BY <1>13, <2>1, <3>1
    <3>3. x = k
      BY <3>2, NoOwner DEF KeptBy, Elsewhere, Arriving
    <3>4. QED
      BY <1>10, <3>3
  <2>2. QED
    BY <2>1
<1>15. MigTypes'
  <2>1. m.tag \in PlainTag(y)
    BY <1>1, <1>2, <1>4, <1>14 DEF PlainTag, TagAt, OwnTag
  <2>2. o \in PlainMessage(y)
    BY <1>5, <2>1 DEF PlainMessage
  <2>3. Append(net[y], o) \in Seq(PlainMessage(y))
    BY <1>7, <2>2, SequencePlain
  <2>4. \A q \in Proc : net'[q] \in Seq(PlainMessage(q)) /\ dmq'[q] \in Seq(PlainMessage(q))
    BY <1>0, <1>1, <1>8, <2>3 DEF MigTypes
  <2>5. QED
    BY <1>0, <2>4 DEF MigTypes
<1>16. ASSUME NEW z \in Proc PROVE OnePlace(z)' /\ OneRequest(z)' /\ (Asked(z)' => Asked(z))
  <2> DEFINE K == RequestsOf({z})
  <2>0. OnePlace(z) /\ OneRequest(z) /\ (m \in K <=> z = x) /\ (o \in K <=> z = x)
    BY <1>6 DEF MigInv
  <2>1. /\ Has(net'[y], K) <=> Has(net[y], K) \/ o \in K
        /\ Has(dmq'[p], K) => Has(dmq[p], K)
        /\ m \in K => ~Has(dmq'[p], K)
        /\ Once(dmq'[p], K)
    BY <1>8, <1>a, <1>b, <2>0 DEF OneRequest
  <2>2. o \in K => ~Has(net[y], K)
    <3>1. "dmq" \in Site /\ "net" \in Site /\ "dmq" # "net"
      BY DEF Site
    <3>2. o \in K => Has(dmq[p], K)
      BY <1>b, <2>0
    <3>3. QED
      BY <2>0, <3>1, <3>2, AskedNow DEF OnePlace
  <2>3. Once(net'[y], K)
    BY <1>8, <1>a, <2>0, <2>2 DEF OneRequest
  <2>4. OneRequest(z)'
    <3>1. \A q \in Proc : /\ Once(acc'[q], FiledBy(z)) /\ Once(dmq'[q], K) /\ Once(net'[q], K)
      BY <1>0, <1>8, <2>0, <2>1, <2>3 DEF OneRequest
    <3>2. QED
      BY <3>1 DEF OneRequest, Once, FiledBy, RequestsOf
  <2>5. CASE z = x
    <3>1. ASSUME NEW s \in Site, NEW q \in Proc, AskedAt(s, q, z)'
          PROVE  \/ AskedAt(s, q, z) /\ ~(s = "dmq" /\ q = p)
                 \/ s = "net" /\ q = y
      <4>1. CASE s = "acc"
        BY <1>0, <3>1, <4>1, AskedNow
      <4>2. CASE s = "dmq"
        BY <1>8, <2>0, <2>1, <2>5, <3>1, <4>2, AskedNow
      <4>3. CASE s = "net"
        BY <1>8, <3>1, <4>3, AskedNow
      <4>4. QED
        BY <4>1, <4>2, <4>3 DEF Site
    <3>2. "net" \in Site /\ "dmq" \in Site
      BY DEF Site
    <3>4. AskedAt("dmq", p, z)
      BY <1>10, <2>5
    <3>3. \A s \in Site, q \in Proc : AskedAt(s, q, z)' =>
             \/ AskedAt(s, q, z) /\ ~(s = "dmq" /\ q = p)
             \/ s = "net" /\ q = y
      BY <3>1
    <3>5. \A s \in Site, q \in Proc : AskedAt(s, q, z)' => s = "net" /\ q = y
      BY <2>0, <3>2, <3>3, <3>4 DEF OnePlace
    <3>6. OnePlace(z)'
      BY <3>5 DEF OnePlace
    <3>7. Asked(z)
      BY <3>2, <3>4 DEF Asked
    <3>8. QED
      BY <2>4, <3>6, <3>7
  <2>6. CASE z # x
    <3>1. ASSUME NEW s \in Site, NEW q \in Proc, AskedAt(s, q, z)' PROVE AskedAt(s, q, z)
      <4>1. CASE s = "acc"
        BY <1>0, <3>1, <4>1, AskedNow
      <4>2. CASE s = "dmq"
        BY <1>8, <2>1, <3>1, <4>2, AskedNow
      <4>3. CASE s = "net"
        BY <1>8, <2>0, <2>1, <2>6, <3>1, <4>3, AskedNow
      <4>4. QED
        BY <4>1, <4>2, <4>3 DEF Site
    <3>2. QED
      BY <2>0, <2>4, <3>1, PlaceStays
  <2>7. QED
    BY <2>5, <2>6
<1>17. ASSUME NEW q \in Proc PROVE FollowsObject(q, NotBefore(r, q))'
  <2> DEFINE K == RequestsOf(NotBefore(r, q))
  <2>1. Behind(dmq[q], K, Owners) /\ (Has(dmq[q], Owners) \/ Behind(net[q], K, Owners))
    BY <1>12 DEF Ranked, FollowsObject
  <2>2. Behind(dmq'[q], K, Owners) /\ (Has(dmq[q], Owners) => Has(dmq'[q], Owners))
    <3>1. CASE q = p
      BY <1>6, <1>8, <1>b, <2>1, <3>1
    <3>2. CASE q # p
      BY <1>8, <2>1, <3>2
    <3>3. QED
      BY <3>1, <3>2
  <2>3. Has(dmq[q], Owners) \/ Behind(net'[q], K, Owners)
    <3>1. CASE q = y
      <4>1. ~Arriving(y) => x \notin NotBefore(r, y)
        <5>1. r[x] \in Int /\ r[p] \in Int /\ r[y] \in Int
          BY <1>11, <1>12
        <5>2. QED
          BY <1>13, <5>1 DEF NotBefore
      <4>2. Has(dmq[y], Owners) \/ Has(net[y], Owners) \/ o \notin K
        BY <1>6, <3>1, <4>1 DEF Arriving
      <4>3. QED
        BY <1>8, <1>a, <2>1, <3>1, <4>2
    <3>2. CASE q # y
      BY <1>8, <2>1, <3>2
    <3>3. QED
      BY <3>1, <3>2
  <2>4. QED
    BY <2>2, <2>3 DEF FollowsObject, NotBefore, Has, Behind, RequestsOf, Owners
<1>18. RankInv'
  <2>1. Ranked(r)'
    BY <1>0, <1>9, <1>12, <1>17 DEF Ranked, NotBefore
  <2>2. QED
    BY <1>11, <1>12, <2>1 DEF RankInv
<1>19. QED
  BY <1>0, <1>9, <1>15, <1>16, <1>18 DEF MigInv, OwnerIs, AskersWait, OwnOnly

\* Steps that leave the hints, and what follows the object
LEMMA RankKept ==
    ASSUME TypeInv, RankInv, UNCHANGED owner, AsksKept
    PROVE  RankInv' /\ \A p \in Proc : Arriving(p)' <=> Arriving(p)
<1>1. \A p \in Proc : Arriving(p)' <=> Arriving(p)
  BY DEF AsksKept, SameAsks, Arriving, Has, Owners
<1>2. PICK n \in Nat : \E r \in [Proc -> 0..n] : Ranked(r)
  BY DEF RankInv
<1>3. PICK r \in [Proc -> 0..n] : Ranked(r)
  BY <1>2
<1>4. ASSUME NEW X \in SUBSET Proc, NEW p \in Proc, FollowsObject(p, X)
      PROVE  FollowsObject(p, X)'
  BY <1>4 DEF FollowsObject, AsksKept, SameAsks, Has, Behind, RequestsOf, Owners
<1>5. \A p \in Proc : NotBefore(r, p) \in SUBSET Proc
  BY DEF NotBefore
<1>6. \A p \in Proc : FollowsObject(p, NotBefore(r, p))'
  BY <1>3, <1>4, <1>5 DEF Ranked
<1>7. \A p, q \in Proc : owner'[p] = q /\ q # p /\ ~Arriving(q)' => r[p] < r[q]
  BY <1>1, <1>3 DEF Ranked
<1>8. Ranked(r)'
  BY <1>6, <1>7 DEF Ranked, NotBefore
<1>9. QED
  BY <1>1, <1>8 DEF RankInv

\* A queued request: it was filed by another processor, or it names its task.
LEMMA MigQueued ==
    ASSUME TypeInv, NEW k \in Proc, MigInv(k), UNCHANGED owner, AsksKept, MigTypes', OwnOnly',
           \A x \in Proc : acc[x] # <<>> /\ ~(x = k /\ ~Arriving(k)) => acc'[x] # <<>>,
           \A x \in Proc : OnePlace(x)' /\ OneRequest(x)' /\ (Asked(x)' => Asked(x))
    PROVE  MigInv(k)'
<1>1. RankInv' /\ \A p \in Proc : Arriving(p)' <=> Arriving(p)
  BY RankKept DEF MigInv
<1>2. OwnerIs(k)' /\ ~Asked(k)'
  BY <1>1 DEF MigInv, OwnerIs
<1>3. AskersWait(k)'
  <2>1. ASSUME NEW x \in Proc, Asked(x)' \/ (x = k /\ Arriving(k)') PROVE acc'[x] # <<>>
    <3>1. Asked(x) \/ (x = k /\ Arriving(k))
      BY <1>1, <2>1
    <3>2. acc[x] # <<>> /\ ~(x = k /\ ~Arriving(k))
      BY <3>1 DEF MigInv, AskersWait
    <3>3. QED
      BY <3>2
  <2>2. QED
    BY <2>1 DEF AskersWait
<1>4. QED
  BY <1>1, <1>2, <1>3 DEF MigInv

LEMMA MigQueueHere ==
    ASSUME TypeInv, NEW k \in Proc, MigInv(k), NEW p \in Proc, QueueRequest(p), UNCHANGED net
    PROVE  MigInv(k)'
<1> DEFINE m == Head(dmq[p])
           tag == m.tag
<1>0. /\ dmq \in [Proc -> Seq(Message)] /\ acc \in [Proc -> Seq(Tag)]
      /\ MigTypes /\ UNCHANGED <<owner, net, copies>>
      /\ dmq[p] # <<>> /\ m.kind = "request" /\ (owner[p] = p \/ tag.proc = p)
      /\ dmq' = [dmq EXCEPT ![p] = Tail(@)]
  BY DEF TypeInv, DmqTypes, AccTypes, MigInv, QueueRequest, NextMessage
<1>1. PICK n \in 0..Len(acc[p]) : acc' = [acc EXCEPT ![p] = InsertAt(@, n + 1, tag)]
  BY DEF QueueRequest
<1>2. /\ dmq[p] \in Seq(Message) /\ m \in Message /\ m \in PlainMessage(p) /\ tag \in Tag
      /\ tag \in PlainTag(p) /\ Tail(dmq[p]) \in Seq(PlainMessage(p))
      /\ acc[p] \in Seq(PlainTag(p)) /\ acc[p] \in Seq(Tag)
  BY <1>0, PlainQueues DEF PlainMessage, Message
<1>3. m \notin Owners /\ \A x \in Proc : m \in RequestsOf({x}) <=> tag \in FiledBy(x)
  BY <1>0, <1>2 DEF RequestsOf, Owners, FiledBy
<1>a. \A K : /\ Has(InsertAt(acc[p], n + 1, tag), K) <=> Has(acc[p], K) \/ tag \in K
             /\ Once(acc[p], K) /\ (tag \notin K \/ ~Has(acc[p], K)) => Once(InsertAt(acc[p], n + 1, tag), K)
             /\ InsertAt(acc[p], n + 1, tag) # <<>>
  <2> HIDE DEF tag
  <2>1. QED
    BY <1>2, InsertOf
<1>b. \A K : /\ Has(dmq[p], K) <=> Has(Tail(dmq[p]), K) \/ m \in K
             /\ Once(dmq[p], K) => Once(Tail(dmq[p]), K) /\ ~(m \in K /\ Has(Tail(dmq[p]), K))
             /\ Behind(dmq[p], K, Owners) => Behind(Tail(dmq[p]), K, Owners)
  BY <1>0, <1>2, <1>3, TailOf
<1>4. InsertAt(acc[p], n + 1, tag) \in Seq(PlainTag(p))
  <2> HIDE DEF tag
  <2>1. QED
    BY <1>2, InsertAtType
<1> HIDE DEF m, tag
<1>5. /\ dmq'[p] = Tail(dmq[p]) /\ acc'[p] = InsertAt(acc[p], n + 1, tag)
      /\ \A q \in Proc : q # p => dmq'[q] = dmq[q] /\ acc'[q] = acc[q]
  BY <1>0, <1>1
<1>6. AsksKept
  <2>1. SameAsks(Tail(dmq[p]), dmq[p])
    BY <1>3, <1>b DEF SameAsks
  <2>2. \A q \in Proc : SameAsks(dmq[q], dmq[q]) /\ SameAsks(net[q], net[q])
    BY PlainQueues, IdleAsks, <1>0
  <2>3. QED
    BY <1>0, <1>5, <2>1, <2>2 DEF AsksKept
<1>7. MigTypes'
  BY <1>0, <1>2, <1>4, <1>5 DEF MigTypes
<1>8. OwnOnly'
  <2>1. ASSUME owner[p] # p PROVE \A i \in DOMAIN acc'[p] : acc'[p][i].proc = p
    <3> DEFINE K == {x \in Tag : x.proc # p}
    <3>1. tag \notin K /\ ~Has(acc[p], K)
      BY <1>0, <2>1 DEF MigInv, OwnOnly, Has, tag
    <3>2. ~Has(acc'[p], K)
      BY <1>5, <1>a, <3>1
    <3>3. \A i \in DOMAIN acc'[p] : acc'[p][i] \in Tag
      BY <1>4, <1>5, SequencePlain DEF PlainTag, TagAt
    <3>4. QED
      BY <3>2, <3>3 DEF Has
  <2>2. QED
    BY <1>0, <1>5, <2>1 DEF MigInv, OwnOnly
<1>9. \A x \in Proc : acc[x] # <<>> => acc'[x] # <<>>
  BY <1>5, <1>a
<1>10. ASSUME NEW z \in Proc PROVE OnePlace(z)' /\ OneRequest(z)' /\ (Asked(z)' => Asked(z))
  <2> DEFINE K == RequestsOf({z})
             F == FiledBy(z)
  <2>0. OnePlace(z) /\ OneRequest(z) /\ (m \in K <=> tag \in F)
    BY <1>3 DEF MigInv
  <2>1. /\ Has(acc'[p], F) <=> Has(acc[p], F) \/ tag \in F
        /\ Has(dmq'[p], K) => Has(dmq[p], K)
        /\ m \in K => ~Has(dmq'[p], K) /\ Has(dmq[p], K)
        /\ Once(dmq'[p], K)
    BY <1>5, <1>a, <1>b, <2>0 DEF OneRequest
  <2>2. tag \in F => ~Has(acc[p], F)
    <3>1. "dmq" \in Site /\ "acc" \in Site /\ "dmq" # "acc"
      BY DEF Site
    <3>2. QED
      BY <2>0, <2>1, <3>1, AskedNow DEF OnePlace
  <2>3. Once(acc'[p], F)
    BY <1>5, <1>a, <2>0, <2>2 DEF OneRequest
  <2>4. OneRequest(z)'
    <3>1. \A q \in Proc : /\ Once(acc'[q], F) /\ Once(dmq'[q], K) /\ Once(net'[q], K)
      BY <1>0, <1>5, <2>0, <2>1, <2>3 DEF OneRequest
    <3>2. QED
      BY <3>1 DEF OneRequest, Once, FiledBy, RequestsOf
  <2>5. CASE tag \in F
    <3>1. ASSUME NEW s \in Site, NEW q \in Proc, AskedAt(s, q, z)'
          PROVE  \/ AskedAt(s, q, z) /\ ~(s = "dmq" /\ q = p)
                 \/ s = "acc" /\ q = p
      <4>1. CASE s = "acc"
        BY <1>5, <3>1, <4>1, AskedNow
      <4>2. CASE s = "dmq"
        BY <1>5, <2>0, <2>1, <2>5, <3>1, <4>2, AskedNow
      <4>3. CASE s = "net"
        BY <1>0, <3>1, <4>3, AskedNow
      <4>4. QED
        BY <4>1, <4>2, <4>3 DEF Site
    <3>2. "dmq" \in Site /\ AskedAt("dmq", p, z)
      BY <2>0, <2>1, <2>5, AskedNow DEF Site
    <3>3. \A s \in Site, q \in Proc : AskedAt(s, q, z)' => s = "acc" /\ q = p
      BY <2>0, <3>1, <3>2 DEF OnePlace
    <3>4. OnePlace(z)'
      BY <3>3 DEF OnePlace
    <3>5. Asked(z)
      BY <3>2 DEF Asked
    <3>6. QED
      BY <2>4, <3>4, <3>5
  <2>6. CASE tag \notin F
    <3>1. ASSUME NEW s \in Site, NEW q \in Proc, AskedAt(s, q, z)' PROVE AskedAt(s, q, z)
      <4>1. CASE s = "acc"
        BY <1>5, <2>1, <2>6, <3>1, <4>1, AskedNow
      <4>2. CASE s = "dmq"
        BY <1>5, <2>1, <3>1, <4>2, AskedNow
      <4>3. CASE s = "net"
        BY <1>0, <3>1, <4>3, AskedNow
      <4>4. QED
        BY <4>1, <4>2, <4>3 DEF Site
    <3>2. QED
      BY <2>0, <2>4, <3>1, PlaceStays
  <2>7. QED
    BY <2>5, <2>6
<1>11. QED
  BY <1>0, <1>6, <1>7, <1>8, <1>9, <1>10, MigQueued

\* The first request to be queued makes its processor ask for the object.
LEMMA MigTell ==
    ASSUME TypeInv, Migrating, FiledInv, NEW k \in Proc, MigInv(k),
           NEW p \in Proc, QueueRequest(p), owner[p] # p,
           ~HasSimilarRequest(acc[p], Head(dmq[p]).tag),
           net' = [net EXCEPT ![owner[p]] = Append(@, Request(Filed(Head(dmq[p]).tag, p)))]
    PROVE  MigInv(k)'
<1> DEFINE m == Head(dmq[p])
           tag == m.tag
           o == Request(Filed(tag, p))
<1>0. /\ dmq \in [Proc -> Seq(Message)] /\ acc \in [Proc -> Seq(Tag)]
      /\ net \in [Proc -> Seq(Packet)] /\ owner \in [Proc -> Proc]
      /\ MigTypes /\ UNCHANGED <<owner, copies>>
      /\ dmq[p] # <<>> /\ m.kind = "request" /\ tag.proc = p
      /\ dmq' = [dmq EXCEPT ![p] = Tail(@)]
      /\ net' = [net EXCEPT ![owner[p]] = Append(@, o)]
  BY DEF TypeInv, DmqTypes, AccTypes, NetTypes, PlainTypes, MigInv, QueueRequest, NextMessage
<1>1. PICK n \in 0..Len(acc[p]) : acc' = [acc EXCEPT ![p] = InsertAt(@, n + 1, tag)]
  BY DEF QueueRequest
<1>2. /\ dmq[p] \in Seq(Message) /\ m \in Message /\ m \in PlainMessage(p) /\ tag \in Tag
      /\ tag \in PlainTag(p) /\ Tail(dmq[p]) \in Seq(PlainMessage(p))
      /\ acc[p] \in Seq(PlainTag(p)) /\ acc[p] \in Seq(Tag)
  BY <1>0, PlainQueues DEF PlainMessage, Message
<1>3. PICK y \in Proc : y = owner[p]
  BY <1>0
<1>4. /\ o \in Message /\ o \in PlainMessage(y) /\ o \notin Owners
      /\ \A X : o \in RequestsOf(X) <=> p \in X
  <2> DEFINE f == Filed(tag, p)
  <2>1. f \in Tag /\ f.task = NoTask /\ f.proc = p /\ f.mode = "Write"
    BY <1>2 DEF Filed, Tag, PlainTag
  <2> HIDE DEF f
  <2>2. f \in PlainTag(y)
    BY <1>3, <2>1 DEF PlainTag, TagAt, OwnTag
  <2>3. o = [kind |-> "request", tag |-> f, refs |-> {}]
    BY DEF f, Request
  <2>4. o \in Message /\ o.kind = "request" /\ o.tag = f /\ o.refs = {}
    BY <2>1, <2>3 DEF Message
  <2> HIDE DEF o
  <2>5. QED
    BY <2>1, <2>2, <2>4 DEF PlainMessage, Owners, RequestsOf
<1>5. acc[p] = <<>> /\ DOMAIN acc[p] = {}
  <2>1. tag \in FiledTag(Present)
    BY <1>0, FiledQueues DEF FiledInv, FiledMessage
  <2>2. \A i \in DOMAIN acc[p] : acc[p][i] \in FiledTag(Present) /\ acc[p][i].proc = p
    BY <1>0, FiledQueues DEF FiledInv, MigInv, OwnOnly
  <2>3. ASSUME NEW i \in DOMAIN acc[p]
        PROVE  acc[p][i].version = tag.version /\ acc[p][i].mode = tag.mode
    <3>1. acc[p][i] \in FiledTag(Present) /\ acc[p][i].proc = tag.proc
      BY <1>0, <2>2
    <3>2. acc[p][i].version = tag.version /\ acc[p][i].mode = "Write"
      BY <2>1, <3>1, OneVersion
    <3>3. tag.mode = "Write"
      BY <2>1, OneVersion
    <3>4. QED
      BY <3>2, <3>3
  <2>4. DOMAIN acc[p] = {}
    BY <2>3 DEF HasSimilarRequest
  <2>5. QED
    BY <1>2, <2>4, SequencePlain, EmptySeq
<1>6. ~Asked(p) /\ p # k
  BY <1>3, <1>5 DEF MigInv, AskersWait, OwnerIs
<1>7. net[y] \in Seq(Message) /\ net[y] \in Seq(PlainMessage(y))
  BY <1>0, PlainQueues
<1> HIDE DEF o
<1>a. \A K : /\ Has(InsertAt(acc[p], n + 1, tag), K) <=> Has(acc[p], K) \/ tag \in K
             /\ Once(acc[p], K) /\ (tag \notin K \/ ~Has(acc[p], K)) => Once(InsertAt(acc[p], n + 1, tag), K)
             /\ InsertAt(acc[p], n + 1, tag) # <<>>
  <2> HIDE DEF tag
  <2>1. QED
    BY <1>2, InsertOf
<1>b. \A K : /\ Has(dmq[p], K) <=> Has(Tail(dmq[p]), K) \/ m \in K
             /\ Once(dmq[p], K) => Once(Tail(dmq[p]), K)
             /\ Behind(dmq[p], K, Owners) => Behind(Tail(dmq[p]), K, Owners)
  <2>1. m \notin Owners
    BY <1>0 DEF Owners
  <2>2. QED
    BY <1>0, <1>2, <2>1, TailOf
<1>c. \A K : /\ Has(Append(net[y], o), K) <=> Has(net[y], K) \/ o \in K
             /\ Once(net[y], K) /\ (o \notin K \/ ~Has(net[y], K)) => Once(Append(net[y], o), K)
             /\ Behind(net[y], K, Owners) /\ (o \notin K \/ Has(net[y], Owners)) =>
                  Behind(Append(net[y], o), K, Owners)
  BY <1>4, <1>7, AppendOf
<1>8. /\ InsertAt(acc[p], n + 1, tag) \in Seq(PlainTag(p))
      /\ tag.task # NoTask /\ m \notin Owners /\ tag.proc = p
  <2>1. tag.task # NoTask /\ m \notin Owners /\ tag.proc = p
    BY <1>0, <1>2 DEF PlainTag, Owners
  <2> HIDE DEF tag
  <2>2. QED
    BY <1>2, <2>1, InsertAtType
<1> HIDE DEF m, tag
<1>9. /\ dmq'[p] = Tail(dmq[p]) /\ acc'[p] = InsertAt(acc[p], n + 1, tag)
      /\ net'[y] = Append(net[y], o) /\ y # p
      /\ \A q \in Proc : q # p => dmq'[q] = dmq[q] /\ acc'[q] = acc[q]
      /\ \A q \in Proc : q # y => net'[q] = net[q]
      /\ UNCHANGED <<owner, copies>> /\ MigTypes
  BY <1>0, <1>1, <1>3
<1>10. \A q \in Proc : Arriving(q)' <=> Arriving(q)
  <2>1. (Has(dmq'[p], Owners) <=> Has(dmq[p], Owners)) /\ (Has(net'[y], Owners) <=> Has(net[y], Owners))
    BY <1>4, <1>8, <1>9, <1>b, <1>c
  <2>2. QED
    BY <1>9, <2>1 DEF Arriving, Has, Owners
<1>11. MigTypes'
  <2>1. Append(net[y], o) \in Seq(PlainMessage(y))
    BY <1>4, <1>7, SequencePlain
  <2>2. \A q \in Proc : net'[q] \in Seq(PlainMessage(q))
    BY <1>9, <2>1 DEF MigTypes
  <2>3. \A q \in Proc : dmq'[q] \in Seq(PlainMessage(q))
    BY <1>2, <1>9 DEF MigTypes
  <2>4. \A q \in Proc : acc'[q] \in Seq(PlainTag(q))
    BY <1>8, <1>9 DEF MigTypes
  <2>5. QED
    BY <1>9, <2>2, <2>3, <2>4 DEF MigTypes
<1>12. OwnOnly'
  <2>1. \A i \in DOMAIN acc'[p] : acc'[p][i].proc = p
    <3> DEFINE K == {x \in Tag : x.proc # p}
    <3>1. tag \notin K /\ ~Has(acc[p], K)
      BY <1>5, <1>8 DEF Has
    <3>2. ~Has(acc'[p], K)
      BY <1>9, <1>a, <3>1
    <3>3. \A i \in DOMAIN acc'[p] : acc'[p][i] \in Tag
      BY <1>8, <1>9, SequencePlain DEF PlainTag, TagAt
    <3>4. QED
      BY <3>2, <3>3 DEF Has
  <2>2. \A q \in Proc : owner'[q] # q => \A i \in DOMAIN acc'[q] : acc'[q][i].proc = q
    BY <1>9, <2>1 DEF MigInv, OwnOnly
  <2>3. QED
    BY <2>2 DEF OwnOnly
<1>13. ASSUME NEW z \in Proc
       PROVE  OnePlace(z)' /\ OneRequest(z)' /\ (Asked(z)' => Asked(z) \/ z = p)
  <2> DEFINE K == RequestsOf({z})
             F == FiledBy(z)
  <2>0. OnePlace(z) /\ OneRequest(z) /\ (o \in K <=> z = p) /\ tag \notin F
    BY <1>4, <1>8 DEF MigInv, FiledBy
  <2>1. /\ Has(acc'[p], F) <=> Has(acc[p], F)
        /\ Has(dmq'[p], K) => Has(dmq[p], K)
        /\ Has(net'[y], K) <=> Has(net[y], K) \/ z = p
        /\ Once(dmq'[p], K) /\ Once(acc'[p], F)
    BY <1>9, <1>a, <1>b, <1>c, <2>0 DEF OneRequest
  <2>2. Once(net'[y], K)
    <3>1. z = p => ~Has(net[y], K)
      BY <1>6, AskedNow DEF Asked, Site
    <3>2. QED
      BY <1>9, <1>c, <2>0, <3>1 DEF OneRequest
  <2>3. OneRequest(z)'
    <3>1. \A q \in Proc : /\ Once(acc'[q], F) /\ Once(dmq'[q], K) /\ Once(net'[q], K)
      BY <1>9, <2>0, <2>1, <2>2 DEF OneRequest
    <3>2. QED
      BY <3>1 DEF OneRequest, Once, FiledBy, RequestsOf
  <2>4. ASSUME NEW s \in Site, NEW q \in Proc, AskedAt(s, q, z)'
        PROVE  AskedAt(s, q, z) \/ (z = p /\ s = "net" /\ q = y)
    <3>1. CASE s = "acc"
      BY <1>9, <2>1, <2>4, <3>1, AskedNow
    <3>2. CASE s = "dmq"
      BY <1>9, <2>1, <2>4, <3>2, AskedNow
    <3>3. CASE s = "net"
      BY <1>9, <2>1, <2>4, <3>3, AskedNow
    <3>4. QED
      BY <3>1, <3>2, <3>3 DEF Site
  <2>5. CASE z # p
    <3>1. \A s \in Site, q \in Proc : AskedAt(s, q, z)' => AskedAt(s, q, z)
      BY <2>4, <2>5
    <3>2. QED
      BY <2>0, <2>3, <3>1, PlaceStays
  <2>6. CASE z = p
    <3>1. \A s \in Site, q \in Proc : AskedAt(s, q, z)' => s = "net" /\ q = y
      BY <1>6, <2>4, <2>6 DEF Asked
    <3>2. OnePlace(z)'
      BY <3>1 DEF OnePlace
    <3>3. QED
      BY <2>3, <2>6, <3>2
  <2>7. QED
    BY <2>5, <2>6
<1>14. AskersWait(k)'
  <2>1. ASSUME NEW x \in Proc, Asked(x)' \/ (x = k /\ Arriving(k)') PROVE acc'[x] # <<>>
    <3>1. CASE x = p
      BY <1>9, <1>a, <3>1
    <3>2. CASE x # p
      BY <1>9, <1>10, <1>13, <2>1, <3>2 DEF MigInv, AskersWait
    <3>3. QED
      BY <3>1, <3>2
  <2>2. QED
    BY <2>1 DEF AskersWait
<1>15. RankInv'
  <2>1. PICK u \in Nat : \E r \in [Proc -> 0..u] : Ranked(r)
    BY DEF MigInv, RankInv
  <2>2. PICK r \in [Proc -> 0..u] : Ranked(r)
    BY <2>1
  <2>3. ASSUME NEW q \in Proc PROVE FollowsObject(q, NotBefore(r, q))'
    <3> DEFINE K == RequestsOf(NotBefore(r, q))
    <3>1. Behind(dmq[q], K, Owners) /\ (Has(dmq[q], Owners) \/ Behind(net[q], K, Owners))
      BY <2>2 DEF Ranked, FollowsObject
    <3>2. Behind(dmq'[q], K, Owners) /\ (Has(dmq[q], Owners) => Has(dmq'[q], Owners))
      <4>1. CASE q = p
        BY <1>8, <1>9, <1>b, <3>1, <4>1
      <4>2. CASE q # p
        BY <1>9, <3>1, <4>2
      <4>3. QED
        BY <4>1, <4>2
    <3>3. Has(dmq[q], Owners) \/ Behind(net'[q], K, Owners)
      <4>1. CASE q = y
        <5>1. ~Arriving(y) => p \notin NotBefore(r, y)
          <6>1. r[p] \in Int /\ r[y] \in Int
            BY <2>1, <2>2
          <6>2. ~Arriving(y) => r[p] < r[y]
            BY <1>3, <1>9, <2>2 DEF Ranked
          <6>3. QED
            BY <6>1, <6>2 DEF NotBefore
        <5>2. Has(dmq[y], Owners) \/ Has(net[y], Owners) \/ o \notin K
          BY <1>4, <4>1, <5>1 DEF Arriving
        <5>3. QED
          BY <1>9, <1>c, <3>1, <4>1, <5>2
      <4>2. CASE q # y
        BY <1>9, <3>1, <4>2
      <4>3. QED
        BY <4>1, <4>2
    <3>4. QED
      BY <3>2, <3>3 DEF FollowsObject, NotBefore, Has, Behind, RequestsOf, Owners
  <2>4. Ranked(r)'
    BY <1>0, <1>10, <2>2, <2>3 DEF Ranked, NotBefore
  <2>5. QED
    BY <2>1, <2>2, <2>4, Zenon DEF RankInv
<1>16. OwnerIs(k)' /\ ~Asked(k)'
  BY <1>0, <1>6, <1>10, <1>13 DEF MigInv, OwnerIs
<1>17. QED
  BY <1>11, <1>12, <1>13, <1>14, <1>15, <1>16 DEF MigInv

LEMMA MigQueue ==
    ASSUME TypeInv, Migrating, FiledInv, NEW k \in Proc, MigInv(k), NEW p \in Proc, QueueRequest(p)
    PROVE  MigInv(k)'
<1> DEFINE tag == Head(dmq[p]).tag
<1>1. \/ UNCHANGED net
      \/ /\ owner[p] # p /\ ~HasSimilarRequest(acc[p], tag)
         /\ net' = [net EXCEPT ![owner[p]] = Append(@, Request(Filed(tag, p)))]
  BY DEF QueueRequest
<1>2. QED
  BY <1>1, MigQueueHere, MigTell

\* No request is for reading, and none comes too late.
LEMMA MigWrites ==
    ASSUME TypeInv, MigTypes, NEW p \in Proc, NEW c,
           \A i \in DOMAIN acc[p] : NotBehind(acc[p][i].version, c.label)
    PROVE  ~RejectRequest(p, c) /\ ~GrantRead(p, c)
<1>1. \A i \in DOMAIN acc[p] : acc[p][i].mode = "Write"
  BY PlainQueues DEF PlainTag
<1>2. ~RejectRequest(p, c)
  BY DEF RejectRequest, IsFirst, Incompatible, AmICompatible, NotBehind
<1>3. ~GrantRead(p, c)
  BY <1>1 DEF GrantRead, IsFirst, Compatible
<1>4. QED
  BY <1>2, <1>3

\* The keeper's own writer is served: nobody else's request goes with it.
LEMMA MigGranted ==
    ASSUME TypeInv, NEW k \in Proc, NEW place \in Place, NEW w, KeptBy(k, place, w), MigInv(k),
           NEW p \in Proc, NEW c \in copies[p], GrantLocalWrite(p, c)
    PROVE  MigInv(k)'
<1>0. /\ p = k /\ MigTypes /\ acc \in [Proc -> Seq(Tag)] /\ copies \in [Proc -> SUBSET Copy]
      /\ UNCHANGED <<owner, dmq, net>> /\ copies' = [copies EXCEPT ![p] = @ \ {c}]
  BY AtKeeper DEF TypeInv, AccTypes, PlainTypes, GrantLocalWrite, MigInv
<1>1. ~Arriving(k)
  BY AtKeeper, NoOwner DEF GrantLocalWrite, MayWrite, Arriving
<1>2. PICK i \in DOMAIN acc[p] : acc' = [acc EXCEPT ![p] = RemoveAt(@, i)]
  BY DEF GrantLocalWrite
<1>3. acc[p] \in Seq(PlainTag(p)) /\ i \in 1..Len(acc[p])
  BY <1>0, <1>2, PlainQueues, SequencePlain
<1>4. RemoveAt(acc[p], i) \in Seq(PlainTag(p))
  BY <1>3, RemoveAtType
<1>5. \A K : /\ Has(RemoveAt(acc[p], i), K) => Has(acc[p], K)
             /\ Once(acc[p], K) => Once(RemoveAt(acc[p], i), K)
  BY <1>2, <1>3, RemoveOf
<1>6. acc'[p] = RemoveAt(acc[p], i) /\ \A q \in Proc : q # p => acc'[q] = acc[q]
  BY <1>0, <1>2
<1>7. AsksKept
  <2>1. \A q \in Proc : SameAsks(dmq[q], dmq[q]) /\ SameAsks(net[q], net[q])
    BY <1>0, PlainQueues, IdleAsks
  <2>2. QED
    BY <1>0, <2>1 DEF AsksKept
<1>8. MigTypes'
  <2>1. \A q \in Proc : acc'[q] \in Seq(PlainTag(q))
    BY <1>0, <1>4, <1>6 DEF MigTypes
  <2>2. \A q \in Proc : \A d \in copies'[q] : Stray \notin d.refs
    BY <1>0 DEF MigTypes
  <2>3. QED
    BY <1>0, <2>1, <2>2 DEF MigTypes
<1>9. OwnOnly'
  BY <1>0, <1>1, <1>6 DEF MigInv, OwnerIs, OwnOnly
<1>10. \A x \in Proc : acc[x] # <<>> /\ ~(x = k /\ ~Arriving(k)) => acc'[x] # <<>>
  BY <1>0, <1>1, <1>6
<1>11. ASSUME NEW z \in Proc PROVE OnePlace(z)' /\ OneRequest(z)' /\ (Asked(z)' => Asked(z))
  <2>0. OnePlace(z) /\ OneRequest(z)
    BY DEF MigInv
  <2>1. OneRequest(z)'
    <3>1. \A q \in Proc : /\ Once(acc'[q], FiledBy(z)) /\ Once(dmq'[q], RequestsOf({z}))
                          /\ Once(net'[q], RequestsOf({z}))
      BY <1>0, <1>5, <1>6, <2>0 DEF OneRequest
    <3>2. QED
      BY <3>1 DEF OneRequest, Once, FiledBy, RequestsOf
  <2>2. ASSUME NEW s \in Site, NEW q \in Proc, AskedAt(s, q, z)' PROVE AskedAt(s, q, z)
    <3>1. CASE s = "acc"
      BY <1>5, <1>6, <2>2, <3>1, AskedNow
    <3>2. CASE s # "acc"
      BY <1>0, <2>2, <3>2, AskedNow DEF Site
    <3>3. QED
      BY <3>1, <3>2
  <2>3. QED
    BY <2>0, <2>1, <2>2, PlaceStays
<1>12. QED
  BY <1>0, <1>7, <1>8, <1>9, <1>10, <1>11, MigQueued

\* The messages of an owner task: the object, the requests, the end
LEMMA TaskMessages ==
    ASSUME NEW tag \in Unnamed, tag.version \in Nat, NEW n \in Nat, NEW s \in [1..n -> Unnamed]
    PROVE  /\ OwnerTask(tag, s) \in Seq(Message) /\ DOMAIN OwnerTask(tag, s) = 1..n + 2
           /\ OwnerTask(tag, s)[1] = [kind |-> "owner", tag |-> tag, refs |-> {}]
           /\ \A i \in 2..n + 1 : OwnerTask(tag, s)[i] = Request(s[i - 1])
           /\ OwnerTask(tag, s)[n + 2] = [kind |-> "dispose", tag |-> tag, refs |-> {}]
<1> DEFINE o == <<[kind |-> "owner", tag |-> tag, refs |-> {}]>>
           r == [i \in DOMAIN s |-> Request(s[i])]
           d == <<[kind |-> "dispose", tag |-> tag, refs |-> {}]>>
           t == OwnerTask(tag, s)
<1>1. t \in Seq(Message) /\ t = (o \o r) \o d
  BY OwnerTaskType, SubTypes, ProcAssumption DEF OwnerTask
<1>2. /\ [kind |-> "owner", tag |-> tag, refs |-> {}] \in Message
      /\ [kind |-> "dispose", tag |-> tag, refs |-> {}] \in Message
      /\ \A x \in Unnamed : Request(x) \in Message
  BY DEF Unnamed, Message, Request
<1>3. r \in [1..n -> Message] /\ \A i \in 1..n : r[i] = Request(s[i])
  <2>1. DOMAIN s = 1..n
    OBVIOUS
  <2>2. QED
    BY <1>2, <2>1
<1>4. r \in Seq(Message) /\ Len(r) = n /\ o \in Seq(Message) /\ d \in Seq(Message)
      /\ Len(o) = 1 /\ o[1] = [kind |-> "owner", tag |-> tag, refs |-> {}]
      /\ Len(d) = 1 /\ d[1] = [kind |-> "dispose", tag |-> tag, refs |-> {}]
  BY <1>2, <1>3, SeqDef
<1> HIDE DEF o, r, d, t
<1>5. o \o r \in Seq(Message) /\ Len(o \o r) = n + 1
      /\ \A i \in 1..n + 1 : (o \o r)[i] = IF i <= 1 THEN o[i] ELSE r[i - 1]
  <2>1. /\ o \o r \in Seq(Message) /\ Len(o \o r) = Len(o) + Len(r)
        /\ \A i \in 1..Len(o) + Len(r) :
             (o \o r)[i] = IF i <= Len(o) THEN o[i] ELSE r[i - Len(o)]
    BY <1>4, ConcatProperties
  <2>2. Len(o) + Len(r) = n + 1 /\ Len(o) = 1
    BY <1>4
  <2>3. QED
    BY <2>1, <2>2
<1>6. Len(t) = n + 2 /\ \A i \in 1..n + 2 : t[i] = IF i <= n + 1 THEN (o \o r)[i] ELSE d[i - (n + 1)]
  <2>1. /\ Len(t) = Len(o \o r) + Len(d)
        /\ \A i \in 1..Len(o \o r) + Len(d) :
             t[i] = IF i <= Len(o \o r) THEN (o \o r)[i] ELSE d[i - Len(o \o r)]
    BY <1>1, <1>4, <1>5, ConcatProperties
  <2>2. Len(o \o r) + Len(d) = n + 2
    BY <1>4, <1>5
  <2>3. QED
    BY <1>5, <2>1, <2>2
<1>7. DOMAIN t = 1..n + 2
  BY <1>1, <1>6, LenProperties
<1>8. t[1] = o[1]
  <2>1. 1 \in 1..n + 2 /\ 1 \in 1..n + 1 /\ 1 <= n + 1 /\ 1 <= 1
    OBVIOUS
  <2>2. t[1] = (o \o r)[1]
    BY <1>6, <2>1
  <2>3. QED
    BY <1>5, <2>1, <2>2
<1>9. ASSUME NEW i \in 2..n + 1 PROVE t[i] = Request(s[i - 1])
  <2>1. i - 1 \in 1..n /\ i \in 1..n + 1 /\ i \in 1..n + 2 /\ ~(i <= 1) /\ i <= n + 1
    OBVIOUS
  <2>2. t[i] = r[i - 1]
    BY <1>5, <1>6, <2>1
  <2>3. QED
    BY <1>3, <2>1, <2>2
<1>10. t[n + 2] = d[1]
  <2>1. n + 2 \in 1..n + 2 /\ ~(n + 2 <= n + 1) /\ (n + 2) - (n + 1) = 1
    OBVIOUS
  <2>2. QED
    BY <1>6, <2>1
<1>11. QED
  BY <1>1, <1>4, <1>7, <1>8, <1>9, <1>10 DEF t

LEMMA TaskAsks ==
    ASSUME NEW tag \in Unnamed, tag.version \in Nat, NEW n \in Nat, NEW s \in [1..n -> Unnamed]
    PROVE  /\ Has(OwnerTask(tag, s), Owners)
           /\ \A X : /\ Behind(OwnerTask(tag, s), RequestsOf(X), Owners)
                     /\ Has(OwnerTask(tag, s), RequestsOf(X)) => \E j \in 1..n : s[j].proc \in X
                     /\ (\A a, b \in 1..n : s[a].proc \in X /\ s[b].proc \in X => a = b) =>
                          Once(OwnerTask(tag, s), RequestsOf(X))
<1> DEFINE t == OwnerTask(tag, s)
<1>1. /\ t \in Seq(Message) /\ DOMAIN t = 1..n + 2
      /\ t[1] = [kind |-> "owner", tag |-> tag, refs |-> {}]
      /\ \A i \in 2..n + 1 : t[i] = Request(s[i - 1])
      /\ t[n + 2] = [kind |-> "dispose", tag |-> tag, refs |-> {}]
  BY TaskMessages
<1> HIDE DEF t
<1>2. t[1].kind = "owner" /\ t[n + 2].kind = "dispose" /\ \A i \in 2..n + 1 : t[i].tag = s[i - 1]
  <2>1. t[1].kind = "owner"
    BY <1>1
  <2>2. t[n + 2].kind = "dispose"
    BY <1>1
  <2>3. \A x : Request(x).tag = x
    BY DEF Request
  <2>4. \A i \in 2..n + 1 : t[i].tag = s[i - 1]
    BY <1>1, <2>3
  <2>5. QED
    BY <2>1, <2>2, <2>4
<1>3. 1 \in DOMAIN t /\ t[1] \in Owners
  <2>1. 1 \in DOMAIN t
    BY <1>1
  <2>2. t[1] \in Message
    BY <1>1, <2>1, SequencePlain
  <2>3. QED
    BY <1>2, <2>1, <2>2 DEF Owners
<1>4. ASSUME NEW X, NEW i \in DOMAIN t, t[i] \in RequestsOf(X)
      PROVE  i - 1 \in 1..n /\ s[i - 1].proc \in X /\ 1 < i /\ i \in Int
  <2>1. i # 1 /\ i # n + 2
    BY <1>2, <1>4 DEF RequestsOf
  <2>2. i \in 2..n + 1 /\ i - 1 \in 1..n /\ 1 < i /\ i \in Int
    BY <1>1, <2>1
  <2>3. QED
    BY <1>2, <1>4, <2>2 DEF RequestsOf
<1>5. Has(t, Owners)
  BY <1>3 DEF Has
<1>6. ASSUME NEW X
      PROVE  /\ Behind(t, RequestsOf(X), Owners)
             /\ Has(t, RequestsOf(X)) => \E j \in 1..n : s[j].proc \in X
             /\ (\A a, b \in 1..n : s[a].proc \in X /\ s[b].proc \in X => a = b) => Once(t, RequestsOf(X))
  <2>1. Behind(t, RequestsOf(X), Owners)
    BY <1>3, <1>4 DEF Behind
  <2>2. Has(t, RequestsOf(X)) => \E j \in 1..n : s[j].proc \in X
    BY <1>4 DEF Has
  <2>3. ASSUME \A a, b \in 1..n : s[a].proc \in X /\ s[b].proc \in X => a = b
        PROVE  Once(t, RequestsOf(X))
    <3>1. ASSUME NEW i \in DOMAIN t, NEW j \in DOMAIN t, t[i] \in RequestsOf(X), t[j] \in RequestsOf(X)
          PROVE  i = j
      <4>1. i - 1 = j - 1 /\ i \in Int /\ j \in Int
        BY <1>4, <2>3, <3>1
      <4>2. QED
        BY <4>1
    <3>2. QED
      BY <3>1 DEF Once
  <2>4. QED
    BY <2>1, <2>2, <2>3
<1>7. QED
  BY <1>5, <1>6 DEF t

LEMMA TaskPlain ==
    ASSUME NEW q \in Proc, NEW tag \in Unnamed, tag.version \in Nat, tag.mode = "Write",
           NEW n \in Nat, NEW s \in [1..n -> Unnamed], \A j \in 1..n : s[j] \in PlainTag(q)
    PROVE  OwnerTask(tag, s) \in Seq(PlainMessage(q))
<1> DEFINE t == OwnerTask(tag, s)
<1>1. /\ t \in Seq(Message) /\ DOMAIN t = 1..n + 2
      /\ t[1] = [kind |-> "owner", tag |-> tag, refs |-> {}]
      /\ \A i \in 2..n + 1 : t[i] = Request(s[i - 1])
      /\ t[n + 2] = [kind |-> "dispose", tag |-> tag, refs |-> {}]
  BY TaskMessages
<1> HIDE DEF t
<1>2. ASSUME NEW i \in 1..n + 2 PROVE t[i] \in PlainMessage(q)
  <2>1. t[i] \in Message
    BY <1>1, SequencePlain
  <2>2. CASE i = 1
    BY <1>1, <2>1, <2>2 DEF PlainMessage
  <2>3. CASE i = n + 2
    BY <1>1, <2>1, <2>3 DEF PlainMessage
  <2>4. CASE i # 1 /\ i # n + 2
    <3>1. i \in 2..n + 1 /\ i - 1 \in 1..n
      BY <2>4
    <3>2. t[i] = Request(s[i - 1]) /\ s[i - 1] \in PlainTag(q)
      BY <1>1, <3>1
    <3>3. t[i].kind = "request" /\ t[i].tag \in PlainTag(q) /\ t[i].refs = {}
      BY <3>2 DEF Request
    <3>4. QED
      BY <2>1, <3>3 DEF PlainMessage
  <2>5. QED
    BY <2>2, <2>3, <2>4
<1>3. t \in Seq(PlainMessage(q))
  <2>1. t \in [1..n + 2 -> PlainMessage(q)] /\ n + 2 \in Nat
    <3>1. t = [i \in DOMAIN t |-> t[i]]
      BY <1>1, LenProperties
    <3>2. QED
      BY <1>1, <1>2, <3>1
  <2>2. QED
    BY <2>1, SeqDef
<1>4. QED
  BY <1>3 DEF t

\* The object leaves with the requests that were queued for it.
LEMMA MigTransfer ==
    ASSUME TypeInv, Migrating, FiledInv,
           NEW k \in Proc, NEW place \in Place, NEW w \in Nat, KeptBy(k, place, w), MigInv(k),
           NEW p \in Proc, NEW c \in copies[p], TransferOwnership(p, c), NEW q \in Proc \ {k},
           owner' = [owner EXCEPT ![k] = q]
    PROVE  MigInv(q)'
<1>0. /\ acc \in [Proc -> Seq(Tag)] /\ copies \in [Proc -> SUBSET Copy] /\ owner \in [Proc -> Proc]
      /\ net \in [Proc -> Seq(Packet)] /\ dmq \in [Proc -> Seq(Message)]
      /\ p = k /\ MigTypes /\ c.label = w /\ UNCHANGED dmq
      /\ copies' = [copies EXCEPT ![p] = @ \ {c}]
  BY AtKeeper DEF TypeInv, AccTypes, PlainTypes, NetTypes, DmqTypes, TransferOwnership, MigInv
<1>1. \A x \in Proc : ~Arriving(x) /\ ~Has(dmq[x], Owners)
  <2>1. NoCarrier(dmq[k]) /\ NoCarrier(net[k])
    BY AtKeeper DEF TransferOwnership, MayWrite
  <2>2. \A x \in Proc : NoCarrier(dmq[x]) /\ NoCarrier(net[x])
    BY <2>1 DEF KeptBy, Elsewhere
  <2>3. QED
    BY <2>2, NoOwner DEF Arriving
<1>t. TransferOwnership(k, c)
  BY <1>0
<1>2. PICK i \in DOMAIN acc[k] :
        /\ \E n \in 0..Len(acc[k]) :
             \E s \in [1..n -> TransferredTags(k, acc[k][i].proc)] :
               /\ IsOrdering(s, TransferredTags(k, acc[k][i].proc))
               /\ SendOwnerTask(k, [acc[k][i] EXCEPT !.version = c.label], s)
        /\ \E n \in 0..Len(acc[k]) : \E f \in [1..n -> RetainedIndices(k)] :
             /\ IsEnumeration(f, RetainedIndices(k))
             /\ acc' = [acc EXCEPT ![k] = [j \in 1..n |-> acc[k][f[j]]]]
        /\ owner' = [owner EXCEPT ![k] = acc[k][i].proc]
  BY <1>t, ZenonT(60) DEF TransferOwnership
<1>3. acc[k][i].proc = q
  BY <1>0, <1>2
<1> DEFINE sent == [acc[k][i] EXCEPT !.version = w]
           T == TransferredTags(k, q)
           R == RetainedIndices(k)
<1>4. PICK n \in 0..Len(acc[k]) : \E s \in [1..n -> T] : IsOrdering(s, T) /\ SendOwnerTask(k, sent, s)
  BY <1>0, <1>2, <1>3
<1>5. PICK s \in [1..n -> T] : IsOrdering(s, T) /\ SendOwnerTask(k, sent, s)
  BY <1>4
<1>6. PICK l \in 0..Len(acc[k]) : \E f \in [1..l -> R] :
        IsEnumeration(f, R) /\ acc' = [acc EXCEPT ![k] = [j \in 1..l |-> acc[k][f[j]]]]
  BY <1>2
<1>7. PICK f \in [1..l -> R] :
        IsEnumeration(f, R) /\ acc' = [acc EXCEPT ![k] = [j \in 1..l |-> acc[k][f[j]]]]
  BY <1>6
<1>8. /\ Len(acc[k]) \in Nat /\ n \in Nat /\ l \in Nat
      /\ acc[k] \in Seq(PlainTag(k)) /\ R \subseteq DOMAIN acc[k]
      /\ \A j \in DOMAIN acc[k] : acc[k][j] \in PlainTag(k)
  BY <1>0, PlainQueues, LenProperties DEF RetainedIndices
<1>9. sent \in Unnamed /\ sent.version = w /\ sent.proc = q /\ sent.mode = "Write"
      /\ acc[k][i] \in FiledBy(q)
  <2>1. acc[k][i] \in PlainTag(k) /\ acc[k][i].proc = q /\ q # k
    BY <1>0, <1>2, <1>3, <1>8
  <2>2. acc[k][i] \in Tag /\ acc[k][i].task = NoTask /\ acc[k][i].mode = "Write"
    BY <2>1 DEF PlainTag, TagAt, OwnTag
  <2>3. QED
    BY <2>1, <2>2 DEF Unnamed, Tag, FiledBy
<1>10. \A x \in T : /\ x \in PlainTag(q) /\ x \in Unnamed /\ x.proc # q
                    /\ \/ \E j \in DOMAIN acc[k] : acc[k][j] \in FiledBy(x.proc)
                       \/ x.proc = k /\ R # {}
  <2>1. ASSUME NEW j \in DOMAIN acc[k], acc[k][j].proc # q, NEW x, x = Localised(acc[k][j], k)
        PROVE  /\ x \in PlainTag(q) /\ x \in Unnamed /\ x.proc # q
               /\ \/ acc[k][j] \in FiledBy(x.proc)
                  \/ x.proc = k /\ R # {}
    <3> DEFINE a == acc[k][j]
    <3>1. a \in PlainTag(k)
      BY <1>8
    <3>2. a \in Tag /\ a.mode = "Write" /\ (a.task # NoTask => a.proc = k)
      BY <3>1 DEF PlainTag, TagAt, OwnTag
    <3>3. CASE a.task = NoTask
      BY <2>1, <3>2, <3>3 DEF Localised, PlainTag, TagAt, OwnTag, Unnamed, FiledBy
    <3>4. CASE a.task # NoTask
      <4>1. j \in R
        BY <3>2, <3>4 DEF RetainedIndices
      <4>2. x = Filed(a, k)
        BY <2>1, <3>4 DEF Localised
      <4> HIDE DEF a
      <4>3. x \in Tag /\ x.task = NoTask /\ x.proc = k /\ x.mode = "Write"
        BY <3>2, <4>2 DEF Filed, Tag
      <4>4. QED
        BY <4>1, <4>3 DEF PlainTag, TagAt, OwnTag, Unnamed
    <3>5. QED
      BY <3>3, <3>4
  <2>2. QED
    BY <2>1 DEF TransferredTags
<1>11. /\ s \in [1..n -> Unnamed]
       /\ \A j \in 1..n : /\ s[j] \in PlainTag(q) /\ s[j].proc # q
                          /\ \/ Has(acc[k], FiledBy(s[j].proc))
                             \/ s[j].proc = k /\ R # {}
  BY <1>10 DEF Has
<1>12. \A a, b \in 1..n : s[a].proc = s[b].proc => a = b
  <2>1. ASSUME NEW a \in 1..n, NEW b \in 1..n, s[a].proc = s[b].proc, a < b PROVE FALSE
    <3>1. TagLess(s[a], s[b])
      <4>1. DOMAIN s = 1..n
        OBVIOUS
      <4>2. QED
        BY <1>5, <2>1, <4>1 DEF IsOrdering
    <3>2. s[a] \in FiledTag(Present) /\ s[b] \in FiledTag(Present)
      <4>1. T \subseteq FiledTag(Present)
        BY FiledQueues, FiledLocal DEF FiledInv, TransferredTags
      <4> HIDE DEF T
      <4>2. QED
        BY <4>1
    <3>3. /\ s[a].version = s[b].version /\ s[a].mode = s[b].mode
      BY <2>1, <3>2, OneVersion
    <3>4. s[a].version \in Int /\ s[a].proc \in Int
      <4>1. s[a] \in Tag
        BY <3>2 DEF FiledTag
      <4>2. QED
        BY <4>1, TagNumbers
    <3>5. QED
      BY <2>1, <3>1, <3>3, <3>4 DEF TagLess
  <2>2. QED
    BY <2>1
<1> DEFINE t == OwnerTask(sent, s)
<1>13. net' = [net EXCEPT ![q] = @ \o t]
  BY <1>5, <1>9 DEF SendOwnerTask
<1> HIDE DEF sent, T
<1>14. /\ t \in Seq(PlainMessage(q)) /\ t \in Seq(Message)
       /\ net[q] \in Seq(PlainMessage(q)) /\ net[q] \in Seq(Message)
  BY <1>0, <1>8, <1>9, <1>11, TaskPlain, TaskMessages, PlainQueues
<1>15. /\ Has(t, Owners)
       /\ \A X : /\ Behind(t, RequestsOf(X), Owners)
                 /\ Has(t, RequestsOf(X)) => \E j \in 1..n : s[j].proc \in X
                 /\ (\A a, b \in 1..n : s[a].proc \in X /\ s[b].proc \in X => a = b) =>
                      Once(t, RequestsOf(X))
  <2>1. sent.version \in Nat
    BY <1>9
  <2>2. QED
    BY <1>8, <1>9, <1>11, <2>1, TaskAsks
<1> HIDE DEF t
<1>d. ASSUME NEW x \in Proc PROVE Once(t, RequestsOf({x}))
  <2>1. \A a, b \in 1..n : s[a].proc \in {x} /\ s[b].proc \in {x} => a = b
    BY <1>12
  <2>2. QED
    BY <1>15, <2>1
<1>16. PICK r \in Seq(PlainTag(k)) :
         /\ acc' = [acc EXCEPT ![k] = r]
         /\ \A j \in DOMAIN r : r[j].proc = k /\ r[j].task # NoTask
         /\ R # {} => r # <<>>
  <2> DEFINE r == [j \in 1..l |-> acc[k][f[j]]]
  <2>1. /\ r \in Seq(PlainTag(k)) /\ (R # {} => r # <<>>)
        /\ \A j \in DOMAIN r : \E x \in R : r[j] = acc[k][x]
    <3>1. r \in [1..l -> PlainTag(k)] /\ \A j \in 1..l : f[j] \in R /\ r[j] = acc[k][f[j]]
      BY <1>8
    <3>2. DOMAIN r = 1..l
      OBVIOUS
    <3> HIDE DEF r
    <3>3. r \in Seq(PlainTag(k)) /\ Len(r) = l
      BY <1>8, <3>1, SeqDef
    <3>4. R # {} => l # 0
      <4>1. DOMAIN f = 1..l
        OBVIOUS
      <4>2. QED
        BY <1>7, <4>1 DEF IsEnumeration
    <3>5. R # {} => r # <<>>
      BY <3>3, <3>4, EmptySeq
    <3>6. QED
      BY <3>1, <3>2, <3>3, <3>5
  <2>2. \A x \in R : acc[k][x].proc = k /\ acc[k][x].task # NoTask
    BY <1>8 DEF RetainedIndices, PlainTag
  <2>3. \A j \in DOMAIN r : r[j].proc = k /\ r[j].task # NoTask
    BY <2>1, <2>2
  <2>4. acc' = [acc EXCEPT ![k] = r]
    BY <1>7
  <2> HIDE DEF r
  <2>5. QED
    BY <2>1, <2>3, <2>4
<1> HIDE DEF R
<1>17. /\ acc'[k] = r /\ \A x \in Proc : x # k => acc'[x] = acc[x] /\ owner'[x] = owner[x]
       /\ net'[q] = net[q] \o t /\ \A x \in Proc : x # q => net'[x] = net[x]
       /\ owner'[k] = q /\ q # k /\ q \in Proc
  BY <1>0, <1>13, <1>16
<1>c. \A K : /\ Has(net[q] \o t, K) <=> Has(net[q], K) \/ Has(t, K)
             /\ Once(net[q], K) /\ Once(t, K) /\ ~(Has(net[q], K) /\ Has(t, K)) => Once(net[q] \o t, K)
             /\ Behind(net[q], K, Owners) /\ Behind(t, K, Owners) => Behind(net[q] \o t, K, Owners)
  BY <1>14, ConcatOf
<1>18. \A x \in Proc : Arriving(x)' <=> x = q
  <2>1. Has(net'[q], Owners)
    BY <1>15, <1>17, <1>c
  <2>2. \A x \in Proc : x # q => ~Has(net'[x], Owners) /\ ~Has(dmq[x], Owners)
    BY <1>1, <1>17 DEF Arriving
  <2>3. QED
    BY <1>0, <2>1, <2>2 DEF Arriving, Has, Owners
<1>19. MigTypes'
  <2>1. net[q] \o t \in Seq(PlainMessage(q))
    BY <1>14, ConcatProperties
  <2>2. \A x \in Proc : net'[x] \in Seq(PlainMessage(x))
    BY <1>0, <1>17, <2>1 DEF MigTypes
  <2>3. \A x \in Proc : acc'[x] \in Seq(PlainTag(x))
    BY <1>0, <1>16, <1>17 DEF MigTypes
  <2>4. \A x \in Proc : \A d \in copies'[x] : Stray \notin d.refs
    BY <1>0 DEF MigTypes
  <2>5. QED
    BY <1>0, <2>2, <2>3, <2>4 DEF MigTypes
<1>20. OwnerIs(q)'
  BY <1>17, <1>18 DEF MigInv, OwnerIs
<1>21. OwnOnly'
  <2>1. \A x \in Proc : owner'[x] # x => \A j \in DOMAIN acc'[x] : acc'[x][j].proc = x
    BY <1>16, <1>17 DEF MigInv, OwnOnly
  <2>2. QED
    BY <2>1 DEF OwnOnly
<1>22. \A x \in Proc : ~Has(acc'[k], FiledBy(x))
  BY <1>16, <1>17 DEF Has, FiledBy
<1>23. ASSUME NEW x \in Proc, NEW site \in Site, NEW y \in Proc, AskedAt(site, y, x)'
       PROVE  \/ AskedAt(site, y, x) /\ ~(site = "acc" /\ y = k)
              \/ site = "net" /\ y = q /\ Has(t, RequestsOf({x}))
  <2>1. CASE site = "acc"
    BY <1>17, <1>22, <1>23, <2>1, AskedNow
  <2>2. CASE site = "dmq"
    BY <1>0, <1>23, <2>2, AskedNow
  <2>3. CASE site = "net"
    BY <1>17, <1>23, <1>c, <2>3, AskedNow
  <2>4. QED
    BY <2>1, <2>2, <2>3 DEF Site
<1>24. ASSUME NEW x \in Proc, Has(t, RequestsOf({x}))
       PROVE  x # q /\ (AskedAt("acc", k, x) \/ (x = k /\ R # {}))
  <2>1. PICK j \in 1..n : s[j].proc = x
    BY <1>15, <1>24
  <2>2. QED
    BY <1>11, <2>1, AskedNow
<1>25. AskedAt("acc", k, q)
  BY <1>2, <1>0, <1>9, AskedNow DEF Has
<1>26. ASSUME NEW x \in Proc
       PROVE  OnePlace(x)' /\ OneRequest(x)' /\ (Asked(x)' => Asked(x) \/ (x = k /\ R # {}))
  <2> DEFINE K == RequestsOf({x})
  <2>0. OnePlace(x) /\ OneRequest(x) /\ "acc" \in Site /\ "net" \in Site
    BY DEF MigInv, Site
  <2>1. CASE Has(t, K)
    <3>1. AskedAt("acc", k, x) \/ (x = k /\ R # {})
      BY <1>24, <2>1
    <3>2. \A site \in Site, y \in Proc : AskedAt(site, y, x) => site = "acc" /\ y = k
      <4>1. CASE AskedAt("acc", k, x)
        BY <2>0, <4>1 DEF OnePlace
      <4>2. CASE x = k
        BY <4>2 DEF MigInv, Asked
      <4>3. QED
        BY <3>1, <4>1, <4>2
    <3>3. \A site \in Site, y \in Proc : AskedAt(site, y, x)' => site = "net" /\ y = q
      BY <1>23, <3>2
    <3>4. OnePlace(x)'
      BY <3>3 DEF OnePlace
    <3>5. ~Has(net[q], K)
      BY <1>17, <2>0, <3>2, AskedNow
    <3>6. Once(net'[q], K)
      BY <1>17, <1>c, <1>d, <2>0, <3>5 DEF OneRequest
    <3>7. \A y \in Proc : Once(acc'[y], FiledBy(x)) /\ Once(dmq'[y], K) /\ Once(net'[y], K)
      BY <1>0, <1>17, <1>22, <2>0, <3>6 DEF OneRequest, Once, Has
    <3>8. OneRequest(x)'
      BY <3>7 DEF OneRequest, Once, FiledBy, RequestsOf
    <3>9. Asked(x) \/ (x = k /\ R # {})
      BY <2>0, <3>1 DEF Asked
    <3>10. QED
      BY <3>4, <3>8, <3>9
  <2>2. CASE ~Has(t, K)
    <3>1. \A site \in Site, y \in Proc : AskedAt(site, y, x)' => AskedAt(site, y, x)
      BY <1>23, <2>2
    <3>2. OnePlace(x)' /\ (Asked(x)' => Asked(x))
      BY <2>0, <3>1, PlaceStays
    <3>3. Once(net'[q], K)
      BY <1>17, <1>c, <1>d, <2>0, <2>2 DEF OneRequest
    <3>4. \A y \in Proc : Once(acc'[y], FiledBy(x)) /\ Once(dmq'[y], K) /\ Once(net'[y], K)
      BY <1>0, <1>17, <1>22, <2>0, <3>3 DEF OneRequest, Once, Has
    <3>5. OneRequest(x)'
      BY <3>4 DEF OneRequest, Once, FiledBy, RequestsOf
    <3>6. QED
      BY <3>2, <3>5
  <2>3. QED
    BY <2>1, <2>2
<1>27. ~Asked(q)'
  <2>1. \A site \in Site, y \in Proc : AskedAt(site, y, q) => site = "acc" /\ y = k
    BY <1>17, <1>25 DEF MigInv, OnePlace, Site
  <2>2. \A site \in Site, y \in Proc : ~AskedAt(site, y, q)'
    BY <1>17, <1>23, <1>24, <2>1
  <2>3. QED
    BY <2>2 DEF Asked
<1>28. AskersWait(q)'
  <2>1. ASSUME NEW x \in Proc, Asked(x)' \/ (x = q /\ Arriving(q)') PROVE acc'[x] # <<>>
    <3>1. CASE x = k
      <4>1. R # {}
        BY <1>17, <1>26, <2>1, <3>1 DEF MigInv
      <4>2. QED
        BY <1>16, <1>17, <3>1, <4>1
    <3>2. CASE x # k
      <4>1. Asked(q)
        BY <1>17, <1>25 DEF Asked, Site
      <4>2. Asked(x)
        BY <1>26, <2>1, <3>2, <4>1
      <4>3. QED
        BY <1>17, <3>2, <4>2 DEF MigInv, AskersWait
    <3>3. QED
      BY <3>1, <3>2
  <2>2. QED
    BY <2>1 DEF AskersWait
<1>29. RankInv'
  <2>1. PICK u \in Nat : \E v \in [Proc -> 0..u] : Ranked(v)
    BY DEF MigInv, RankInv
  <2>2. PICK v \in [Proc -> 0..u] : Ranked(v)
    BY <2>1
  <2>3. ASSUME NEW y \in Proc PROVE FollowsObject(y, NotBefore(v, y))'
    <3> DEFINE K == RequestsOf(NotBefore(v, y))
    <3>1. Behind(dmq[y], K, Owners) /\ Behind(net[y], K, Owners)
      BY <1>1, <2>2 DEF Ranked, FollowsObject
    <3>2. Behind(net'[y], K, Owners)
      BY <1>15, <1>17, <1>c, <3>1
    <3>3. QED
      BY <1>0, <3>1, <3>2 DEF FollowsObject, NotBefore, Has, Behind, RequestsOf, Owners
  <2>4. \A x, y \in Proc : owner'[x] = y /\ y # x /\ ~Arriving(y)' => v[x] < v[y]
    BY <1>1, <1>17, <1>18, <2>2 DEF Ranked
  <2>5. Ranked(v)'
    BY <2>3, <2>4 DEF Ranked, NotBefore
  <2>6. QED
    BY <2>1, <2>2, <2>5 DEF RankInv
<1>30. QED
  BY <1>19, <1>20, <1>21, <1>26, <1>27, <1>28, <1>29 DEF MigInv

LEMMA ShortSequences ==
    ASSUME NEW S PROVE <<>> \in Seq(S) /\ \A m \in S : <<m>> \in Seq(S)
OBVIOUS

\* The object is in its owner's message queue, where every hint leads.
LEMMA MigInit == Init => MigInv(Home)
<1> SUFFICES ASSUME Init PROVE MigInv(Home)
  OBVIOUS
<1> DEFINE m == Data(Home, 0, {})
<1>1. /\ Home \in Proc /\ \A p \in Proc : owner[p] = Home /\ acc[p] = <<>> /\ net[p] = <<>> /\ copies[p] = {}
      /\ \A p \in Proc : dmq[p] = IF p = Home THEN <<m>> ELSE <<>>
  BY ProcAssumption DEF Init
<1>2. m \in PlainMessage(Home) /\ m.kind = "data"
  <2>1. m.tag \in Tag
    BY <1>1 DEF Data, Tag, Mode
  <2>2. QED
    BY <2>1 DEF Data, PlainMessage, Message
<1> HIDE DEF m
<1>3. MigTypes
  <2>1. ASSUME NEW p \in Proc
        PROVE  /\ acc[p] \in Seq(PlainTag(p)) /\ net[p] \in Seq(PlainMessage(p))
               /\ \A c \in copies[p] : Stray \notin c.refs
    <3>1. <<>> \in Seq(PlainTag(p)) /\ <<>> \in Seq(PlainMessage(p))
      BY ShortSequences
    <3>2. QED
      BY <1>1, <3>1
  <2>2. ASSUME NEW p \in Proc PROVE dmq[p] \in Seq(PlainMessage(p))
    <3>1. CASE p = Home
      <4>1. <<m>> \in Seq(PlainMessage(Home))
        BY <1>2, ShortSequences
      <4>2. QED
        BY <1>1, <3>1, <4>1
    <3>2. CASE p # Home
      <4>1. <<>> \in Seq(PlainMessage(p))
        BY ShortSequences
      <4>2. QED
        BY <1>1, <3>2, <4>1
    <3>3. QED
      BY <3>1, <3>2
  <2>3. QED
    BY <2>1, <2>2 DEF MigTypes
<1>4. \A p \in Proc : ~Arriving(p)
  BY <1>1, <1>2 DEF Arriving, Has, Owners
<1>5. \A x \in Proc : ~Asked(x)
  BY <1>1, <1>2 DEF Asked, AskedAt, Has, RequestsOf
<1>6. \A x \in Proc : OnePlace(x)
  BY <1>5 DEF OnePlace, Asked
<1>7. \A x \in Proc : OneRequest(x)
  BY <1>1, <1>2 DEF OneRequest, Once, RequestsOf
<1>8. OwnerIs(Home) /\ AskersWait(Home) /\ OwnOnly
  BY <1>1, <1>4, <1>5 DEF OwnerIs, AskersWait, OwnOnly
<1>9. RankInv
  <2> DEFINE r == [p \in Proc |-> IF p = Home THEN 1 ELSE 0]
  <2>1. r \in [Proc -> 0..1]
    OBVIOUS
  <2>2. \A p \in Proc : FollowsObject(p, NotBefore(r, p))
    BY <1>1, <1>2 DEF FollowsObject, Behind, RequestsOf
  <2>3. \A p, q \in Proc : owner[p] = q /\ q # p => r[p] < r[q]
    BY <1>1
  <2>4. Ranked(r)
    BY <2>2, <2>3 DEF Ranked
  <2>5. QED
    BY <2>1, <2>4 DEF RankInv
<1>10. QED
  BY <1>3, <1>5, <1>6, <1>7, <1>8, <1>9, <1>1 DEF MigInv

LEMMA HandledInit == Init => HandledOwner
BY DEF Init, HandledOwner, Submitting

LEMMA HomeInit == Init /\ OneProcessor => HomeInv
<1> SUFFICES ASSUME Init PROVE HomeInv
  OBVIOUS
<1> DEFINE m == Data(Home, 0, {})
<1>1. /\ Home \in Proc /\ \A p \in Proc : /\ owner[p] = Home /\ acc[p] = <<>> /\ net[p] = <<>>
                                          /\ copies[p] = {} /\ pc[p] = "idle"
      /\ \A p \in Proc : dmq[p] = IF p = Home THEN <<m>> ELSE <<>>
  BY ProcAssumption DEF Init
<1>2. m \in HomeMessage
  <2>1. m.tag \in Tag
    BY <1>1 DEF Data, Tag, Mode
  <2>2. QED
    BY <2>1 DEF Data, HomeMessage, Message
<1> HIDE DEF m
<1>3. dmq[Home] \in Seq(HomeMessage) /\ acc[Home] \in Seq(HomeTag)
  <2>1. <<m>> \in Seq(HomeMessage) /\ <<>> \in Seq(HomeTag)
    BY <1>2, ShortSequences
  <2>2. QED
    BY <1>1, <2>1
<1>4. QED
  BY <1>1, <1>3 DEF HomeInv


\* Writers that each name a version come in time: while the versions named are
\* distinct, the w-th write can only be of a task that named w or any version.
InTimeAt(w) == \A t \in Task :
    /\ phase[t] \in {"submitted", "waiting"} => NotBehind(TaskVersion[t], w)
    /\ phase[t] = "holding" => TaskVersion[t] \in {AnyVersion, got[t]}
InTime == InTimeAt(WritesDone)

\* What one processor files with another asks for what a task of its own, still
\* pending there, asks for.
LEMMA NoneTooLate ==
    ASSUME TypeInv, RequestsInv, FiledInv, Migrating, NEW k \in Proc, MigInv(k),
           NEW w, InTimeAt(w), NEW p \in Proc, NEW i \in DOMAIN acc[p]
    PROVE  NotBehind(acc[p][i].version, w)
<1>1. ASSUME NEW q \in Proc, NEW j \in DOMAIN acc[q], acc[q][j].task # NoTask
      PROVE  NotBehind(acc[q][j].version, w)
  <2>1. acc[q][j].task \in Task
    BY <1>1, PendingTypes DEF TypeInv, TagAt, Tag
  <2>2. QED
    BY <2>1, Answering DEF InTimeAt
<1>2. CASE acc[p][i].task = NoTask
  <2> DEFINE x == acc[p][i].proc
  <2>1. acc[p][i] \in FiledTag(Present) /\ acc[p][i] \in Tag /\ acc[p][i] \in PlainTag(p)
        /\ x \in Proc
    <3>1. MigTypes /\ FiledOf(Present)
      BY DEF MigInv, FiledInv
    <3>2. acc[p][i] \in FiledTag(Present) /\ acc[p][i] \in PlainTag(p)
      BY <3>1, FiledQueues, PlainQueues
    <3>3. acc[p][i] \in Tag
      BY <3>2 DEF FiledTag
    <3>4. \A tag \in Tag : tag.proc \in Proc
      BY DEF Tag
    <3>5. QED
      BY <3>2, <3>3, <3>4
  <2>2. x # p
    BY <1>2, <2>1 DEF PlainTag
  <2>3. Asked(x)
    BY <1>2, <2>1 DEF Asked, AskedAt, Site, Has, FiledBy
  <2>4. x # k /\ acc[x] # <<>>
    BY <2>1, <2>3 DEF MigInv, AskersWait
  <2>5. PICK j \in DOMAIN acc[x] : TRUE
    <3>1. acc[x] \in Seq(Tag)
      BY <2>1, PlainQueues DEF MigInv
    <3>2. QED
      BY <2>4, <3>1, SequencePlain, EmptySeq
  <2>6. acc[x][j].proc = x
    BY <2>1, <2>4 DEF MigInv, OwnerIs, OwnOnly
  <2>7. acc[x][j] \in FiledTag(Present) /\ acc[x][j] \in PlainTag(x)
    BY <2>1, FiledQueues, PlainQueues DEF FiledInv, MigInv
  <2>8. NotBehind(acc[x][j].version, w)
    BY <1>1, <2>1, <2>6, <2>7 DEF PlainTag
  <2>9. acc[p][i].version = acc[x][j].version
    BY <2>1, <2>6, <2>7, OneVersion
  <2>10. QED
    BY <2>8, <2>9
<1>3. QED
  BY <1>1, <1>2

LEMMA MigPlain ==
    ASSUME TypeInv, RequestsInv, FiledInv, Migrating, InTime, NEW k \in Proc, MigInv(k)
    PROVE  Plain
<1>1. PICK w : w = WritesDone
  OBVIOUS
<1>2. InTimeAt(w)
  BY <1>1 DEF InTime
<1>3. \A p \in Proc : \A i \in DOMAIN acc[p] : NotBehind(acc[p][i].version, w)
  BY <1>2, NoneTooLate
<1>4. \A p \in Proc : \A i \in DOMAIN acc[p] : acc[p][i] \in PlainTag(p)
  BY PlainQueues DEF MigInv
<1>5. QED
  BY <1>1, <1>3, <1>4 DEF Plain, PlainTag

MigratingInv == \E k \in Proc, place \in Place : KeptBy(k, place, WritesDone) /\ MigInv(k)

\* Every step keeps one object among the writers, and the hints that lead to it.
LEMMA MigratingNext ==
    ASSUME TypeInv, RequestsInv, IsFiniteSet(DoneWriters), HandledOwner, Migrating,
           FiledInv, InTime, MigratingInv, [Next]_vars
    PROVE  MigratingInv'
<1>1. /\ WritesDone \in Nat
      /\ \A u \in Task : PostData(u) => WritesDone' = WritesDone + 1
      /\ (\A u \in Task : ~PostData(u)) => WritesDone' = WritesDone
  BY WritesGrow
<1>2. PICK w \in Nat : w = WritesDone
  BY <1>1
<1>3. PICK k \in Proc, place \in Place : KeptBy(k, place, w) /\ MigInv(k)
  BY <1>2, Zenon DEF MigratingInv
<1>4. ASSUME NEW v, v = WritesDone', NEW q \in Proc, NEW l \in Place, KeptBy(q, l, v)', MigInv(q)'
      PROVE  MigratingInv'
  BY <1>4, Zenon DEF MigratingInv, KeptBy, MapIs, QueueIs, NetIs, HandIs, OneCarrier
<1>5. "queue" \in Place /\ "net" \in Place /\ "hand" \in Place
  BY DEF Place
<1>a. MigTypes /\ Plain
  BY <1>3, MigPlain DEF MigInv
<1>b. InTimeAt(w)
  BY <1>2 DEF InTime
<1>6. ASSUME NEW u \in Task, TaskStep(u) PROVE MigratingInv'
  <2>a. MigInv(k)'
    BY <1>3, <1>6, MigTaskStep
  <2>1. CASE PostData(u)
    <3>1. KeptBy(k, "queue", w + 1)'
      BY <1>3, <1>6, <2>1, ObjectTaskStep
    <3>2. QED
      BY <1>1, <1>2, <1>4, <1>5, <2>a, <2>1, <3>1
  <2>2. CASE ~PostData(u)
    <3>1. KeptBy(k, place, w)'
      BY <1>3, <1>6, <2>2, ObjectTaskStep
    <3>2. \A t \in Task : ~PostData(t)
      BY <1>6, <2>2, OneTaskSteps
    <3>3. QED
      BY <1>1, <1>2, <1>3, <1>4, <2>a, <3>1, <3>2
  <2>3. QED
    BY <2>1, <2>2
<1>7. ASSUME \A t \in Task : ~PostData(t), \E q \in Proc, l \in Place : KeptBy(q, l, w)' /\ MigInv(q)'
      PROVE  MigratingInv'
  BY <1>1, <1>2, <1>4, <1>7
<1>8. ASSUME NEW p \in Proc, Deliver(p) \/ ForgetStrayGrant(p) \/ Service(p)
      PROVE  MigratingInv'
  <2>1. \A t \in Task : ~PostData(t)
    BY <1>8, OnlyTasksPost
  <2>2. CASE Deliver(p) \/ ForgetStrayGrant(p)
    <3>1. \E l \in Place : KeptBy(k, l, w)'
      BY <1>3, <2>2, ObjectDeliver
    <3>2. MigInv(k)'
      BY <1>3, <2>2, MigDeliver
    <3>3. QED
      BY <1>7, <2>1, <3>1, <3>2
  <2>3. CASE HandleData(p) \/ HandleOwner(p) \/ SettleOwner(p)
    <3>1. \E l \in Place : KeptBy(k, l, w)'
      BY <1>3, <2>3, ObjectSubmitted
    <3>2. MigInv(k)'
      BY <1>3, <2>3, MigQuiet, MigSettle
    <3>3. QED
      BY <1>7, <2>1, <3>1, <3>2
  <2>4. CASE ForwardRequest(p) \/ QueueRequest(p) \/ FlushData(p) \/ EndVerify(p)
    <3>1. KeptBy(k, place, w)'
      BY <1>3, <2>4, ObjectRequests
    <3>2. MigInv(k)'
      BY <1>3, <2>4, MigForward, MigQueue, MigQuiet
    <3>3. QED
      BY <1>3, <1>7, <2>1, <3>1, <3>2
  <2>5. ASSUME NEW c \in copies[p] PROVE ~RejectRequest(p, c) /\ ~GrantRead(p, c)
    <3>1. c.label = w
      BY <1>3, AtKeeper
    <3>2. \A i \in DOMAIN acc[p] : NotBehind(acc[p][i].version, w)
      BY <1>3, <1>b, NoneTooLate
    <3>3. QED
      BY <1>a, <3>1, <3>2, MigWrites
  <2>6. ASSUME NEW c \in copies[p], GrantLocalWrite(p, c) PROVE MigratingInv'
    <3>1. KeptBy(k, "hand", w)'
      BY <1>3, <1>a, <2>6, ObjectWritten
    <3>2. MigInv(k)'
      BY <1>3, <2>6, MigGranted
    <3>3. QED
      BY <1>5, <1>7, <2>1, <3>1, <3>2
  <2>7. ASSUME NEW c \in copies[p], TransferOwnership(p, c) PROVE MigratingInv'
    <3>1. PICK q \in Proc \ {k} : KeptBy(q, "net", w)' /\ owner' = [owner EXCEPT ![k] = q]
      BY <1>3, <1>a, <2>7, ObjectSent
    <3>2. MigInv(q)'
      BY <1>3, <2>7, <3>1, MigTransfer
    <3>3. QED
      BY <1>5, <1>7, <2>1, <3>1, <3>2
  <2>8. QED
    BY <1>8, <2>2, <2>3, <2>4, <2>5, <2>6, <2>7 DEF Service, HandleMessage, Verify
<1>9. CASE UNCHANGED vars
  <2>1. \A t \in Task : ~PostData(t)
    BY <1>9, OnlyTasksPost
  <2>2. KeptBy(k, place, w)'
    BY <1>3, <1>9, UnchangedKept, ObjectStays DEF vars
  <2>3. MigInv(k)'
    <3>1. /\ MigTypes' /\ UNCHANGED <<owner, acc>>
          /\ AsksKept
      BY <1>a, <1>9, IdleAsks DEF vars, MigTypes, AsksKept, SameAsks
    <3>2. QED
      BY <1>3, <3>1, MigFrame
  <2>4. QED
    BY <1>3, <1>7, <2>1, <2>2, <2>3
<1>10. QED
  BY <1>6, <1>8, <1>9 DEF Next

\* A write makes late whoever named the version it was made on: nobody else has.
LEMMA InTimePosted ==
    ASSUME TypeInv, Migrating, NEW w \in Nat, NEW k \in Proc, NEW place \in Place,
           KeptBy(k, place, w), InTimeAt(w), NEW u \in Task, PostData(u)
    PROVE  InTimeAt(w + 1)'
<1>0. /\ phase \in [Task -> Phase] /\ TaskVersion \in [Task -> Nat \cup {AnyVersion}]
      /\ UNCHANGED got /\ phase[u] = "holding" /\ u \in Present /\ Writing(u)
      /\ phase' = [phase EXCEPT ![u] = "posting"]
  BY TaskAssumption DEF TypeInv, PlainTypes, PostData, Present, Writing, Writers
<1>1. TaskVersion[u] \in {AnyVersion, w}
  BY <1>0 DEF KeptBy, HandIs, InTimeAt
<1>2. ASSUME NEW t \in Task, phase'[t] \in {"submitted", "waiting"}
      PROVE  NotBehind(TaskVersion[t], w + 1)
  <2>1. t # u /\ phase[t] \in {"submitted", "waiting"} /\ t \in Present
    BY <1>0, <1>2 DEF Present
  <2>2. TaskVersion[t] = AnyVersion \/ (TaskVersion[t] >= w /\ TaskVersion[t] \in Nat)
    BY <1>0, <2>1 DEF InTimeAt, NotBehind
  <2>3. CASE AnyWriters
    BY <2>1, <2>3 DEF AnyWriters, NotBehind
  <2>4. CASE InTurn
    <3>1. TaskVersion[u] = w /\ TaskVersion[t] # w
      BY <1>0, <1>1, <2>1, <2>4 DEF InTurn, WritersInTurn
    <3>2. QED
      BY <2>2, <3>1 DEF NotBehind
  <2>5. QED
    BY <2>3, <2>4 DEF Migrating
<1>3. ASSUME NEW t \in Task, phase'[t] = "holding"
      PROVE  TaskVersion[t] \in {AnyVersion, got'[t]}
  <2>1. phase[t] = "holding"
    BY <1>0, <1>3
  <2>2. QED
    BY <1>0, <2>1 DEF InTimeAt
<1>4. QED
  BY <1>2, <1>3 DEF InTimeAt

LEMMA InTimeNext ==
    ASSUME TypeInv, RequestsInv, IsFiniteSet(DoneWriters), Migrating, FiledInv, InTime,
           MigratingInv, [Next]_vars
    PROVE  InTime'
<1>1. /\ WritesDone \in Nat
      /\ \A u \in Task : PostData(u) => WritesDone' = WritesDone + 1
      /\ (\A u \in Task : ~PostData(u)) => WritesDone' = WritesDone
  BY WritesGrow
<1>2. PICK w \in Nat : w = WritesDone
  BY <1>1
<1>3. PICK k \in Proc, place \in Place : KeptBy(k, place, w) /\ MigInv(k)
  BY <1>2, Zenon DEF MigratingInv
<1>4. ASSUME NEW v, v = WritesDone', InTimeAt(v)' PROVE InTime'
  BY <1>4 DEF InTime, InTimeAt
<1>5. InTimeAt(w) /\ Plain /\ MigTypes /\ phase \in [Task -> Phase]
  BY <1>2, <1>3, MigPlain DEF InTime, MigInv, TypeInv, PlainTypes
<1>6. ASSUME UNCHANGED <<phase, got>> PROVE InTimeAt(w)'
  BY <1>5, <1>6 DEF InTimeAt
<1>7. ASSUME NEW u \in Task, TaskStep(u) PROVE InTime'
  <2>1. CASE PostData(u)
    <3>1. InTimeAt(w + 1)'
      BY <1>3, <1>5, <2>1, InTimePosted
    <3>2. QED
      BY <1>1, <1>2, <1>4, <2>1, <3>1
  <2>2. CASE ~PostData(u)
    <3>1. /\ UNCHANGED got
          /\ \/ phase[u] = "submitted" /\ phase' = [phase EXCEPT ![u] = "waiting"]
             \/ \E f \in {"cleared", "done"} : phase' = [phase EXCEPT ![u] = f]
      BY <1>7, <2>2 DEF TaskStep, PostRequests, ClearPointer, ObjectChanged
    <3>2. InTimeAt(w)'
      BY <1>5, <3>1 DEF InTimeAt
    <3>3. \A t \in Task : ~PostData(t)
      BY <1>7, <2>2, OneTaskSteps
    <3>4. QED
      BY <1>1, <1>2, <1>4, <3>2, <3>3
  <2>3. QED
    BY <2>1, <2>2
<1>8. ASSUME (\E p \in Proc : Deliver(p) \/ ForgetStrayGrant(p) \/ Service(p)) \/ UNCHANGED vars
      PROVE  InTime'
  <2>1. WritesDone' = w
    <3>1. \A t \in Task : ~PostData(t)
      BY <1>8, OnlyTasksPost
    <3>2. QED
      BY <1>1, <1>2, <3>1
  <2>2. ASSUME NEW p \in Proc, NEW c \in copies[p]
        PROVE  ~RejectRequest(p, c) /\ ~GrantRead(p, c)
    <3>1. c.label = w
      BY <1>3, AtKeeper
    <3>2. \A i \in DOMAIN acc[p] : NotBehind(acc[p][i].version, w)
      BY <1>3, <1>5, NoneTooLate
    <3>3. QED
      BY <1>5, <3>1, <3>2, MigWrites
  <2>3. ASSUME NEW p \in Proc, NEW c \in copies[p], GrantLocalWrite(p, c)
        PROVE  InTimeAt(w)'
    <3>1. PICK t \in Task : /\ phase[t] = "waiting" /\ phase' = [phase EXCEPT ![t] = "holding"]
                            /\ TaskMode[t] = "Write" /\ TaskVersion[t] \in {AnyVersion, w}
      BY <1>3, <1>5, <2>3, ObjectWritten
    <3>2. got'[t] = w
      <4>1. KeptBy(k, "hand", w)'
        BY <1>3, <1>5, <2>3, ObjectWritten
      <4>2. Writing(t)'
        BY <1>5, <3>1 DEF Writing, Writers
      <4>3. QED
        BY <4>1, <4>2 DEF KeptBy, HandIs
    <3>3. ASSUME NEW u \in Task, phase[u] = "holding" PROVE FALSE
      <4>1. u \in Writers
        BY <3>3 DEF Migrating, AnyWriters, InTurn, WritersInTurn, Present, Writers
      <4>2. ~Writing(u)
        BY <1>3, <2>3, AtKeeper
      <4>3. QED
        BY <3>3, <4>1, <4>2 DEF Writing
    <3>4. QED
      BY <1>5, <3>1, <3>2, <3>3 DEF InTimeAt
  <2>4. ASSUME \/ \E p \in Proc : Deliver(p) \/ ForgetStrayGrant(p)
               \/ \E p \in Proc : HandleMessage(p) \/ SettleOwner(p) \/ FlushData(p) \/ EndVerify(p)
               \/ \E p \in Proc : \E c \in copies[p] : TransferOwnership(p, c)
               \/ UNCHANGED vars
        PROVE  InTimeAt(w)'
    <3>1. UNCHANGED <<phase, got>>
      BY <2>4 DEF Deliver, ForgetStrayGrant, HandleMessage, HandleData, HandleOwner,
                  ForwardRequest, QueueRequest, SettleOwner, FlushData, TransferOwnership,
                  EndVerify, vars
    <3>2. QED
      BY <1>6, <3>1
  <2>5. InTimeAt(w)'
    BY <1>8, <2>2, <2>3, <2>4 DEF Service, Verify
  <2>6. QED
    BY <1>4, <2>1, <2>5
<1>9. QED
  BY <1>7, <1>8 DEF Next

-----------------------------------------------------------------------------
(* One object: in one place, with the label of the last write              *)

SimpleInv == /\ HandledOwner /\ FiledInv
             /\ OneProcessor => HomeInv /\ ObjectInv
             /\ Migrating => MigratingInv /\ InTime
WritesOnly(s) == \A i \in DOMAIN s : /\ s[i].kind = "owner" => s[i].tag.mode = "Write"
                                     /\ Stray \notin s[i].refs
NoStray == /\ \A p \in Proc : \A c \in copies[p] : Stray \notin c.refs
           /\ \A p \in Proc : WritesOnly(dmq[p]) /\ WritesOnly(net[p])

LEMMA SimpleFacts ==
    ASSUME TypeInv, RequestsInv, SimpleInv, Simple
    PROVE  Plain /\ ObjectInv /\ NoStray
<1>1. CASE OneProcessor
  <2>1. HomeInv /\ ObjectInv
    BY <1>1 DEF SimpleInv
  <2>2. WritesOnly(dmq[Home])
    <3>1. dmq[Home] \in Seq(HomeMessage)
      BY <2>1 DEF HomeInv
    <3>2. \A i \in DOMAIN dmq[Home] : dmq[Home][i] \in HomeMessage
      BY <3>1
    <3>3. QED
      BY <3>2 DEF HomeMessage, WritesOnly
  <2>3. NoStray
    BY <2>1, <2>2 DEF HomeInv, NoStray, WritesOnly
  <2>4. QED
    BY <2>1, <2>3, HomePlain
<1>2. CASE Migrating
  <2>1. MigratingInv /\ InTime /\ FiledInv
    BY <1>2 DEF SimpleInv
  <2>2. MigTypes /\ ObjectInv /\ \E k \in Proc : MigInv(k)
    BY <2>1, Zenon DEF MigratingInv, MigInv, ObjectInv
  <2>3. ASSUME NEW p \in Proc PROVE WritesOnly(dmq[p]) /\ WritesOnly(net[p])
    <3>1. dmq[p] \in Seq(PlainMessage(p)) /\ net[p] \in Seq(PlainMessage(p))
      BY <2>2 DEF MigTypes
    <3>2. /\ \A i \in DOMAIN dmq[p] : dmq[p][i] \in PlainMessage(p)
          /\ \A i \in DOMAIN net[p] : net[p][i] \in PlainMessage(p)
      BY <3>1
    <3>3. QED
      BY <3>2 DEF PlainMessage, WritesOnly
  <2>4. NoStray
    BY <2>2, <2>3 DEF MigTypes, NoStray
  <2>5. QED
    BY <1>2, <2>1, <2>2, <2>4, MigPlain
<1>3. QED
  BY <1>1, <1>2 DEF Simple

LEMMA SimpleInit == Init => SimpleInv
<1> SUFFICES ASSUME Init PROVE SimpleInv
  OBVIOUS
<1>1. HandledOwner
  BY HandledInit
<1>2. OneProcessor => HomeInv /\ ObjectInv
  BY HomeInit, ObjectInit
<1>3. MigratingInv
  <2>1. KeptBy(Home, "queue", 0) /\ WritesDone = 0 /\ Home \in Proc /\ "queue" \in Place
    BY ObjectStart, ProcAssumption DEF Place
  <2>2. QED
    BY <2>1, MigInit, Zenon DEF MigratingInv
<1>4. ASSUME Migrating PROVE InTime
  <2>1. /\ WritesDone = 0 /\ TaskVersion \in [Task -> Nat \cup {AnyVersion}]
        /\ \A t \in Task : phase[t] # "holding"
    BY ObjectStart, TaskAssumption DEF Init
  <2>2. QED
    BY <2>1 DEF InTime, InTimeAt, NotBehind
<1>5. QED
  BY <1>1, <1>2, <1>3, <1>4, FiledInit DEF SimpleInv

LEMMA SimpleNext ==
    ASSUME TypeInv, RequestsInv, IsFiniteSet(DoneWriters), SimpleInv, [Next]_vars
    PROVE  SimpleInv'
<1>1. (OneProcessor' <=> OneProcessor) /\ (Migrating' <=> Migrating)
  BY SimpleStays
<1>2. HandledOwner'
  <2>1. CASE Next
    BY <2>1, HandledNext DEF SimpleInv
  <2>2. CASE UNCHANGED vars
    BY <2>2 DEF vars, SimpleInv, HandledOwner, Submitting
  <2>3. QED
    BY <2>1, <2>2
<1>3. ASSUME OneProcessor PROVE HomeInv' /\ ObjectInv'
  <2>1. Plain /\ ObjectInv /\ HomeInv
    BY <1>3, SimpleFacts DEF SimpleInv, Simple
  <2>2. QED
    BY <1>3, <2>1, HomeNext, ObjectNext
<1>4. ASSUME Migrating PROVE MigratingInv' /\ InTime'
  BY <1>4, MigratingNext, InTimeNext DEF SimpleInv
<1>5. FiledInv'
  BY FiledNext DEF SimpleInv
<1>6. QED
  BY <1>1, <1>2, <1>3, <1>4, <1>5 DEF SimpleInv

\* Places, in its four parts
InMaps == UNION { {p} \X copies[p] : p \in Proc }
InQueues == { x \in UNION { {p} \X DOMAIN dmq[p] : p \in Proc } :
                Carries(dmq[x[1]][x[2]]) /\ ~Submitted(x[1], x[2]) }
OnNetwork == { x \in UNION { {p} \X {"net"} \X DOMAIN net[p] : p \in Proc } :
                 Carries(net[x[1]][x[3]]) }
InHands == { t \in Writers : Writing(t) }

\* Who is in Places, without tuples
LEMMA InPlaces ==
    ASSUME NEW z
    PROVE  z \in Places <=>
             \/ \E p \in Proc : \E c \in copies[p] : z = <<p, c>>
             \/ \E p \in Proc : \E i \in DOMAIN dmq[p] :
                  z = <<p, i>> /\ Carries(dmq[p][i]) /\ ~Submitted(p, i)
             \/ \E p \in Proc : \E i \in DOMAIN net[p] :
                  z = <<p, "net", i>> /\ Carries(net[p][i])
             \/ \E t \in Writers : z = t /\ Writing(t)
<1>1. z \in InMaps <=> \E p \in Proc : \E c \in copies[p] : z = <<p, c>>
  BY DEF InMaps
<1>2. z \in InQueues <=> \E p \in Proc : \E i \in DOMAIN dmq[p] :
                    z = <<p, i>> /\ Carries(dmq[p][i]) /\ ~Submitted(p, i)
  <2>1. z \in UNION { {p} \X DOMAIN dmq[p] : p \in Proc } <=>
          \E p \in Proc : \E i \in DOMAIN dmq[p] : z = <<p, i>>
    OBVIOUS
  <2>2. QED
    BY <2>1 DEF InQueues
<1>3. z \in OnNetwork <=> \E p \in Proc : \E i \in DOMAIN net[p] : z = <<p, "net", i>> /\ Carries(net[p][i])
  <2>1. z \in UNION { {p} \X {"net"} \X DOMAIN net[p] : p \in Proc } <=>
          \E p \in Proc : \E i \in DOMAIN net[p] : z = <<p, "net", i>>
    OBVIOUS
  <2>2. QED
    BY <2>1 DEF OnNetwork
<1>4. z \in InHands <=> \E t \in Writers : z = t /\ Writing(t)
  BY DEF InHands
<1>5. Places = InMaps \cup InQueues \cup OnNetwork \cup InHands
  BY DEF Places, InMaps, InQueues, OnNetwork, InHands
<1>6. z \in Places <=> z \in InMaps \/ z \in InQueues \/ z \in OnNetwork \/ z \in InHands
  BY <1>5
<1>7. QED
  BY <1>1, <1>2, <1>3, <1>4, <1>6

LEMMA OneElement == ASSUME NEW S, NEW a, \A x : x \in S <=> x = a PROVE S = {a}
OBVIOUS

LEMMA OnePlaces ==
    ASSUME TypeInv, NoStray, NEW k \in Proc, NEW place \in Place, NEW w, KeptBy(k, place, w)
    PROVE  \E x : Places = {x}
<1>1. /\ \A p \in Proc : \A i \in DOMAIN dmq[p] : Carries(dmq[p][i]) <=> IsCarrier(dmq[p][i])
      /\ \A p \in Proc : \A i \in DOMAIN net[p] : Carries(net[p][i]) <=> IsCarrier(net[p][i])
  BY DEF NoStray, WritesOnly, Carries, IsCarrier
<1>2. /\ Elsewhere(k) /\ MapIs(k, place, w) /\ QueueIs(k, place, w)
      /\ NetIs(k, place, w) /\ HandIs(k, place, w) /\ ServiceIs(k, place)
  BY DEF KeptBy
<1>3. /\ \A p \in Proc : \A c \in copies[p] : p = k /\ place \in {"map", "submitted"}
      /\ \A p \in Proc : \A i \in DOMAIN dmq[p] : Carries(dmq[p][i]) =>
           p = k /\ place \in {"queue", "submitted"} /\ IsCarrier(dmq[k][i])
      /\ \A p \in Proc : \A i \in DOMAIN net[p] : Carries(net[p][i]) =>
           p = k /\ place = "net" /\ IsCarrier(net[k][i])
      /\ \A t \in Writers : Writing(t) => place = "hand"
  BY <1>1, <1>2 DEF Elsewhere, NoCarrier, MapIs, QueueIs, NetIs, HandIs, Writers
<1>4. CASE place = "map"
  <2>1. PICK c : copies[k] = {c}
    BY <1>2, <1>4 DEF MapIs
  <2>2. ASSUME NEW x PROVE x \in Places <=> x = <<k, c>>
    BY <1>3, <1>4, <2>1, InPlaces
  <2>3. Places = {<<k, c>>}
    BY <2>2, OneElement
  <2>4. QED
    BY <2>3
<1>5. CASE place = "submitted"
  <2>1. PICK c : copies[k] = {c}
    BY <1>2, <1>5 DEF MapIs
  <2>2. ASSUME NEW i \in DOMAIN dmq[k], IsCarrier(dmq[k][i]) PROVE Submitted(k, i)
    <3>1. dmq[k] \in Seq(Message) /\ dmq[k] # <<>> /\ IsCarrier(Head(dmq[k])) /\ Submitting(k)
      BY <1>2, <1>5, QueueTypes DEF ServiceIs
    <3>2. 1 \in DOMAIN dmq[k] /\ Head(dmq[k]) = dmq[k][1]
      BY <3>1
    <3>3. i = 1
      BY <1>2, <1>5, <2>2, <3>1, <3>2 DEF QueueIs, OneCarrier
    <3>4. QED
      BY <3>1, <3>3 DEF Submitting, Submitted
  <2>3. ASSUME NEW x PROVE x \in Places <=> x = <<k, c>>
    BY <1>3, <1>5, <2>1, <2>2, InPlaces
  <2>4. Places = {<<k, c>>}
    BY <2>3, OneElement
  <2>5. QED
    BY <2>4
<1>6. CASE place = "queue"
  <2>1. PICK i \in DOMAIN dmq[k] : /\ IsCarrier(dmq[k][i])
                                   /\ \A j \in DOMAIN dmq[k] : IsCarrier(dmq[k][j]) => j = i
    BY <1>2, <1>6 DEF QueueIs, OneCarrier
  <2>2. Carries(dmq[k][i]) /\ ~Submitted(k, i)
    BY <1>1, <1>2, <1>6, <2>1 DEF ServiceIs, Submitting, Submitted
  <2>3. ASSUME NEW x PROVE x \in Places <=> x = <<k, i>>
    BY <1>3, <1>6, <2>1, <2>2, InPlaces
  <2>4. Places = {<<k, i>>}
    BY <2>3, OneElement
  <2>5. QED
    BY <2>4
<1>7. CASE place = "net"
  <2>1. PICK i \in DOMAIN net[k] : /\ IsCarrier(net[k][i])
                                   /\ \A j \in DOMAIN net[k] : IsCarrier(net[k][j]) => j = i
    BY <1>2, <1>7 DEF NetIs, OneCarrier
  <2>2. Carries(net[k][i])
    BY <1>1, <2>1
  <2>3. ASSUME NEW x PROVE x \in Places <=> x = <<k, "net", i>>
    BY <1>3, <1>7, <2>1, <2>2, InPlaces
  <2>4. Places = {<<k, "net", i>>}
    BY <2>3, OneElement
  <2>5. QED
    BY <2>4
<1>8. CASE place = "hand"
  <2>1. PICK t \in Task : Writing(t) /\ \A u \in Task : Writing(u) => u = t
    BY <1>2, <1>8 DEF HandIs
  <2>2. t \in Writers /\ \A u \in Writers : u \in Task
    BY <2>1 DEF Writing, Writers
  <2>3. ASSUME NEW x PROVE x \in Places <=> x = t
    BY <1>3, <1>8, <2>1, <2>2, InPlaces
  <2>4. Places = {t}
    BY <2>3, OneElement
  <2>5. QED
    BY <2>4
<1>9. QED
  BY <1>4, <1>5, <1>6, <1>7, <1>8 DEF Place

LEMMA OneObject ==
    ASSUME TypeInv, RequestsInv, SimpleInv, Simple
    PROVE  ExactlyOneObject /\ NoLostUpdate
<1>1. ObjectInv /\ NoStray
  BY SimpleFacts
<1>2. PICK w : w = WritesDone
  OBVIOUS
<1>3. PICK k \in Proc, place \in Place : KeptBy(k, place, w)
  BY <1>1, <1>2, Zenon DEF ObjectInv
<1>4. PICK x : Places = {x}
  BY <1>1, <1>3, OnePlaces
<1>5. Cardinality(Places) = 1
  BY <1>4, FS_Singleton
<1>6. \A t \in Writers : Writing(t) => got[t] = WritesDone
  BY <1>2, <1>3 DEF KeptBy, HandIs, Writers
<1>7. QED
  BY <1>5, <1>6 DEF ExactlyOneObject, NoLostUpdate

-----------------------------------------------------------------------------
(* A request beside a free version                                         *)

\* Whoever made the version free while the service thread slept is to report
\* that the object has changed, or has done so.
Excused(p) == changed[p] \/ \E t \in Task : TaskProc[t] = p /\ phase[t] = "cleared"
ExcusedInv == \A p \in Proc : pc[p] = "idle" /\ Grantable(p) => Excused(p)

LEMMA StillExcused ==
    ASSUME NEW p \in Proc, pc[p] = "idle" /\ Grantable(p) => Excused(p),
           pc'[p] = "idle" => pc[p] = "idle",
           copies'[p] = copies[p], acc'[p] = acc[p], changed[p] => changed'[p],
           \A t \in Task : TaskProc[t] = p /\ phase[t] = "cleared" => phase'[t] = "cleared" \/ changed'[p]
    PROVE  pc'[p] = "idle" /\ Grantable(p)' => Excused(p)'
<1>1. Grantable(p)' => Grantable(p)
  BY DEF Grantable, IsLatest, Compatible
<1>2. Excused(p) => Excused(p)'
  BY DEF Excused
<1>3. QED
  BY <1>1, <1>2

LEMMA ExcusedTaskStep ==
    ASSUME TypeInv, ExcusedInv, NEW u \in Task, TaskStep(u) PROVE ExcusedInv'
<1>0. /\ phase \in [Task -> Phase] /\ copies \in [Proc -> SUBSET Copy] /\ changed \in [Proc -> BOOLEAN]
      /\ TaskProc[u] \in Proc /\ UNCHANGED <<acc, pc>>
  BY TaskAssumption DEF TypeInv, PlainTypes, TaskStep, PostRequests, PostData, ClearPointer, ObjectChanged
<1>1. CASE PostRequests(u) \/ PostData(u)
  <2>1. /\ UNCHANGED <<copies, changed>>
        /\ \A t \in Task : phase[t] = "cleared" => phase'[t] = "cleared"
    BY <1>0, <1>1 DEF PostRequests, PostData
  <2>2. QED
    BY <1>0, <2>1, StillExcused DEF ExcusedInv
<1>2. CASE ClearPointer(u)
  <2>1. /\ phase' = [phase EXCEPT ![u] = "cleared"] /\ UNCHANGED changed
        /\ \A p \in Proc \ {TaskProc[u]} : copies'[p] = copies[p]
    BY <1>0, <1>2 DEF ClearPointer, DropPointer
  <2>2. ASSUME NEW p \in Proc PROVE pc'[p] = "idle" /\ Grantable(p)' => Excused(p)'
    <3>1. CASE p = TaskProc[u]
      BY <1>0, <2>1, <3>1 DEF Excused
    <3>2. CASE p # TaskProc[u]
      BY <1>0, <2>1, <3>2, StillExcused DEF ExcusedInv
    <3>3. QED
      BY <3>1, <3>2
  <2>3. QED
    BY <2>2 DEF ExcusedInv
<1>3. CASE ObjectChanged(u)
  <2>1. /\ phase' = [phase EXCEPT ![u] = "done"] /\ changed' = [changed EXCEPT ![TaskProc[u]] = TRUE]
        /\ UNCHANGED copies
    BY <1>3 DEF ObjectChanged
  <2>2. QED
    BY <1>0, <2>1, StillExcused DEF ExcusedInv
<1>4. QED
  BY <1>1, <1>2, <1>3 DEF TaskStep

LEMMA ExcusedMessages ==
    ASSUME TypeInv, ExcusedInv, NEW p \in Proc,
           Deliver(p) \/ HandleMessage(p) \/ SettleOwner(p) \/ FlushData(p)
    PROVE  ExcusedInv'
<1>0. /\ pc \in [Proc -> Where] /\ copies \in [Proc -> SUBSET Copy] /\ changed \in [Proc -> BOOLEAN]
      /\ acc \in [Proc -> Seq(Tag)] /\ UNCHANGED phase
  BY DEF TypeInv, PlainTypes, AccTypes, Deliver, HandleMessage, HandleData, HandleOwner,
         ForwardRequest, QueueRequest, SettleOwner, FlushData
<1>1. CASE Deliver(p)
  <2>1. /\ UNCHANGED <<acc, pc>> /\ \A q \in Proc \ {p} : changed'[q] = changed[q] /\ copies'[q] = copies[q]
        /\ UNCHANGED <<copies, changed>> \/ changed'[p]
    BY <1>0, <1>1 DEF Deliver, DropPointer
  <2>2. ASSUME NEW q \in Proc PROVE pc'[q] = "idle" /\ Grantable(q)' => Excused(q)'
    <3>1. CASE q = p /\ changed'[p]
      BY <3>1 DEF Excused
    <3>2. CASE ~(q = p /\ changed'[p])
      BY <1>0, <2>1, <3>2, StillExcused DEF ExcusedInv
    <3>3. QED
      BY <3>1, <3>2
  <2>3. QED
    BY <2>2 DEF ExcusedInv
<1>2. CASE ForwardRequest(p)
  <2>1. UNCHANGED <<acc, pc, copies, changed>>
    BY <1>2 DEF ForwardRequest
  <2>2. QED
    BY <1>0, <2>1, StillExcused DEF ExcusedInv
<1>3. CASE HandleData(p) \/ HandleOwner(p) \/ QueueRequest(p) \/ SettleOwner(p) \/ FlushData(p)
  <2>1. /\ \A q \in Proc \ {p} : /\ changed'[q] = changed[q] /\ copies'[q] = copies[q]
                                 /\ acc'[q] = acc[q] /\ pc'[q] = pc[q]
        /\ pc'[p] # "idle"
    <3>1. HandleData(p) \/ HandleOwner(p) => copies' = copies \/ \E S : copies' = [copies EXCEPT ![p] = S]
      BY DEF HandleData, HandleOwner, WithVersion
    <3>2. CASE HandleData(p)
      BY <1>0, <3>1, <3>2 DEF HandleData
    <3>3. CASE HandleOwner(p)
      BY <1>0, <3>1, <3>3 DEF HandleOwner
    <3>4. CASE QueueRequest(p) \/ SettleOwner(p) \/ FlushData(p)
      BY <1>0, <3>4 DEF QueueRequest, SettleOwner, FlushData
    <3>5. QED
      BY <1>3, <3>2, <3>3, <3>4
  <2>2. ASSUME NEW q \in Proc PROVE pc'[q] = "idle" /\ Grantable(q)' => Excused(q)'
    <3>1. CASE q = p
      BY <2>1, <3>1
    <3>2. CASE q # p
      BY <1>0, <2>1, <3>2, StillExcused DEF ExcusedInv
    <3>3. QED
      BY <3>1, <3>2
  <2>3. QED
    BY <2>2 DEF ExcusedInv
<1>4. QED
  BY <1>1, <1>2, <1>3 DEF HandleMessage

LEMMA ExcusedVerify ==
    ASSUME TypeInv, RequestsInv, Plain, ObjectInv, ExcusedInv, NEW p \in Proc, Verify(p)
    PROVE  ExcusedInv'
<1>0. /\ pc \in [Proc -> Where] /\ copies \in [Proc -> SUBSET Copy] /\ changed \in [Proc -> BOOLEAN]
      /\ acc \in [Proc -> Seq(Tag)] /\ phase \in [Task -> Phase]
  BY DEF TypeInv, PlainTypes, AccTypes
<1>1. PICK w : w = WritesDone
  OBVIOUS
<1>2. PICK k \in Proc, place \in Place : KeptBy(k, place, w)
  BY <1>1, Zenon DEF ObjectInv
<1>3. ASSUME \A q \in Proc \ {p} : /\ changed[q] => changed'[q]
                                   /\ copies'[q] = copies[q] /\ acc'[q] = acc[q] /\ pc'[q] = pc[q],
             \A t \in Task : phase[t] = "cleared" => phase'[t] = "cleared",
             pc'[p] = "idle" => ~Grantable(p)'
      PROVE  ExcusedInv'
  <2>1. ASSUME NEW q \in Proc PROVE pc'[q] = "idle" /\ Grantable(q)' => Excused(q)'
    <3>1. CASE q = p
      BY <1>3, <3>1
    <3>2. CASE q # p
      BY <1>3, <3>2, StillExcused DEF ExcusedInv
    <3>3. QED
      BY <3>1, <3>2
  <2>2. QED
    BY <2>1 DEF ExcusedInv
<1>4. ASSUME NEW c \in copies[p], RejectRequest(p, c) PROVE ExcusedInv'
  <2>1. \A t \in Task : phase[t] = "cleared" => phase'[t] = "cleared"
    BY <1>0, <1>1, <1>2, <1>4, ObjectRejected
  <2>2. /\ UNCHANGED <<copies, pc>> /\ pc[p] # "idle"
        /\ \A q \in Proc \ {p} : acc'[q] = acc[q]
        /\ \A q \in Proc : changed[q] => changed'[q]
    BY <1>0, <1>4 DEF RejectRequest, Verifying, SendOwnerTask
  <2>3. QED
    BY <1>3, <2>1, <2>2
<1>5. ASSUME NEW c \in copies[p], GrantRead(p, c) PROVE ExcusedInv'
  <2>1. /\ \A t \in Task : phase[t] = "cleared" => phase'[t] = "cleared"
        /\ \A q \in Proc \ {p} : copies'[q] = copies[q]
    BY <1>0, <1>2, <1>5, ObjectRead
  <2>2. /\ UNCHANGED pc /\ pc[p] # "idle"
        /\ \A q \in Proc \ {p} : acc'[q] = acc[q]
        /\ \A q \in Proc : changed[q] => changed'[q]
    BY <1>0, <1>5 DEF GrantRead, Verifying, SendOwnerTask
  <2>3. QED
    BY <1>3, <2>1, <2>2
<1>6. ASSUME NEW c \in copies[p], GrantLocalWrite(p, c) PROVE ExcusedInv'
  <2>1. /\ \A t \in Task : phase[t] = "cleared" => phase'[t] = "cleared"
        /\ copies'[p] = {}
    BY <1>0, <1>2, <1>6, ObjectWritten, AtKeeper
  <2>2. /\ \A q \in Proc \ {p} : acc'[q] = acc[q] /\ copies'[q] = copies[q] /\ pc'[q] = pc[q]
        /\ UNCHANGED changed
    BY <1>0, <1>6 DEF GrantLocalWrite, Leave
  <2>3. ~Grantable(p)'
    BY <2>1 DEF Grantable
  <2>4. QED
    BY <1>3, <2>1, <2>2, <2>3
<1>7. ASSUME NEW c \in copies[p], TransferOwnership(p, c) PROVE ExcusedInv'
  <2>1. /\ copies' = [copies EXCEPT ![p] = @ \ {c}] /\ Leave(p) /\ UNCHANGED phase
        /\ changed' = [changed EXCEPT ![p] = TRUE]
        /\ \A q \in Proc \ {p} : acc'[q] = acc[q]
    <3>1. /\ copies' = [copies EXCEPT ![p] = @ \ {c}] /\ Leave(p) /\ UNCHANGED phase
          /\ \E S : acc' = [acc EXCEPT ![p] = S]
          /\ \E tag, s : SendOwnerTask(p, tag, s)
      BY <1>7, ZenonT(60) DEF TransferOwnership
    <3>2. QED
      BY <1>0, <3>1 DEF SendOwnerTask
  <2>2. copies'[p] = {}
    BY <1>0, <1>2, <2>1, AtKeeper
  <2>3. ~Grantable(p)'
    BY <2>2 DEF Grantable
  <2>4. \A q \in Proc \ {p} : copies'[q] = copies[q] /\ pc'[q] = pc[q]
    BY <1>0, <2>1 DEF Leave
  <2>5. QED
    BY <1>0, <1>3, <2>1, <2>3, <2>4
<1>8. CASE EndVerify(p)
  <2>1. ~Grantable(p)
    BY <1>8 DEF EndVerify, Grantable
  <2>2. UNCHANGED <<copies, acc, changed, phase>> /\ \A q \in Proc \ {p} : pc'[q] = pc[q]
    BY <1>0, <1>8 DEF EndVerify, Leave
  <2>3. ~Grantable(p)'
    BY <2>1, <2>2 DEF Grantable, IsLatest, Compatible
  <2>4. QED
    BY <1>3, <2>2, <2>3
<1>9. QED
  BY <1>4, <1>5, <1>6, <1>7, <1>8 DEF Verify

LEMMA ExcusedNext ==
    ASSUME TypeInv, RequestsInv, Plain, ObjectInv, NoStray, ExcusedInv, [Next]_vars
    PROVE  ExcusedInv'
<1>1. ASSUME NEW p \in Proc PROVE ~ForgetStrayGrant(p)
  BY DEF ForgetStrayGrant, NoStray
<1>2. UNCHANGED vars => ExcusedInv'
  BY DEF vars, ExcusedInv, Grantable, IsLatest, Compatible, Excused
<1>3. QED
  BY <1>1, <1>2, ExcusedTaskStep, ExcusedMessages, ExcusedVerify DEF Next, Service

LEMMA ExcusedInit == Init => ExcusedInv
BY DEF Init, ExcusedInv, Grantable

-----------------------------------------------------------------------------
(* The managers implement the access discipline                            *)

ReadersNow == {t \in Task : Reading(t)}
WritersNow == {t \in Task : Writing(t)}
Served == {t \in Task : Finished(t)}

\* A step that is of no account to the tasks
RoleKept(t) == /\ Reading(t)' <=> Reading(t)
               /\ Writing(t)' <=> Writing(t)
               /\ Finished(t)' <=> Finished(t)

LEMMA AccessStutters ==
    ASSUME UNCHANGED WritesDone, \A t \in Task : RoleKept(t)
    PROVE  UNCHANGED Access!vars
<1>1. /\ UNCHANGED {t \in Task : Reading(t)} /\ UNCHANGED {t \in Task : Writing(t)}
      /\ UNCHANGED {t \in Task : Finished(t)}
  BY DEF RoleKept
<1>2. QED
  BY <1>1 DEF Access!vars

LEMMA AccessTaskStep ==
    ASSUME TypeInv, RequestsInv, IsFiniteSet(DoneWriters), NEW u \in Task, TaskStep(u), [Next]_vars
    PROVE  [Access!Next]_(Access!vars)
<1>0. phase \in [Task -> Phase] /\ TaskMode[u] \in Mode
  BY TaskAssumption DEF TypeInv, PlainTypes
<1>1. CASE PostData(u)
  <2>1. WritesDone' = WritesDone + 1
    BY <1>1, WritesGrow
  <2>2. phase[u] = "holding" /\ u \in Writers /\ phase' = [phase EXCEPT ![u] = "posting"]
    BY <1>1 DEF PostData, Writers
  <2>3. /\ u \in WritersNow /\ ReadersNow' = ReadersNow /\ WritersNow' = WritersNow \ {u}
        /\ Served' = Served \cup {u}
    BY <1>0, <2>2 DEF ReadersNow, WritersNow, Served, Reading, Writing, Finished
  <2>4. Access!ReleaseWrite(u)
    BY <2>1, <2>3 DEF Access!ReleaseWrite, ReadersNow, WritersNow, Served
  <2>5. QED
    BY <2>4 DEF Access!Next
<1>2. CASE ~PostData(u)
  <2>1. UNCHANGED WritesDone
    <3>1. \A t \in Task : ~PostData(t)
      BY <1>2, OneTaskSteps
    <3>2. QED
      BY <3>1, WritesGrow
  <2>2. CASE ClearPointer(u) /\ TaskMode[u] # "Write"
    <3>1. phase[u] = "holding" /\ u \notin Writers /\ phase' = [phase EXCEPT ![u] = "cleared"]
      BY <2>2 DEF ClearPointer, Writers
    <3>2. /\ u \in ReadersNow /\ ReadersNow' = ReadersNow \ {u} /\ WritersNow' = WritersNow
          /\ Served' = Served \cup {u}
      BY <1>0, <3>1 DEF ReadersNow, WritersNow, Served, Reading, Writing, Finished
    <3>3. Access!ReleaseRead(u)
      BY <2>1, <3>2 DEF Access!ReleaseRead, ReadersNow, WritersNow, Served
    <3>4. QED
      BY <3>3 DEF Access!Next
  <2>3. CASE ~(ClearPointer(u) /\ TaskMode[u] # "Write")
    <3>1. \/ phase[u] = "submitted" /\ phase' = [phase EXCEPT ![u] = "waiting"]
          \/ phase[u] = "posting" /\ phase' = [phase EXCEPT ![u] = "cleared"]
          \/ phase[u] = "cleared" /\ phase' = [phase EXCEPT ![u] = "done"]
      BY <1>2, <2>3 DEF TaskStep, PostRequests, ClearPointer, ObjectChanged
    <3>2. \A t \in Task : RoleKept(t)
      BY <1>0, <3>1 DEF RoleKept, Reading, Writing, Finished
    <3>3. QED
      BY <2>1, <3>2, AccessStutters
  <2>4. QED
    BY <2>2, <2>3
<1>3. QED
  BY <1>1, <1>2

\* A version is granted to a writer when no reader has it: each would be
\* counted in the only copy there is.
LEMMA AccessVerify ==
    ASSUME TypeInv, RequestsInv, Plain, ObjectInv, ReadersKeepTheirCopy, UNCHANGED WritesDone,
           NEW p \in Proc, Verify(p)
    PROVE  [Access!Next]_(Access!vars)
<1>0. phase \in [Task -> Phase] /\ TaskProc \in [Task -> Proc]
  BY TaskAssumption DEF TypeInv, PlainTypes
<1>1. PICK w : w = WritesDone
  OBVIOUS
<1>2. PICK k \in Proc, place \in Place : KeptBy(k, place, w)
  BY <1>1, Zenon DEF ObjectInv
<1>3. UNCHANGED phase => UNCHANGED Access!vars
  BY AccessStutters DEF RoleKept, Reading, Writing, Finished
<1>4. ASSUME NEW c \in copies[p], RejectRequest(p, c) PROVE UNCHANGED Access!vars
  <2>1. PICK t \in Task : phase[t] = "waiting" /\ phase' = [phase EXCEPT ![t] = "refused"]
    BY <1>1, <1>2, <1>4, ObjectRejected
  <2>2. \A u \in Task : RoleKept(u)
    BY <1>0, <2>1 DEF RoleKept, Reading, Writing, Finished
  <2>3. QED
    BY <2>2, AccessStutters
<1>5. ASSUME NEW c \in copies[p], GrantRead(p, c) PROVE Access!Next
  <2>1. PICK t \in Task :
          /\ phase[t] = "waiting" /\ phase' = [phase EXCEPT ![t] = "holding"]
          /\ TaskMode[t] = "Read" /\ TaskVersion[t] \in {AnyVersion, w}
    BY <1>2, <1>5, ObjectRead
  <2>2. WritersNow = {}
    BY <1>2, <1>5, AtKeeper DEF WritersNow
  <2>3. /\ t \notin ReadersNow \cup WritersNow \cup Served /\ t \notin Writers
        /\ ReadersNow' = ReadersNow \cup {t} /\ WritersNow' = WritersNow /\ Served' = Served
    BY <1>0, <2>1 DEF ReadersNow, WritersNow, Served, Reading, Writing, Finished, Writers
  <2>4. Access!AcquireRead(t)
    BY <1>1, <2>1, <2>2, <2>3
    DEF Access!AcquireRead, Access!MayAccess, ReadersNow, WritersNow, Served
  <2>5. QED
    BY <2>4 DEF Access!Next
<1>6. ASSUME NEW c \in copies[p], GrantLocalWrite(p, c) PROVE Access!Next
  <2>1. PICK t \in Task :
          /\ phase[t] = "waiting" /\ phase' = [phase EXCEPT ![t] = "holding"]
          /\ TaskMode[t] = "Write" /\ TaskVersion[t] \in {AnyVersion, w}
    BY <1>2, <1>6, ObjectWritten
  <2>2. c.refs = {}
    BY <1>2, <1>6, ObjectWritten
  <2>3. WritersNow = {}
    BY <1>2, <1>6, AtKeeper DEF WritersNow
  <2>4. ASSUME NEW u \in Task, Reading(u) PROVE FALSE
    <3>1. PICK d \in copies[TaskProc[u]] : u \in d.refs
      BY <2>4 DEF ReadersKeepTheirCopy
    <3>2. TaskProc[u] = k /\ copies[k] = {d}
      BY <1>0, <1>2, <3>1, AtKeeper
    <3>3. copies[k] = {c}
      BY <1>2, AtKeeper
    <3>4. QED
      BY <2>2, <3>1, <3>2, <3>3
  <2>5. ReadersNow = {}
    BY <2>4 DEF ReadersNow
  <2>6. /\ t \notin ReadersNow \cup WritersNow \cup Served /\ t \in Writers
        /\ ReadersNow' = ReadersNow /\ WritersNow' = {t} /\ Served' = Served
    <3>1. /\ t \notin ReadersNow \cup WritersNow \cup Served /\ t \in Writers
          /\ ReadersNow' = ReadersNow /\ WritersNow' = WritersNow \cup {t} /\ Served' = Served
      BY <1>0, <2>1 DEF ReadersNow, WritersNow, Served, Reading, Writing, Finished, Writers
    <3>2. QED
      BY <2>3, <3>1
  <2>7. Access!AcquireWrite(t)
    BY <1>1, <2>1, <2>3, <2>5, <2>6
    DEF Access!AcquireWrite, Access!MayAccess, ReadersNow, WritersNow, Served
  <2>8. QED
    BY <2>7 DEF Access!Next
<1>7. ASSUME NEW c \in copies[p], TransferOwnership(p, c) PROVE UNCHANGED phase
  BY <1>7 DEF TransferOwnership
<1>8. EndVerify(p) => UNCHANGED phase
  BY DEF EndVerify
<1>9. QED
  BY <1>3, <1>4, <1>5, <1>6, <1>7, <1>8 DEF Verify

LEMMA AccessNext ==
    ASSUME TypeInv, RequestsInv, IsFiniteSet(DoneWriters), Plain, ObjectInv,
           ReadersKeepTheirCopy, [Next]_vars
    PROVE  [Access!Next]_(Access!vars)
<1>1. ASSUME NEW p \in Proc, Service(p) \/ Deliver(p) \/ ForgetStrayGrant(p)
      PROVE  [Access!Next]_(Access!vars)
  <2>1. UNCHANGED WritesDone
    <3>1. \A t \in Task : ~PostData(t)
      BY <1>1, OnlyTasksPost
    <3>2. QED
      BY <3>1, WritesGrow
  <2>2. CASE Verify(p)
    BY <2>1, <2>2, AccessVerify
  <2>3. CASE HandleMessage(p) \/ SettleOwner(p) \/ FlushData(p) \/ Deliver(p) \/ ForgetStrayGrant(p)
    <3>1. UNCHANGED phase
      BY <2>3 DEF HandleMessage, HandleData, HandleOwner, ForwardRequest, QueueRequest,
                  SettleOwner, FlushData, Deliver, ForgetStrayGrant
    <3>2. QED
      BY <2>1, <3>1, AccessStutters DEF RoleKept, Reading, Writing, Finished
  <2>4. QED
    BY <1>1, <2>2, <2>3 DEF Service
<1>2. CASE UNCHANGED vars
  <2>1. UNCHANGED phase
    BY <1>2 DEF vars
  <2>2. QED
    BY <2>1, AccessStutters DEF RoleKept, Reading, Writing, Finished, WritesDone
<1>3. QED
  BY <1>1, <1>2, AccessTaskStep DEF Next

LEMMA AccessInit == Init => Access!Init
<1> SUFFICES ASSUME Init PROVE Access!Init
  OBVIOUS
<1>1. WritesDone = 0
  BY ObjectStart
<1>2. \A t \in Task : phase[t] \in {"submitted", "absent"}
  BY DEF Init
<1>3. /\ {t \in Task : Reading(t)} = {} /\ {t \in Task : Writing(t)} = {}
      /\ {t \in Task : Finished(t)} = {}
  BY <1>2 DEF Reading, Writing, Finished
<1>4. QED
  BY <1>1, <1>3 DEF Access!Init

-----------------------------------------------------------------------------
(* The theorems.  SimpleInv is the invariant they rest on, with TypeInv    *)
(* and RequestsInv for the requests that are answered and LabelsInv for    *)
(* the count of the writes.                                                *)

AccessInv == RequestsInv /\ LabelsInv /\ SimpleInv /\ (Simple => ExcusedInv)

LEMMA AccessInductive ==
    ASSUME TypeInv, AccessInv, [Next]_vars PROVE AccessInv' /\ (Simple' <=> Simple)
<1>0. RequestsInv /\ LabelsInv /\ SimpleInv /\ IsFiniteSet(DoneWriters) /\ (Simple => ExcusedInv)
  BY DEF AccessInv, LabelsInv
<1>1. RequestsInv' /\ LabelsInv' /\ SimpleInv'
  BY <1>0, RequestsNext, LabelsNext, SimpleNext
<1>2. Simple' <=> Simple
  BY <1>0, SimpleStays
<1>3. Simple => ExcusedInv'
  BY <1>0, SimpleFacts, ExcusedNext
<1>4. QED
  BY <1>1, <1>2, <1>3 DEF AccessInv

LEMMA AccessStarts == Init => AccessInv
BY RequestsInit, LabelsInit, SimpleInit, ExcusedInit DEF AccessInv

LEMMA AccessInvariant == Spec => []AccessInv
<1>1. TypeInv /\ AccessInv /\ [Next]_vars => AccessInv'
  BY AccessInductive
<1>2. QED
  BY <1>1, AccessStarts, Typing, PTL DEF Spec

\* While the tasks share a processor, or are writers of any version, or writers
\* in turn, one on a processor, the object is at every moment in one map, one
\* message or one writer's hands: no grant loses it and no transfer forks it.
THEOREM NeverLostNeverForked == Spec => [](Simple => ExactlyOneObject)
<1>1. TypeInv /\ AccessInv => (Simple => ExactlyOneObject)
  BY OneObject DEF AccessInv
<1>2. QED
  BY <1>1, Typing, AccessInvariant, PTL

\* ... and a writer works on the result of every write completed before it.
THEOREM UpdatesAreKept == Spec => [](Simple => NoLostUpdate)
<1>1. TypeInv /\ AccessInv => (Simple => NoLostUpdate)
  BY OneObject DEF AccessInv
<1>2. QED
  BY <1>1, Typing, AccessInvariant, PTL

\* ... and no service thread sleeps beside a version that it could grant, unless
\* the report of a change is on its way.
THEOREM NoneIsStranded == Spec => [](Simple => NoStrandedRequest)
<1>1. AccessInv => (Simple => NoStrandedRequest)
  BY DEF AccessInv, ExcusedInv, Excused, NoStrandedRequest
<1>2. QED
  BY <1>1, AccessInvariant, PTL

\* The managers of such tasks implement ObjectAccess: readers share a version,
\* a writer has it alone, and every write produces the next one.
THEOREM AccessImplemented == Spec /\ Simple => AccessSpec
<1>1. TypeInv /\ AccessInv /\ [Next]_vars => (Simple' <=> Simple)
  BY AccessInductive
<1>2. TypeInv /\ AccessInv /\ ReadersKeepTheirCopy /\ Simple /\ [Next]_vars
        => [Access!Next]_(Access!vars)
  <2>1. TypeInv /\ AccessInv /\ Simple => /\ RequestsInv /\ IsFiniteSet(DoneWriters)
                                          /\ Plain /\ ObjectInv
    BY SimpleFacts DEF AccessInv, LabelsInv
  <2>2. QED
    BY <2>1, AccessNext
<1>3. QED
  BY <1>1, <1>2, AccessInit, Typing, AccessInvariant, ReadersKeep, PTL
  DEF Spec, AccessSpec, Access!Spec
=============================================================================
