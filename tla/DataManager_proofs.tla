------------------------- MODULE DataManager_proofs -------------------------
(***************************************************************************)
(* Proofs about DataManager for any processors, tasks and workload: types, *)
(* the confinement of requests that name a task to that task's processor,  *)
(* the version a reader works on staying in its processor's map, and a     *)
(* request being refused only when the object has passed its version.      *)
(***************************************************************************)
EXTENDS DataManager, SequenceTheorems, FiniteSetTheorems, TLAPS

\* The requests, the messages and the network messages that may be found at p;
\* what carries the object carries a label for it, never AnyVersion.
TagAt(p) == {tag \in Tag : OwnTag(tag, p)}
Labelled(m) == m.kind \in {"data", "owner"} => m.tag.version \in Nat
MessageAt(p) == {m \in Message : OwnTag(m.tag, p) /\ Labelled(m)}
Unnamed == {tag \in Tag : tag.task = NoTask}
Packet == {m \in Message : m.tag \in Unnamed /\ Labelled(m)}

\* The inductive invariant: TypeOK and RequestsStayWithTheirTask as types of
\* the queues, and the handled owner message still at the head of its queue
PlainTypes == /\ copies \in [Proc -> SUBSET Copy]
              /\ owner \in [Proc -> Proc]
              /\ changed \in [Proc -> BOOLEAN]
              /\ pc \in [Proc -> Where]
              /\ phase \in [Task -> Phase]
              /\ got \in [Task -> Nat]
AccTypes == /\ acc \in [Proc -> Seq(Tag)]
            /\ \A p \in Proc : acc[p] \in Seq(TagAt(p))
DmqTypes == /\ dmq \in [Proc -> Seq(Message)]
            /\ \A p \in Proc : dmq[p] \in Seq(MessageAt(p))
NetTypes == net \in [Proc -> Seq(Packet)]
InHand == \A p \in Proc : pc[p] \in {"nested", "settle"} => dmq[p] # <<>>
TypeInv == PlainTypes /\ AccTypes /\ DmqTypes /\ NetTypes /\ InHand

-----------------------------------------------------------------------------
(* Sequences                                                               *)

\* Taking one element out of a sequence leaves a sequence over the same set.
LEMMA RemoveAtType ==
    ASSUME NEW S, NEW s \in Seq(S), NEW i \in 1..Len(s)
    PROVE  RemoveAt(s, i) \in Seq(S)
<1>1. \A j \in 1..Len(s) : s[j] \in S
  BY ElementOfSeq
<1>2. Len(s) \in Nat
  BY LenProperties
<1>3. SubSeq(s, 1, i - 1) \in Seq(S)
  BY <1>1, <1>2, SubSeqProperties, SMT
<1>4. SubSeq(s, i + 1, Len(s)) \in Seq(S)
  BY <1>1, <1>2, SubSeqProperties, SMT
<1>5. QED
  BY <1>3, <1>4, ConcatProperties DEF RemoveAt

\* Putting an element of a set into a sequence over it leaves such a sequence.
LEMMA InsertAtType ==
    ASSUME NEW S, NEW s \in Seq(S), NEW e \in S, NEW n \in 0..Len(s)
    PROVE  InsertAt(s, n + 1, e) \in Seq(S)
<1>1. \A j \in 1..Len(s) : s[j] \in S
  BY ElementOfSeq
<1>2. Len(s) \in Nat
  BY LenProperties
<1>3. SubSeq(s, 1, (n + 1) - 1) \in Seq(S)
  BY <1>1, <1>2, SubSeqProperties, SMT
<1>4. SubSeq(s, n + 1, Len(s)) \in Seq(S)
  BY <1>1, <1>2, SubSeqProperties, SMT
<1>5. <<e>> \in Seq(S)
  OBVIOUS
<1>6. QED
  BY <1>3, <1>4, <1>5, ConcatProperties DEF InsertAt

\* The queues' types are subtypes of those in TypeOK.
LEMMA SubTypes ==
    ASSUME NEW p \in Proc
    PROVE  /\ Seq(TagAt(p)) \subseteq Seq(Tag)
           /\ Seq(MessageAt(p)) \subseteq Seq(Message)
           /\ Seq(Packet) \subseteq Seq(Message)
           /\ Unnamed \subseteq TagAt(p)
           /\ Packet \subseteq MessageAt(p)
<1>1. TagAt(p) \subseteq Tag /\ MessageAt(p) \subseteq Message /\ Packet \subseteq Message
  BY DEF TagAt, MessageAt, Packet
<1>2. Unnamed \subseteq TagAt(p) /\ Packet \subseteq MessageAt(p)
  BY DEF Unnamed, TagAt, Packet, MessageAt, OwnTag
<1>3. QED
  BY <1>1, <1>2, SeqMonotonic

\* A request is a message; an owner task is a run of packets.
LEMMA OwnerTaskType ==
    ASSUME NEW tag \in Unnamed, tag.version \in Nat,
           NEW n \in Nat, NEW s \in [1..n -> Unnamed]
    PROVE  OwnerTask(tag, s) \in Seq(Packet)
<1>1. \A x \in Unnamed : Request(x) \in Packet
  BY DEF Unnamed, Request, Packet, Message, Labelled
<1>2. DOMAIN s = 1..n
  OBVIOUS
<1>3. [i \in DOMAIN s |-> Request(s[i])] \in Seq(Packet)
  <2>1. [i \in 1..n |-> Request(s[i])] \in [1..n -> Packet]
    BY <1>1
  <2>2. QED
    BY <2>1, <1>2, SeqDef
<1>4. /\ [kind |-> "owner", tag |-> tag, refs |-> {}] \in Packet
      /\ [kind |-> "dispose", tag |-> tag, refs |-> {}] \in Packet
  BY DEF Unnamed, Packet, Message, Labelled
<1>5. /\ <<[kind |-> "owner", tag |-> tag, refs |-> {}]>> \in Seq(Packet)
      /\ <<[kind |-> "dispose", tag |-> tag, refs |-> {}]>> \in Seq(Packet)
  BY <1>4
<1>6. QED
  BY <1>3, <1>5, ConcatProperties DEF OwnerTask

-----------------------------------------------------------------------------
(* The operators that several actions share                                *)

\* Letting a pointer go changes who holds what, nothing else.
LEMMA DropPointerTypes ==
    ASSUME TypeInv, NEW p \in Proc, NEW h, DropPointer(p, h)
    PROVE  copies' \in [Proc -> SUBSET Copy] /\ DmqTypes'
           /\ \A q \in Proc : dmq[q] # <<>> => dmq'[q] # <<>>
<1> DEFINE s == dmq[p]
           t == MessagesWithout(s, h)
<1>1. s \in Seq(MessageAt(p)) /\ dmq \in [Proc -> Seq(Message)]
  BY DEF TypeInv, DmqTypes
<1>2. Len(s) \in Nat /\ DOMAIN s = 1..Len(s) /\ \A i \in 1..Len(s) : s[i] \in MessageAt(p)
  BY <1>1, LenProperties, ElementOfSeq
<1>3. \A m \in MessageAt(p) : [m EXCEPT !.refs = @ \ {h}] \in MessageAt(p)
  BY DEF MessageAt, Message, Labelled
<1>4. t \in [1..Len(s) -> MessageAt(p)]
  BY <1>2, <1>3 DEF MessagesWithout
<1>5. t \in Seq(MessageAt(p)) /\ Len(t) = Len(s)
  BY <1>2, <1>4, SeqDef
<1>6. dmq' = [dmq EXCEPT ![p] = t]
  BY DEF DropPointer
<1>7. DmqTypes'
  BY <1>1, <1>5, <1>6, SubTypes DEF DmqTypes, TypeInv
<1>8. \A q \in Proc : dmq[q] # <<>> => dmq'[q] # <<>>
  BY <1>1, <1>2, <1>5, <1>6, EmptySeq
<1>9. copies' \in [Proc -> SUBSET Copy]
  <2>1. \A c \in Copy : [c EXCEPT !.refs = @ \ {h}] \in Copy
    BY DEF Copy
  <2>2. copies[p] \subseteq Copy /\ copies \in [Proc -> SUBSET Copy]
    BY DEF TypeInv, PlainTypes
  <2>3. WithoutHolder(copies[p], h) \subseteq Copy
    BY <2>1, <2>2 DEF WithoutHolder
  <2>4. QED
    BY <2>2, <2>3 DEF DropPointer
<1>10. QED
  BY <1>7, <1>8, <1>9

\* A version submitted with some holders is one more copy, or no change.
LEMMA WithVersionType ==
    ASSUME PlainTypes, NEW p \in Proc, NEW v \in Nat, NEW refs \in SUBSET Holder
    PROVE  WithVersion(p, v, refs) \in [Proc -> SUBSET Copy]
BY DEF WithVersion, PlainTypes, Copy

\* An owner task sent away keeps the network's type.
LEMMA SendOwnerTaskTypes ==
    ASSUME NetTypes, NEW p \in Proc, NEW tag \in Unnamed, tag.version \in Nat,
           NEW n \in Nat,
           NEW s \in [1..n -> Unnamed], SendOwnerTask(p, tag, s),
           changed \in [Proc -> BOOLEAN]
    PROVE  NetTypes' /\ changed' \in [Proc -> BOOLEAN]
<1>1. tag.proc \in Proc
  BY DEF Unnamed, Tag
<1>2. net[tag.proc] \o OwnerTask(tag, s) \in Seq(Packet)
  BY <1>1, OwnerTaskType, ConcatProperties DEF NetTypes
<1>3. QED
  BY <1>2 DEF SendOwnerTask, NetTypes

\* A message appended to a queue of its processor keeps the queues' types.
LEMMA AppendTypes ==
    ASSUME DmqTypes, NEW p \in Proc, NEW m \in MessageAt(p),
           dmq' = [dmq EXCEPT ![p] = Append(@, m)]
    PROVE  DmqTypes' /\ \A q \in Proc : dmq[q] # <<>> => dmq'[q] # <<>>
<1>1. Append(dmq[p], m) \in Seq(MessageAt(p)) /\ Append(dmq[p], m) # <<>>
  BY DEF DmqTypes
<1>2. QED
  BY <1>1, SubTypes DEF DmqTypes

\* The head of a queue that is not empty, and what is left without it
LEMMA HeadTypes ==
    ASSUME DmqTypes, NEW p \in Proc, dmq[p] # <<>>
    PROVE  /\ Head(dmq[p]) \in MessageAt(p)
           /\ Tail(dmq[p]) \in Seq(MessageAt(p))
BY HeadTailProperties DEF DmqTypes

\* Handling a message to its end leaves the queues' types.
LEMMA TailTypes ==
    ASSUME DmqTypes, NEW p \in Proc, dmq[p] # <<>>,
           dmq' = [dmq EXCEPT ![p] = Tail(@)]
    PROVE  DmqTypes'
BY HeadTypes, SubTypes DEF DmqTypes

\* A pending request is a request of its processor; removing it is harmless.
LEMMA PendingTypes ==
    ASSUME AccTypes, NEW p \in Proc, NEW i \in DOMAIN acc[p]
    PROVE  /\ acc[p][i] \in TagAt(p)
           /\ RemoveAt(acc[p], i) \in Seq(TagAt(p))
           /\ acc[p][i].proc # p => acc[p][i] \in Unnamed
<1>1. acc[p] \in Seq(TagAt(p)) /\ DOMAIN acc[p] = 1..Len(acc[p])
  BY LenProperties DEF AccTypes
<1>2. acc[p][i] \in TagAt(p)
  BY <1>1, ElementOfSeq
<1>3. QED
  BY <1>1, <1>2, RemoveAtType DEF TagAt, OwnTag, Unnamed

\* Replacing one processor's list by a list of its own requests
LEMMA AccUpdateTypes ==
    ASSUME AccTypes, NEW p \in Proc, NEW s \in Seq(TagAt(p)),
           acc' = [acc EXCEPT ![p] = s]
    PROVE  AccTypes'
BY SubTypes DEF AccTypes

-----------------------------------------------------------------------------
(* Typing, one action at a time                                            *)

\* The initial state is typed.
LEMMA InitTypes == Init => TypeInv
<1> SUFFICES ASSUME Init PROVE TypeInv
  OBVIOUS
<1> USE ProcAssumption
<1>1. PlainTypes
  BY DEF Init, PlainTypes, Where, Phase
<1>2. AccTypes
  BY DEF Init, AccTypes
<1>3. DmqTypes
  <2>1. Data(Home, 0, {}) \in MessageAt(Home)
    BY DEF Data, MessageAt, Message, Labelled, Tag, OwnTag, Mode
  <2>2. <<Data(Home, 0, {})>> \in Seq(MessageAt(Home))
    BY <2>1
  <2>3. \A p \in Proc : dmq[p] \in Seq(MessageAt(p))
    BY <2>2 DEF Init
  <2>4. QED
    BY <2>3, SubTypes DEF Init, DmqTypes
<1>4. NetTypes
  BY DEF Init, NetTypes
<1>5. InHand
  BY DEF Init, InHand
<1>6. QED
  BY <1>1, <1>2, <1>3, <1>4, <1>5 DEF TypeInv

\* Requests and releases of tasks
LEMMA TaskStepTypes ==
    ASSUME TypeInv, NEW t \in Task, TaskStep(t)
    PROVE  TypeInv'
<1> DEFINE p == TaskProc[t]
<1> USE DEF TypeInv
<1>0. p \in Proc /\ TaskMode[t] \in Mode /\ TaskVersion[t] \in Nat \cup {AnyVersion}
  BY TaskAssumption
<1>1. CASE PostRequests(t)
  <2> DEFINE m == Request([task |-> t, proc |-> p, mode |-> TaskMode[t],
                           version |-> TaskVersion[t]])
  <2>1. m \in MessageAt(p)
    BY <1>0 DEF Request, MessageAt, Message, Labelled, Tag, OwnTag
  <2>2. dmq' = [dmq EXCEPT ![p] = Append(@, m)]
    BY <1>1 DEF PostRequests
  <2>3. DmqTypes' /\ \A q \in Proc : dmq[q] # <<>> => dmq'[q] # <<>>
    BY <1>0, <2>1, <2>2, AppendTypes
  <2>4. PlainTypes' /\ AccTypes' /\ NetTypes'
    BY <1>1 DEF PostRequests, PlainTypes, AccTypes, NetTypes, Phase
  <2>5. InHand'
    BY <1>1, <2>3 DEF PostRequests, InHand
  <2>6. QED
    BY <2>3, <2>4, <2>5
<1>2. CASE PostData(t)
  <2> DEFINE m == Data(p, got[t] + 1, {t})
  <2>1. m \in MessageAt(p)
    BY <1>0 DEF Data, MessageAt, Message, Labelled, Tag, OwnTag, Mode, Holder, PlainTypes
  <2>2. dmq' = [dmq EXCEPT ![p] = Append(@, m)]
    BY <1>2 DEF PostData
  <2>3. DmqTypes' /\ \A q \in Proc : dmq[q] # <<>> => dmq'[q] # <<>>
    BY <1>0, <2>1, <2>2, AppendTypes
  <2>4. PlainTypes' /\ AccTypes' /\ NetTypes'
    BY <1>2 DEF PostData, PlainTypes, AccTypes, NetTypes, Phase
  <2>5. InHand'
    BY <1>2, <2>3 DEF PostData, InHand
  <2>6. QED
    BY <2>3, <2>4, <2>5
<1>3. CASE ClearPointer(t)
  <2>1. DropPointer(p, t)
    BY <1>3 DEF ClearPointer
  <2>2. /\ copies' \in [Proc -> SUBSET Copy] /\ DmqTypes'
        /\ \A q \in Proc : dmq[q] # <<>> => dmq'[q] # <<>>
    BY <1>0, <2>1, DropPointerTypes
  <2>3. PlainTypes' /\ AccTypes' /\ NetTypes'
    BY <1>3, <2>2 DEF ClearPointer, PlainTypes, AccTypes, NetTypes, Phase
  <2>4. InHand'
    BY <1>3, <2>2 DEF ClearPointer, InHand
  <2>5. QED
    BY <2>2, <2>3, <2>4
<1>4. CASE ObjectChanged(t)
  <2>1. PlainTypes' /\ AccTypes' /\ NetTypes' /\ DmqTypes'
    BY <1>0, <1>4 DEF ObjectChanged, PlainTypes, AccTypes, NetTypes, DmqTypes, Phase
  <2>2. InHand'
    BY <1>4 DEF ObjectChanged, InHand
  <2>3. QED
    BY <2>1, <2>2
<1>5. QED
  BY <1>1, <1>2, <1>3, <1>4 DEF TaskStep

\* Task managers and communication threads
LEMMA DeliverTypes ==
    ASSUME TypeInv, NEW p \in Proc, Deliver(p) \/ ForgetStrayGrant(p)
    PROVE  TypeInv'
<1> USE DEF TypeInv
<1>1. CASE ForgetStrayGrant(p)
  <2>1. /\ copies' \in [Proc -> SUBSET Copy] /\ DmqTypes'
        /\ \A q \in Proc : dmq[q] # <<>> => dmq'[q] # <<>>
    BY <1>1, DropPointerTypes DEF ForgetStrayGrant
  <2>2. PlainTypes' /\ AccTypes' /\ NetTypes'
    BY <1>1, <2>1 DEF ForgetStrayGrant, PlainTypes, AccTypes, NetTypes
  <2>3. InHand'
    BY <1>1, <2>1 DEF ForgetStrayGrant, InHand
  <2>4. QED
    BY <2>1, <2>2, <2>3
<1>2. CASE Deliver(p)
  <2> DEFINE m == Head(net[p])
  <2>1. m \in Packet /\ Tail(net[p]) \in Seq(Packet)
    BY <1>2, HeadTailProperties DEF Deliver, NetTypes
  <2>2. NetTypes' /\ AccTypes'
    BY <1>2, <2>1 DEF Deliver, NetTypes, AccTypes
  <2>3. m \in MessageAt(p) /\ [m EXCEPT !.refs = {Daemon}] \in MessageAt(p)
    BY <2>1 DEF Packet, Unnamed, MessageAt, Message, Labelled, OwnTag, Holder
  <2>4. /\ copies' \in [Proc -> SUBSET Copy] /\ DmqTypes'
        /\ \A q \in Proc : dmq[q] # <<>> => dmq'[q] # <<>>
    <3>1. CASE m.kind = "dispose"
      <4>1. DropPointer(p, Daemon)
        BY <1>2, <3>1 DEF Deliver
      <4>2. QED
        BY <4>1, DropPointerTypes
    <3>2. CASE m.kind # "dispose"
      <4>1. copies' = copies
        BY <1>2, <3>2 DEF Deliver
      <4>2. PICK n \in MessageAt(p) : dmq' = [dmq EXCEPT ![p] = Append(@, n)]
        BY <1>2, <2>3, <3>2 DEF Deliver
      <4>3. QED
        BY <4>1, <4>2, AppendTypes DEF PlainTypes
    <3>3. QED
      BY <3>1, <3>2
  <2>5. changed' \in [Proc -> BOOLEAN]
    BY <1>2 DEF Deliver, PlainTypes
  <2>6. PlainTypes'
    BY <1>2, <2>4, <2>5 DEF Deliver, PlainTypes
  <2>7. InHand'
    BY <1>2, <2>4 DEF Deliver, InHand
  <2>8. QED
    BY <2>2, <2>4, <2>6, <2>7
<1>3. QED
  BY <1>1, <1>2

\* The service thread takes messages.
LEMMA HandleMessageTypes ==
    ASSUME TypeInv, NEW p \in Proc, HandleMessage(p) \/ SettleOwner(p)
    PROVE  TypeInv'
<1> DEFINE m == Head(dmq[p])
<1> USE DEF TypeInv
<1>0. dmq[p] # <<>> /\ m \in MessageAt(p)
  <2>1. dmq[p] # <<>>
    BY DEF HandleMessage, HandleData, HandleOwner, ForwardRequest, QueueRequest,
           NextMessage, SettleOwner, InHand
  <2>2. QED
    BY <2>1, HeadTypes
<1>a. m.tag \in TagAt(p) /\ m.refs \in SUBSET Holder /\ Labelled(m)
  BY <1>0 DEF MessageAt, Message, TagAt
<1>b. Handler \in Holder
  BY DEF Holder
<1>1. CASE HandleData(p)
  <2>1. m.tag.version \in Nat
    BY <1>1, <1>a DEF HandleData, NextMessage, Labelled
  <2>2. copies' \in [Proc -> SUBSET Copy]
    BY <1>1, <1>a, <2>1, WithVersionType DEF HandleData
  <2>3. DmqTypes'
    BY <1>0, <1>1, TailTypes DEF HandleData
  <2>4. PlainTypes' /\ AccTypes' /\ NetTypes'
    BY <1>1, <2>2 DEF HandleData, PlainTypes, AccTypes, NetTypes, Where
  <2>5. InHand'
    BY <1>1 DEF HandleData, InHand, PlainTypes
  <2>6. QED
    BY <2>3, <2>4, <2>5
<1>2. CASE HandleOwner(p)
  <2>1. m.tag.version \in Nat
    BY <1>2, <1>a DEF HandleOwner, NextMessage, Labelled
  <2>2. copies' \in [Proc -> SUBSET Copy]
    <3>1. m.refs \cup {Handler} \in SUBSET Holder
      BY <1>a, <1>b
    <3>2. QED
      BY <1>2, <2>1, <3>1, WithVersionType DEF HandleOwner
  <2>3. PlainTypes' /\ AccTypes' /\ NetTypes' /\ DmqTypes'
    BY <1>2, <2>2 DEF HandleOwner, PlainTypes, AccTypes, NetTypes, DmqTypes, Where
  <2>4. InHand'
    BY <1>0, <1>2 DEF HandleOwner, InHand, PlainTypes
  <2>5. QED
    BY <2>3, <2>4
<1>3. CASE SettleOwner(p)
  <2>1. copies' \in [Proc -> SUBSET Copy]
    <3>1. \A c \in Copy : [c EXCEPT !.refs = @ \ {Handler}] \in Copy
      BY DEF Copy
    <3>2. WithoutHolder(copies[p], Handler) \subseteq Copy
      BY <3>1 DEF WithoutHolder, PlainTypes
    <3>3. QED
      BY <1>3, <3>2 DEF SettleOwner, PlainTypes
  <2>2. DmqTypes'
    BY <1>0, <1>3, TailTypes DEF SettleOwner
  <2>3. owner' \in [Proc -> Proc]
    <3>1. m.tag.proc \in Proc
      BY <1>a DEF TagAt, Tag
    <3>2. QED
      BY <1>3, <3>1 DEF SettleOwner, PlainTypes
  <2>4. PlainTypes' /\ AccTypes' /\ NetTypes'
    BY <1>3, <2>1, <2>3 DEF SettleOwner, PlainTypes, AccTypes, NetTypes, Where
  <2>5. InHand'
    BY <1>3 DEF SettleOwner, InHand, PlainTypes
  <2>6. QED
    BY <2>2, <2>4, <2>5
<1>4. CASE ForwardRequest(p)
  <2>1. m.tag \in Unnamed
    BY <1>4, <1>a DEF ForwardRequest, TagAt, OwnTag, Unnamed
  <2>2. Request(m.tag) \in Packet
    BY <2>1 DEF Request, Packet, Message, Labelled, Unnamed
  <2>3. NetTypes'
    <3>1. Append(net[owner[p]], Request(m.tag)) \in Seq(Packet)
      BY <2>2 DEF NetTypes, PlainTypes
    <3>2. QED
      BY <1>4, <3>1 DEF ForwardRequest, NetTypes
  <2>4. DmqTypes'
    BY <1>0, <1>4, TailTypes DEF ForwardRequest
  <2>5. PlainTypes' /\ AccTypes'
    BY <1>4 DEF ForwardRequest, PlainTypes, AccTypes
  <2>6. InHand'
    BY <1>4 DEF ForwardRequest, NextMessage, InHand
  <2>7. QED
    BY <2>3, <2>4, <2>5, <2>6
<1>5. CASE QueueRequest(p)
  <2> DEFINE r == Request(Filed(m.tag, p))
  <2>1. r \in Packet
    BY <1>a DEF Request, Filed, Packet, Message, Labelled, Unnamed, TagAt, Tag
  <2>2. NetTypes'
    <3>1. Append(net[owner[p]], r) \in Seq(Packet)
      BY <2>1 DEF NetTypes, PlainTypes
    <3>2. net' \in {net, [net EXCEPT ![owner[p]] = Append(@, r)]}
      BY <1>5 DEF QueueRequest
    <3>3. QED
      BY <3>1, <3>2 DEF NetTypes
  <2>3. AccTypes'
    <3>1. PICK n \in 0..Len(acc[p]) :
            acc' = [acc EXCEPT ![p] = InsertAt(@, n + 1, m.tag)]
      BY <1>5 DEF QueueRequest
    <3>2. InsertAt(acc[p], n + 1, m.tag) \in Seq(TagAt(p))
      BY <1>a, InsertAtType DEF AccTypes
    <3>3. QED
      BY <3>1, <3>2, AccUpdateTypes
  <2>4. DmqTypes'
    BY <1>0, <1>5, TailTypes DEF QueueRequest
  <2>5. PlainTypes'
    BY <1>5 DEF QueueRequest, PlainTypes, Where
  <2>6. InHand'
    BY <1>5 DEF QueueRequest, InHand, PlainTypes
  <2>7. QED
    BY <2>2, <2>3, <2>4, <2>5, <2>6
<1>6. QED
  BY <1>1, <1>2, <1>3, <1>4, <1>5 DEF HandleMessage

\* Verifying pending requests and flushing changed objects
LEMMA VerifyTypes ==
    ASSUME TypeInv, NEW p \in Proc, NEW c \in copies[p],
           \/ RejectRequest(p, c) \/ GrantRead(p, c)
           \/ GrantLocalWrite(p, c) \/ TransferOwnership(p, c)
    PROVE  TypeInv'
<1> USE DEF TypeInv
<1>0. c \in Copy /\ c.label \in Nat /\ copies[p] \subseteq Copy
  BY DEF PlainTypes, Copy
<1>a. <<>> \in [1..0 -> Unnamed] /\ 0 \in Nat
  OBVIOUS
<1>1. CASE RejectRequest(p, c)
  <2>1. PICK i \in DOMAIN acc[p] :
          /\ IsFirst(i, Incompatible(acc[p], c.label))
          /\ acc' = [acc EXCEPT ![p] = RemoveAt(@, i)]
          /\ \/ /\ acc[p][i].proc # p
                /\ SendOwnerTask(p, [acc[p][i] EXCEPT !.mode = "Read"], <<>>)
                /\ UNCHANGED phase
             \/ /\ acc[p][i].proc = p
                /\ phase' = [t \in Task |-> IF t = acc[p][i].task THEN "refused" ELSE phase[t]]
                /\ UNCHANGED <<net, changed>>
    BY <1>1 DEF RejectRequest
  <2> DEFINE tag == acc[p][i]
             sent == [tag EXCEPT !.mode = "Read"]
  <2>2. tag \in TagAt(p) /\ RemoveAt(acc[p], i) \in Seq(TagAt(p))
    BY PendingTypes
  <2>3. AccTypes'
    BY <2>1, <2>2, AccUpdateTypes
  <2>4. NetTypes' /\ changed' \in [Proc -> BOOLEAN]
    <3>1. CASE tag.proc # p
      <4>1. tag \in Unnamed
        BY <3>1, PendingTypes
      <4>2. sent \in Unnamed
        BY <4>1 DEF Unnamed, Tag, Mode
      <4>3. tag.version \in Nat
        BY <2>1, <2>2 DEF IsFirst, Incompatible, AmICompatible, TagAt, Tag
      <4>4. sent.version \in Nat
        BY <4>1, <4>3 DEF Unnamed, Tag
      <4>5. SendOwnerTask(p, sent, <<>>)
        BY <2>1, <3>1
      <4>6. QED
        BY <1>a, <4>2, <4>4, <4>5, SendOwnerTaskTypes DEF PlainTypes
    <3>2. CASE tag.proc = p
      BY <2>1, <3>2 DEF NetTypes, PlainTypes
    <3>3. QED
      BY <3>1, <3>2
  <2>5. phase' \in [Task -> Phase]
    BY <2>1 DEF PlainTypes, Phase
  <2>6. PlainTypes' /\ DmqTypes' /\ InHand'
    BY <1>1, <2>4, <2>5 DEF RejectRequest, PlainTypes, DmqTypes, InHand
  <2>7. QED
    BY <2>3, <2>4, <2>6
<1>2. CASE GrantRead(p, c)
  <2>1. PICK i \in DOMAIN acc[p] :
          LET tag == acc[p][i]
              h == IF tag.task = NoTask THEN Stray ELSE tag.task
          IN
          /\ acc' = [acc EXCEPT ![p] = RemoveAt(@, i)]
          /\ \/ /\ tag.proc = p
                /\ Grant(tag, c.label)
                /\ copies' = [copies EXCEPT ![p] = (@ \ {c}) \cup {WithHolder(c, h)}]
                /\ UNCHANGED <<net, changed>>
             \/ /\ tag.proc # p
                /\ SendOwnerTask(p, [tag EXCEPT !.version = c.label], <<>>)
                /\ UNCHANGED <<copies, phase, got>>
    BY <1>2 DEF GrantRead
  <2> DEFINE tag == acc[p][i]
             h == IF tag.task = NoTask THEN Stray ELSE tag.task
             sent == [tag EXCEPT !.version = c.label]
  <2>2. tag \in TagAt(p) /\ RemoveAt(acc[p], i) \in Seq(TagAt(p))
    BY PendingTypes
  <2>3. AccTypes'
    BY <2>1, <2>2, AccUpdateTypes
  <2>4. /\ NetTypes' /\ changed' \in [Proc -> BOOLEAN]
        /\ copies' \in [Proc -> SUBSET Copy]
        /\ phase' \in [Task -> Phase] /\ got' \in [Task -> Nat]
    <3>1. CASE tag.proc # p
      <4>1. tag \in Unnamed
        BY <3>1, PendingTypes
      <4>2. sent \in Unnamed /\ sent.version \in Nat
        BY <1>0, <4>1 DEF Unnamed, Tag
      <4>3. SendOwnerTask(p, sent, <<>>) /\ UNCHANGED <<copies, phase, got>>
        BY <2>1, <3>1
      <4>4. QED
        BY <1>a, <4>2, <4>3, SendOwnerTaskTypes DEF PlainTypes
    <3>2. CASE tag.proc = p
      <4>1. h \in Holder
        BY <2>2 DEF TagAt, Tag, Holder
      <4>2. WithHolder(c, h) \in Copy
        BY <1>0, <4>1 DEF WithHolder, Copy
      <4>3. copies' \in [Proc -> SUBSET Copy]
        BY <1>0, <2>1, <3>2, <4>2 DEF PlainTypes
      <4>4. phase' \in [Task -> Phase] /\ got' \in [Task -> Nat]
        BY <1>0, <2>1, <3>2 DEF Grant, PlainTypes, Phase
      <4>5. QED
        BY <2>1, <3>2, <4>3, <4>4 DEF NetTypes, PlainTypes
    <3>3. QED
      BY <3>1, <3>2
  <2>5. PlainTypes' /\ DmqTypes' /\ InHand'
    BY <1>2, <2>4 DEF GrantRead, PlainTypes, DmqTypes, InHand
  <2>6. QED
    BY <2>3, <2>4, <2>5
<1>b. /\ copies' = [copies EXCEPT ![p] = @ \ {c}] => copies' \in [Proc -> SUBSET Copy]
      /\ Leave(p) => pc' \in [Proc -> Where]
  BY DEF PlainTypes, Leave, Where
<1>c. MayWrite(p, c) /\ Leave(p) /\ UNCHANGED dmq => InHand'
  <2>1. MayWrite(p, c) => pc[p] \in {"nested", "verify"}
    BY DEF MayWrite, Verifying
  <2>2. QED
    BY <2>1 DEF Leave, InHand, PlainTypes
<1>3. CASE GrantLocalWrite(p, c)
  <2>1. PICK i \in DOMAIN acc[p] : /\ acc' = [acc EXCEPT ![p] = RemoveAt(@, i)]
                                   /\ Grant(acc[p][i], c.label)
    BY <1>3 DEF GrantLocalWrite
  <2>2. AccTypes'
    BY <2>1, PendingTypes, AccUpdateTypes
  <2>3. phase' \in [Task -> Phase] /\ got' \in [Task -> Nat]
    BY <1>0, <2>1 DEF Grant, PlainTypes, Phase
  <2>4. PlainTypes' /\ DmqTypes' /\ NetTypes'
    BY <1>3, <1>b, <2>3 DEF GrantLocalWrite, PlainTypes, DmqTypes, NetTypes
  <2>5. InHand'
    BY <1>3, <1>c DEF GrantLocalWrite
  <2>6. QED
    BY <2>2, <2>4, <2>5
<1>4. CASE TransferOwnership(p, c)
  <2>1. PICK i \in DOMAIN acc[p] :
          /\ acc[p][i].proc # p
          /\ \E n \in 0..Len(acc[p]) :
               \E s \in [1..n -> TransferredTags(p, acc[p][i].proc)] :
                 SendOwnerTask(p, [acc[p][i] EXCEPT !.version = c.label], s)
          /\ \E n \in 0..Len(acc[p]) : \E f \in [1..n -> RetainedIndices(p)] :
               acc' = [acc EXCEPT ![p] = [k \in 1..n |-> acc[p][f[k]]]]
          /\ owner' = [owner EXCEPT ![p] = acc[p][i].proc]
    BY <1>4, ZenonT(60) DEF TransferOwnership
  <2> DEFINE tag == acc[p][i]
             q == tag.proc
             sent == [tag EXCEPT !.version = c.label]
  <2>2. \A j \in DOMAIN acc[p] : acc[p][j] \in TagAt(p)
    BY PendingTypes
  <2>3. tag \in Unnamed /\ q \in Proc
    BY <2>1, PendingTypes DEF Unnamed, Tag
  <2>4. NetTypes' /\ changed' \in [Proc -> BOOLEAN]
    <3>1. PICK n \in 0..Len(acc[p]) : \E s \in [1..n -> TransferredTags(p, q)] :
            SendOwnerTask(p, sent, s)
      BY <2>1
    <3>2. PICK s \in [1..n -> TransferredTags(p, q)] : SendOwnerTask(p, sent, s)
      BY <3>1
    <3>3. TransferredTags(p, q) \subseteq Unnamed
      <4>1. \A x \in TagAt(p) : Localised(x, p) \in Unnamed
        BY DEF Localised, Filed, TagAt, Unnamed, Tag
      <4>2. QED
        BY <2>2, <4>1 DEF TransferredTags
    <3>4. s \in [1..n -> Unnamed]
      BY <3>3
    <3>5. sent \in Unnamed /\ sent.version \in Nat
      BY <1>0, <2>3 DEF Unnamed, Tag
    <3>6. n \in Nat
      BY LenProperties DEF AccTypes
    <3>7. QED
      BY <3>2, <3>4, <3>5, <3>6, SendOwnerTaskTypes DEF PlainTypes
  <2>5. AccTypes'
    <3>1. PICK n \in 0..Len(acc[p]) : \E f \in [1..n -> RetainedIndices(p)] :
            acc' = [acc EXCEPT ![p] = [k \in 1..n |-> acc[p][f[k]]]]
      BY <2>1
    <3>2. PICK f \in [1..n -> RetainedIndices(p)] :
            acc' = [acc EXCEPT ![p] = [k \in 1..n |-> acc[p][f[k]]]]
      BY <3>1
    <3>3. [k \in 1..n |-> acc[p][f[k]]] \in [1..n -> TagAt(p)]
      BY <2>2, <3>2 DEF RetainedIndices
    <3>4. n \in Nat
      BY LenProperties DEF AccTypes
    <3>5. [k \in 1..n |-> acc[p][f[k]]] \in Seq(TagAt(p))
      BY <3>3, <3>4, SeqDef
    <3>6. QED
      BY <3>2, <3>5, AccUpdateTypes
  <2>6. PlainTypes' /\ DmqTypes'
    BY <1>4, <1>b, <2>1, <2>3, <2>4 DEF TransferOwnership, PlainTypes, DmqTypes
  <2>7. InHand'
    BY <1>4, <1>c DEF TransferOwnership
  <2>8. QED
    BY <2>4, <2>5, <2>6, <2>7
<1>5. QED
  BY <1>1, <1>2, <1>3, <1>4

\* Every step keeps the invariant.
LEMMA NextTypes == TypeInv /\ [Next]_vars => TypeInv'
<1> SUFFICES ASSUME TypeInv, [Next]_vars PROVE TypeInv'
  OBVIOUS
<1>1. ASSUME NEW t \in Task, TaskStep(t) PROVE TypeInv'
  BY <1>1, TaskStepTypes
<1>2. ASSUME NEW p \in Proc, Deliver(p) \/ ForgetStrayGrant(p) PROVE TypeInv'
  BY <1>2, DeliverTypes
<1>3. ASSUME NEW p \in Proc, Service(p) PROVE TypeInv'
  <2>1. CASE HandleMessage(p) \/ SettleOwner(p)
    BY <2>1, HandleMessageTypes
  <2>2. CASE FlushData(p) \/ EndVerify(p)
    <3>1. UNCHANGED <<copies, owner, acc, dmq, net, phase, got>>
      BY <2>2 DEF FlushData, EndVerify
    <3>2. pc' \in [Proc -> Where] /\ changed' \in [Proc -> BOOLEAN]
      BY <2>2 DEF FlushData, EndVerify, Leave, TypeInv, PlainTypes, Where
    <3>3. InHand'
      BY <2>2, <3>1 DEF FlushData, EndVerify, Leave, TypeInv, PlainTypes, InHand
    <3>4. QED
      BY <3>1, <3>2, <3>3 DEF TypeInv, PlainTypes, AccTypes, DmqTypes, NetTypes
  <2>3. ASSUME NEW c \in copies[p],
               \/ RejectRequest(p, c) \/ GrantRead(p, c)
               \/ GrantLocalWrite(p, c) \/ TransferOwnership(p, c)
        PROVE  TypeInv'
    BY <2>3, VerifyTypes
  <2>4. QED
    BY <1>3, <2>1, <2>2, <2>3 DEF Service, Verify
<1>4. CASE UNCHANGED vars
  BY <1>4 DEF vars, TypeInv, PlainTypes, AccTypes, DmqTypes, NetTypes, InHand
<1>5. QED
  BY <1>1, <1>2, <1>3, <1>4 DEF Next

\* Queues, maps and tasks keep their types, and a version that a message
\* carries is never AnyVersion: for all processors, tasks and workloads.
THEOREM Typing == Spec => []TypeInv
<1>1. Init => TypeInv
  BY InitTypes
<1>2. TypeInv /\ [Next]_vars => TypeInv'
  BY NextTypes
<1>3. QED
  BY <1>1, <1>2, PTL DEF Spec

\* The type invariant that the runs check
THEOREM TypeCorrect == Spec => []TypeOK
<1>1. TypeInv => TypeOK
  <2>1. ASSUME NetTypes PROVE net \in [Proc -> Seq(Message)]
    BY <2>1, SubTypes DEF NetTypes
  <2>2. QED
    BY <2>1 DEF TypeInv, TypeOK, PlainTypes, AccTypes, DmqTypes
<1>2. QED
  BY <1>1, Typing, PTL

\* A request in the name of a task is only found on that task's processor, in
\* the task's mode; between processors requests are nobody's.  Whatever is
\* granted in a task's name is therefore granted where the task is.
THEOREM RequestsStay == Spec => []RequestsStayWithTheirTask
<1>1. TypeInv => RequestsStayWithTheirTask
  <2> SUFFICES ASSUME TypeInv, NEW p \in Proc
               PROVE  /\ \A i \in DOMAIN acc[p] : OwnTag(acc[p][i], p)
                      /\ \A i \in DOMAIN dmq[p] : OwnTag(dmq[p][i].tag, p)
                      /\ \A i \in DOMAIN net[p] : net[p][i].tag.task = NoTask
    BY DEF RequestsStayWithTheirTask
  <2>1. ASSUME NEW i \in DOMAIN acc[p] PROVE OwnTag(acc[p][i], p)
    BY PendingTypes DEF TypeInv, TagAt
  <2>2. ASSUME NEW i \in DOMAIN dmq[p] PROVE OwnTag(dmq[p][i].tag, p)
    <3>1. dmq[p][i] \in MessageAt(p)
      BY ElementOfSeq, LenProperties DEF TypeInv, DmqTypes
    <3>2. QED
      BY <3>1 DEF MessageAt
  <2>3. ASSUME NEW i \in DOMAIN net[p] PROVE net[p][i].tag.task = NoTask
    <3>1. net[p][i] \in Packet
      BY ElementOfSeq, LenProperties DEF TypeInv, NetTypes
    <3>2. QED
      BY <3>1 DEF Packet, Unnamed
  <2>4. QED
    BY <2>1, <2>2, <2>3
<1>2. QED
  BY <1>1, Typing, PTL

-----------------------------------------------------------------------------
(* Readers keep the version they read                                      *)

\* S holds version v for t
Held(S, v, t) == \E c \in S : c.label = v /\ t \in c.refs

\* A reader keeps its version through a step that goes on holding, for it,
\* every version that was held for it.
LEMMA StillHeld ==
    ASSUME ReadersKeepTheirCopy, NEW t \in Task, Reading(t), got'[t] = got[t],
           \A v : Held(copies[TaskProc[t]], v, t) => Held(copies'[TaskProc[t]], v, t)
    PROVE  Held(copies'[TaskProc[t]], got'[t], t)
BY DEF ReadersKeepTheirCopy, Held

\* Somebody else's letting go leaves t's version held.
LEMMA OthersLetGo ==
    ASSUME NEW S \in SUBSET Copy, NEW h, NEW t, t # h, NEW v, Held(S, v, t)
    PROVE  Held(WithoutHolder(S, h), v, t)
<1>1. PICK c \in S : c.label = v /\ t \in c.refs
  BY DEF Held
<1>2. /\ [c EXCEPT !.refs = @ \ {h}].label = v
      /\ t \in [c EXCEPT !.refs = @ \ {h}].refs
  BY <1>1 DEF Copy
<1>3. QED
  BY <1>1, <1>2 DEF Held, WithoutHolder

\* A submitted version never replaces one that is held.
LEMMA SubmittedBeside ==
    ASSUME PlainTypes, NEW p \in Proc, NEW w, NEW refs, copies' = WithVersion(p, w, refs),
           NEW q \in Proc, NEW t, NEW v, Held(copies[q], v, t)
    PROVE  Held(copies'[q], v, t)
BY DEF WithVersion, Held, PlainTypes

\* A version that nobody holds leaves beside the ones that are held.
LEMMA LeavesBeside ==
    ASSUME PlainTypes, NEW p \in Proc, NEW c, c.refs = {},
           copies' = [copies EXCEPT ![p] = @ \ {c}],
           NEW q \in Proc, NEW t, NEW v, Held(copies[q], v, t)
    PROVE  Held(copies'[q], v, t)
BY DEF Held, PlainTypes

\* Granting a read: the reader's version is held for it from now on, the other
\* readers' as before.
LEMMA GrantReadKeeps ==
    ASSUME TypeInv, ReadersKeepTheirCopy, NEW p \in Proc, NEW c \in copies[p],
           GrantRead(p, c), NEW t \in Task, Reading(t)'
    PROVE  Held(copies'[TaskProc[t]], got'[t], t)
<1> DEFINE q == TaskProc[t]
<1>0. /\ copies \in [Proc -> SUBSET Copy] /\ copies[p] \subseteq Copy /\ c \in Copy
      /\ phase \in [Task -> Phase] /\ got \in [Task -> Nat] /\ q \in Proc
  BY TaskAssumption DEF TypeInv, PlainTypes
<1>1. PICK i \in DOMAIN acc[p] :
        LET tag == acc[p][i]
            h == IF tag.task = NoTask THEN Stray ELSE tag.task
        IN
        \/ /\ tag.proc = p
           /\ Grant(tag, c.label)
           /\ copies' = [copies EXCEPT ![p] = (@ \ {c}) \cup {WithHolder(c, h)}]
        \/ UNCHANGED <<copies, phase, got>>
  BY DEF GrantRead
<1> DEFINE tag == acc[p][i]
           h == IF tag.task = NoTask THEN Stray ELSE tag.task
<1>2. OwnTag(tag, p)
  BY PendingTypes DEF TypeInv, TagAt
<1>3. CASE UNCHANGED <<copies, phase, got>>
  <2>1. Reading(t)
    BY <1>3 DEF Reading
  <2>2. QED
    BY <1>3, <2>1, StillHeld
<1>4. CASE /\ Grant(tag, c.label)
           /\ copies' = [copies EXCEPT ![p] = (@ \ {c}) \cup {WithHolder(c, h)}]
  <2>1. /\ WithHolder(c, h).label = c.label
        /\ WithHolder(c, h).refs = c.refs \cup {h}
    BY <1>0 DEF WithHolder, Copy
  <2>2. copies'[p] = (copies[p] \ {c}) \cup {WithHolder(c, h)}
    BY <1>0, <1>4
  <2>3. CASE t = tag.task
    <3>1. q = p /\ h = t
      BY <1>2, <2>3, HolderAssumption DEF OwnTag
    <3>2. got'[t] = c.label
      BY <1>4, <2>3 DEF Grant
    <3>3. QED
      BY <2>1, <2>2, <3>1, <3>2 DEF Held
  <2>4. CASE t # tag.task
    <3>1. Reading(t) /\ got'[t] = got[t]
      BY <1>4, <2>4 DEF Grant, Reading
    <3>2. ASSUME NEW v, Held(copies[q], v, t) PROVE Held(copies'[q], v, t)
      <4>1. CASE q = p
        BY <2>1, <2>2, <3>2, <4>1 DEF Held
      <4>2. CASE q # p
        <5>1. copies'[q] = copies[q]
          BY <1>0, <1>4, <4>2
        <5>2. QED
          BY <3>2, <5>1
      <4>3. QED
        BY <4>1, <4>2
    <3>3. QED
      BY <3>1, <3>2, StillHeld
  <2>5. QED
    BY <2>3, <2>4
<1>5. QED
  BY <1>1, <1>3, <1>4

\* Granting the object to a writer, here or elsewhere, takes no reader's version.
LEMMA GrantWriteKeeps ==
    ASSUME TypeInv, ReadersKeepTheirCopy, NEW p \in Proc, NEW c \in copies[p],
           GrantLocalWrite(p, c) \/ TransferOwnership(p, c),
           NEW t \in Task, Reading(t)'
    PROVE  Held(copies'[TaskProc[t]], got'[t], t)
<1>1. c.refs = {} /\ copies' = [copies EXCEPT ![p] = @ \ {c}]
  BY DEF GrantLocalWrite, TransferOwnership, MayWrite
<1>2. Reading(t) /\ got'[t] = got[t]
  <2>1. CASE TransferOwnership(p, c)
    BY <2>1 DEF TransferOwnership, Reading
  <2>2. CASE GrantLocalWrite(p, c)
    <3>1. PICK i \in DOMAIN acc[p] : /\ acc[p][i].mode = "Write"
                                     /\ Grant(acc[p][i], c.label)
      BY <2>2 DEF GrantLocalWrite, IsFirst, Compatible
    <3>2. OwnTag(acc[p][i], p)
      BY PendingTypes DEF TypeInv, TagAt
    <3>3. acc[p][i].task # t
      BY <3>1, <3>2, HolderAssumption DEF OwnTag, Reading, Writers
    <3>4. QED
      BY <3>1, <3>3 DEF Grant, Reading
  <2>3. QED
    BY <2>1, <2>2
<1>3. TaskProc[t] \in Proc
  BY TaskAssumption
<1>4. \A v : Held(copies[TaskProc[t]], v, t) => Held(copies'[TaskProc[t]], v, t)
  BY <1>1, <1>3, LeavesBeside DEF TypeInv
<1>5. QED
  BY <1>2, <1>4, StillHeld

\* The steps of tasks: only t itself lets t's version go.
LEMMA TaskStepKeeps ==
    ASSUME TypeInv, ReadersKeepTheirCopy, NEW u \in Task, TaskStep(u),
           NEW t \in Task, Reading(t)'
    PROVE  Held(copies'[TaskProc[t]], got'[t], t)
<1> USE DEF TypeInv
<1>1. t # u
  BY DEF TaskStep, PostRequests, PostData, ClearPointer, ObjectChanged, Reading, PlainTypes
<1>2. Reading(t) /\ got'[t] = got[t]
  BY <1>1 DEF TaskStep, PostRequests, PostData, ClearPointer, ObjectChanged, Reading, PlainTypes
<1>3. ASSUME NEW v, Held(copies[TaskProc[t]], v, t)
      PROVE  Held(copies'[TaskProc[t]], v, t)
  <2>1. CASE UNCHANGED copies
    BY <1>3, <2>1
  <2>2. CASE ClearPointer(u)
    <3>1. copies' = [copies EXCEPT ![TaskProc[u]] = WithoutHolder(@, u)]
      BY <2>2 DEF ClearPointer, DropPointer
    <3>2. TaskProc[t] \in Proc /\ TaskProc[u] \in Proc
      BY TaskAssumption
    <3>3. copies[TaskProc[t]] \in SUBSET Copy
      BY <3>2 DEF PlainTypes
    <3>4. CASE TaskProc[t] = TaskProc[u]
      BY <1>1, <1>3, <3>1, <3>2, <3>3, <3>4, OthersLetGo DEF PlainTypes
    <3>5. CASE TaskProc[t] # TaskProc[u]
      BY <1>3, <3>1, <3>2, <3>5 DEF PlainTypes
    <3>6. QED
      BY <3>4, <3>5
  <2>3. QED
    BY <2>1, <2>2 DEF TaskStep, PostRequests, PostData, ObjectChanged
<1>4. QED
  BY <1>2, <1>3, StillHeld

\* The other threads: what they let go of, they held themselves.
LEMMA ThreadStepKeeps ==
    ASSUME TypeInv, ReadersKeepTheirCopy, NEW p \in Proc,
           \/ Deliver(p) \/ ForgetStrayGrant(p)
           \/ HandleMessage(p) \/ SettleOwner(p) \/ FlushData(p) \/ EndVerify(p)
           \/ \E c \in copies[p] : RejectRequest(p, c),
           NEW t \in Task, Reading(t)'
    PROVE  Held(copies'[TaskProc[t]], got'[t], t)
<1> DEFINE q == TaskProc[t]
<1> USE DEF TypeInv
<1>0. q \in Proc /\ copies[q] \in SUBSET Copy /\ copies \in [Proc -> SUBSET Copy]
  BY TaskAssumption DEF PlainTypes
<1>1. Reading(t) /\ got'[t] = got[t]
  <2>1. CASE \E c \in copies[p] : RejectRequest(p, c)
    BY <2>1 DEF RejectRequest, Reading, PlainTypes
  <2>2. CASE UNCHANGED <<phase, got>>
    BY <2>2 DEF Reading
  <2>3. QED
    BY <2>1, <2>2 DEF Deliver, ForgetStrayGrant, HandleMessage, HandleData, HandleOwner,
                      ForwardRequest, QueueRequest, SettleOwner, FlushData, EndVerify
<1>2. \/ UNCHANGED copies
      \/ \E h \in {Daemon, Handler, Stray} :
           copies' = [copies EXCEPT ![p] = WithoutHolder(@, h)]
      \/ \E w, refs : copies' = WithVersion(p, w, refs)
  <2>1. CASE Deliver(p)
    BY <2>1 DEF Deliver, DropPointer
  <2>2. CASE ForgetStrayGrant(p)
    BY <2>2 DEF ForgetStrayGrant, DropPointer
  <2>3. CASE SettleOwner(p)
    BY <2>3 DEF SettleOwner
  <2>4. CASE HandleMessage(p)
    BY <2>4 DEF HandleMessage, HandleData, HandleOwner, ForwardRequest, QueueRequest
  <2>5. CASE FlushData(p) \/ EndVerify(p) \/ \E c \in copies[p] : RejectRequest(p, c)
    BY <2>5 DEF FlushData, EndVerify, RejectRequest
  <2>6. QED
    BY <2>1, <2>2, <2>3, <2>4, <2>5
<1>3. ASSUME NEW v, Held(copies[q], v, t)
      PROVE  Held(copies'[q], v, t)
  <2>1. CASE UNCHANGED copies
    BY <1>3, <2>1
  <2>2. ASSUME NEW h \in {Daemon, Handler, Stray},
               copies' = [copies EXCEPT ![p] = WithoutHolder(@, h)]
        PROVE  Held(copies'[q], v, t)
    <3>1. t # h
      BY HolderAssumption
    <3>2. CASE q = p
      BY <1>0, <1>3, <2>2, <3>1, <3>2, OthersLetGo
    <3>3. CASE q # p
      BY <1>0, <1>3, <2>2, <3>3
    <3>4. QED
      BY <3>2, <3>3
  <2>3. ASSUME NEW w, NEW refs, copies' = WithVersion(p, w, refs)
        PROVE  Held(copies'[q], v, t)
    BY <1>0, <1>3, <2>3, SubmittedBeside
  <2>4. QED
    BY <1>2, <2>1, <2>2, <2>3
<1>4. QED
  BY <1>1, <1>3, StillHeld

\* Whatever the processors, the workload and the interleaving, no writer is
\* given a version while a task of the same processor reads it: the version
\* stays in the map with the reader's reference counted.
THEOREM ReadersKeep == Spec => []ReadersKeepTheirCopy
<1>1. Init => ReadersKeepTheirCopy
  BY DEF Init, ReadersKeepTheirCopy, Reading
<1>2. TypeInv /\ ReadersKeepTheirCopy /\ [Next]_vars => ReadersKeepTheirCopy'
  <2> SUFFICES ASSUME TypeInv, ReadersKeepTheirCopy, [Next]_vars,
                      NEW t \in Task, Reading(t)'
               PROVE  Held(copies'[TaskProc[t]], got'[t], t)
    BY DEF ReadersKeepTheirCopy, Held
  <2>1. ASSUME NEW u \in Task, TaskStep(u)
        PROVE  Held(copies'[TaskProc[t]], got'[t], t)
    BY <2>1, TaskStepKeeps
  <2>2. ASSUME NEW p \in Proc, Deliver(p) \/ ForgetStrayGrant(p)
        PROVE  Held(copies'[TaskProc[t]], got'[t], t)
    BY <2>2, ThreadStepKeeps
  <2>3. ASSUME NEW p \in Proc, Service(p)
        PROVE  Held(copies'[TaskProc[t]], got'[t], t)
    <3>1. ASSUME NEW c \in copies[p], GrantRead(p, c)
          PROVE  Held(copies'[TaskProc[t]], got'[t], t)
      BY <3>1, GrantReadKeeps
    <3>2. ASSUME NEW c \in copies[p], GrantLocalWrite(p, c) \/ TransferOwnership(p, c)
          PROVE  Held(copies'[TaskProc[t]], got'[t], t)
      BY <3>2, GrantWriteKeeps
    <3>3. CASE \/ HandleMessage(p) \/ SettleOwner(p) \/ FlushData(p) \/ EndVerify(p)
               \/ \E c \in copies[p] : RejectRequest(p, c)
      BY <3>3, ThreadStepKeeps
    <3>4. QED
      BY <2>3, <3>1, <3>2, <3>3 DEF Service, Verify
  <2>4. CASE UNCHANGED vars
    <3>1. Reading(t) /\ UNCHANGED <<copies, got>>
      BY <2>4 DEF vars, Reading
    <3>2. QED
      BY <3>1, StillHeld
  <2>5. QED
    BY <2>1, <2>2, <2>3, <2>4 DEF Next
<1>3. QED
  BY <1>1, <1>2, Typing, PTL DEF Spec

-----------------------------------------------------------------------------
(* Sequences by position                                                   *)

\* An element taken away: the others stay in their order.
LEMMA Removed ==
    ASSUME NEW S, NEW s \in Seq(S), NEW k \in 1..Len(s)
    PROVE  /\ RemoveAt(s, k) \in Seq(S)
           /\ Len(RemoveAt(s, k)) = Len(s) - 1
           /\ \A i \in 1..Len(s) - 1 : RemoveAt(s, k)[i] = IF i < k THEN s[i] ELSE s[i + 1]
<1>1. Len(s) \in Nat /\ \A j \in 1..Len(s) : s[j] \in S
  BY LenProperties, ElementOfSeq
<1> DEFINE a == SubSeq(s, 1, k - 1)
           b == SubSeq(s, k + 1, Len(s))
<1>2. a \in Seq(S) /\ Len(a) = k - 1 /\ \A i \in 1..k - 1 : a[i] = s[i]
  <2>1. k - 1 \in Int /\ 1 \in Int /\ \A i \in 1..k - 1 : s[i] \in S
    BY <1>1
  <2>2. /\ a \in Seq(S) /\ Len(a) = IF 1 <= k - 1 THEN (k - 1) - 1 + 1 ELSE 0
        /\ \A i \in 1..(k - 1) - 1 + 1 : a[i] = s[1 + i - 1]
    BY <2>1, SubSeqProperties
  <2>3. QED
    BY <2>2, <1>1
<1>3. b \in Seq(S) /\ Len(b) = Len(s) - k /\ \A i \in 1..Len(s) - k : b[i] = s[k + i]
  <2>1. k + 1 \in Int /\ Len(s) \in Int /\ \A i \in k + 1..Len(s) : s[i] \in S
    BY <1>1
  <2>2. /\ b \in Seq(S) /\ Len(b) = IF k + 1 <= Len(s) THEN Len(s) - (k + 1) + 1 ELSE 0
        /\ \A i \in 1..Len(s) - (k + 1) + 1 : b[i] = s[(k + 1) + i - 1]
    BY <2>1, SubSeqProperties
  <2>3. QED
    BY <2>2, <1>1
<1>4. RemoveAt(s, k) = a \o b
  BY DEF RemoveAt
<1> HIDE DEF a, b
<1>5. /\ a \o b \in Seq(S) /\ Len(a \o b) = Len(a) + Len(b)
      /\ \A i \in 1..Len(a) + Len(b) :
           (a \o b)[i] = IF i <= Len(a) THEN a[i] ELSE b[i - Len(a)]
  BY <1>2, <1>3, ConcatProperties
<1>6. ASSUME NEW i \in 1..Len(s) - 1
      PROVE  (a \o b)[i] = IF i < k THEN s[i] ELSE s[i + 1]
  <2>1. i \in 1..Len(a) + Len(b) /\ (i < k <=> i <= Len(a))
    BY <1>1, <1>2, <1>3
  <2>2. CASE i < k
    BY <1>1, <1>2, <1>5, <2>1, <2>2
  <2>3. CASE ~(i < k)
    <3>1. i - Len(a) \in 1..Len(s) - k /\ k + (i - Len(a)) = i + 1
      BY <1>1, <1>2, <2>3
    <3>2. (a \o b)[i] = b[i - Len(a)]
      BY <1>5, <2>1, <2>3
    <3>3. QED
      BY <1>3, <2>3, <3>1, <3>2
  <2>4. QED
    BY <2>2, <2>3
<1>7. QED
  BY <1>1, <1>2, <1>3, <1>4, <1>5, <1>6

\* An element put in: the others stay in their order.
LEMMA Inserted ==
    ASSUME NEW S, NEW s \in Seq(S), NEW e \in S, NEW n \in 0..Len(s)
    PROVE  /\ InsertAt(s, n + 1, e) \in Seq(S)
           /\ Len(InsertAt(s, n + 1, e)) = Len(s) + 1
           /\ InsertAt(s, n + 1, e)[n + 1] = e
           /\ \A i \in 1..Len(s) : InsertAt(s, n + 1, e)[IF i <= n THEN i ELSE i + 1] = s[i]
           /\ \A i \in 1..Len(s) + 1 : InsertAt(s, n + 1, e)[i] =
                IF i <= n THEN s[i] ELSE IF i = n + 1 THEN e ELSE s[i - 1]
<1>1. Len(s) \in Nat /\ \A j \in 1..Len(s) : s[j] \in S
  BY LenProperties, ElementOfSeq
<1> DEFINE a == SubSeq(s, 1, (n + 1) - 1)
           b == SubSeq(s, n + 1, Len(s))
           x == <<e>>
<1>2. a \in Seq(S) /\ Len(a) = n /\ \A i \in 1..n : a[i] = s[i]
  <2>1. (n + 1) - 1 = n /\ n \in Int /\ 1 \in Int /\ \A i \in 1..n : s[i] \in S
    BY <1>1
  <2>2. /\ a \in Seq(S) /\ Len(a) = IF 1 <= n THEN n - 1 + 1 ELSE 0
        /\ \A i \in 1..n - 1 + 1 : a[i] = s[1 + i - 1]
    BY <2>1, SubSeqProperties
  <2>3. QED
    BY <2>2, <1>1
<1>3. b \in Seq(S) /\ Len(b) = Len(s) - n /\ \A i \in 1..Len(s) - n : b[i] = s[n + i]
  <2>1. n + 1 \in Int /\ Len(s) \in Int /\ \A i \in n + 1..Len(s) : s[i] \in S
    BY <1>1
  <2>2. /\ b \in Seq(S) /\ Len(b) = IF n + 1 <= Len(s) THEN Len(s) - (n + 1) + 1 ELSE 0
        /\ \A i \in 1..Len(s) - (n + 1) + 1 : b[i] = s[(n + 1) + i - 1]
    BY <2>1, SubSeqProperties
  <2>3. QED
    BY <2>2, <1>1
<1>4. x \in Seq(S) /\ Len(x) = 1 /\ x[1] = e
  OBVIOUS
<1>5. InsertAt(s, n + 1, e) = a \o x \o b
  BY DEF InsertAt
<1> HIDE DEF a, b, x
<1>6. /\ a \o x \in Seq(S) /\ Len(a \o x) = n + 1
      /\ \A i \in 1..n + 1 : (a \o x)[i] = IF i <= n THEN s[i] ELSE e
  <2>1. /\ a \o x \in Seq(S) /\ Len(a \o x) = Len(a) + Len(x)
        /\ \A i \in 1..Len(a) + Len(x) :
             (a \o x)[i] = IF i <= Len(a) THEN a[i] ELSE x[i - Len(a)]
    BY <1>2, <1>4, ConcatProperties
  <2>2. QED
    BY <1>1, <1>2, <1>4, <2>1
<1> DEFINE r == a \o x \o b
<1>7. /\ r \in Seq(S) /\ Len(r) = Len(s) + 1
      /\ \A i \in 1..Len(s) + 1 : r[i] = IF i <= n + 1 THEN (a \o x)[i] ELSE b[i - (n + 1)]
  <2>1. /\ r \in Seq(S) /\ Len(r) = Len(a \o x) + Len(b)
        /\ \A i \in 1..Len(a \o x) + Len(b) :
             r[i] = IF i <= Len(a \o x) THEN (a \o x)[i] ELSE b[i - Len(a \o x)]
    BY <1>3, <1>6, ConcatProperties
  <2>2. Len(a \o x) + Len(b) = Len(s) + 1
    BY <1>1, <1>3, <1>6
  <2>3. QED
    BY <1>6, <2>1, <2>2
<1> HIDE DEF r
<1>8. ASSUME NEW i \in 1..Len(s) + 1
      PROVE  r[i] = IF i <= n THEN s[i] ELSE IF i = n + 1 THEN e ELSE s[i - 1]
  <2>0. i \in Int /\ n \in Int
    BY <1>1
  <2>1. CASE i <= n + 1
    <3>0. i \in 1..n + 1
      BY <2>0, <2>1
    <3>1. r[i] = (a \o x)[i]
      BY <1>7, <2>1, Zenon
    <3>2. (a \o x)[i] = IF i <= n THEN s[i] ELSE e
      BY <1>6, <3>0
    <3>3. i <= n \/ i = n + 1
      BY <2>0, <2>1
    <3>4. QED
      BY <3>1, <3>2, <3>3, <2>0
  <2>2. CASE ~(i <= n + 1)
    <3>1. i - (n + 1) \in 1..Len(s) - n /\ n + (i - (n + 1)) = i - 1
      BY <1>1, <2>2
    <3>2. r[i] = b[i - (n + 1)]
      BY <1>7, <2>2
    <3>3. b[i - (n + 1)] = s[i - 1]
      BY <1>3, <3>1
    <3>4. ~(i <= n) /\ i # n + 1
      BY <2>0, <2>2
    <3>5. QED
      BY <3>2, <3>3, <3>4
  <2>3. QED
    BY <2>1, <2>2
<1>9. /\ r[n + 1] = e
      /\ \A i \in 1..Len(s) : r[IF i <= n THEN i ELSE i + 1] = s[i]
  <2>1. n \in 0..Len(s) /\ n + 1 \in 1..Len(s) + 1
    BY <1>1
  <2>2. r[n + 1] = e
    BY <1>8, <2>1
  <2>3. ASSUME NEW i \in 1..Len(s) PROVE r[IF i <= n THEN i ELSE i + 1] = s[i]
    <3>1. i \in 1..Len(s) + 1 /\ i + 1 \in 1..Len(s) + 1 /\ (i + 1) - 1 = i
      BY <1>1
    <3>2. CASE i <= n
      BY <1>8, <3>1, <3>2
    <3>3. CASE ~(i <= n)
      <4>1. ~(i + 1 <= n) /\ i + 1 # n + 1
        BY <1>1, <3>3
      <4>2. r[i + 1] = s[(i + 1) - 1]
        BY <1>8, <3>1, <4>1
      <4>3. QED
        BY <3>1, <3>3, <4>2
    <3>4. QED
      BY <3>2, <3>3
  <2>4. QED
    BY <2>2, <2>3
<1>10. QED
  BY <1>5, <1>7, <1>8, <1>9 DEF r

-----------------------------------------------------------------------------
(* A task has one request, and waits while it is pending                   *)

TagsOf(s) == [i \in DOMAIN s |-> s[i].tag]
Names(s, t) == \E i \in DOMAIN s : s[i].task = t
NamesOnce(s, t) == \A i, j \in DOMAIN s : s[i].task = t /\ s[j].task = t => i = j
AsWanted(s, t) == \A i \in DOMAIN s : s[i].task = t => s[i].version = TaskVersion[t]

\* r has no other requests of t than s has.
NoMore(r, s, t) == /\ NamesOnce(s, t) => NamesOnce(r, t)
                   /\ \A i \in DOMAIN r : r[i].task = t => \E j \in DOMAIN s : s[j] = r[i]

RequestInv(t) ==
    LET a == acc[TaskProc[t]]
        d == TagsOf(dmq[TaskProc[t]])
    IN  /\ NamesOnce(a, t) /\ NamesOnce(d, t) /\ ~(Names(a, t) /\ Names(d, t))
        /\ Names(a, t) \/ Names(d, t) => phase[t] = "waiting"
        /\ AsWanted(a, t) /\ AsWanted(d, t)
RequestsInv == \A t \in Task : RequestInv(t)

\* Sequences that lose requests, or gain some of others
LEMMA SameTags == ASSUME NEW s, NEW t PROVE NoMore(s, s, t)
  BY DEF NoMore

LEMMA TailTags ==
    ASSUME NEW s \in Seq(Tag), s # <<>>, NEW t PROVE NoMore(Tail(s), s, t)
<1>1. /\ Tail(s) \in Seq(Tag) /\ Len(Tail(s)) = Len(s) - 1 /\ Len(s) \in Nat
      /\ \A i \in 1..Len(Tail(s)) : Tail(s)[i] = s[i + 1]
      /\ DOMAIN s = 1..Len(s) /\ DOMAIN Tail(s) = 1..Len(Tail(s))
  BY HeadTailProperties, LenProperties
<1>2. \A i \in DOMAIN Tail(s) : i + 1 \in DOMAIN s
  BY <1>1
<1> DEFINE r == Tail(s)
<1> HIDE DEF r
<1>3. \A i \in DOMAIN r : i + 1 \in DOMAIN s /\ r[i] = s[i + 1] /\ i \in Int
  BY <1>1, <1>2 DEF r
<1>4. QED
  BY <1>3 DEF NoMore, NamesOnce, r

LEMMA AppendTags ==
    ASSUME NEW s \in Seq(Tag), NEW e \in Tag, NEW t, e.task # t
    PROVE  NoMore(Append(s, e), s, t)
<1> DEFINE r == Append(s, e)
<1>1. /\ r \in Seq(Tag) /\ Len(r) = Len(s) + 1 /\ Len(s) \in Nat /\ r[Len(s) + 1] = e
      /\ \A i \in 1..Len(s) : r[i] = s[i]
      /\ DOMAIN s = 1..Len(s) /\ DOMAIN r = 1..Len(r)
  BY AppendProperties, LenProperties
<1> HIDE DEF r
<1>2. \A i \in DOMAIN r : r[i].task = t => i \in DOMAIN s /\ r[i] = s[i]
  BY <1>1
<1>3. QED
  BY <1>2 DEF NoMore, NamesOnce, r

LEMMA RemovedTags ==
    ASSUME NEW s \in Seq(Tag), NEW k \in DOMAIN s, NEW t
    PROVE  /\ NoMore(RemoveAt(s, k), s, t)
           /\ NamesOnce(s, t) /\ s[k].task = t => ~Names(RemoveAt(s, k), t)
<1> DEFINE r == RemoveAt(s, k)
<1>1. DOMAIN s = 1..Len(s) /\ Len(s) \in Nat
  BY LenProperties
<1>2. /\ r \in Seq(Tag) /\ Len(r) = Len(s) - 1
      /\ \A i \in 1..Len(s) - 1 : r[i] = IF i < k THEN s[i] ELSE s[i + 1]
  BY <1>1, Removed
<1>3. DOMAIN r = 1..Len(s) - 1
  BY <1>2, LenProperties
<1> HIDE DEF r
<1> DEFINE f(i) == IF i < k THEN i ELSE i + 1
<1>4. /\ \A i \in DOMAIN r : f(i) \in DOMAIN s /\ r[i] = s[f(i)] /\ f(i) # k
      /\ \A i, j \in DOMAIN r : f(i) = f(j) => i = j
  BY <1>1, <1>2, <1>3
<1> HIDE DEF f
<1>5. QED
  BY <1>4 DEF NoMore, NamesOnce, Names, r

LEMMA InsertedTags ==
    ASSUME NEW s \in Seq(Tag), NEW e \in Tag, NEW n \in 0..Len(s), NEW t
    PROVE  /\ e.task # t => NoMore(InsertAt(s, n + 1, e), s, t)
           /\ e.task = t /\ e.version = TaskVersion[t] /\ ~Names(s, t) =>
                /\ NamesOnce(InsertAt(s, n + 1, e), t)
                /\ AsWanted(InsertAt(s, n + 1, e), t)
<1> DEFINE r == InsertAt(s, n + 1, e)
<1>1. DOMAIN s = 1..Len(s) /\ Len(s) \in Nat
  BY LenProperties
<1>2. /\ r \in Seq(Tag) /\ Len(r) = Len(s) + 1
      /\ \A i \in 1..Len(s) + 1 :
           r[i] = IF i <= n THEN s[i] ELSE IF i = n + 1 THEN e ELSE s[i - 1]
  BY Inserted
<1>3. DOMAIN r = 1..Len(s) + 1
  BY <1>2, LenProperties
<1> HIDE DEF r
<1> DEFINE f(i) == IF i <= n THEN i ELSE i - 1
<1>4. /\ \A i \in DOMAIN r : i # n + 1 => f(i) \in DOMAIN s /\ r[i] = s[f(i)]
      /\ \A i, j \in DOMAIN r : i # n + 1 /\ j # n + 1 /\ f(i) = f(j) => i = j
      /\ r[n + 1] = e
  BY <1>1, <1>2, <1>3
<1> HIDE DEF f
<1>5. ASSUME e.task # t PROVE NoMore(r, s, t)
  <2>1. \A i \in DOMAIN r : r[i].task = t => i # n + 1
    BY <1>4, <1>5
  <2>2. QED
    BY <1>4, <2>1 DEF NoMore, NamesOnce
<1>6. ASSUME e.task = t, e.version = TaskVersion[t], ~Names(s, t)
      PROVE  NamesOnce(r, t) /\ AsWanted(r, t)
  <2>1. \A i \in DOMAIN r : r[i].task = t => i = n + 1
    BY <1>4, <1>6 DEF Names
  <2>2. QED
    BY <1>4, <1>6, <2>1 DEF NamesOnce, AsWanted
<1>7. QED
  BY <1>5, <1>6 DEF r

\* The tags of a queue follow what happens to its messages.
LEMMA TagsOfQueue ==
    ASSUME NEW s \in Seq(Message)
    PROVE  /\ TagsOf(s) \in Seq(Tag) /\ Len(TagsOf(s)) = Len(s)
           /\ \A i \in 1..Len(s) : TagsOf(s)[i] = s[i].tag
           /\ \A m \in Message : TagsOf(Append(s, m)) = Append(TagsOf(s), m.tag)
           /\ \A h : TagsOf(MessagesWithout(s, h)) = TagsOf(s)
           /\ s # <<>> => /\ TagsOf(s) # <<>> /\ TagsOf(Tail(s)) = Tail(TagsOf(s))
                          /\ Head(TagsOf(s)) = Head(s).tag
<1>1. /\ Len(s) \in Nat /\ DOMAIN s = 1..Len(s) /\ \A i \in 1..Len(s) : s[i] \in Message
  BY LenProperties, ElementOfSeq
<1>2. TagsOf(s) \in [1..Len(s) -> Tag]
  BY <1>1 DEF TagsOf, Message
<1>3. TagsOf(s) \in Seq(Tag) /\ Len(TagsOf(s)) = Len(s)
  BY <1>1, <1>2, SeqDef
<1>4. \A i \in 1..Len(s) : TagsOf(s)[i] = s[i].tag
  BY <1>1 DEF TagsOf
<1>5. ASSUME NEW m \in Message PROVE TagsOf(Append(s, m)) = Append(TagsOf(s), m.tag)
  <2> DEFINE a == TagsOf(Append(s, m))
             b == Append(TagsOf(s), m.tag)
  <2>1. /\ Append(s, m) \in Seq(Message) /\ Len(Append(s, m)) = Len(s) + 1
        /\ Append(s, m)[Len(s) + 1] = m /\ \A i \in 1..Len(s) : Append(s, m)[i] = s[i]
        /\ DOMAIN Append(s, m) = 1..Len(s) + 1
    BY AppendProperties, LenProperties
  <2>2. a = [i \in 1..Len(s) + 1 |-> Append(s, m)[i].tag]
    BY <2>1 DEF TagsOf
  <2>3. m.tag \in Tag
    BY DEF Message
  <2>4. /\ b \in Seq(Tag) /\ Len(b) = Len(s) + 1
        /\ b[Len(s) + 1] = m.tag /\ \A i \in 1..Len(s) : b[i] = TagsOf(s)[i]
    BY <1>3, <2>3, AppendProperties
  <2>5. b = [i \in 1..Len(s) + 1 |-> b[i]]
    BY <2>4, LenProperties
  <2> HIDE DEF a, b
  <2>6. \A i \in 1..Len(s) + 1 : b[i] = Append(s, m)[i].tag
    BY <1>1, <1>4, <2>1, <2>4
  <2>7. QED
    BY <2>2, <2>5, <2>6 DEF a, b
<1>6. ASSUME NEW h PROVE TagsOf(MessagesWithout(s, h)) = TagsOf(s)
  BY <1>1 DEF TagsOf, MessagesWithout, Message
<1>7. ASSUME s # <<>>
      PROVE  /\ TagsOf(s) # <<>> /\ TagsOf(Tail(s)) = Tail(TagsOf(s))
             /\ Head(TagsOf(s)) = Head(s).tag
  <2> DEFINE d == TagsOf(s)
  <2>1. Len(s) # 0 /\ d # <<>>
    BY <1>1, <1>3, <1>7, EmptySeq
  <2>2. /\ Tail(s) \in Seq(Message) /\ Len(Tail(s)) = Len(s) - 1
        /\ \A i \in 1..Len(s) - 1 : Tail(s)[i] = s[i + 1]
        /\ DOMAIN Tail(s) = 1..Len(s) - 1
    BY <1>7, HeadTailProperties, LenProperties
  <2>3. /\ Tail(d) \in Seq(Tag) /\ Len(Tail(d)) = Len(s) - 1
        /\ \A i \in 1..Len(s) - 1 : Tail(d)[i] = d[i + 1]
    BY <1>3, <2>1, HeadTailProperties
  <2>4. Tail(d) = [i \in 1..Len(s) - 1 |-> Tail(d)[i]]
    BY <2>3, LenProperties
  <2>5. TagsOf(Tail(s)) = [i \in 1..Len(s) - 1 |-> Tail(s)[i].tag]
    BY <2>2 DEF TagsOf
  <2>6. \A i \in 1..Len(s) - 1 : Tail(d)[i] = Tail(s)[i].tag
    <3> HIDE DEF d
    <3>1. \A i \in 1..Len(s) : d[i] = s[i].tag
      BY <1>4 DEF d
    <3>2. QED
      BY <1>1, <2>2, <2>3, <3>1
  <2>7. TagsOf(Tail(s)) = Tail(d)
    BY <2>4, <2>5, <2>6
  <2>8. Head(d) = d[1] /\ Head(s) = s[1] /\ d[1] = s[1].tag
    BY <1>1, <1>3, <1>4, <2>1, <1>7
  <2>9. QED
    BY <2>1, <2>7, <2>8
<1>8. QED
  BY <1>3, <1>4, <1>5, <1>6, <1>7

\* What t waits for when no request of t has been added or forgotten
LEMMA RequestKept ==
    ASSUME NEW t \in Task, RequestInv(t), phase'[t] = phase[t],
           NoMore(acc'[TaskProc[t]], acc[TaskProc[t]], t),
           NoMore(TagsOf(dmq'[TaskProc[t]]), TagsOf(dmq[TaskProc[t]]), t)
    PROVE  RequestInv(t)'
<1> DEFINE a == acc[TaskProc[t]]
           b == acc'[TaskProc[t]]
           d == TagsOf(dmq[TaskProc[t]])
           e == TagsOf(dmq'[TaskProc[t]])
<1>1. /\ NamesOnce(a, t) /\ NamesOnce(d, t) /\ ~(Names(a, t) /\ Names(d, t))
      /\ Names(a, t) \/ Names(d, t) => phase[t] = "waiting"
      /\ AsWanted(a, t) /\ AsWanted(d, t)
  BY DEF RequestInv
<1>2. NoMore(b, a, t) /\ NoMore(e, d, t)
  OBVIOUS
<1> HIDE DEF a, b, d, e
<1>3. NamesOnce(b, t) /\ NamesOnce(e, t)
  BY <1>1, <1>2 DEF NoMore
<1>4. (Names(b, t) => Names(a, t)) /\ (Names(e, t) => Names(d, t))
  BY <1>2 DEF NoMore, Names
<1>5. AsWanted(b, t) /\ AsWanted(e, t)
  BY <1>1, <1>2 DEF NoMore, AsWanted
<1>6. /\ NamesOnce(b, t) /\ NamesOnce(e, t) /\ ~(Names(b, t) /\ Names(e, t))
      /\ Names(b, t) \/ Names(e, t) => phase'[t] = "waiting"
      /\ AsWanted(b, t) /\ AsWanted(e, t)
  BY <1>1, <1>3, <1>4, <1>5
<1>7. QED
  BY <1>6 DEF RequestInv, TagsOf, b, e, NamesOnce, Names, AsWanted

\* What becomes of the queues of a task's processor, in a word.
QuietFor(t) == /\ NoMore(acc'[TaskProc[t]], acc[TaskProc[t]], t)
               /\ NoMore(TagsOf(dmq'[TaskProc[t]]), TagsOf(dmq[TaskProc[t]]), t)

LEMMA QueueTypes ==
    ASSUME TypeInv, NEW p \in Proc
    PROVE  /\ dmq[p] \in Seq(Message) /\ TagsOf(dmq[p]) \in Seq(Tag) /\ acc[p] \in Seq(Tag)
           /\ net[p] \in Seq(Message)
           /\ \A i \in DOMAIN acc[p] : acc[p][i] \in TagAt(p) /\ acc[p][i] \in Tag
           /\ dmq[p] # <<>> => Head(dmq[p]) \in MessageAt(p) /\ Head(dmq[p]) \in Message
           /\ net[p] # <<>> => Head(net[p]) \in Packet /\ Head(net[p]) \in Message
<1>1. dmq[p] \in Seq(Message) /\ acc[p] \in Seq(Tag) /\ net[p] \in Seq(Packet)
  BY DEF TypeInv, DmqTypes, AccTypes, NetTypes
<1>2. net[p] \in Seq(Message)
  BY <1>1, SubTypes
<1>3. \A i \in DOMAIN acc[p] : acc[p][i] \in TagAt(p)
  BY PendingTypes DEF TypeInv
<1>4. dmq[p] # <<>> => Head(dmq[p]) \in MessageAt(p)
  BY HeadTypes DEF TypeInv
<1>5. net[p] # <<>> => Head(net[p]) \in Packet
  BY <1>1, HeadTailProperties
<1>6. TagAt(p) \subseteq Tag /\ MessageAt(p) \subseteq Message /\ Packet \subseteq Message
  BY DEF TagAt, MessageAt, Packet
<1>7. QED
  BY <1>1, <1>2, <1>3, <1>4, <1>5, <1>6, TagsOfQueue

\* The steps of a task add its request, at most.
LEMMA RequestTaskStep ==
    ASSUME TypeInv, NEW t \in Task, RequestInv(t), NEW u \in Task, TaskStep(u)
    PROVE  RequestInv(t)'
<1> DEFINE p == TaskProc[t]
           q == TaskProc[u]
<1>0. /\ p \in Proc /\ q \in Proc /\ TaskMode[u] \in Mode
      /\ TaskVersion[u] \in Nat \cup {AnyVersion}
      /\ dmq \in [Proc -> Seq(Message)] /\ phase \in [Task -> Phase] /\ got \in [Task -> Nat]
  BY TaskAssumption DEF TypeInv, DmqTypes, PlainTypes
<1>1. dmq[p] \in Seq(Message) /\ TagsOf(dmq[p]) \in Seq(Tag)
  BY <1>0, QueueTypes
<1>2. ASSUME NEW m \in Message, m.tag.task # t, acc' = acc,
             dmq' = [dmq EXCEPT ![q] = Append(@, m)]
      PROVE  QuietFor(t)
  <2>1. CASE p = q
    <3>1. dmq'[p] = Append(dmq[p], m) /\ m.tag \in Tag
      BY <1>0, <1>2, <2>1 DEF Message
    <3>2. TagsOf(dmq'[p]) = Append(TagsOf(dmq[p]), m.tag)
      BY <1>1, <1>2, <3>1, TagsOfQueue
    <3>3. QED
      BY <1>1, <1>2, <3>1, <3>2, AppendTags, SameTags DEF QuietFor
  <2>2. CASE p # q
    BY <1>0, <1>2, <2>2, SameTags DEF QuietFor
  <2>3. QED
    BY <2>1, <2>2
<1>3. CASE PostRequests(u)
  <2> DEFINE tag == [task |-> u, proc |-> q, mode |-> TaskMode[u], version |-> TaskVersion[u]]
  <2>1. /\ Request(tag) \in Message /\ Request(tag).tag = tag /\ tag.task = u
        /\ tag.version = TaskVersion[u] /\ tag \in Tag
    BY <1>0 DEF Request, Message, Tag
  <2>2. /\ dmq' = [dmq EXCEPT ![q] = Append(@, Request(tag))] /\ acc' = acc
        /\ phase[u] = "submitted" /\ phase' = [phase EXCEPT ![u] = "waiting"]
    BY <1>3 DEF PostRequests
  <2> HIDE DEF tag
  <2>3. CASE t # u
    <3>1. QuietFor(t)
      BY <1>2, <2>1, <2>2, <2>3
    <3>2. QED
      BY <1>0, <2>2, <2>3, <3>1, RequestKept DEF QuietFor
  <2>4. CASE t = u
    <3>1. ~Names(acc[p], t) /\ ~Names(TagsOf(dmq[p]), t)
      BY <2>2, <2>4 DEF RequestInv
    <3>2. TagsOf(dmq'[p]) = Append(TagsOf(dmq[p]), tag)
      BY <1>0, <1>1, <2>1, <2>2, <2>4, TagsOfQueue
    <3> DEFINE d == TagsOf(dmq[p])
               e == TagsOf(dmq'[p])
    <3>3. /\ Len(d) \in Nat /\ DOMAIN d = 1..Len(d) /\ DOMAIN e = 1..Len(d) + 1
          /\ e[Len(d) + 1] = tag /\ \A i \in 1..Len(d) : e[i] = d[i]
      BY <1>1, <2>1, <3>2, AppendProperties, LenProperties
    <3> HIDE DEF d, e
    <3>4. \A i \in DOMAIN e : e[i].task = t => i = Len(d) + 1
      BY <3>1, <3>3 DEF Names, d
    <3>5. NamesOnce(e, t) /\ AsWanted(e, t)
      BY <2>1, <2>4, <3>3, <3>4 DEF NamesOnce, AsWanted
    <3>6. ~Names(acc'[p], t) /\ NamesOnce(acc'[p], t) /\ AsWanted(acc'[p], t)
      BY <2>2, <3>1 DEF Names, NamesOnce, AsWanted
    <3>7. phase'[t] = "waiting"
      BY <1>0, <2>2, <2>4
    <3>8. QED
      BY <3>5, <3>6, <3>7 DEF RequestInv, e, TagsOf, NamesOnce, Names, AsWanted
  <2>5. QED
    BY <2>3, <2>4
<1>4. CASE ~PostRequests(u)
  <2>1. QuietFor(t)
    <3>1. CASE PostData(u)
      <4>1. Data(q, got[u] + 1, {u}) \in Message /\ Data(q, got[u] + 1, {u}).tag.task # t
        BY <1>0, HolderAssumption DEF Data, Message, Tag, Mode, Holder
      <4>2. QED
        BY <1>2, <3>1, <4>1 DEF PostData
    <3>2. CASE ClearPointer(u)
      <4>1. dmq' = [dmq EXCEPT ![q] = MessagesWithout(@, u)] /\ acc' = acc
        BY <3>2 DEF ClearPointer, DropPointer
      <4>2. TagsOf(dmq'[p]) = TagsOf(dmq[p])
        BY <1>0, <1>1, <4>1, TagsOfQueue
      <4>3. QED
        BY <4>1, <4>2, SameTags DEF QuietFor
    <3>3. CASE ObjectChanged(u)
      BY <3>3, SameTags DEF ObjectChanged, QuietFor
    <3>4. QED
      BY <1>4, <3>1, <3>2, <3>3 DEF TaskStep
  <2>2. CASE t # u
    <3>1. phase'[t] = phase[t]
      BY <1>0, <1>4, <2>2 DEF TaskStep, PostData, ClearPointer, ObjectChanged
    <3>2. QED
      BY <2>1, <3>1, RequestKept DEF QuietFor
  <2>3. CASE t = u
    <3>1. phase[t] # "waiting"
      BY <1>4, <2>3 DEF TaskStep, PostData, ClearPointer, ObjectChanged
    <3> DEFINE a == acc[p]
               b == acc'[p]
               d == TagsOf(dmq[p])
               e == TagsOf(dmq'[p])
    <3>2. ~Names(a, t) /\ ~Names(d, t) /\ NoMore(b, a, t) /\ NoMore(e, d, t)
      BY <2>1, <3>1 DEF RequestInv, QuietFor
    <3> HIDE DEF a, b, d, e
    <3>3. ~Names(b, t) /\ ~Names(e, t)
      BY <3>2 DEF NoMore, Names
    <3>4. QED
      BY <3>3 DEF RequestInv, TagsOf, b, e, NamesOnce, Names, AsWanted
  <2>4. QED
    BY <2>2, <2>3
<1>5. QED
  BY <1>3, <1>4

\* Granting or refusing a task's request takes it out of the list.
LEMMA RequestAnswered ==
    ASSUME TypeInv, NEW p \in Proc, NEW k \in DOMAIN acc[p],
           acc' = [acc EXCEPT ![p] = RemoveAt(@, k)], UNCHANGED dmq,
           NEW t \in Task, RequestInv(t), phase'[t] = phase[t] \/ acc[p][k].task = t
    PROVE  RequestInv(t)'
<1> DEFINE q == TaskProc[t]
           a == acc[q]
           b == acc'[q]
           d == TagsOf(dmq[q])
<1>0. q \in Proc /\ acc \in [Proc -> Seq(Tag)] /\ acc[p] \in Seq(Tag)
  BY TaskAssumption DEF TypeInv, AccTypes
<1>1. CASE acc[p][k].task # t
  <2>1. NoMore(b, a, t)
    <3>1. CASE p = q
      BY <1>0, <3>1, RemovedTags
    <3>2. CASE p # q
      BY <1>0, <3>2, SameTags
    <3>3. QED
      BY <3>1, <3>2
  <2>2. NoMore(TagsOf(dmq'[q]), TagsOf(dmq[q]), t)
    BY SameTags
  <2>3. QED
    BY <1>1, <2>1, <2>2, RequestKept
<1>2. CASE acc[p][k].task = t
  <2>1. p = q
    <3>1. OwnTag(acc[p][k], p)
      BY PendingTypes DEF TypeInv, TagAt
    <3>2. QED
      BY <1>2, <3>1, HolderAssumption DEF OwnTag
  <2>2. NamesOnce(a, t) /\ Names(a, t)
    BY <1>2, <2>1 DEF RequestInv, Names
  <2>3. b = RemoveAt(a, k)
    BY <1>0, <2>1
  <2>4. ~Names(b, t)
    BY <1>0, <1>2, <2>1, <2>2, <2>3, RemovedTags
  <2>5. ~Names(d, t) /\ TagsOf(dmq'[q]) = d
    BY <2>2 DEF RequestInv
  <2> HIDE DEF b, d
  <2>6. ~Names(TagsOf(dmq'[q]), t)
    BY <2>5
  <2>7. QED
    BY <2>4, <2>6 DEF RequestInv, b, TagsOf, NamesOnce, Names, AsWanted
<1>3. QED
  BY <1>1, <1>2

\* Verifying takes requests out of one list.
LEMMA RequestVerify ==
    ASSUME TypeInv, NEW p \in Proc, NEW c \in copies[p],
           \/ RejectRequest(p, c) \/ GrantRead(p, c)
           \/ GrantLocalWrite(p, c) \/ TransferOwnership(p, c),
           NEW t \in Task, RequestInv(t)
    PROVE  RequestInv(t)'
<1>0. phase \in [Task -> Phase] /\ acc \in [Proc -> Seq(Tag)] /\ TaskProc[t] \in Proc
  BY TaskAssumption DEF TypeInv, PlainTypes, AccTypes
<1>1. CASE RejectRequest(p, c)
  <2>1. PICK i \in DOMAIN acc[p] :
          /\ acc' = [acc EXCEPT ![p] = RemoveAt(@, i)]
          /\ \/ UNCHANGED phase
             \/ phase' = [u \in Task |-> IF u = acc[p][i].task THEN "refused" ELSE phase[u]]
    BY <1>1 DEF RejectRequest
  <2>2. phase'[t] = phase[t] \/ acc[p][i].task = t
    BY <2>1
  <2>3. UNCHANGED dmq
    BY <1>1 DEF RejectRequest
  <2>4. QED
    BY <2>1, <2>2, <2>3, RequestAnswered
<1>2. CASE GrantRead(p, c) \/ GrantLocalWrite(p, c)
  <2>1. PICK i \in DOMAIN acc[p] :
          /\ acc' = [acc EXCEPT ![p] = RemoveAt(@, i)]
          /\ Grant(acc[p][i], c.label) \/ UNCHANGED phase
    BY <1>2 DEF GrantRead, GrantLocalWrite
  <2>2. phase'[t] = phase[t] \/ acc[p][i].task = t
    BY <2>1 DEF Grant
  <2>3. UNCHANGED dmq
    BY <1>2 DEF GrantRead, GrantLocalWrite
  <2>4. QED
    BY <2>1, <2>2, <2>3, RequestAnswered
<1>3. CASE TransferOwnership(p, c)
  <2>1. PICK n \in 0..Len(acc[p]) : \E f \in [1..n -> RetainedIndices(p)] :
          /\ IsEnumeration(f, RetainedIndices(p))
          /\ acc' = [acc EXCEPT ![p] = [k \in 1..n |-> acc[p][f[k]]]]
    BY <1>3 DEF TransferOwnership
  <2>2. PICK f \in [1..n -> RetainedIndices(p)] :
          /\ IsEnumeration(f, RetainedIndices(p))
          /\ acc' = [acc EXCEPT ![p] = [k \in 1..n |-> acc[p][f[k]]]]
    BY <2>1
  <2>3. n \in Nat /\ DOMAIN f = 1..n
    BY <1>0, <2>2, LenProperties
  <2>4. \A i, j \in 1..n : f[i] = f[j] => i = j
    <3> SUFFICES ASSUME NEW i \in 1..n, NEW j \in 1..n, f[i] = f[j], i # j PROVE FALSE
      OBVIOUS
    <3>1. f[i] \in Int /\ f[j] \in Int
      <4>1. RetainedIndices(p) \subseteq Int
        BY <1>0, LenProperties DEF RetainedIndices
      <4>2. QED
        BY <4>1
    <3>2. i < j \/ j < i
      BY <2>3
    <3>3. f[i] < f[j] \/ f[j] < f[i]
      BY <2>2, <2>3, <3>2 DEF IsEnumeration
    <3>4. QED
      BY <3>1, <3>3
  <2> DEFINE b == [k \in 1..n |-> acc[p][f[k]]]
  <2>5. \A k \in 1..n : f[k] \in DOMAIN acc[p]
    BY DEF RetainedIndices
  <2>6. NoMore(b, acc[p], t)
    <3>1. DOMAIN b = 1..n /\ \A k \in 1..n : b[k] = acc[p][f[k]]
      OBVIOUS
    <3> HIDE DEF b
    <3>2. QED
      BY <2>4, <2>5, <3>1 DEF NoMore, NamesOnce
  <2>7. NoMore(acc'[TaskProc[t]], acc[TaskProc[t]], t)
    BY <1>0, <2>2, <2>6, SameTags
  <2>8. UNCHANGED <<dmq, phase>>
    BY <1>3 DEF TransferOwnership
  <2>9. QED
    BY <2>7, <2>8, SameTags, RequestKept
<1>4. QED
  BY <1>1, <1>2, <1>3

\* A request is moved from the queue to the list; other messages name no task.
LEMMA RequestService ==
    ASSUME TypeInv, NEW p \in Proc,
           Deliver(p) \/ ForgetStrayGrant(p) \/ HandleMessage(p) \/ SettleOwner(p),
           NEW t \in Task, RequestInv(t)
    PROVE  RequestInv(t)'
<1> DEFINE q == TaskProc[t]
<1>0. /\ q \in Proc /\ dmq \in [Proc -> Seq(Message)] /\ acc \in [Proc -> Seq(Tag)]
      /\ dmq[p] \in Seq(Message) /\ TagsOf(dmq[p]) \in Seq(Tag) /\ acc[p] \in Seq(Tag)
  BY TaskAssumption, QueueTypes DEF TypeInv, DmqTypes, AccTypes
<1>1. UNCHANGED phase
  BY DEF Deliver, ForgetStrayGrant, HandleMessage, HandleData, HandleOwner, ForwardRequest,
         QueueRequest, SettleOwner
<1>2. ASSUME UNCHANGED acc, NoMore(TagsOf(dmq'[p]), TagsOf(dmq[p]), t),
             \A r \in Proc \ {p} : dmq'[r] = dmq[r]
      PROVE  RequestInv(t)'
  <2>1. NoMore(TagsOf(dmq'[q]), TagsOf(dmq[q]), t)
    BY <1>0, <1>2, SameTags
  <2>2. QED
    BY <1>1, <1>2, <2>1, SameTags, RequestKept
<1>3. ASSUME NEW h, UNCHANGED acc, DropPointer(p, h)
      PROVE  RequestInv(t)'
  <2>1. TagsOf(dmq'[p]) = TagsOf(dmq[p]) /\ \A r \in Proc \ {p} : dmq'[r] = dmq[r]
    BY <1>0, <1>3, TagsOfQueue DEF DropPointer
  <2>2. QED
    BY <1>2, <1>3, <2>1, SameTags
<1>4. ASSUME UNCHANGED acc, dmq[p] # <<>>, dmq' = [dmq EXCEPT ![p] = Tail(@)]
      PROVE  RequestInv(t)'
  <2>1. dmq'[p] = Tail(dmq[p]) /\ \A r \in Proc \ {p} : dmq'[r] = dmq[r]
    BY <1>0, <1>4
  <2>2. TagsOf(dmq'[p]) = Tail(TagsOf(dmq[p])) /\ TagsOf(dmq[p]) # <<>>
    BY <1>0, <1>4, <2>1, TagsOfQueue
  <2>3. QED
    BY <1>0, <1>2, <1>4, <2>1, <2>2, TailTags
<1>5. CASE ForgetStrayGrant(p)
  BY <1>3, <1>5 DEF ForgetStrayGrant
<1>6. CASE Deliver(p)
  <2>1. UNCHANGED acc /\ net[p] # <<>>
    BY <1>6 DEF Deliver
  <2>2. CASE Head(net[p]).kind = "dispose"
    BY <1>3, <1>6, <2>1, <2>2 DEF Deliver
  <2>3. CASE Head(net[p]).kind # "dispose"
    <3> DEFINE m == Head(net[p])
    <3>1. m \in Packet /\ m \in Message
      BY <2>1, QueueTypes
    <3>2. PICK n \in {m, [m EXCEPT !.refs = {Daemon}]} : dmq' = [dmq EXCEPT ![p] = Append(@, n)]
      BY <1>6, <2>3 DEF Deliver
    <3>3. n \in Message /\ n.tag.task = NoTask /\ n.tag \in Tag
      BY <3>1 DEF Packet, Unnamed, Message, Holder
    <3>4. dmq'[p] = Append(dmq[p], n) /\ \A r \in Proc \ {p} : dmq'[r] = dmq[r]
      BY <1>0, <3>2
    <3>5. TagsOf(dmq'[p]) = Append(TagsOf(dmq[p]), n.tag)
      BY <1>0, <3>3, <3>4, TagsOfQueue
    <3>6. NoMore(TagsOf(dmq'[p]), TagsOf(dmq[p]), t)
      BY <1>0, <3>3, <3>5, AppendTags, HolderAssumption
    <3>7. QED
      BY <1>2, <2>1, <3>4, <3>6
  <2>4. QED
    BY <2>2, <2>3
<1>7. CASE HandleData(p) \/ ForwardRequest(p)
  BY <1>4, <1>7 DEF HandleData, ForwardRequest, NextMessage
<1>8. CASE HandleOwner(p)
  BY <1>2, <1>8, SameTags DEF HandleOwner
<1>9. CASE SettleOwner(p)
  <2>1. dmq[p] # <<>>
    BY <1>9 DEF SettleOwner, TypeInv, InHand
  <2>2. QED
    BY <1>4, <1>9, <2>1 DEF SettleOwner
<1>10. CASE QueueRequest(p)
  <2> DEFINE tag == Head(dmq[p]).tag
  <2>1. PICK n \in 0..Len(acc[p]) : acc' = [acc EXCEPT ![p] = InsertAt(@, n + 1, tag)]
    BY <1>10 DEF QueueRequest
  <2>2. dmq[p] # <<>> /\ dmq' = [dmq EXCEPT ![p] = Tail(@)]
    BY <1>10 DEF QueueRequest, NextMessage
  <2>3. tag \in Tag /\ OwnTag(tag, p)
    BY <2>2, QueueTypes DEF Message, MessageAt
  <2>4. dmq'[p] = Tail(dmq[p]) /\ acc'[p] = InsertAt(acc[p], n + 1, tag)
    BY <1>0, <2>1, <2>2
  <2>5. /\ TagsOf(dmq'[p]) = Tail(TagsOf(dmq[p])) /\ TagsOf(dmq[p]) # <<>>
        /\ Head(TagsOf(dmq[p])) = tag
    BY <1>0, <2>2, <2>4, TagsOfQueue
  <2> DEFINE a == acc[p]
             b == acc'[p]
             d == TagsOf(dmq[p])
             e == TagsOf(dmq'[p])
  <2>6. /\ tag.task # t => NoMore(b, a, t)
        /\ tag.task = t /\ tag.version = TaskVersion[t] /\ ~Names(a, t) =>
             NamesOnce(b, t) /\ AsWanted(b, t)
    BY <1>0, <2>1, <2>3, <2>4, InsertedTags
  <2>7. /\ Len(d) \in Nat /\ Len(d) # 0 /\ DOMAIN d = 1..Len(d) /\ DOMAIN e = 1..Len(d) - 1
        /\ d[1] = tag /\ \A i \in 1..Len(d) - 1 : e[i] = d[i + 1]
    <3>1. /\ Tail(d) \in Seq(Tag) /\ Len(Tail(d)) = Len(d) - 1
          /\ \A i \in 1..Len(d) - 1 : Tail(d)[i] = d[i + 1]
      BY <1>0, <2>5, HeadTailProperties
    <3>2. Len(d) # 0 /\ Len(d) \in Nat
      BY <1>0, <2>5, EmptySeq, LenProperties
    <3>3. QED
      BY <1>0, <2>5, <3>1, <3>2, LenProperties
  <2>8. CASE tag.task = t
    <3>1. q = p
      BY <2>3, <2>8, HolderAssumption DEF OwnTag
    <3>2. /\ NamesOnce(d, t) /\ Names(d, t) /\ ~Names(a, t) /\ AsWanted(d, t)
          /\ phase[t] = "waiting"
      BY <2>7, <2>8, <3>1 DEF RequestInv, Names
    <3> HIDE DEF a, b, d, e, tag
    <3>3. ~Names(e, t)
      BY <2>7, <2>8, <3>2 DEF Names, NamesOnce
    <3>5. tag.version = TaskVersion[t]
      BY <2>7, <2>8, <3>2 DEF AsWanted
    <3>6. NamesOnce(b, t) /\ AsWanted(b, t) /\ NamesOnce(e, t) /\ AsWanted(e, t)
      BY <2>6, <2>8, <3>2, <3>3, <3>5 DEF Names, NamesOnce, AsWanted
    <3>7. phase'[t] = "waiting"
      BY <1>1, <3>2
    <3>8. QED
      BY <3>1, <3>3, <3>6, <3>7 DEF RequestInv, b, e, TagsOf, NamesOnce, Names, AsWanted
  <2>9. CASE tag.task # t
    <3>1. NoMore(e, d, t)
      BY <1>0, <2>5, TailTags
    <3>2. NoMore(b, a, t)
      BY <2>6, <2>9
    <3>3. acc' = [acc EXCEPT ![p] = acc'[p]] /\ dmq' = [dmq EXCEPT ![p] = dmq'[p]]
      BY <1>0, <2>1, <2>2
    <3>4. CASE p = q
      BY <1>1, <3>1, <3>2, <3>4, RequestKept
    <3>5. CASE p # q
      <4>1. acc'[q] = acc[q] /\ dmq'[q] = dmq[q]
        BY <1>0, <3>3, <3>5
      <4>2. QED
        BY <1>1, <4>1, SameTags, RequestKept
    <3>6. QED
      BY <3>4, <3>5
  <2>10. QED
    BY <2>8, <2>9
<1>11. QED
  BY <1>5, <1>6, <1>7, <1>8, <1>9, <1>10 DEF HandleMessage

\* Every step keeps the requests in order.
LEMMA RequestsNext == TypeInv /\ RequestsInv /\ [Next]_vars => RequestsInv'
<1> SUFFICES ASSUME TypeInv, RequestsInv, [Next]_vars, NEW t \in Task PROVE RequestInv(t)'
  BY DEF RequestsInv
<1>0. RequestInv(t)
  BY DEF RequestsInv
<1>1. ASSUME NEW u \in Task, TaskStep(u) PROVE RequestInv(t)'
  BY <1>0, <1>1, RequestTaskStep
<1>2. ASSUME NEW p \in Proc, Deliver(p) \/ ForgetStrayGrant(p) PROVE RequestInv(t)'
  BY <1>0, <1>2, RequestService
<1>3. ASSUME NEW p \in Proc, Service(p) PROVE RequestInv(t)'
  <2>1. CASE HandleMessage(p) \/ SettleOwner(p)
    BY <1>0, <2>1, RequestService
  <2>2. CASE FlushData(p) \/ EndVerify(p)
    <3>1. UNCHANGED <<acc, dmq, phase>>
      BY <2>2 DEF FlushData, EndVerify
    <3>2. QED
      BY <1>0, <3>1, SameTags, RequestKept
  <2>3. ASSUME NEW c \in copies[p],
               \/ RejectRequest(p, c) \/ GrantRead(p, c)
               \/ GrantLocalWrite(p, c) \/ TransferOwnership(p, c)
        PROVE  RequestInv(t)'
    BY <1>0, <2>3, RequestVerify
  <2>4. QED
    BY <1>3, <2>1, <2>2, <2>3 DEF Service, Verify
<1>4. CASE UNCHANGED vars
  BY <1>0, <1>4, SameTags, RequestKept DEF vars
<1>5. QED
  BY <1>1, <1>2, <1>3, <1>4 DEF Next

LEMMA RequestsInit == Init => RequestsInv
<1> SUFFICES ASSUME Init, NEW t \in Task PROVE RequestInv(t)
  BY DEF RequestsInv
<1>1. TaskProc[t] \in Proc
  BY TaskAssumption
<1>2. acc[TaskProc[t]] = <<>>
  BY <1>1 DEF Init
<1>3. \A i \in DOMAIN dmq[TaskProc[t]] : dmq[TaskProc[t]][i].tag.task = NoTask
  BY <1>1 DEF Init, Data
<1>4. ~Names(acc[TaskProc[t]], t) /\ ~Names(TagsOf(dmq[TaskProc[t]]), t)
  <2>1. ~Names(acc[TaskProc[t]], t)
    BY <1>2 DEF Names
  <2>2. \A i \in DOMAIN TagsOf(dmq[TaskProc[t]]) : TagsOf(dmq[TaskProc[t]])[i].task = NoTask
    BY <1>3 DEF TagsOf
  <2>3. QED
    BY <2>1, <2>2, HolderAssumption DEF Names
<1>5. QED
  BY <1>4 DEF RequestInv, Names, NamesOnce, AsWanted

\* A request in a list that names a task: who waits for it, and for what
LEMMA Answering ==
    ASSUME TypeInv, RequestsInv, NEW p \in Proc, NEW k \in DOMAIN acc[p],
           acc[p][k].task \in Task
    PROVE  LET t == acc[p][k].task
           IN  /\ TaskProc[t] = p /\ TaskMode[t] = acc[p][k].mode
               /\ TaskVersion[t] = acc[p][k].version /\ phase[t] = "waiting"
<1> DEFINE t == acc[p][k].task
<1>1. OwnTag(acc[p][k], p)
  BY PendingTypes DEF TypeInv, TagAt
<1>2. TaskProc[t] = p /\ TaskMode[t] = acc[p][k].mode
  BY <1>1, HolderAssumption DEF OwnTag
<1>3. RequestInv(t)
  BY DEF RequestsInv
<1>4. Names(acc[TaskProc[t]], t)
  BY <1>2 DEF Names
<1>5. phase[t] = "waiting" /\ AsWanted(acc[TaskProc[t]], t)
  BY <1>3, <1>4 DEF RequestInv
<1>6. TaskVersion[t] = acc[p][k].version
  BY <1>2, <1>5 DEF AsWanted
<1>7. QED
  BY <1>2, <1>5, <1>6

-----------------------------------------------------------------------------
(* A version is the number of writes before it, at most                    *)

DoneWriters == {t \in Writers : Finished(t)}

IsCarrier(m) == m.kind \in {"data", "owner"}
Bounded(s, w) == \A i \in DOMAIN s : IsCarrier(s[i]) => s[i].tag.version <= w
LabelsUpTo(w) == /\ \A p \in Proc : \A c \in copies[p] : c.label <= w
                 /\ \A p \in Proc : Bounded(dmq[p], w) /\ Bounded(net[p], w)
                 /\ \A t \in Task : got[t] <= w
LabelsInv == IsFiniteSet(DoneWriters) /\ LabelsUpTo(WritesDone)

\* Only PostData finishes a write.
LEMMA WritesGrow ==
    ASSUME TypeInv, RequestsInv, IsFiniteSet(DoneWriters), [Next]_vars
    PROVE  /\ IsFiniteSet(DoneWriters)' /\ WritesDone \in Nat /\ WritesDone' \in Nat
           /\ WritesDone' = WritesDone \/ WritesDone' = WritesDone + 1
           /\ \A u \in Task : PostData(u) => WritesDone' = WritesDone + 1
           /\ (\A u \in Task : ~PostData(u)) => WritesDone' = WritesDone
<1>0. phase \in [Task -> Phase]
  BY DEF TypeInv, PlainTypes
<1>a. WritesDone = Cardinality(DoneWriters) /\ WritesDone' = Cardinality(DoneWriters')
  BY DEF WritesDone, DoneWriters
<1>b. WritesDone \in Nat
  BY <1>a, FS_CardinalityType
<1>1. ASSUME NEW u \in Task, PostData(u)
      PROVE  IsFiniteSet(DoneWriters') /\ WritesDone' = WritesDone + 1
  <2>1. DoneWriters' = DoneWriters \cup {u} /\ u \notin DoneWriters
    BY <1>0, <1>1 DEF PostData, DoneWriters, Writers, Finished
  <2>2. QED
    BY <1>a, <2>1, FS_AddElement
<1>2. ASSUME \A u \in Task : ~PostData(u)
      PROVE  DoneWriters' = DoneWriters
  <2>1. ASSUME NEW u \in Task, TaskStep(u) PROVE DoneWriters' = DoneWriters
    BY <1>0, <1>2, <2>1 DEF TaskStep, PostRequests, ClearPointer, ObjectChanged, DoneWriters,
                            Writers, Finished
  <2>2. ASSUME NEW p \in Proc, NEW k \in DOMAIN acc[p], NEW f \in {"refused", "holding"},
               phase' = [t \in Task |-> IF t = acc[p][k].task THEN f ELSE phase[t]]
        PROVE  DoneWriters' = DoneWriters
    <3>1. \A t \in Task : Finished(t)' <=> Finished(t)
      <4> SUFFICES ASSUME NEW t \in Task PROVE Finished(t)' <=> Finished(t)
        OBVIOUS
      <4>1. CASE t = acc[p][k].task
        <5>1. phase[t] = "waiting" /\ phase'[t] = f
          BY <2>2, <4>1, Answering
        <5>2. QED
          BY <5>1 DEF Finished
      <4>2. CASE t # acc[p][k].task
        BY <2>2, <4>2 DEF Finished
      <4>3. QED
        BY <4>1, <4>2
    <3>2. QED
      BY <3>1 DEF DoneWriters, Writers
  <2>3. ASSUME UNCHANGED phase PROVE DoneWriters' = DoneWriters
    BY <2>3 DEF DoneWriters, Finished, Writers
  <2>4. ASSUME NEW p \in Proc, Deliver(p) \/ ForgetStrayGrant(p) PROVE UNCHANGED phase
    BY <2>4 DEF Deliver, ForgetStrayGrant
  <2>5. ASSUME NEW p \in Proc, Service(p) PROVE DoneWriters' = DoneWriters
    <3>1. CASE HandleMessage(p) \/ SettleOwner(p) \/ FlushData(p) \/ EndVerify(p)
      BY <2>3, <3>1 DEF HandleMessage, HandleData, HandleOwner, ForwardRequest, QueueRequest,
                        SettleOwner, FlushData, EndVerify
    <3>2. ASSUME NEW c \in copies[p], RejectRequest(p, c) PROVE DoneWriters' = DoneWriters
      <4>1. PICK i \in DOMAIN acc[p] :
              \/ UNCHANGED phase
              \/ phase' = [t \in Task |-> IF t = acc[p][i].task THEN "refused" ELSE phase[t]]
        BY <3>2 DEF RejectRequest
      <4>2. QED
        BY <2>2, <2>3, <4>1
    <3>3. ASSUME NEW c \in copies[p], GrantRead(p, c) \/ GrantLocalWrite(p, c)
          PROVE  DoneWriters' = DoneWriters
      <4>1. PICK i \in DOMAIN acc[p] :
              \/ UNCHANGED phase
              \/ phase' = [t \in Task |-> IF t = acc[p][i].task THEN "holding" ELSE phase[t]]
        BY <3>3 DEF GrantRead, GrantLocalWrite, Grant
      <4>2. QED
        BY <2>2, <2>3, <4>1
    <3>4. ASSUME NEW c \in copies[p], TransferOwnership(p, c) PROVE UNCHANGED phase
      BY <3>4 DEF TransferOwnership
    <3>5. QED
      BY <2>3, <2>5, <3>1, <3>2, <3>3, <3>4 DEF Service, Verify
  <2>6. CASE UNCHANGED vars
    BY <2>3, <2>6 DEF vars
  <2>7. QED
    BY <2>1, <2>3, <2>4, <2>5, <2>6 DEF Next
<1>3. CASE \E u \in Task : PostData(u)
  BY <1>b, <1>1, <1>3
<1>4. CASE \A u \in Task : ~PostData(u)
  BY <1>a, <1>b, <1>2, <1>4
<1>5. QED
  BY <1>b, <1>1, <1>3, <1>4

\* Queues that keep to a bound
LEMMA BoundedQueues ==
    ASSUME NEW s \in Seq(Message), NEW w \in Nat, Bounded(s, w)
    PROVE  /\ \A m \in Message : (IsCarrier(m) => m.tag.version <= w) => Bounded(Append(s, m), w)
           /\ \A h : Bounded(MessagesWithout(s, h), w)
           /\ s # <<>> => /\ Bounded(Tail(s), w)
                          /\ IsCarrier(Head(s)) => Head(s).tag.version <= w
           /\ \A r \in Seq(Message) : Bounded(r, w) => Bounded(s \o r, w)
<1>1. /\ Len(s) \in Nat /\ DOMAIN s = 1..Len(s) /\ \A i \in 1..Len(s) : s[i] \in Message
      /\ \A i \in 1..Len(s) : IsCarrier(s[i]) => s[i].tag.version <= w
  BY LenProperties, ElementOfSeq DEF Bounded
<1>2. ASSUME NEW m \in Message, IsCarrier(m) => m.tag.version <= w
      PROVE  Bounded(Append(s, m), w)
  <2>1. /\ Len(Append(s, m)) = Len(s) + 1 /\ Append(s, m)[Len(s) + 1] = m
        /\ \A i \in 1..Len(s) : Append(s, m)[i] = s[i]
        /\ DOMAIN Append(s, m) = 1..Len(s) + 1
    BY AppendProperties, LenProperties
  <2>2. QED
    BY <1>1, <1>2, <2>1 DEF Bounded
<1>3. ASSUME NEW h PROVE Bounded(MessagesWithout(s, h), w)
  BY <1>1 DEF Bounded, MessagesWithout, IsCarrier, Message
<1>4. ASSUME s # <<>>
      PROVE  Bounded(Tail(s), w) /\ (IsCarrier(Head(s)) => Head(s).tag.version <= w)
  <2>1. /\ Len(Tail(s)) = Len(s) - 1 /\ DOMAIN Tail(s) = 1..Len(s) - 1
        /\ \A i \in 1..Len(s) - 1 : Tail(s)[i] = s[i + 1]
        /\ Len(s) # 0 /\ Head(s) = s[1]
    BY <1>1, <1>4, HeadTailProperties, LenProperties, EmptySeq
  <2>2. QED
    BY <1>1, <2>1 DEF Bounded
<1>5. ASSUME NEW r \in Seq(Message), Bounded(r, w) PROVE Bounded(s \o r, w)
  <2>1. /\ Len(r) \in Nat /\ DOMAIN r = 1..Len(r)
        /\ \A i \in 1..Len(r) : IsCarrier(r[i]) => r[i].tag.version <= w
    BY <1>5, LenProperties DEF Bounded
  <2>2. /\ DOMAIN (s \o r) = 1..Len(s) + Len(r)
        /\ \A i \in 1..Len(s) + Len(r) :
             (s \o r)[i] = IF i <= Len(s) THEN s[i] ELSE r[i - Len(s)]
    BY ConcatProperties, LenProperties
  <2> DEFINE q == s \o r
  <2> HIDE DEF q
  <2>3. ASSUME NEW i \in 1..Len(s) + Len(r), IsCarrier(q[i]) PROVE q[i].tag.version <= w
    <3>1. CASE i <= Len(s)
      BY <1>1, <2>2, <2>3, <3>1 DEF q
    <3>2. CASE ~(i <= Len(s))
      <4>1. i - Len(s) \in 1..Len(r) /\ q[i] = r[i - Len(s)]
        BY <1>1, <2>1, <2>2, <3>2 DEF q
      <4>2. QED
        BY <2>1, <2>3, <4>1
    <3>3. QED
      BY <3>1, <3>2
  <2>4. QED
    BY <2>2, <2>3 DEF Bounded, q
<1>6. QED
  BY <1>2, <1>3, <1>4, <1>5

\* An owner task carries one version.
LEMMA BoundedOwnerTask ==
    ASSUME NEW tag \in Unnamed, NEW n \in Nat, NEW s \in [1..n -> Unnamed], NEW w \in Nat,
           tag.version \in Nat, tag.version <= w
    PROVE  Bounded(OwnerTask(tag, s), w) /\ OwnerTask(tag, s) \in Seq(Message)
<1> DEFINE o == <<[kind |-> "owner", tag |-> tag, refs |-> {}]>>
           r == [i \in DOMAIN s |-> Request(s[i])]
           d == <<[kind |-> "dispose", tag |-> tag, refs |-> {}]>>
<1>1. OwnerTask(tag, s) \in Seq(Message)
  BY OwnerTaskType, SubTypes, ProcAssumption
<1>2. \A x \in Unnamed : Request(x) \in Message /\ Request(x).kind = "request"
  BY DEF Unnamed, Request, Message
<1>3. /\ [kind |-> "owner", tag |-> tag, refs |-> {}] \in Message
      /\ [kind |-> "dispose", tag |-> tag, refs |-> {}] \in Message
  BY DEF Unnamed, Message
<1>4. o \in Seq(Message) /\ d \in Seq(Message)
  BY <1>3
<1>5. r \in Seq(Message)
  <2>1. [i \in 1..n |-> Request(s[i])] \in [1..n -> Message]
    BY <1>2
  <2>2. DOMAIN s = 1..n
    OBVIOUS
  <2>3. QED
    BY <2>1, <2>2, SeqDef
<1>6. Bounded(o, w) /\ Bounded(d, w)
  BY DEF Bounded, IsCarrier
<1>7. Bounded(r, w)
  <2>1. \A i \in DOMAIN s : r[i].kind = "request"
    BY <1>2
  <2>2. QED
    BY <2>1 DEF Bounded, IsCarrier
<1>8. OwnerTask(tag, s) = (o \o r) \o d
  BY DEF OwnerTask
<1> HIDE DEF o, r, d
<1>9. o \o r \in Seq(Message) /\ Bounded(o \o r, w)
  BY <1>4, <1>5, <1>6, <1>7, BoundedQueues, ConcatProperties
<1>10. QED
  BY <1>1, <1>4, <1>6, <1>8, <1>9, BoundedQueues

\* A higher bound
LEMMA BoundGrows ==
    ASSUME TypeInv, NEW w \in Nat, NEW v \in Nat, w <= v, LabelsUpTo(w)
    PROVE  LabelsUpTo(v)
<1>1. ASSUME NEW p \in Proc, NEW c \in copies[p] PROVE c.label <= v
  <2>1. c.label \in Nat /\ c.label <= w
    BY DEF LabelsUpTo, TypeInv, PlainTypes, Copy
  <2>2. QED
    BY <2>1
<1>2. ASSUME NEW s \in Seq(Message), Bounded(s, w),
             \A i \in DOMAIN s : IsCarrier(s[i]) => s[i].tag.version \in Nat
      PROVE  Bounded(s, v)
  BY <1>2 DEF Bounded
<1>3. ASSUME NEW p \in Proc PROVE Bounded(dmq[p], v) /\ Bounded(net[p], v)
  <2>1. \A m \in MessageAt(p) : IsCarrier(m) => m.tag.version \in Nat
    BY DEF MessageAt, Labelled, IsCarrier
  <2>2. /\ \A i \in DOMAIN dmq[p] : dmq[p][i] \in MessageAt(p)
        /\ \A i \in DOMAIN net[p] : net[p][i] \in MessageAt(p)
    <3>1. dmq[p] \in Seq(MessageAt(p)) /\ net[p] \in Seq(Packet)
      BY DEF TypeInv, DmqTypes, NetTypes
    <3>2. QED
      BY <3>1, SubTypes, LenProperties, ElementOfSeq
  <2>3. QED
    BY <1>2, <2>1, <2>2, QueueTypes DEF LabelsUpTo
<1>4. \A t \in Task : got[t] <= v
  <2>1. got \in [Task -> Nat]
    BY DEF TypeInv, PlainTypes
  <2>2. QED
    BY <2>1 DEF LabelsUpTo
<1>5. QED
  BY <1>1, <1>3, <1>4 DEF LabelsUpTo

\* Letting a pointer go changes no label.
LEMMA DroppedLabels ==
    ASSUME TypeInv, NEW w \in Nat, LabelsUpTo(w), NEW p \in Proc, NEW h,
           DropPointer(p, h), UNCHANGED got,
           UNCHANGED net \/ \A q \in Proc : Bounded(net'[q], w)
    PROVE  LabelsUpTo(w)'
<1>0. copies \in [Proc -> SUBSET Copy] /\ dmq \in [Proc -> Seq(Message)]
  BY DEF TypeInv, PlainTypes, DmqTypes
<1>1. \A q \in Proc : \A c \in copies'[q] : c.label <= w
  <2>1. copies' = [copies EXCEPT ![p] = WithoutHolder(@, h)]
    BY DEF DropPointer
  <2>2. \A c \in Copy : [c EXCEPT !.refs = @ \ {h}].label = c.label
    BY DEF Copy
  <2>3. \A c \in WithoutHolder(copies[p], h) : c.label <= w
    BY <1>0, <2>2 DEF WithoutHolder, LabelsUpTo
  <2>4. QED
    BY <1>0, <2>1, <2>3 DEF LabelsUpTo
<1>2. \A q \in Proc : Bounded(dmq'[q], w)
  <2>1. Bounded(MessagesWithout(dmq[p], h), w)
    BY <1>0, BoundedQueues DEF LabelsUpTo
  <2>2. QED
    BY <1>0, <2>1 DEF DropPointer, LabelsUpTo
<1>3. (\A q \in Proc : Bounded(net'[q], w)) /\ got' = got
  BY DEF LabelsUpTo
<1>4. QED
  BY <1>1, <1>2, <1>3 DEF LabelsUpTo, Bounded, IsCarrier

\* An owner task sent with a version within the bound
LEMMA SentLabels ==
    ASSUME TypeInv, NEW w \in Nat, LabelsUpTo(w), NEW p \in Proc, NEW tag \in Unnamed,
           NEW n \in Nat, NEW s \in [1..n -> Unnamed], SendOwnerTask(p, tag, s),
           tag.version \in Nat, tag.version <= w
    PROVE  \A q \in Proc : Bounded(net'[q], w)
<1>0. net \in [Proc -> Seq(Packet)] /\ tag.proc \in Proc
  BY DEF TypeInv, NetTypes, Unnamed, Tag
<1>1. net[tag.proc] \in Seq(Message) /\ Bounded(net[tag.proc], w)
  BY <1>0, QueueTypes DEF LabelsUpTo
<1>2. Bounded(OwnerTask(tag, s), w) /\ OwnerTask(tag, s) \in Seq(Message)
  BY BoundedOwnerTask
<1>3. Bounded(net[tag.proc] \o OwnerTask(tag, s), w)
  BY <1>1, <1>2, BoundedQueues
<1>4. QED
  BY <1>0, <1>3 DEF SendOwnerTask, LabelsUpTo

\* The steps of tasks
LEMMA LabelsTaskStep ==
    ASSUME TypeInv, NEW w \in Nat, LabelsUpTo(w), NEW u \in Task, TaskStep(u)
    PROVE  IF PostData(u) THEN LabelsUpTo(w + 1)' ELSE LabelsUpTo(w)'
<1> DEFINE q == TaskProc[u]
<1>0. /\ q \in Proc /\ TaskMode[u] \in Mode /\ TaskVersion[u] \in Nat \cup {AnyVersion}
      /\ dmq \in [Proc -> Seq(Message)] /\ got \in [Task -> Nat]
  BY TaskAssumption DEF TypeInv, DmqTypes, PlainTypes
<1>1. ASSUME NEW v \in Nat, LabelsUpTo(v), UNCHANGED <<copies, net, got>>, NEW m \in Message,
             IsCarrier(m) => m.tag.version <= v, dmq' = [dmq EXCEPT ![q] = Append(@, m)]
      PROVE  LabelsUpTo(v)'
  <2>1. Bounded(Append(dmq[q], m), v)
    BY <1>0, <1>1, BoundedQueues DEF LabelsUpTo
  <2>2. \A r \in Proc : Bounded(dmq'[r], v)
    BY <1>0, <1>1, <2>1 DEF LabelsUpTo
  <2>3. QED
    BY <1>1, <2>2 DEF LabelsUpTo, Bounded, IsCarrier
<1>2. CASE PostRequests(u)
  <2> DEFINE m == Request([task |-> u, proc |-> q, mode |-> TaskMode[u],
                           version |-> TaskVersion[u]])
  <2>1. m \in Message /\ ~IsCarrier(m)
    BY <1>0 DEF Request, Message, Tag, IsCarrier
  <2>2. ~PostData(u)
    BY <1>2 DEF PostRequests, PostData
  <2>3. QED
    BY <1>1, <1>2, <2>1, <2>2 DEF PostRequests
<1>3. CASE PostData(u)
  <2> DEFINE m == Data(q, got[u] + 1, {u})
  <2>1. m \in Message /\ m.tag.version = got[u] + 1
    BY <1>0 DEF Data, Message, Tag, Mode, Holder
  <2>2. got[u] \in Nat /\ got[u] <= w
    BY <1>0 DEF LabelsUpTo
  <2>3. w + 1 \in Nat /\ w <= w + 1 /\ m.tag.version <= w + 1
    BY <2>1, <2>2
  <2>4. LabelsUpTo(w + 1)
    BY <2>3, BoundGrows
  <2>5. UNCHANGED <<copies, net, got>> /\ dmq' = [dmq EXCEPT ![q] = Append(@, m)]
    BY <1>3 DEF PostData
  <2> HIDE DEF m
  <2>6. LabelsUpTo(w + 1)'
    BY <1>1, <2>1, <2>3, <2>4, <2>5
  <2>7. QED
    BY <1>3, <2>6
<1>4. CASE ClearPointer(u)
  <2>1. ~PostData(u)
    BY <1>4 DEF ClearPointer, PostData, TypeInv, PlainTypes
  <2>2. QED
    BY <1>0, <1>4, <2>1, DroppedLabels DEF ClearPointer
<1>5. CASE ObjectChanged(u)
  <2>1. ~PostData(u)
    BY <1>5 DEF ObjectChanged, PostData
  <2>2. QED
    BY <1>5, <2>1 DEF ObjectChanged, LabelsUpTo, Bounded, IsCarrier
<1>6. QED
  BY <1>2, <1>3, <1>4, <1>5 DEF TaskStep

\* Messages are moved and versions submitted.
LEMMA LabelsMessages ==
    ASSUME TypeInv, NEW w \in Nat, LabelsUpTo(w), NEW p \in Proc,
           \/ Deliver(p) \/ ForgetStrayGrant(p) \/ HandleMessage(p) \/ SettleOwner(p)
           \/ FlushData(p) \/ EndVerify(p)
    PROVE  LabelsUpTo(w)'
<1>0. /\ copies \in [Proc -> SUBSET Copy] /\ dmq \in [Proc -> Seq(Message)]
      /\ net \in [Proc -> Seq(Packet)] /\ owner \in [Proc -> Proc]
      /\ dmq[p] \in Seq(Message) /\ net[p] \in Seq(Message)
      /\ Bounded(dmq[p], w) /\ Bounded(net[p], w)
  BY QueueTypes DEF TypeInv, PlainTypes, DmqTypes, NetTypes, LabelsUpTo
<1>1. UNCHANGED got
  BY DEF Deliver, ForgetStrayGrant, HandleMessage, HandleData, HandleOwner, ForwardRequest,
         QueueRequest, SettleOwner, FlushData, EndVerify
<1>2. ASSUME \A q \in Proc : \A c \in copies'[q] : c.label <= w,
             \A q \in Proc : Bounded(dmq'[q], w),
             \A q \in Proc : Bounded(net'[q], w)
      PROVE  LabelsUpTo(w)'
  BY <1>1, <1>2 DEF LabelsUpTo, Bounded, IsCarrier
<1>3. ASSUME NEW v \in Nat, v <= w, NEW refs, copies' = WithVersion(p, v, refs)
      PROVE  \A q \in Proc : \A c \in copies'[q] : c.label <= w
  BY <1>0, <1>3 DEF WithVersion, LabelsUpTo
<1>4. ASSUME dmq[p] # <<>>, dmq' = [dmq EXCEPT ![p] = Tail(@)]
      PROVE  \A q \in Proc : Bounded(dmq'[q], w)
  BY <1>0, <1>4, BoundedQueues DEF LabelsUpTo
<1>5. dmq[p] # <<>> => Head(dmq[p]) \in MessageAt(p) /\ Head(dmq[p]) \in Message
  BY QueueTypes
<1>6. dmq[p] # <<>> /\ IsCarrier(Head(dmq[p])) =>
        Head(dmq[p]).tag.version \in Nat /\ Head(dmq[p]).tag.version <= w
  <2>1. dmq[p] # <<>> /\ IsCarrier(Head(dmq[p])) => Head(dmq[p]).tag.version <= w
    BY <1>0, BoundedQueues
  <2>2. QED
    BY <1>5, <2>1 DEF MessageAt, Labelled, IsCarrier
<1>7. ASSUME NEW q \in Proc, NEW m \in Message, ~IsCarrier(m),
             net' = [net EXCEPT ![q] = Append(@, m)]
      PROVE  \A r \in Proc : Bounded(net'[r], w)
  <2>1. net[q] \in Seq(Message) /\ Bounded(net[q], w)
    BY QueueTypes DEF LabelsUpTo
  <2>2. Bounded(Append(net[q], m), w)
    BY <1>7, <2>1, BoundedQueues
  <2>3. QED
    BY <1>0, <1>7, <2>2 DEF LabelsUpTo
<1>8. CASE ForgetStrayGrant(p)
  BY <1>8, DroppedLabels DEF ForgetStrayGrant
<1>9. CASE Deliver(p)
  <2> DEFINE m == Head(net[p])
  <2>1. net[p] # <<>> /\ m \in Packet /\ m \in Message /\ (IsCarrier(m) => m.tag.version <= w)
    BY <1>0, <1>9, QueueTypes, BoundedQueues DEF Deliver
  <2>2. \A q \in Proc : Bounded(net'[q], w)
    <3>1. net' = [net EXCEPT ![p] = Tail(@)]
      BY <1>9 DEF Deliver
    <3>2. Bounded(Tail(net[p]), w)
      BY <1>0, <2>1, BoundedQueues
    <3>3. QED
      BY <1>0, <3>1, <3>2 DEF LabelsUpTo
  <2>3. CASE m.kind = "dispose"
    <3>1. DropPointer(p, Daemon)
      BY <1>9, <2>3 DEF Deliver
    <3>2. QED
      BY <1>1, <2>2, <3>1, DroppedLabels
  <2>4. CASE m.kind # "dispose"
    <3>1. copies' = copies
      BY <1>9, <2>4 DEF Deliver
    <3>2. PICK n \in {m, [m EXCEPT !.refs = {Daemon}]} : dmq' = [dmq EXCEPT ![p] = Append(@, n)]
      BY <1>9, <2>4 DEF Deliver
    <3>3. n \in Message /\ (IsCarrier(n) => n.tag.version <= w)
      <4>1. [m EXCEPT !.refs = {Daemon}] \in Message
        BY <2>1 DEF Message, Holder
      <4>2. /\ [m EXCEPT !.refs = {Daemon}].kind = m.kind
            /\ [m EXCEPT !.refs = {Daemon}].tag = m.tag
        BY <2>1 DEF Message
      <4>3. QED
        BY <2>1, <3>2, <4>1, <4>2 DEF IsCarrier
    <3>4. Bounded(Append(dmq[p], n), w)
      BY <1>0, <3>3, BoundedQueues
    <3>5. \A q \in Proc : Bounded(dmq'[q], w)
      BY <1>0, <3>2, <3>4 DEF LabelsUpTo
    <3>6. QED
      BY <1>2, <2>2, <3>1, <3>5 DEF LabelsUpTo
  <2>5. QED
    BY <2>3, <2>4
<1>10. CASE HandleData(p)
  <2>1. dmq[p] # <<>> /\ IsCarrier(Head(dmq[p]))
    BY <1>10 DEF HandleData, NextMessage, IsCarrier
  <2>2. \A q \in Proc : \A c \in copies'[q] : c.label <= w
    BY <1>3, <1>6, <1>10, <2>1 DEF HandleData
  <2>3. QED
    BY <1>2, <1>4, <1>10, <2>1, <2>2 DEF HandleData, LabelsUpTo
<1>11. CASE HandleOwner(p)
  <2>1. dmq[p] # <<>> /\ IsCarrier(Head(dmq[p]))
    BY <1>11 DEF HandleOwner, NextMessage, IsCarrier
  <2>2. \A q \in Proc : \A c \in copies'[q] : c.label <= w
    BY <1>3, <1>6, <1>11, <2>1 DEF HandleOwner
  <2>3. QED
    BY <1>2, <1>11, <2>2 DEF HandleOwner, LabelsUpTo
<1>12. CASE SettleOwner(p)
  <2>1. dmq[p] # <<>>
    BY <1>12 DEF SettleOwner, TypeInv, InHand
  <2>2. \A q \in Proc : \A c \in copies'[q] : c.label <= w
    <3>1. copies' = [copies EXCEPT ![p] = WithoutHolder(@, Handler)]
      BY <1>12 DEF SettleOwner
    <3>2. \A c \in Copy : [c EXCEPT !.refs = @ \ {Handler}].label = c.label
      BY DEF Copy
    <3>3. \A c \in WithoutHolder(copies[p], Handler) : c.label <= w
      BY <1>0, <3>2 DEF WithoutHolder, LabelsUpTo
    <3>4. QED
      BY <1>0, <3>1, <3>3 DEF LabelsUpTo
  <2>3. QED
    BY <1>2, <1>4, <1>12, <2>1, <2>2 DEF SettleOwner, LabelsUpTo
<1>13. CASE ForwardRequest(p)
  <2> DEFINE tag == Head(dmq[p]).tag
  <2>1. dmq[p] # <<>> /\ tag \in Tag
    BY <1>5, <1>13 DEF ForwardRequest, NextMessage, Message
  <2>2. Request(tag) \in Message /\ ~IsCarrier(Request(tag))
    BY <2>1 DEF Request, Message, IsCarrier
  <2>3. net' = [net EXCEPT ![owner[p]] = Append(@, Request(tag))]
    BY <1>13 DEF ForwardRequest
  <2> HIDE DEF tag
  <2>4. \A r \in Proc : Bounded(net'[r], w)
    BY <1>0, <1>7, <2>2, <2>3
  <2>5. QED
    BY <1>2, <1>4, <1>13, <2>1, <2>4 DEF ForwardRequest, LabelsUpTo
<1>14. CASE QueueRequest(p)
  <2> DEFINE tag == Filed(Head(dmq[p]).tag, p)
  <2>1. dmq[p] # <<>> /\ tag \in Tag
    BY <1>5, <1>14 DEF QueueRequest, NextMessage, Message, Filed, Tag
  <2>2. Request(tag) \in Message /\ ~IsCarrier(Request(tag))
    BY <2>1 DEF Request, Message, IsCarrier
  <2>3. net' = net \/ net' = [net EXCEPT ![owner[p]] = Append(@, Request(tag))]
    BY <1>14 DEF QueueRequest
  <2> HIDE DEF tag
  <2>4. \A r \in Proc : Bounded(net'[r], w)
    BY <1>0, <1>7, <2>2, <2>3 DEF LabelsUpTo
  <2>5. QED
    BY <1>2, <1>4, <1>14, <2>1, <2>4 DEF QueueRequest, LabelsUpTo
<1>15. CASE FlushData(p) \/ EndVerify(p)
  BY <1>2, <1>15 DEF FlushData, EndVerify, LabelsUpTo
<1>16. QED
  BY <1>8, <1>9, <1>10, <1>11, <1>12, <1>13, <1>14, <1>15 DEF HandleMessage

\* Requests are answered with the latest version, or an older one.
LEMMA LabelsVerify ==
    ASSUME TypeInv, NEW w \in Nat, LabelsUpTo(w), NEW p \in Proc, NEW c \in copies[p],
           \/ RejectRequest(p, c) \/ GrantRead(p, c)
           \/ GrantLocalWrite(p, c) \/ TransferOwnership(p, c)
    PROVE  LabelsUpTo(w)'
<1>0. /\ c \in Copy /\ c.label \in Nat /\ c.label <= w
      /\ copies \in [Proc -> SUBSET Copy] /\ got \in [Task -> Nat]
      /\ \A i \in DOMAIN acc[p] : acc[p][i] \in TagAt(p)
      /\ \A i \in DOMAIN acc[p] : acc[p][i].proc # p => acc[p][i] \in Unnamed
      /\ Len(acc[p]) \in Nat
  <2>1. AccTypes
    BY DEF TypeInv
  <2>2. Len(acc[p]) \in Nat
    BY <2>1, LenProperties DEF AccTypes
  <2>3. QED
    BY <2>1, <2>2, PendingTypes DEF LabelsUpTo, TypeInv, PlainTypes, Copy
<1>a. <<>> \in [1..0 -> Unnamed] /\ 0 \in Nat
  OBVIOUS
<1>b. UNCHANGED dmq
  BY DEF RejectRequest, GrantRead, GrantLocalWrite, TransferOwnership
<1>c. ASSUME \A q \in Proc : \A d \in copies'[q] : d.label <= w,
             \A q \in Proc : Bounded(net'[q], w), \A t \in Task : got'[t] <= w
      PROVE  LabelsUpTo(w)'
  BY <1>b, <1>c DEF LabelsUpTo, Bounded, IsCarrier
<1>d. UNCHANGED net => \A q \in Proc : Bounded(net'[q], w)
  BY DEF LabelsUpTo
<1>1. CASE RejectRequest(p, c)
  <2>1. PICK i \in DOMAIN acc[p] :
          /\ IsFirst(i, Incompatible(acc[p], c.label))
          /\ \/ /\ acc[p][i].proc # p
                /\ SendOwnerTask(p, [acc[p][i] EXCEPT !.mode = "Read"], <<>>)
             \/ UNCHANGED net
    BY <1>1 DEF RejectRequest
  <2> DEFINE tag == acc[p][i]
             sent == [tag EXCEPT !.mode = "Read"]
  <2>2. ASSUME tag.proc # p, SendOwnerTask(p, sent, <<>>)
        PROVE  \A q \in Proc : Bounded(net'[q], w)
    <3>1. tag \in Unnamed /\ tag \in TagAt(p)
      BY <1>0, <2>2
    <3>2. sent \in Unnamed /\ sent.version = tag.version
      BY <3>1 DEF Unnamed, Tag, Mode
    <3>3. tag.version \in Nat /\ tag.version < c.label
      BY <1>0, <2>1, <3>1 DEF IsFirst, Incompatible, AmICompatible, TagAt, Tag
    <3>4. sent.version \in Nat /\ sent.version <= w
      BY <1>0, <3>2, <3>3
    <3> HIDE DEF sent
    <3>5. QED
      BY <1>a, <2>2, <3>2, <3>4, SentLabels
  <2>3. \A q \in Proc : Bounded(net'[q], w)
    BY <1>d, <2>1, <2>2
  <2>4. UNCHANGED <<copies, got>>
    BY <1>1 DEF RejectRequest
  <2>5. QED
    BY <1>c, <2>3, <2>4 DEF LabelsUpTo
<1>2. CASE GrantRead(p, c)
  <2>1. PICK i \in DOMAIN acc[p] :
          \/ /\ Grant(acc[p][i], c.label)
             /\ \E h : copies' = [copies EXCEPT ![p] = (@ \ {c}) \cup {WithHolder(c, h)}]
             /\ UNCHANGED <<net, changed>>
          \/ /\ acc[p][i].proc # p
             /\ SendOwnerTask(p, [acc[p][i] EXCEPT !.version = c.label], <<>>)
             /\ UNCHANGED <<copies, phase, got>>
    BY <1>2 DEF GrantRead
  <2> DEFINE tag == acc[p][i]
             sent == [tag EXCEPT !.version = c.label]
  <2>2. CASE /\ tag.proc # p
             /\ SendOwnerTask(p, sent, <<>>)
             /\ UNCHANGED <<copies, phase, got>>
    <3>1. tag \in Unnamed
      BY <1>0, <2>2
    <3>2. sent \in Unnamed /\ sent.version = c.label
      BY <1>0, <3>1 DEF Unnamed, Tag
    <3> HIDE DEF sent
    <3>3. \A q \in Proc : Bounded(net'[q], w)
      BY <1>0, <1>a, <2>2, <3>2, SentLabels
    <3>4. QED
      BY <1>c, <2>2, <3>3 DEF LabelsUpTo
  <2>3. CASE /\ Grant(tag, c.label)
             /\ \E h : copies' = [copies EXCEPT ![p] = (@ \ {c}) \cup {WithHolder(c, h)}]
             /\ UNCHANGED <<net, changed>>
    <3>1. \A h : WithHolder(c, h).label = c.label
      BY <1>0 DEF WithHolder, Copy
    <3>2. \A q \in Proc : \A d \in copies'[q] : d.label <= w
      BY <1>0, <2>3, <3>1 DEF LabelsUpTo
    <3>3. \A t \in Task : got'[t] <= w
      BY <1>0, <2>3 DEF Grant, LabelsUpTo
    <3>4. QED
      BY <1>c, <1>d, <2>3, <3>2, <3>3
  <2>4. QED
    BY <2>1, <2>2, <2>3
<1>3. CASE GrantLocalWrite(p, c)
  <2>1. PICK i \in DOMAIN acc[p] : Grant(acc[p][i], c.label)
    BY <1>3 DEF GrantLocalWrite
  <2>2. \A t \in Task : got'[t] <= w
    BY <1>0, <2>1 DEF Grant, LabelsUpTo
  <2>3. copies' = [copies EXCEPT ![p] = @ \ {c}] /\ UNCHANGED net
    BY <1>3 DEF GrantLocalWrite
  <2>4. \A q \in Proc : \A d \in copies'[q] : d.label <= w
    BY <1>0, <2>3 DEF LabelsUpTo
  <2>5. QED
    BY <1>c, <1>d, <2>2, <2>3, <2>4
<1>4. CASE TransferOwnership(p, c)
  <2>1. PICK i \in DOMAIN acc[p] :
          /\ acc[p][i].proc # p
          /\ \E n \in 0..Len(acc[p]) :
               \E s \in [1..n -> TransferredTags(p, acc[p][i].proc)] :
                 SendOwnerTask(p, [acc[p][i] EXCEPT !.version = c.label], s)
    BY <1>4, ZenonT(60) DEF TransferOwnership
  <2> DEFINE tag == acc[p][i]
             sent == [tag EXCEPT !.version = c.label]
  <2>2. PICK n \in 0..Len(acc[p]) : \E s \in [1..n -> TransferredTags(p, tag.proc)] :
          SendOwnerTask(p, sent, s)
    BY <2>1
  <2>3. PICK s \in [1..n -> TransferredTags(p, tag.proc)] : SendOwnerTask(p, sent, s)
    BY <2>2
  <2>4. TransferredTags(p, tag.proc) \subseteq Unnamed
    <3>1. \A x \in TagAt(p) : Localised(x, p) \in Unnamed
      BY DEF Localised, Filed, TagAt, Unnamed, Tag
    <3>2. QED
      BY <1>0, <3>1 DEF TransferredTags
  <2>5. s \in [1..n -> Unnamed] /\ n \in Nat
    BY <1>0, <2>4
  <2>6. sent \in Unnamed /\ sent.version = c.label
    BY <1>0, <2>1 DEF Unnamed, Tag
  <2> HIDE DEF sent
  <2>7. \A q \in Proc : Bounded(net'[q], w)
    BY <1>0, <2>3, <2>5, <2>6, SentLabels
  <2>8. copies' = [copies EXCEPT ![p] = @ \ {c}] /\ UNCHANGED got
    BY <1>4 DEF TransferOwnership
  <2>9. \A q \in Proc : \A d \in copies'[q] : d.label <= w
    BY <1>0, <2>8 DEF LabelsUpTo
  <2>10. QED
    BY <1>c, <2>7, <2>8, <2>9 DEF LabelsUpTo
<1>5. QED
  BY <1>1, <1>2, <1>3, <1>4

\* Every step keeps every version within the writes done.
LEMMA LabelsNext ==
    ASSUME TypeInv, RequestsInv, LabelsInv, [Next]_vars
    PROVE  LabelsInv'
<1>1. /\ IsFiniteSet(DoneWriters) /\ LabelsUpTo(WritesDone)
      /\ IsFiniteSet(DoneWriters)' /\ WritesDone \in Nat /\ WritesDone' \in Nat
      /\ WritesDone' = WritesDone \/ WritesDone' = WritesDone + 1
      /\ \A u \in Task : PostData(u) => WritesDone' = WritesDone + 1
  BY WritesGrow DEF LabelsInv
<1>2. PICK w \in Nat : w = WritesDone
  BY <1>1
<1>3. PICK v \in Nat : v = WritesDone'
  BY <1>1
<1>4. w <= v /\ (v = w \/ v = w + 1) /\ \A u \in Task : PostData(u) => v = w + 1
  BY <1>1, <1>2, <1>3
<1>5. LabelsUpTo(w)
  BY <1>1, <1>2
<1>6. LabelsUpTo(v)
  BY <1>4, <1>5, BoundGrows
<1>7. LabelsUpTo(v)'
  <2>1. ASSUME NEW u \in Task, TaskStep(u) PROVE LabelsUpTo(v)'
    <3>1. CASE PostData(u)
      <4>1. LabelsUpTo(w + 1)'
        BY <1>5, <2>1, <3>1, LabelsTaskStep
      <4>2. QED
        BY <1>4, <3>1, <4>1
    <3>2. CASE ~PostData(u)
      BY <1>6, <2>1, <3>2, LabelsTaskStep
    <3>3. QED
      BY <3>1, <3>2
  <2>2. ASSUME NEW p \in Proc, Deliver(p) \/ ForgetStrayGrant(p) PROVE LabelsUpTo(v)'
    BY <1>6, <2>2, LabelsMessages
  <2>3. ASSUME NEW p \in Proc, Service(p) PROVE LabelsUpTo(v)'
    <3>1. CASE HandleMessage(p) \/ SettleOwner(p) \/ FlushData(p) \/ EndVerify(p)
      BY <1>6, <3>1, LabelsMessages
    <3>2. ASSUME NEW c \in copies[p],
                 \/ RejectRequest(p, c) \/ GrantRead(p, c)
                 \/ GrantLocalWrite(p, c) \/ TransferOwnership(p, c)
          PROVE  LabelsUpTo(v)'
      BY <1>6, <3>2, LabelsVerify
    <3>3. QED
      BY <2>3, <3>1, <3>2 DEF Service, Verify
  <2>4. CASE UNCHANGED vars
    BY <1>6, <2>4 DEF vars, LabelsUpTo, Bounded, IsCarrier
  <2>5. QED
    BY <2>1, <2>2, <2>3, <2>4 DEF Next
<1>8. QED
  BY <1>1, <1>3, <1>7 DEF LabelsInv, LabelsUpTo

LEMMA LabelsInit == Init => LabelsInv
<1> SUFFICES ASSUME Init PROVE LabelsInv
  OBVIOUS
<1>1. DoneWriters = {}
  <2>1. \A t \in Task : phase[t] \in {"submitted", "absent"}
    BY DEF Init
  <2>2. QED
    BY <2>1 DEF DoneWriters, Writers, Finished
<1>2. IsFiniteSet(DoneWriters) /\ WritesDone = 0
  <2>1. WritesDone = Cardinality(DoneWriters)
    BY DEF WritesDone, DoneWriters
  <2>2. QED
    BY <1>1, <2>1, FS_EmptySet
<1>3. ASSUME NEW p \in Proc PROVE Bounded(dmq[p], 0) /\ Bounded(net[p], 0)
  BY DEF Init, Bounded, IsCarrier, Data
<1>4. LabelsUpTo(0)
  BY <1>3 DEF LabelsUpTo, Init
<1>5. QED
  BY <1>2, <1>4 DEF LabelsInv

\* A task that was turned away names a version that is not AnyVersion and that
\* some write has superseded since, or before.
RefusalsInv == RefusedOnlyWhenTooLate

LEMMA RefusalsNext ==
    ASSUME TypeInv, RequestsInv, LabelsInv, RefusalsInv, [Next]_vars
    PROVE  RefusalsInv'
<1> SUFFICES ASSUME NEW t \in Task, phase'[t] = "refused"
             PROVE  TaskVersion[t] \in 0..(WritesDone' - 1)
  BY DEF RefusalsInv, RefusedOnlyWhenTooLate
<1>0. /\ phase \in [Task -> Phase] /\ TaskProc[t] \in Proc
      /\ TaskVersion[t] \in Nat \cup {AnyVersion}
      /\ WritesDone \in Nat /\ WritesDone' \in Nat /\ WritesDone <= WritesDone'
  <2>1. IsFiniteSet(DoneWriters)
    BY DEF LabelsInv
  <2>2. /\ WritesDone \in Nat /\ WritesDone' \in Nat
        /\ WritesDone' = WritesDone \/ WritesDone' = WritesDone + 1
    BY <2>1, WritesGrow
  <2>3. QED
    BY <2>2, TaskAssumption DEF TypeInv, PlainTypes
<1>1. CASE phase[t] = "refused"
  BY <1>0, <1>1 DEF RefusalsInv, RefusedOnlyWhenTooLate
<1>2. CASE phase[t] # "refused"
  <2>1. PICK p \in Proc : \E c \in copies[p] : RejectRequest(p, c)
    <3>1. ASSUME NEW u \in Task, TaskStep(u) PROVE FALSE
      BY <1>0, <1>2, <3>1 DEF TaskStep, PostRequests, PostData, ClearPointer, ObjectChanged
    <3>2. ASSUME NEW p \in Proc, Deliver(p) \/ ForgetStrayGrant(p) \/ HandleMessage(p)
                   \/ SettleOwner(p) \/ FlushData(p) \/ EndVerify(p)
          PROVE  FALSE
      BY <1>2, <3>2 DEF Deliver, ForgetStrayGrant, HandleMessage, HandleData, HandleOwner,
                        ForwardRequest, QueueRequest, SettleOwner, FlushData, EndVerify
    <3>3. ASSUME NEW p \in Proc, NEW c \in copies[p],
                 GrantRead(p, c) \/ GrantLocalWrite(p, c) \/ TransferOwnership(p, c)
          PROVE  FALSE
      <4>1. ASSUME NEW tag, Grant(tag, c.label) PROVE FALSE
        BY <1>2, <4>1 DEF Grant
      <4>2. phase' = phase \/ \E tag : Grant(tag, c.label)
        BY <3>3 DEF GrantRead, GrantLocalWrite, TransferOwnership
      <4>3. QED
        BY <1>2, <4>1, <4>2
    <3>4. ~UNCHANGED vars
      BY <1>2 DEF vars
    <3>5. QED
      BY <1>2, <3>1, <3>2, <3>3, <3>4 DEF Next, Service, Verify
  <2>a. PICK c \in copies[p] : RejectRequest(p, c)
    BY <2>1
  <2>2. PICK i \in DOMAIN acc[p] :
          /\ IsFirst(i, Incompatible(acc[p], c.label))
          /\ acc[p][i].task = t
    BY <1>2, <2>a DEF RejectRequest
  <2>3. TaskVersion[t] = acc[p][i].version
    BY <2>2, Answering
  <2>4. ~AmICompatible(TaskVersion[t], c.label)
    BY <2>2, <2>3 DEF IsFirst, Incompatible
  <2>5. c.label \in Nat /\ c.label <= WritesDone
    BY DEF LabelsInv, LabelsUpTo, TypeInv, PlainTypes, Copy
  <2>6. QED
    BY <1>0, <2>4, <2>5 DEF AmICompatible, AnyVersion
<1>3. QED
  BY <1>1, <1>2

\* No task is told that it is too late unless a write has completed after the
\* version it names: for every workload, on any processors.
THEOREM RefusedWhenTooLate == Spec => []RefusedOnlyWhenTooLate
<1> DEFINE Inv == RequestsInv /\ LabelsInv /\ RefusalsInv
<1>1. Init => Inv
  BY RequestsInit, LabelsInit DEF RefusalsInv, RefusedOnlyWhenTooLate, Init
<1>2. TypeInv /\ Inv /\ [Next]_vars => Inv'
  BY RequestsNext, LabelsNext, RefusalsNext
<1>3. Inv => RefusedOnlyWhenTooLate
  BY DEF RefusalsInv
<1>4. QED
  BY <1>1, <1>2, <1>3, Typing, PTL DEF Spec
=============================================================================
