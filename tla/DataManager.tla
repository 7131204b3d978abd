---------------------------- MODULE DataManager ----------------------------
(***************************************************************************)
(* The life of ONE distributed object under the OOPar data managers: the   *)
(* metadata every processor keeps for it (class OOPMetaData), the list of  *)
(* pending access requests (OOPAccessTagMultiSet), the message queue and   *)
(* service thread of each OOPDataManager, the owner and request tasks that *)
(* travel between processors, and the release sequence of the tasks that   *)
(* were granted access (OOPAccessTagList::SubmitIncrementedVersions).      *)
(*                                                                         *)
(* Threads that interleave: on every processor the data manager's service  *)
(* thread, the communication manager's thread (Deliver) and the executor   *)
(* threads of the tasks.  Versions are the single level versions that      *)
(* OOPDataVersion's default constructor builds; module DataVersion has the *)
(* multi level ones.  The deletion protocol is not in this module.         *)
(*                                                                         *)
(* Definitions named Bug... are faults seeded into the definition that     *)
(* follows them, to see the properties fail; nothing uses them otherwise.  *)
(***************************************************************************)
EXTENDS Integers, Sequences, FiniteSets, SequencesExt

CONSTANTS
    Proc,         \* processor numbers
    Home,         \* processor that created the object (part of its id)
    Task,         \* tasks that depend on the object
    NoTask,       \* the zero task id of a request filed by a processor
    Daemon,       \* the OOPDMOwnerTask a CM thread is executing, as a holder
    Handler,      \* the message a service thread is handling, as a holder
    Stray,        \* a grant in a TM queue that names no task, as a holder
    TaskProc,     \* processor a task runs on
    TaskMode,     \* access it asks for
    TaskVersion,  \* version it asks for, or AnyVersion
    Workloads     \* sets of tasks, of which one is submitted

AnyVersion == -1
Mode == {"Read", "Write"}

ASSUME ProcAssumption == Proc \subseteq Nat /\ Home \in Proc
ASSUME TaskAssumption == /\ TaskProc \in [Task -> Proc]
                         /\ TaskMode \in [Task -> Mode]
                         /\ TaskVersion \in [Task -> Nat \cup {AnyVersion}]
                         /\ Workloads \subseteq SUBSET Task
ASSUME HolderAssumption == /\ NoTask \notin Task
                           /\ Daemon \notin Task
                           /\ Handler \notin Task
                           /\ Stray \notin Task
                           /\ Handler \notin {Daemon, Stray} /\ Daemon # Stray

(***************************************************************************)
(* A version of the object held by a processor.  TPZAutoPointer counts the *)
(* references to it; refs names every one of them but the map entry's own, *)
(* so Count() == 1 in the code is refs = {} here.                          *)
(***************************************************************************)
Holder == Task \cup {Daemon, Handler, Stray}
Tag == [task : Task \cup {NoTask}, proc : Proc, mode : Mode,
        version : Nat \cup {AnyVersion}]
Copy == [label : Nat, refs : SUBSET Holder]
Message == [kind : {"data", "owner", "request", "dispose"}, tag : Tag,
            refs : SUBSET Holder]

VARIABLES
    copies,    \* fAvailableVersions of each processor
    owner,     \* fProc: who the processor believes to be the owner
    acc,       \* fAccessList: pending requests, in the order of operator <
    dmq,       \* fMessages of the data manager
    net,       \* fReceived of the communication manager
    changed,   \* the object is in fChangedObjects
    pc,        \* where the service thread is
    phase,     \* progress of each task
    got        \* the version a task was granted

vars == <<copies, owner, acc, dmq, net, changed, pc, phase, got>>

Phase == {"absent", "submitted", "waiting", "refused", "holding", "posting", "cleared", "done"}
Where == {"idle", "nested", "settle", "verify"}

TypeOK == /\ copies \in [Proc -> SUBSET Copy]
          /\ owner \in [Proc -> Proc]
          /\ acc \in [Proc -> Seq(Tag)]
          /\ dmq \in [Proc -> Seq(Message)]
          /\ net \in [Proc -> Seq(Message)]
          /\ changed \in [Proc -> BOOLEAN]
          /\ pc \in [Proc -> Where]
          /\ phase \in [Task -> Phase]
          /\ got \in [Task -> Nat]

-----------------------------------------------------------------------------
(* OOPAccessTag and OOPAccessTagMultiSet                                   *)

\* OOPAccessTag::operator< of two requests for the same object
TagLess(a, b) ==
    \/ a.version < b.version
    \/ /\ a.version = b.version
       /\ \/ a.mode = "Read" /\ b.mode # "Read"
          \/ a.mode = b.mode /\ a.proc < b.proc

\* std::multiset::insert puts a tag after the last one that is not greater
IsInsertPoint(s, tag, n) == /\ \A i \in 1..n : ~TagLess(tag, s[i])
                            /\ \A i \in (n + 1)..Len(s) : TagLess(tag, s[i])

BugCanExecuteLater(wanted, label) == wanted = AnyVersion \/ wanted >= label
BugNotAnyVersion(wanted, label) == wanted >= label
\* OOPDataVersion::CanExecute and AmICompatible on one level
CanExecute(wanted, label) == wanted \in {AnyVersion, label}
AmICompatible(wanted, label) == wanted = AnyVersion \/ wanted >= label

Incompatible(s, label) == {i \in DOMAIN s : ~AmICompatible(s[i].version, label)}
Compatible(s, label, mode) == {i \in DOMAIN s : /\ CanExecute(s[i].version, label)
                                                /\ s[i].mode = mode}
IsFirst(i, S) == i \in S /\ \A j \in S : i <= j

HasSimilarRequest(s, tag) == \E i \in DOMAIN s : /\ s[i].version = tag.version
                                                 /\ s[i].mode = tag.mode

BugTaskNamed(tag, p) == [tag EXCEPT !.proc = p]

\* What p files with another processor on behalf of one of its tasks
Filed(tag, p) == [tag EXCEPT !.task = NoTask, !.proc = p]
Localised(tag, p) == IF tag.task = NoTask THEN tag ELSE Filed(tag, p)

BugOwnRequestsOnly(p, q) == {Localised(acc[p][i], p) :
                               i \in {j \in DOMAIN acc[p] : acc[p][j].proc = p}}

\* GetProcessorAccessRequests: what leaves p with the object for processor q
\* (a std::set, in order) and what p retains
TransferredTags(p, q) == {Localised(acc[p][i], p) :
                            i \in {j \in DOMAIN acc[p] : acc[p][j].proc # q}}
IsOrdering(s, S) == /\ \A x \in S : \E i \in DOMAIN s : s[i] = x
                    /\ \A i, j \in DOMAIN s : i < j => TagLess(s[i], s[j])
RetainedIndices(p) == {i \in DOMAIN acc[p] : acc[p][i].proc = p}
IsEnumeration(f, I) == /\ \A x \in I : \E i \in DOMAIN f : f[i] = x
                       /\ \A i, j \in DOMAIN f : i < j => f[i] < f[j]

-----------------------------------------------------------------------------
(* The object's copies and the queues                                      *)

HasLabel(p, v) == \E c \in copies[p] : c.label = v
IsLatest(p, c) == c \in copies[p] /\ \A d \in copies[p] : d.label <= c.label

Request(tag) == [kind |-> "request", tag |-> tag, refs |-> {}]
Data(p, v, refs) ==
    [kind |-> "data", refs |-> refs,
     tag |-> [task |-> NoTask, proc |-> p, mode |-> "Write", version |-> v]]

\* An OOPDMOwnerTask with its transferred requests: executing it posts the
\* owner message and each request, then its destructor drops the pointer.
OwnerTask(tag, requests) ==
    <<[kind |-> "owner", tag |-> tag, refs |-> {}]>>
    \o [i \in DOMAIN requests |-> Request(requests[i])]
    \o <<[kind |-> "dispose", tag |-> tag, refs |-> {}]>>

\* SubmitVersion's insertion: a label that is there already is left alone
WithVersion(p, v, refs) ==
    IF HasLabel(p, v) THEN copies
    ELSE [copies EXCEPT ![p] = @ \cup {[label |-> v, refs |-> refs]}]

WithHolder(c, h) == [c EXCEPT !.refs = @ \cup {h}]

\* Holder h on p lets its pointer go, wherever the object is on p by now
WithoutHolder(S, h) == {[c EXCEPT !.refs = @ \ {h}] : c \in S}
MessagesWithout(s, h) == [i \in DOMAIN s |-> [s[i] EXCEPT !.refs = @ \ {h}]]
DropPointer(p, h) ==
    /\ copies' = [copies EXCEPT ![p] = WithoutHolder(@, h)]
    /\ dmq' = [dmq EXCEPT ![p] = MessagesWithout(@, h)]

Init == /\ copies = [p \in Proc |-> {}]
        /\ owner = [p \in Proc |-> Home]
        /\ acc = [p \in Proc |-> <<>>]
        /\ dmq = [p \in Proc |-> IF p = Home THEN <<Data(Home, 0, {})>> ELSE <<>>]
        /\ net = [p \in Proc |-> <<>>]
        /\ changed = [p \in Proc |-> FALSE]
        /\ pc = [p \in Proc |-> "idle"]
        /\ \E w \in Workloads :
             phase = [t \in Task |-> IF t \in w THEN "submitted" ELSE "absent"]
        /\ got = [t \in Task |-> 0]

-----------------------------------------------------------------------------
(* Tasks: requests posted by the task manager, release by the executor     *)

PostRequests(t) ==
    LET p == TaskProc[t] IN
    /\ phase[t] = "submitted"
    /\ phase' = [phase EXCEPT ![t] = "waiting"]
    /\ dmq' = [dmq EXCEPT ![p] = Append(@,
                 Request([task |-> t, proc |-> p, mode |-> TaskMode[t],
                          version |-> TaskVersion[t]]))]
    /\ UNCHANGED <<copies, owner, acc, net, changed, pc, got>>

BugVersionNotIncremented(t) ==
    LET p == TaskProc[t] IN
    /\ phase[t] = "holding" /\ TaskMode[t] = "Write"
    /\ phase' = [phase EXCEPT ![t] = "posting"]
    /\ dmq' = [dmq EXCEPT ![p] = Append(@, Data(p, got[t], {t}))]
    /\ UNCHANGED <<copies, owner, acc, net, changed, pc, got>>

\* A writer posts the next version; item, local to PostData, still holds it
PostData(t) ==
    LET p == TaskProc[t] IN
    /\ phase[t] = "holding" /\ TaskMode[t] = "Write"
    /\ phase' = [phase EXCEPT ![t] = "posting"]
    /\ dmq' = [dmq EXCEPT ![p] = Append(@, Data(p, got[t] + 1, {t}))]
    /\ UNCHANGED <<copies, owner, acc, net, changed, pc, got>>

ClearPointer(t) ==
    /\ phase[t] = (IF TaskMode[t] = "Write" THEN "posting" ELSE "holding")
    /\ phase' = [phase EXCEPT ![t] = "cleared"]
    /\ DropPointer(TaskProc[t], t)
    /\ UNCHANGED <<owner, acc, net, changed, pc, got>>

BugNobodyNotified(t) ==
    /\ phase[t] = "cleared"
    /\ phase' = [phase EXCEPT ![t] = "done"]
    /\ UNCHANGED <<copies, owner, acc, dmq, net, changed, pc, got>>

ObjectChanged(t) ==
    /\ phase[t] = "cleared"
    /\ phase' = [phase EXCEPT ![t] = "done"]
    /\ changed' = [changed EXCEPT ![TaskProc[t]] = TRUE]
    /\ UNCHANGED <<copies, owner, acc, dmq, net, pc, got>>

\* A task manager forgets a grant that named no task of its own
ForgetStrayGrant(p) ==
    /\ \E c \in copies[p] : Stray \in c.refs
    /\ DropPointer(p, Stray)
    /\ UNCHANGED <<owner, acc, net, changed, pc, phase, got>>

-----------------------------------------------------------------------------
(* The communication thread executes the daemon tasks that arrive          *)

Deliver(p) ==
    /\ net[p] # <<>>
    /\ net' = [net EXCEPT ![p] = Tail(@)]
    /\ LET m == Head(net[p]) IN
       \/ /\ m.kind = "request"
          /\ dmq' = [dmq EXCEPT ![p] = Append(@, m)]
          /\ UNCHANGED <<copies, changed>>
       \/ /\ m.kind = "owner"
          /\ dmq' = [dmq EXCEPT ![p] = Append(@, [m EXCEPT !.refs = {Daemon}])]
          /\ UNCHANGED <<copies, changed>>
       \/ /\ m.kind = "dispose"
          /\ DropPointer(p, Daemon)
          /\ changed' = [changed EXCEPT ![p] = TRUE]
    /\ UNCHANGED <<owner, acc, pc, phase, got>>

-----------------------------------------------------------------------------
(* The service thread: one message at a time, each ending in               *)
(* VerifyAccessRequests                                                    *)

NextMessage(p, kind) == /\ pc[p] = "idle" /\ dmq[p] # <<>>
                        /\ Head(dmq[p]).kind = kind

\* ExtractObjectFromTag: SubmitTag, SubmitVersion
HandleData(p) ==
    /\ NextMessage(p, "data")
    /\ LET m == Head(dmq[p]) IN copies' = WithVersion(p, m.tag.version, m.refs)
    /\ dmq' = [dmq EXCEPT ![p] = Tail(@)]
    /\ pc' = [pc EXCEPT ![p] = "verify"]
    /\ UNCHANGED <<owner, acc, net, changed, phase, got>>

\* HandleOwnerMessage up to the VerifyAccessRequests inside SubmitVersion; the
\* message, still in the list, holds the pointer it has just submitted.
HandleOwner(p) ==
    /\ NextMessage(p, "owner")
    /\ LET m == Head(dmq[p])
       IN  copies' = WithVersion(p, m.tag.version, m.refs \cup {Handler})
    /\ pc' = [pc EXCEPT ![p] = "nested"]
    /\ UNCHANGED <<owner, acc, dmq, net, changed, phase, got>>

\* ... and from there on: the pointer is cleared, then fProc is set
SettleOwner(p) ==
    /\ pc[p] = "settle"
    /\ LET m == Head(dmq[p])
       IN  owner' = [owner EXCEPT ![p] = IF m.tag.mode = "Read" THEN m.tag.proc ELSE p]
    /\ copies' = [copies EXCEPT ![p] = WithoutHolder(@, Handler)]
    /\ dmq' = [dmq EXCEPT ![p] = Tail(@)]
    /\ pc' = [pc EXCEPT ![p] = "verify"]
    /\ UNCHANGED <<acc, net, changed, phase, got>>

\* SubmitAccessRequest of another processor's request by a non-owner
ForwardRequest(p) ==
    /\ NextMessage(p, "request")
    /\ owner[p] # p
    /\ LET tag == Head(dmq[p]).tag IN
       /\ tag.proc # p
       /\ net' = [net EXCEPT ![owner[p]] = Append(@, Request(tag))]
    /\ dmq' = [dmq EXCEPT ![p] = Tail(@)]
    /\ UNCHANGED <<copies, owner, acc, changed, pc, phase, got>>

\* SubmitAccessRequest otherwise: tell the owner unless a similar request has
\* done so, queue the request and verify
QueueRequest(p) ==
    /\ NextMessage(p, "request")
    /\ LET tag == Head(dmq[p]).tag
           tell == /\ owner[p] # p
                   /\ ~HasLabel(p, tag.version)
                   /\ ~HasSimilarRequest(acc[p], tag)
       IN  /\ owner[p] = p \/ tag.proc = p
           /\ net' = IF tell
                     THEN [net EXCEPT ![owner[p]] = Append(@, Request(Filed(tag, p)))]
                     ELSE net
           /\ \E n \in 0..Len(acc[p]) :
                /\ IsInsertPoint(acc[p], tag, n)
                /\ acc' = [acc EXCEPT ![p] = InsertAt(@, n + 1, tag)]
    /\ dmq' = [dmq EXCEPT ![p] = Tail(@)]
    /\ pc' = [pc EXCEPT ![p] = "verify"]
    /\ UNCHANGED <<copies, owner, changed, phase, got>>

\* FlushData of a changed object.  The code takes the whole queue before it
\* flushes; here it may come between any two messages.
FlushData(p) ==
    /\ pc[p] = "idle" /\ changed[p]
    /\ changed' = [changed EXCEPT ![p] = FALSE]
    /\ pc' = [pc EXCEPT ![p] = "verify"]
    /\ UNCHANGED <<copies, owner, acc, dmq, net, phase, got>>

-----------------------------------------------------------------------------
(* VerifyAccessRequests, one turn of one of its loops at a time            *)

Verifying(p, c) == pc[p] \in {"nested", "verify"} /\ IsLatest(p, c)

\* An owner task is written to the wire and deleted: its destructor reports
\* the object as changed on the sender.
SendOwnerTask(p, tag, requests) ==
    /\ net' = [net EXCEPT ![tag.proc] = @ \o OwnerTask(tag, requests)]
    /\ changed' = [changed EXCEPT ![p] = TRUE]

\* A request for an older version: a copy for another processor, or the end
\* of a local task's wait (CancelTask)
RejectRequest(p, c) ==
    /\ Verifying(p, c)
    /\ \E i \in DOMAIN acc[p] :
         LET tag == acc[p][i] IN
         /\ IsFirst(i, Incompatible(acc[p], c.label))
         /\ acc' = [acc EXCEPT ![p] = RemoveAt(@, i)]
         /\ \/ /\ tag.proc # p
               /\ SendOwnerTask(p, [tag EXCEPT !.mode = "Read"], <<>>)
               /\ UNCHANGED phase
            \/ /\ tag.proc = p
               /\ phase' = [t \in Task |-> IF t = tag.task THEN "refused" ELSE phase[t]]
               /\ UNCHANGED <<net, changed>>
    /\ UNCHANGED <<copies, owner, dmq, pc, got>>

\* TM()->GrantAccess: the version named by the tag becomes the version held
Grant(tag, label) ==
    /\ phase' = [t \in Task |-> IF t = tag.task THEN "holding" ELSE phase[t]]
    /\ got' = [t \in Task |-> IF t = tag.task THEN label ELSE got[t]]

GrantRead(p, c) ==
    /\ Verifying(p, c)
    /\ Incompatible(acc[p], c.label) = {}
    /\ \E i \in DOMAIN acc[p] :
         LET tag == acc[p][i]
             h == IF tag.task = NoTask THEN Stray ELSE tag.task
         IN
         /\ IsFirst(i, Compatible(acc[p], c.label, "Read"))
         /\ acc' = [acc EXCEPT ![p] = RemoveAt(@, i)]
         /\ \/ /\ tag.proc = p
               /\ Grant(tag, c.label)
               /\ copies' = [copies EXCEPT ![p] = (@ \ {c}) \cup {WithHolder(c, h)}]
               /\ UNCHANGED <<net, changed>>
            \/ /\ tag.proc # p
               /\ SendOwnerTask(p, [tag EXCEPT !.version = c.label], <<>>)
               /\ UNCHANGED <<copies, phase, got>>
    /\ UNCHANGED <<owner, dmq, pc>>

\* What follows VerifyAccessRequests: the rest of HandleOwnerMessage if it was
\* the one inside SubmitVersion, the next message otherwise
Leave(p) == pc' = [pc EXCEPT ![p] = IF @ = "nested" THEN "settle" ELSE "idle"]

BugReadersIgnored(p, c) == /\ Verifying(p, c)
                           /\ Incompatible(acc[p], c.label) = {}
                           /\ Compatible(acc[p], c.label, "Read") = {}

\* No reader is left to serve and nobody else holds the version
MayWrite(p, c) == /\ Verifying(p, c)
                  /\ Incompatible(acc[p], c.label) = {}
                  /\ Compatible(acc[p], c.label, "Read") = {}
                  /\ c.refs = {}

BugCopyLeftBehind(p, c) ==
    /\ MayWrite(p, c)
    /\ \E i \in DOMAIN acc[p] :
         /\ IsFirst(i, Compatible(acc[p], c.label, "Write"))
         /\ acc[p][i].proc = p
         /\ acc' = [acc EXCEPT ![p] = RemoveAt(@, i)]
         /\ Grant(acc[p][i], c.label)
    /\ Leave(p)
    /\ UNCHANGED <<copies, owner, dmq, net, changed>>

GrantLocalWrite(p, c) ==
    /\ MayWrite(p, c)
    /\ \E i \in DOMAIN acc[p] :
         /\ IsFirst(i, Compatible(acc[p], c.label, "Write"))
         /\ acc[p][i].proc = p
         /\ acc' = [acc EXCEPT ![p] = RemoveAt(@, i)]
         /\ Grant(acc[p][i], c.label)
    /\ copies' = [copies EXCEPT ![p] = @ \ {c}]
    /\ Leave(p)
    /\ UNCHANGED <<owner, dmq, net, changed>>

\* The object leaves for q with every request that q has not filed; what other
\* processors filed is forgotten here, what p filed stays here too.
TransferOwnership(p, c) ==
    /\ MayWrite(p, c)
    /\ \E i \in DOMAIN acc[p] :
         LET tag == acc[p][i]
             q == tag.proc
         IN
         /\ IsFirst(i, Compatible(acc[p], c.label, "Write"))
         /\ q # p
         /\ \E n \in 0..Len(acc[p]) : \E s \in [1..n -> TransferredTags(p, q)] :
              /\ IsOrdering(s, TransferredTags(p, q))
              /\ SendOwnerTask(p, [tag EXCEPT !.version = c.label], s)
         /\ \E n \in 0..Len(acc[p]) : \E f \in [1..n -> RetainedIndices(p)] :
              /\ IsEnumeration(f, RetainedIndices(p))
              /\ acc' = [acc EXCEPT ![p] = [k \in 1..n |-> acc[p][f[k]]]]
         /\ owner' = [owner EXCEPT ![p] = q]
    /\ copies' = [copies EXCEPT ![p] = @ \ {c}]
    /\ Leave(p)
    /\ UNCHANGED <<dmq, phase, got>>

EndVerify(p) ==
    /\ pc[p] \in {"nested", "verify"}
    /\ \A c \in copies[p] : IsLatest(p, c) =>
         /\ Incompatible(acc[p], c.label) = {}
         /\ Compatible(acc[p], c.label, "Read") = {}
         /\ c.refs # {} \/ Compatible(acc[p], c.label, "Write") = {}
    /\ Leave(p)
    /\ UNCHANGED <<copies, owner, acc, dmq, net, changed, phase, got>>

-----------------------------------------------------------------------------
Verify(p) == \/ \E c \in copies[p] : \/ RejectRequest(p, c)
                                     \/ GrantRead(p, c)
                                     \/ GrantLocalWrite(p, c)
                                     \/ TransferOwnership(p, c)
             \/ EndVerify(p)

HandleMessage(p) == \/ HandleData(p)
                    \/ HandleOwner(p)
                    \/ ForwardRequest(p)
                    \/ QueueRequest(p)

\* The data manager's service thread of processor p
Service(p) == HandleMessage(p) \/ SettleOwner(p) \/ FlushData(p) \/ Verify(p)

TaskStep(t) == PostRequests(t) \/ PostData(t) \/ ClearPointer(t) \/ ObjectChanged(t)

Next == \/ \E t \in Task : TaskStep(t)
        \/ \E p \in Proc : Service(p) \/ Deliver(p) \/ ForgetStrayGrant(p)

\* Service threads are woken by a counting semaphore that every post raises, so
\* none sleeps on work; every round of their loop serves the message queue and
\* the changed objects alike; the executor of a granted task ends.  Nothing but
\* the step itself disables a task's next step and a task takes finitely many,
\* so that fairness to all of them is fairness to each.
Fairness == /\ WF_vars(\E t \in Task : TaskStep(t))
            /\ \A p \in Proc : /\ WF_vars(Deliver(p))
                               /\ WF_vars(ForgetStrayGrant(p))
                               /\ WF_vars(Service(p))
                               /\ SF_vars(HandleMessage(p))
                               /\ SF_vars(FlushData(p))

Spec == Init /\ [][Next]_vars /\ Fairness

-----------------------------------------------------------------------------
(* Properties                                                              *)

Present == {t \in Task : phase[t] # "absent"}
Finished(t) == phase[t] \in {"posting", "cleared", "done"}
Writers == {t \in Task : TaskMode[t] = "Write"}
Writing(t) == t \in Writers /\ phase[t] = "holding"
Reading(t) == t \notin Writers /\ phase[t] = "holding"
WritesDone == Cardinality({t \in Writers : Finished(t)})

\* A task reading a version on its processor has that very version in the
\* processor's map, with its own reference counted, until it lets go: no writer
\* can be given the object under it (VerifyAccessRequests' Count() == 1 test).
ReadersKeepTheirCopy ==
    \A t \in Task : Reading(t) =>
        \E c \in copies[TaskProc[t]] : c.label = got[t] /\ t \in c.refs

\* A request that names a task is only ever pending on that task's processor,
\* in its own mode: what crosses the network is filed by processors.  Grants
\* rely on it (IsMyAccessTag finds the task on the processor that grants).
OwnTag(tag, p) == tag.task # NoTask => /\ tag.proc = p
                                       /\ TaskProc[tag.task] = p
                                       /\ TaskMode[tag.task] = tag.mode
RequestsStayWithTheirTask ==
    \A p \in Proc :
        /\ \A i \in DOMAIN acc[p] : OwnTag(acc[p][i], p)
        /\ \A i \in DOMAIN dmq[p] : OwnTag(dmq[p][i].tag, p)
        /\ \A i \in DOMAIN net[p] : net[p][i].tag.task = NoTask

\* Where the object is: in a map, in a message that carries it with the right
\* to write, or in a writer's hands.
Submitted(p, i) == pc[p] \in {"nested", "settle"} /\ i = 1
Carries(m) == \/ m.kind = "data"
              \/ m.kind = "owner" /\ m.tag.mode = "Write"
Places == (UNION { {p} \X copies[p] : p \in Proc })
          \cup { x \in UNION { {p} \X DOMAIN dmq[p] : p \in Proc } :
                   Carries(dmq[x[1]][x[2]]) /\ ~Submitted(x[1], x[2]) }
          \cup { x \in UNION { {p} \X {"net"} \X DOMAIN net[p] : p \in Proc } :
                   Carries(net[x[1]][x[3]]) }
          \cup { t \in Writers : Writing(t) }

\* While the object migrates between processors that only write it, it is never
\* lost (a grant that finds no task, an overwritten label) and never forked (an
\* ownership transfer that leaves a copy behind, an old version sent out).
ExactlyOneObject == Present \subseteq Writers => Cardinality(Places) = 1

\* A writer is given the result of every write completed before it, on whatever
\* processor it was made: none works on a version that has been superseded.
NoLostUpdate == Present \subseteq Writers =>
                  \A t \in Writers : Writing(t) => got[t] = WritesDone

\* No request sleeps next to a free version: when the service thread is about
\* to sleep and a queued request could be granted, something is coming that
\* makes it look again.  The count is taken while PostData's local, the owner
\* task or a reader may still hold the pointer; their ObjectChanged must follow.
Grantable(p) == \E c \in copies[p] :
    /\ IsLatest(p, c)
    /\ \/ Compatible(acc[p], c.label, "Read") # {}
       \/ c.refs = {} /\ Compatible(acc[p], c.label, "Write") # {}
NoStrandedRequest ==
    \A p \in Proc : pc[p] = "idle" /\ Grantable(p) =>
        \/ dmq[p] # <<>> \/ changed[p]
        \/ \E t \in Task : TaskProc[t] = p /\ phase[t] = "cleared"

\* A local request is turned away only when a write has superseded the version
\* it names, never for naming the current one, a later one or any version.
RefusedOnlyWhenTooLate ==
    \A t \in Task : phase[t] = "refused" => TaskVersion[t] \in 0..(WritesDone - 1)

\* Tasks that share a processor, and writers that each name a version of their
\* own, all get the object, run and let it go, wherever it was and whatever
\* stale hints the requests followed to it; or they are told they are too late.
OneProcessor == \A t \in Present : TaskProc[t] = Home
WritersInTurn == /\ Present \subseteq Writers
                 /\ \A t \in Present : TaskVersion[t] # AnyVersion
                 /\ \A t, u \in Present : TaskVersion[t] = TaskVersion[u] => t = u
EveryTaskFinishes ==
    OneProcessor \/ WritersInTurn ~> \A t \in Present : phase[t] \in {"done", "refused"}

\* The managers implement the access discipline of ObjectAccess, as long as no
\* processor is sent a copy to read, which is then an object of its own.
Access == INSTANCE ObjectAccess WITH
            Wanted <- TaskVersion,
            version <- WritesDone,
            readers <- {t \in Task : Reading(t)},
            writers <- {t \in Task : Writing(t)},
            served <- {t \in Task : Finished(t)}
AccessSpec == Access!Spec

\* What the documentation says (pzmainpage.h: "only one process can have write
\* access to a distributed data object").
OneWriteProcess ==
    \A t, u \in Writers : Writing(t) /\ Writing(u) => TaskProc[t] = TaskProc[u]

\* What a comment says of a superseded request from another processor ("so that
\* tasks will be canceled there"): its task is not given the object any more.
Late(t) == phase[t] = "waiting" /\ TaskVersion[t] \in 0..(WritesDone - 1)
LateTasksAreCancelled ==
    [][\A t \in Writers : Late(t) => phase'[t] # "holding"]_vars
=============================================================================
