----------------------------- MODULE Transport -----------------------------
(***************************************************************************)
(* What the communication managers have in common: threads of a processor  *)
(* hand tasks to SendTask one after the other (the service thread and the  *)
(* threads that call Submit), and what arrives is given to Submit of the   *)
(* task manager.  Nobody sends to its own processor: Submit and            *)
(* ExecuteDaemon test for it.                                              *)
(***************************************************************************)
EXTENDS Integers, Sequences, FiniteSets

CONSTANTS
    Processor,  \* numbers of processors
    Task,       \* tasks
    Caller,     \* threads that send
    Home,       \* of a caller: its processor
    DestOf,     \* of a task: where it goes, perhaps to no processor
    Jobs        \* the jobs: [kind, size, script], the transport, how many
                \* processors, and of a caller the tasks it sends, in order

ASSUME TransportAssumption ==
    /\ Processor \subseteq Nat
    /\ Home \in [Caller -> Processor]
    /\ DestOf \in [Task -> Int]
    /\ \A j \in Jobs :
         /\ j.kind \in {"socket", "mpi", "file"}
         /\ j.size \in Nat /\ 0..(j.size - 1) \subseteq Processor
         /\ j.script \in [Caller -> Seq(Task)]
         /\ \A c \in Caller : \A i \in 1..Len(j.script[c]) :
              Home[c] < j.size /\ DestOf[j.script[c][i]] # Home[c]
         /\ \A c, d \in Caller : \A i \in 1..Len(j.script[c]), k \in 1..Len(j.script[d]) :
              j.script[c][i] = j.script[d][k] => c = d /\ i = k

VARIABLES
    job,        \* the job
    todo,       \* what a caller has still to send
    submitted   \* of a processor: what its transport gave to Submit, in order

kind == job.kind
Script == job.script
Proc == 0..(job.size - 1)

TransportInit == /\ job \in Jobs
                 /\ todo = job.script
                 /\ submitted = [p \in Processor |-> <<>>]

Elements(s) == {s[i] : i \in 1..Len(s)}

\* As the abstract specification sees it
Sent == UNION {Elements(Script[c]) \ Elements(todo[c]) : c \in Caller}
Arrived == [p \in Processor |-> [t \in Task |->
                Cardinality({i \in 1..Len(submitted[p]) : submitted[p][i] = t})]]

\* The task a caller is in SendTask with is the last it took from its script
Current(c) == Script[c][Len(Script[c]) - Len(todo[c])]

\* Who sent a task
From(t) == CHOOSE c \in Caller : t \in Elements(Script[c])

\* The tasks one thread sends to one processor arrive in the order it sent
\* them: the mutexes of the receivers and the single receive thread are there
\* for a guarantee of this kind.
InSequence ==
    \A c \in Caller, p \in Proc :
        \A i, j \in 1..Len(submitted[p]) :
            i < j /\ {submitted[p][i], submitted[p][j]} \subseteq Elements(Script[c])
                => \E k, l \in 1..Len(Script[c]) :
                     k <= l /\ Script[c][k] = submitted[p][i] /\ Script[c][l] = submitted[p][j]
=============================================================================
