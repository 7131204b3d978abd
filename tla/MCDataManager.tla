--------------------------- MODULE MCDataManager ---------------------------
(***************************************************************************)
(* Instances of DataManager for TLC: the tasks, named for their processor, *)
(* mode and version, and the workloads they make.                          *)
(***************************************************************************)
EXTENDS DataManager

CONSTANTS h1, h2, h3, h4, h5,     \* tasks of the home processor
          a1, a2, a3, a4, a5,     \* of processor 1
          b1, b2                  \* of processor 2

AtHome == {h1, h2, h3, h4, h5}
AllTasks == AtHome \cup {a1, a2, a3, a4, a5, b1, b2}
TwoProcs == {0, 1}
ThreeProcs == {0, 1, 2}
MCProc == [t \in Task |-> IF t \in AtHome THEN 0 ELSE IF t \in {b1, b2} THEN 2 ELSE 1]
MCMode == [t \in Task |-> IF t \in {h3, h4, a4, a5} THEN "Read" ELSE "Write"]
MCVersion == [t \in Task |-> CASE t = a1 -> 0 [] t = b1 -> 1 [] t = h1 -> 2
                                 [] t = h4 -> 0 [] t = a4 -> 1 [] OTHER -> AnyVersion]

\* A chain of writers, one per processor: the object leaves home twice and
\* comes back, and the first request may be filed last.
Chain == {h1, a1, b1}
\* Writers of whatever version is there, two of them on one processor: their
\* requests follow the object around and come back as nobody's
Migrate == {a2, a3, b2}
\* Readers and writers that share one processor
Local == {h2, h3, h4, h5}
\* Readers and writers on both processors: copies sent to readers, late
\* requests, and requests that come back to the processor that filed them
Mixed == {a2, a4, h3}
SafetyWorkloads == {Chain, Migrate, Local, Mixed}
ProgressWorkloads == {Chain, Local}
ProgressTasks == Chain \cup Local

\* A remote reader, and a writer on either side
ReaderTasks == {a5, a2, h2}
\* A remote writer that asks for the version a home writer supersedes
LateTasks == {h2, a1}
ReaderWorkloads == {ReaderTasks}
LateWorkloads == {LateTasks}
=============================================================================
