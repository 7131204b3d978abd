----------------------------- MODULE MCMessages -----------------------------
(* Instances of DataVersion and Messages for TLC *)
EXTENDS Messages

\* Every request of up to three levels with small versions, exact or not
SmallRequests ==
    { [version |-> s, card |-> [i \in DOMAIN s |-> Unbounded]] :
        s \in UNION { [1..n -> -1..2] : n \in 1..3 } }
SmallCardinalities == {Unbounded, 1, 2}

Id(p, n) == [fId |-> n, fProcId |-> p]
Number == [class |-> OOPINT, data |-> <<12345678>>]
Double == [class |-> OOPDOUBLE, data |-> <<12345678>>]
Vector(class, data) == [class |-> class, data |-> data]
Tag(mode, p, v, o) ==
    [id |-> Id(1, 7), task |-> Id(p, 4), mode |-> mode, proc |-> p, version |-> v, object |-> o]
BaseTask(class, n) ==
    [class |-> class, id |-> Id(1, n), proc |-> 0, update |-> TRUE, depend |-> <<>>, tag |-> NoTag,
     transfer |-> <<>>, status |-> 0, origin |-> 0, target |-> NoId]

\* Daemon tasks have no number; other tasks have one
SmallTasks(v) ==
    LET read == Tag(0, 0, v, NoObject)
        write == Tag(1, 2, New(Unbounded), NoObject)
    IN  { [BaseTask(TTASK, 4) EXCEPT !.depend = <<read, write>>, !.update = FALSE],
          [BaseTask(TDMREQUESTTASK, 0) EXCEPT !.tag = write],
          [BaseTask(TDMOWNERTASK, 0) EXCEPT !.tag = Tag(1, 0, v, Double), !.transfer = <<read, write>>],
          [BaseTask(TDMOWNERTASK, 0) EXCEPT !.tag = Tag(1, 0, v, Vector(OOPVECINT, <<3, 7>>))],
          [BaseTask(TDMOWNERTASK, 0) EXCEPT !.tag = read, !.transfer = <<>>],
          [BaseTask(TTERMINATIONTASK, 6) EXCEPT !.status = 2, !.origin = 1],
          [BaseTask(TDELOBJECTTASK, 8) EXCEPT !.target = Id(1, 7)],
          [BaseTask(TDMOWNERTASK, 9) EXCEPT
              !.tag = Tag(1, 0, v, Vector(OOPVECDOUBLE, <<12345678, 23456789>>)), !.transfer = <<write>>],
          [BaseTask(TDMOWNERTASK, 5) EXCEPT !.tag = Tag(0, 0, v, Number)],
          [BaseTask(TDMOWNERTASK, 5) EXCEPT !.tag = Tag(0, 0, v, Vector(OOPVECINT, <<>>))],
          BaseTask(TSNAPSHOTTASK, 3) }
ASSUME SmallTasksAreMessages == \A v \in SmallRequests : SmallTasks(v) \subseteq Message
SmallRegistered == {TTASK, TDMOWNERTASK, TSNAPSHOTTASK, TTERMINATIONTASK}
=============================================================================
