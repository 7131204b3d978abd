---------------------------- MODULE DataVersion ----------------------------
(***************************************************************************)
(* Versions with several levels (class OOPDataVersion) and the version one *)
(* object goes through: every write increments it, and a task may open a   *)
(* new level under it.  A level with a cardinality counts that many        *)
(* increments and then carries into the level above.                       *)
(*                                                                         *)
(* Definitions named Bug... are faults seeded into the definition that     *)
(* follows them, to see the properties fail; nothing uses them otherwise.  *)
(***************************************************************************)
EXTENDS Integers, Sequences, FiniteSets

CONSTANTS Cardinalities,  \* cardinalities given to new levels
          MaxLevels,      \* bound on the number of levels
          MaxHistory,     \* bound on the number of versions of an object
          Requests        \* versions tasks may ask for

ASSUME BoundsAssumption ==
    /\ Cardinalities \subseteq Nat \cup {-1}
    /\ MaxLevels \in Nat \ {0} /\ MaxHistory \in Nat
    /\ \A r \in Requests : r.card \in Seq(Int) /\ r.version \in Seq(Int)

VARIABLES version,   \* the current version of the object
          seen       \* every version it has had (ghost)

vars == <<version, seen>>

Unbounded == -1      \* cardinality of a level that never carries
Any == -1            \* a level of a request that accepts any version

Levels(v) == Len(v.version)
Smaller(m, n) == IF m < n THEN m ELSE n
CommonLevels(a, b) == 1..Smaller(Levels(a), Levels(b))

\* The first level where s and t differ decides
FirstDifference(s, t, I, i) == /\ i \in I /\ s[i] # t[i]
                               /\ \A j \in I : j < i => s[j] = t[j]

\* operator<: versions, then cardinalities of the common levels, then depth
Less(a, b) ==
    LET I == CommonLevels(a, b)
        sameVersion == \A i \in I : a.version[i] = b.version[i]
        sameCard == \A i \in I : a.card[i] = b.card[i]
    IN  \/ \E i \in I : /\ FirstDifference(a.version, b.version, I, i)
                        /\ a.version[i] < b.version[i]
        \/ /\ sameVersion
           /\ \E i \in I : /\ FirstDifference(a.card, b.card, I, i)
                           /\ a.card[i] < b.card[i]
        \/ sameVersion /\ sameCard /\ Levels(a) < Levels(b)

\* A request that names only the version of some levels
CanExecute(r, v) == /\ Levels(r) = Levels(v)
                    /\ \A i \in 1..Levels(v) : r.version[i] \in {Any, v.version[i]}

\* Levels of a request before the first one that accepts any version
NamedLevels(r) == {i \in 1..Levels(r) : \A j \in 1..i : r.version[j] # Any}

BugFirstLevelOnly(r, v) == r.version[1] = Any \/ r.version[1] >= v.version[1]

AmICompatible(r, v) ==
    \A i \in NamedLevels(r) : i <= Levels(v) => r.version[i] >= v.version[i]

BugCarryLost(v) ==
    LET n == Levels(v)
        next == v.version[n] + 1
    IN  IF v.card[n] = next /\ n > 1
        THEN [version |-> SubSeq(v.version, 1, n - 1), card |-> SubSeq(v.card, 1, n - 1)]
        ELSE [v EXCEPT !.version[n] = next]

\* A level that one more increment would fill, below another that can count it
Fills(v, n) == n > 1 /\ v.card[n] = v.version[n] + 1

\* Increment: levels that are filled give way, from the last one up, and the
\* first that is not counts one more
Counting(v) == CHOOSE n \in 1..Levels(v) : /\ ~Fills(v, n)
                                           /\ \A m \in (n + 1)..Levels(v) : Fills(v, m)
Increment(v) == LET n == Counting(v)
                IN  [version |-> SubSeq([v.version EXCEPT ![n] = @ + 1], 1, n),
                     card |-> SubSeq(v.card, 1, n)]

IncrementLevel(v, c) == [version |-> Append(v.version, 0), card |-> Append(v.card, c)]

New(c) == [version |-> <<0>>, card |-> <<c>>]

Become(v) == /\ Cardinality(seen) < MaxHistory
             /\ version' = v
             /\ seen' = seen \cup {v}

Init == \E c \in Cardinalities : version = New(c) /\ seen = {New(c)}

Write == Become(Increment(version))
\* A task that sets the version of what it writes by hand (SetDataVersion)
OpenLevel == \E c \in Cardinalities : /\ Levels(version) < MaxLevels
                                      /\ Become(IncrementLevel(version, c))
Next == Write \/ OpenLevel
Spec == Init /\ [][Next]_vars

-----------------------------------------------------------------------------
\* "A version will NEVER decrease" (oopdataversion.h): through carries and new
\* levels, each version of an object is newer by operator< than every earlier
\* one and not older, so the maps keyed by it hold the object's history in order
\* and rbegin, which every grant reads, is the last version written.  (Between
\* arbitrary versions operator< is not transitive: cardinality precedes depth.)
VersionNeverDecreases ==
    [][\A v \in seen : Less(v, version') /\ ~Less(version', v)]_vars

\* A request whose version has come and gone is reported as incompatible as
\* soon as no deeper level is open, so that its task does not wait for ever.
Exact(r) == \A i \in 1..Levels(r) : r.version[i] # Any
SupersededIsRejected ==
    \A r \in Requests :
        /\ Exact(r) /\ ~CanExecute(r, version) /\ Levels(version) <= Levels(r)
        /\ \E v \in seen : CanExecute(r, v)
        => ~AmICompatible(r, version)
=============================================================================
