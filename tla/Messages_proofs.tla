-------------------------- MODULE Messages_proofs --------------------------
(***************************************************************************)
(* The history of a version, through any number of levels, of writes and   *)
(* of carries: it never goes back, and a request that names a version of   *)
(* the past is recognised.                                                 *)
(*                                                                         *)
(* And what a buffer carries, whatever is written to it: a Read takes back *)
(* what the Write of its class left.  The functions that write and read    *)
(* lists are recursive; that they are defined, and what they give, follows *)
(* by induction over the length of the list, which the well-foundedness of *)
(* < on the natural numbers provides with a set where one would write a    *)
(* predicate.                                                              *)
(***************************************************************************)
EXTENDS Messages, SequenceTheorems, WellFoundedInduction, TLAPS

-----------------------------------------------------------------------------
(* Induction over numbers, for the recursive functions of Messages         *)

Below == {p \in Nat \X Nat : p[1] < p[2]}

LEMMA BelowIsWellFounded == IsWellFoundedOn(Below, Nat)
  BY NatLessThanWellFounded, Zenon DEF OpToRel, Below

LEMMA Smallest ==
    ASSUME NEW S \in SUBSET Nat, S # {}
    PROVE  \E m \in S : \A k \in S : m <= k
<1>1. PICK m \in S : \A k \in S : <<k, m>> \notin Below
  BY BelowIsWellFounded, WFMin
<1>2. ASSUME NEW k \in S PROVE m <= k
  <2>1. k \in Nat /\ m \in Nat
    OBVIOUS
  <2>2. k < m => <<k, m>> \in Below
    BY <2>1 DEF Below
  <2>3. QED
    BY <1>1, <2>1, <2>2
<1>3. QED
  BY <1>2

\* Induction with a set in the place of a predicate.
LEMMA InductionOnNat ==
    ASSUME NEW S, 0 \in S, \A n \in Nat : n \in S => n + 1 \in S
    PROVE  \A n \in Nat : n \in S
<1>1. SUFFICES ASSUME Nat \ S # {} PROVE FALSE
  OBVIOUS
<1>2. PICK m \in Nat \ S : \A k \in Nat \ S : m <= k
  <2> DEFINE D == Nat \ S
  <2>1. D \in SUBSET Nat /\ D # {}
    BY <1>1
  <2> HIDE DEF D
  <2>2. \E m \in D : \A k \in D : m <= k
    BY <2>1, Smallest
  <2>3. QED
    BY <2>2 DEF D
<1>3. m # 0 /\ m - 1 \in Nat /\ m - 1 \notin Nat \ S
  BY <1>2
<1>4. m - 1 + 1 \in S
  BY <1>3
<1>5. QED
  BY <1>2, <1>4

-----------------------------------------------------------------------------
(* The history of a version.  operator< is not transitive, so that the     *)
(* order of the history does not follow from that of two consecutive       *)
(* versions.  What follows from step to step is stronger: an earlier       *)
(* version is smaller at the first level where it differs, or the later    *)
(* one is opened below it.                                                 *)

Version == {v \in [version : Seq(Nat), card : Seq(Int)] : Levels(v) # 0 /\ Len(v.card) = Levels(v)}

SmallerAt(v, c, i) == /\ i \in CommonLevels(v, c)
                      /\ v.version[i] < c.version[i]
                      /\ \A j \in 1..(i - 1) : v.version[j] = c.version[j]
OpenedBelow(v, c) == /\ Levels(v) < Levels(c)
                     /\ \A i \in 1..Levels(v) : /\ v.version[i] = c.version[i]
                                                /\ v.card[i] = c.card[i]
Before(v, c) == (\E i \in CommonLevels(v, c) : SmallerAt(v, c, i)) \/ OpenedBelow(v, c)

HistoryInv == /\ version \in Version /\ seen \subseteq Version
              /\ \A v \in seen : v = version \/ Before(v, version)

LEMMA Largest ==
    ASSUME NEW n \in Nat, NEW S \in SUBSET (1..n), S # {}
    PROVE  \E i \in S : \A j \in S : j <= i
<1> DEFINE T == {n - i : i \in S}
<1>1. T \in SUBSET Nat /\ T # {}
  <2>1. \A i \in S : n - i \in Nat
    OBVIOUS
  <2>2. QED
    BY <2>1
<1> HIDE DEF T
<1>2. PICK x \in T : \A y \in T : x <= y
  BY <1>1, Smallest
<1>3. PICK i \in S : x = n - i
  BY DEF T
<1>4. ASSUME NEW j \in S PROVE j <= i
  <2>1. x <= n - j
    BY <1>2 DEF T
  <2>2. QED
    BY <1>3, <2>1
<1>5. QED
  BY <1>4

\* The level that counts is there: the first one always has room.
LEMMA CountingLevel ==
    ASSUME NEW v \in Version
    PROVE  Counting(v) \in 1..Levels(v)
<1> DEFINE L == Levels(v)
           S == {n \in 1..L : ~Fills(v, n)}
<1>1. L \in Nat /\ L # 0
  BY LenProperties DEF Version, Levels
<1>2. 1 \in S
  BY <1>1 DEF Fills
<1> HIDE DEF L
<1>3. PICK n \in S : \A m \in S : m <= n
  <2>1. S \in SUBSET (1..L) /\ S # {}
    BY <1>2
  <2> HIDE DEF S
  <2>2. QED
    BY <1>1, <2>1, Largest
<1>4. n \in 1..L /\ ~Fills(v, n) /\ \A m \in (n + 1)..L : Fills(v, m)
  BY <1>1, <1>3
<1>5. \E k \in 1..Levels(v) : ~Fills(v, k) /\ \A m \in (k + 1)..Levels(v) : Fills(v, m)
  BY <1>4 DEF L
<1>6. QED
  BY <1>5 DEF Counting

\* What an increment does: the levels above the one that counts are kept, those
\* below it are gone.
LEMMA Incremented ==
    ASSUME NEW v \in Version, NEW w, w = Increment(v)
    PROVE  /\ w \in Version
           /\ \E n \in 1..Levels(v) : /\ Levels(w) = n /\ w.version[n] = v.version[n] + 1
                                      /\ \A i \in 1..(n - 1) : w.version[i] = v.version[i]
                                      /\ \A i \in 1..n : w.card[i] = v.card[i]
<1>1. PICK n \in 1..Levels(v) : n = Counting(v)
  BY CountingLevel
<1>2. /\ v.version \in Seq(Nat) /\ v.card \in Seq(Int) /\ Len(v.version) \in Nat
      /\ Len(v.card) = Len(v.version) /\ n \in 1..Len(v.version)
  BY <1>1, LenProperties DEF Version, Levels
<1> DEFINE s == [v.version EXCEPT ![n] = @ + 1]
<1>3. s \in Seq(Nat) /\ Len(s) = Len(v.version)
      /\ \A i \in 1..Len(v.version) : s[i] = IF i = n THEN v.version[n] + 1 ELSE v.version[i]
  <2>1. v.version[n] + 1 \in Nat
    BY <1>2, ElementOfSeq
  <2>2. QED
    BY <1>2, <2>1, ExceptSeq, LenProperties
<1> HIDE DEF s
<1>4. /\ SubSeq(s, 1, n) \in Seq(Nat) /\ Len(SubSeq(s, 1, n)) = n
      /\ \A i \in 1..n : SubSeq(s, 1, n)[i] = s[i]
  BY <1>2, <1>3, SubSeqProperties
<1>5. /\ SubSeq(v.card, 1, n) \in Seq(Int) /\ Len(SubSeq(v.card, 1, n)) = n
      /\ \A i \in 1..n : SubSeq(v.card, 1, n)[i] = v.card[i]
  BY <1>2, SubSeqProperties
<1>6. w = [version |-> SubSeq(s, 1, n), card |-> SubSeq(v.card, 1, n)]
  BY <1>1 DEF Increment, s
<1>7. w \in Version /\ Levels(w) = n
  BY <1>1, <1>2, <1>4, <1>5, <1>6 DEF Version, Levels
<1>8. /\ w.version[n] = v.version[n] + 1 /\ \A i \in 1..(n - 1) : w.version[i] = v.version[i]
      /\ \A i \in 1..n : w.card[i] = v.card[i]
  <2>1. /\ w.version = SubSeq(s, 1, n) /\ w.card = SubSeq(v.card, 1, n)
        /\ n \in Nat /\ \A i \in 1..n : i \in 1..Len(v.version)
    BY <1>2, <1>6
  <2>2. \A i \in 1..n : /\ w.version[i] = IF i = n THEN v.version[n] + 1 ELSE v.version[i]
                        /\ w.card[i] = v.card[i]
    BY <1>3, <1>4, <1>5, <2>1
  <2>3. n \in 1..n /\ \A i \in 1..(n - 1) : i \in 1..n /\ i # n
    BY <1>2
  <2>4. QED
    BY <2>2, <2>3
<1>9. QED
  BY <1>1, <1>7, <1>8

LEMMA Opened ==
    ASSUME NEW v \in Version, NEW c \in Int, NEW w, w = IncrementLevel(v, c)
    PROVE  /\ w \in Version /\ Levels(w) = Levels(v) + 1
           /\ \A i \in 1..Levels(v) : w.version[i] = v.version[i] /\ w.card[i] = v.card[i]
<1>1. /\ v.version \in Seq(Nat) /\ v.card \in Seq(Int) /\ Len(v.version) \in Nat
      /\ Len(v.card) = Len(v.version)
  BY LenProperties DEF Version, Levels
<1>2. /\ Append(v.version, 0) \in Seq(Nat) /\ Len(Append(v.version, 0)) = Len(v.version) + 1
      /\ \A i \in 1..Len(v.version) : Append(v.version, 0)[i] = v.version[i]
  BY <1>1, AppendProperties
<1>3. /\ Append(v.card, c) \in Seq(Int) /\ Len(Append(v.card, c)) = Len(v.version) + 1
      /\ \A i \in 1..Len(v.version) : Append(v.card, c)[i] = v.card[i]
  BY <1>1, AppendProperties
<1>4. w = [version |-> Append(v.version, 0), card |-> Append(v.card, c)]
  BY DEF IncrementLevel
<1>5. QED
  BY <1>1, <1>2, <1>3, <1>4 DEF Version, Levels

\* Levels common to two versions
LEMMA Common ==
    ASSUME NEW v \in Version, NEW w \in Version
    PROVE  /\ Levels(v) \in Nat \ {0} /\ Levels(w) \in Nat \ {0}
           /\ \A i : i \in CommonLevels(v, w) <=> i \in 1..Levels(v) /\ i \in 1..Levels(w)
           /\ \A i \in 1..Levels(v) : v.version[i] \in Nat
<1>1. /\ Len(v.version) \in Nat /\ Len(w.version) \in Nat
      /\ Len(v.version) # 0 /\ Len(w.version) # 0
      /\ \A i \in 1..Len(v.version) : v.version[i] \in Nat
  BY LenProperties, ElementOfSeq DEF Version, Levels
<1>2. QED
  BY <1>1 DEF CommonLevels, Smaller, Levels

\* Such versions are in the order of the code, and in no other.
LEMMA BeforeIsLess ==
    ASSUME NEW v \in Version, NEW w \in Version, Before(v, w)
    PROVE  Less(v, w) /\ ~Less(w, v)
<1>1. /\ Levels(v) \in Nat /\ Levels(w) \in Nat
      /\ \A i : i \in CommonLevels(v, w) <=> i \in 1..Levels(v) /\ i \in 1..Levels(w)
      /\ \A i : i \in CommonLevels(w, v) <=> i \in 1..Levels(v) /\ i \in 1..Levels(w)
      /\ \A i \in 1..Levels(v) : v.version[i] \in Nat
      /\ \A i \in 1..Levels(w) : w.version[i] \in Nat
  BY Common
<1>2. CASE \E i \in CommonLevels(v, w) : SmallerAt(v, w, i)
  <2>1. PICK i \in CommonLevels(v, w) : SmallerAt(v, w, i)
    BY <1>2
  <2>2. /\ i \in 1..Levels(v) /\ i \in 1..Levels(w) /\ i \in CommonLevels(w, v)
        /\ v.version[i] < w.version[i] /\ v.version[i] # w.version[i] /\ ~(w.version[i] < v.version[i])
        /\ \A j \in 1..(i - 1) : v.version[j] = w.version[j]
    BY <1>1, <2>1 DEF SmallerAt
  <2>3. FirstDifference(v.version, w.version, CommonLevels(v, w), i)
    BY <1>1, <2>1, <2>2 DEF FirstDifference
  <2>4. Less(v, w)
    BY <2>1, <2>2, <2>3 DEF Less
  <2>5. ASSUME NEW j \in CommonLevels(w, v),
               FirstDifference(w.version, v.version, CommonLevels(w, v), j)
        PROVE  j = i
    BY <1>1, <2>2, <2>5 DEF FirstDifference
  <2>6. ~Less(w, v)
    BY <2>2, <2>5 DEF Less
  <2>7. QED
    BY <2>4, <2>6
<1>3. CASE OpenedBelow(v, w)
  <2>1. /\ Levels(v) < Levels(w)
        /\ \A i \in CommonLevels(v, w) : v.version[i] = w.version[i] /\ v.card[i] = w.card[i]
        /\ \A i \in CommonLevels(w, v) : v.version[i] = w.version[i] /\ v.card[i] = w.card[i]
    BY <1>1, <1>3 DEF OpenedBelow
  <2>2. Less(v, w)
    BY <2>1 DEF Less
  <2>3. ~Less(w, v)
    BY <1>1, <2>1 DEF Less, FirstDifference
  <2>4. QED
    BY <2>2, <2>3
<1>4. QED
  BY <1>2, <1>3 DEF Before

\* A write makes a version that is after the current one and after all that were
\* before that.
LEMMA WriteIsLater ==
    ASSUME NEW v \in Version, NEW c \in Version, v = c \/ Before(v, c), NEW w, w = Increment(c)
    PROVE  Before(v, w)
<1>1. w \in Version
  BY Incremented
<1>2. PICK n \in 1..Levels(c) : /\ Levels(w) = n /\ w.version[n] = c.version[n] + 1
                                /\ \A i \in 1..(n - 1) : w.version[i] = c.version[i]
                                /\ \A i \in 1..n : w.card[i] = c.card[i]
  BY Incremented
<1>3. /\ Levels(v) \in Nat /\ Levels(c) \in Nat /\ Levels(w) \in Nat
      /\ \A i : i \in CommonLevels(v, c) <=> i \in 1..Levels(v) /\ i \in 1..Levels(c)
      /\ \A i : i \in CommonLevels(v, w) <=> i \in 1..Levels(v) /\ i \in 1..Levels(w)
      /\ \A i \in 1..Levels(v) : v.version[i] \in Nat
      /\ \A i \in 1..Levels(c) : c.version[i] \in Nat
      /\ \A i \in 1..Levels(w) : w.version[i] \in Nat
  BY <1>1, Common
<1>4. ASSUME n \in 1..Levels(v), \A j \in 1..n : v.version[j] = c.version[j]
      PROVE  SmallerAt(v, w, n)
  BY <1>2, <1>3, <1>4 DEF SmallerAt
<1>5. CASE v = c
  <2>1. SmallerAt(v, w, n)
    BY <1>2, <1>4, <1>5
  <2>2. QED
    BY <2>1 DEF Before, SmallerAt
<1>6. CASE \E i \in CommonLevels(v, c) : SmallerAt(v, c, i)
  <2>1. PICK i \in 1..Levels(v) : /\ i \in 1..Levels(c) /\ v.version[i] < c.version[i]
                                  /\ \A j \in 1..(i - 1) : v.version[j] = c.version[j]
    BY <1>3, <1>6 DEF SmallerAt
  <2>2. CASE i <= n
    <3>1. SmallerAt(v, w, i)
      BY <1>2, <1>3, <2>1, <2>2 DEF SmallerAt
    <3>2. QED
      BY <3>1 DEF Before, SmallerAt
  <2>3. CASE n < i
    <3>1. SmallerAt(v, w, n)
      BY <1>2, <1>3, <1>4, <2>1, <2>3
    <3>2. QED
      BY <3>1 DEF Before, SmallerAt
  <2>4. QED
    BY <1>3, <2>1, <2>2, <2>3
<1>7. CASE OpenedBelow(v, c)
  <2>1. CASE n <= Levels(v)
    <3>1. SmallerAt(v, w, n)
      BY <1>2, <1>3, <1>4, <1>7, <2>1 DEF OpenedBelow
    <3>2. QED
      BY <3>1 DEF Before, SmallerAt
  <2>2. CASE Levels(v) < n
    <3>1. OpenedBelow(v, w)
      BY <1>2, <1>3, <1>7, <2>2 DEF OpenedBelow
    <3>2. QED
      BY <3>1 DEF Before
  <2>3. QED
    BY <1>2, <1>3, <2>1, <2>2
<1>8. QED
  BY <1>5, <1>6, <1>7 DEF Before

\* So does a level that is opened.
LEMMA LevelIsLater ==
    ASSUME NEW v \in Version, NEW c \in Version, v = c \/ Before(v, c),
           NEW k \in Int, NEW w, w = IncrementLevel(c, k)
    PROVE  Before(v, w)
<1>1. /\ w \in Version /\ Levels(w) = Levels(c) + 1
      /\ \A i \in 1..Levels(c) : w.version[i] = c.version[i] /\ w.card[i] = c.card[i]
  BY Opened
<1>2. /\ Levels(v) \in Nat /\ Levels(c) \in Nat
      /\ \A i : i \in CommonLevels(v, c) <=> i \in 1..Levels(v) /\ i \in 1..Levels(c)
      /\ \A i : i \in CommonLevels(v, w) <=> i \in 1..Levels(v) /\ i \in 1..Levels(w)
  BY <1>1, Common
<1>3. CASE v = c \/ OpenedBelow(v, c)
  <2>1. OpenedBelow(v, w)
    BY <1>1, <1>2, <1>3 DEF OpenedBelow
  <2>2. QED
    BY <2>1 DEF Before
<1>4. CASE \E i \in CommonLevels(v, c) : SmallerAt(v, c, i)
  <2>1. PICK i \in CommonLevels(v, c) : SmallerAt(v, c, i)
    BY <1>4
  <2>2. SmallerAt(v, w, i)
    BY <1>1, <1>2, <2>1 DEF SmallerAt
  <2>3. QED
    BY <2>2 DEF Before, SmallerAt
<1>5. QED
  BY <1>3, <1>4 DEF Before

LEMMA HistoryInit == Init => HistoryInv
<1> SUFFICES ASSUME NEW c \in Cardinalities, version = New(c), seen = {New(c)} PROVE HistoryInv
  BY DEF Init
<1>1. New(c) \in Version
  <2>1. c \in Int
    BY BoundsAssumption
  <2>2. /\ <<0>> \in Seq(Nat) /\ <<c>> \in Seq(Int) /\ Len(<<0>>) = 1 /\ Len(<<c>>) = 1
    BY <2>1
  <2>3. QED
    BY <2>2 DEF New, Version, Levels
<1>2. QED
  BY <1>1 DEF HistoryInv

LEMMA HistoryNext ==
    ASSUME HistoryInv, [Next]_vars
    PROVE  HistoryInv' /\ (Next => \A v \in seen : Before(v, version'))
<1>1. ASSUME NEW w \in Version, Become(w), \A v \in seen : Before(v, w)
      PROVE  HistoryInv'
  BY <1>1 DEF HistoryInv, Become
<1>2. CASE Write
  <2>1. PICK w : w = Increment(version)
    OBVIOUS
  <2>2. w \in Version /\ \A v \in seen : Before(v, w)
    BY <2>1, Incremented, WriteIsLater DEF HistoryInv
  <2>3. Become(w) /\ version' = w
    BY <1>2, <2>1 DEF Write, Become
  <2>4. QED
    BY <1>1, <2>2, <2>3
<1>3. CASE OpenLevel
  <2>1. PICK c \in Cardinalities : Become(IncrementLevel(version, c))
    BY <1>3 DEF OpenLevel
  <2>2. PICK w : w = IncrementLevel(version, c)
    OBVIOUS
  <2>3. c \in Int
    BY BoundsAssumption
  <2>4. w \in Version /\ \A v \in seen : Before(v, w)
    BY <2>2, <2>3, Opened, LevelIsLater DEF HistoryInv
  <2>5. Become(w) /\ version' = w
    BY <2>1, <2>2 DEF Become
  <2>6. QED
    BY <1>1, <2>4, <2>5
<1>4. CASE UNCHANGED vars
  <2>1. HistoryInv'
    BY <1>4 DEF vars, HistoryInv
  <2>2. Next => FALSE \/ Write \/ OpenLevel
    BY DEF Next
  <2>3. QED
    BY <1>2, <1>3, <2>1, <2>2
<1>5. QED
  BY <1>2, <1>3, <1>4 DEF Next

LEMMA History == Spec => []HistoryInv
<1>1. HistoryInv /\ [Next]_vars => HistoryInv'
  BY HistoryNext
<1>2. QED
  BY <1>1, HistoryInit, PTL DEF Spec

\* A version never decreases: whatever is written or opened is after every
\* version the object has had, by operator<, and before none.
THEOREM NeverDecreases == Spec => VersionNeverDecreases
<1>1. ASSUME HistoryInv, [Next]_vars
      PROVE  [\A v \in seen : Less(v, version') /\ ~Less(version', v)]_vars
  <2>1. CASE Next
    <3>1. HistoryInv' /\ \A v \in seen : Before(v, version')
      BY <1>1, <2>1, HistoryNext
    <3>2. version' \in Version /\ seen \subseteq Version
      BY <1>1, <3>1 DEF HistoryInv
    <3>3. \A v \in seen : Less(v, version') /\ ~Less(version', v)
      BY <3>1, <3>2, BeforeIsLess
    <3>4. QED
      BY <3>3
  <2>2. QED
    BY <1>1, <2>1
<1>2. QED
  BY <1>1, History, PTL DEF Spec, VersionNeverDecreases

\* A request for an exact version that has come and gone is recognised by
\* AmICompatible, however many writes and levels ago that was, unless deeper
\* levels are open.
THEOREM PastIsRecognised == Spec => []SupersededIsRejected
<1>1. ASSUME HistoryInv, NEW r \in Requests, Exact(r), ~CanExecute(r, version),
             Levels(version) <= Levels(r), NEW v \in seen, CanExecute(r, v)
      PROVE  ~AmICompatible(r, version)
  <2>1. v \in Version /\ version \in Version /\ v # version /\ Before(v, version)
    BY <1>1 DEF HistoryInv
  <2>2. /\ Levels(v) \in Nat /\ Levels(version) \in Nat /\ Levels(r) = Levels(v)
        /\ \A i : i \in CommonLevels(v, version) <=> i \in 1..Levels(v) /\ i \in 1..Levels(version)
        /\ \A i \in 1..Levels(v) : v.version[i] \in Nat
        /\ \A i \in 1..Levels(version) : version.version[i] \in Nat
    BY <1>1, <2>1, Common DEF CanExecute
  <2>3. \A i \in 1..Levels(r) : r.version[i] = v.version[i] /\ r.version[i] # Any
    BY <1>1, <2>2 DEF Exact, CanExecute
  <2>4. ~OpenedBelow(v, version)
    BY <1>1, <2>2 DEF OpenedBelow
  <2>5. PICK i \in 1..Levels(r) : i \in 1..Levels(version) /\ v.version[i] < version.version[i]
    BY <2>1, <2>2, <2>4 DEF Before, SmallerAt
  <2>6. i \in NamedLevels(r)
    BY <2>2, <2>3, <2>5 DEF NamedLevels
  <2>7. i <= Levels(version) /\ ~(r.version[i] >= version.version[i])
    BY <2>2, <2>3, <2>5
  <2>8. QED
    BY <2>6, <2>7 DEF AmICompatible
<1>2. HistoryInv => SupersededIsRejected
  BY <1>1 DEF SupersededIsRejected
<1>3. QED
  BY <1>2, History, PTL

-----------------------------------------------------------------------------
(* What a buffer holds, and what is taken out of it                        *)

Kinds == {"socket", "mpi", "file"}

\* The numbers xs are in w, from at on.
Holds(w, at, xs) == /\ at + Len(xs) - 1 <= Len(w)
                    /\ \A i \in 1..Len(xs) : w[at + i - 1] = xs[i]

LEMMA Joined ==
    ASSUME NEW xs \in Seq(Int), NEW ys \in Seq(Int)
    PROVE  /\ xs \o ys \in Seq(Int) /\ Len(xs \o ys) = Len(xs) + Len(ys)
           /\ Len(xs) \in Nat /\ Len(ys) \in Nat
           /\ \A i \in 1..Len(xs) : (xs \o ys)[i] = xs[i]
           /\ \A i \in 1..Len(ys) : (xs \o ys)[Len(xs) + i] = ys[i]
  OBVIOUS

LEMMA HoldsBoth ==
    ASSUME NEW w \in Seq(Int), NEW at \in Nat \ {0}, NEW xs \in Seq(Int), NEW ys \in Seq(Int),
           Holds(w, at, xs \o ys)
    PROVE  /\ Holds(w, at, xs) /\ Holds(w, at + Len(xs), ys)
           /\ at + Len(xs) \in Nat \ {0} /\ Len(xs \o ys) = Len(xs) + Len(ys)
<1> DEFINE zs == xs \o ys
<1>1. /\ zs \in Seq(Int) /\ Len(zs) = Len(xs) + Len(ys) /\ Len(xs) \in Nat /\ Len(ys) \in Nat
      /\ \A i \in 1..Len(xs) : zs[i] = xs[i]
      /\ \A i \in 1..Len(ys) : zs[Len(xs) + i] = ys[i]
  BY Joined
<1>2. Holds(w, at, zs)
  OBVIOUS
<1> HIDE DEF zs
<1>3. at + Len(zs) - 1 <= Len(w) /\ Len(w) \in Nat
      /\ \A i \in 1..Len(zs) : w[at + i - 1] = zs[i]
  BY <1>2 DEF Holds
<1>4. Holds(w, at, xs)
  <2>1. at + Len(xs) - 1 <= Len(w)
    BY <1>1, <1>3
  <2>2. \A i \in 1..Len(xs) : i \in 1..Len(zs)
    BY <1>1
  <2>3. \A i \in 1..Len(xs) : w[at + i - 1] = xs[i]
    BY <1>1, <1>3, <2>2
  <2>4. QED
    BY <2>1, <2>3 DEF Holds
<1>5. ASSUME NEW i \in 1..Len(ys) PROVE w[at + Len(xs) + i - 1] = ys[i]
  <2>1. Len(xs) + i \in 1..Len(zs) /\ at + (Len(xs) + i) - 1 = at + Len(xs) + i - 1
    BY <1>1
  <2>2. QED
    BY <1>1, <1>3, <2>1
<1>6. Holds(w, at + Len(xs), ys)
  BY <1>1, <1>3, <1>5 DEF Holds
<1>7. QED
  BY <1>1, <1>4, <1>6 DEF zs

LEMMA HoldsThree ==
    ASSUME NEW w \in Seq(Int), NEW at \in Nat \ {0}, NEW xs \in Seq(Int), NEW ys \in Seq(Int),
           NEW zs \in Seq(Int), Holds(w, at, xs \o ys \o zs)
    PROVE  /\ Holds(w, at, xs) /\ Holds(w, at + Len(xs), ys)
           /\ Holds(w, at + Len(xs) + Len(ys), zs)
           /\ at + Len(xs) \in Nat \ {0} /\ at + Len(xs) + Len(ys) \in Nat \ {0}
           /\ at + Len(xs \o ys \o zs) = at + Len(xs) + Len(ys) + Len(zs)
<1> DEFINE both == xs \o ys
<1>1. both \in Seq(Int) /\ Len(both) = Len(xs) + Len(ys) /\ Len(xs) \in Nat /\ Len(ys) \in Nat
      /\ Len(zs) \in Nat
  BY Joined
<1>2. Holds(w, at, both \o zs)
  OBVIOUS
<1> HIDE DEF both
<1>3. /\ Holds(w, at, both) /\ Holds(w, at + Len(both), zs) /\ at + Len(both) \in Nat \ {0}
      /\ Len(both \o zs) = Len(both) + Len(zs)
  <2>1. both \in Seq(Int)
    BY <1>1
  <2>2. QED
    BY <1>2, <2>1, HoldsBoth
<1>4. Holds(w, at, xs \o ys)
  BY <1>3 DEF both
<1>5. Holds(w, at, xs) /\ Holds(w, at + Len(xs), ys) /\ at + Len(xs) \in Nat \ {0}
  BY <1>4, HoldsBoth
<1>6. at + Len(both) = at + Len(xs) + Len(ys)
      /\ at + (Len(both) + Len(zs)) = at + Len(xs) + Len(ys) + Len(zs)
  BY <1>1
<1>7. QED
  BY <1>3, <1>5, <1>6 DEF both

LEMMA SubSeqOfInts ==
    ASSUME NEW w \in Seq(Int), NEW m \in Nat \ {0}, NEW n \in Nat, m + n - 1 <= Len(w)
    PROVE  /\ SubSeq(w, m, m + n - 1) \in Seq(Int) /\ Len(SubSeq(w, m, m + n - 1)) = n
           /\ \A i \in 1..n : SubSeq(w, m, m + n - 1)[i] = w[m + i - 1]
<1>1. m + n - 1 \in Int /\ Len(w) \in Nat /\ (m + n - 1) - m + 1 = n
  OBVIOUS
<1>2. \A i \in m..(m + n - 1) : i \in 1..Len(w)
  BY <1>1
<1>3. \A i \in m..(m + n - 1) : w[i] \in Int
  BY <1>2, ElementOfSeq
<1>4. /\ SubSeq(w, m, m + n - 1) \in Seq(Int)
      /\ Len(SubSeq(w, m, m + n - 1)) = IF m <= m + n - 1 THEN (m + n - 1) - m + 1 ELSE 0
      /\ \A i \in 1..((m + n - 1) - m + 1) : SubSeq(w, m, m + n - 1)[i] = w[m + i - 1]
  BY <1>1, <1>3, SubSeqProperties
<1>5. QED
  BY <1>1, <1>4

\* What a buffer holds is what Unpack takes out of it.
LEMMA Unpacked ==
    ASSUME NEW w \in Seq(Int), NEW at \in Nat \ {0}, NEW xs \in Seq(Int), buffer \in Kinds,
           Holds(w, at, xs)
    PROVE  /\ Unpack(w, at, Len(xs)) = [value |-> xs, next |-> at + Len(xs)]
           /\ at + Len(xs) \in Nat \ {0}
<1> DEFINE n == Len(xs)
           s == SubSeq(w, at, at + n - 1)
<1>1. n \in Nat /\ Len(w) \in Nat /\ at + n - 1 <= Len(w) /\ at # Aborted
  BY DEF Holds, Aborted
<1>2. s = xs
  <2>1. s \in Seq(Int) /\ Len(s) = n /\ \A i \in 1..n : s[i] = xs[i]
    BY <1>1, SubSeqOfInts DEF Holds
  <2>2. QED
    BY <2>1, SeqEqual
<1>3. InBuffer(w, at, n)
  BY <1>1 DEF InBuffer
<1>4. Smaller(at + n - 1, Len(w)) = at + n - 1
  BY <1>1 DEF Smaller
<1>5. xs \o Zeros(n - Len(xs)) = xs
  BY <1>1 DEF Zeros
<1>6. UnpackSocket(w, at, n) = [value |-> xs, next |-> at + n]
  BY <1>2, <1>3 DEF UnpackSocket
<1>7. UnpackMPI(w, at, n) = [value |-> xs, next |-> at + n]
  BY <1>2, <1>3 DEF UnpackMPI
<1>8. ScanFile(w, at, n) = [value |-> xs, next |-> at + n]
  BY <1>2, <1>4, <1>5 DEF ScanFile
<1>9. QED
  BY <1>1, <1>6, <1>7, <1>8 DEF Unpack, Kinds

\* The same, of one part after another.
LEMMA UnpackedFirst ==
    ASSUME NEW w \in Seq(Int), NEW at \in Nat \ {0}, NEW xs \in Seq(Int), NEW ys \in Seq(Int),
           buffer \in Kinds, Holds(w, at, xs \o ys)
    PROVE  /\ Unpack(w, at, Len(xs)) = [value |-> xs, next |-> at + Len(xs)]
           /\ Holds(w, at + Len(xs), ys) /\ at + Len(xs) \in Nat \ {0}
           /\ Len(xs \o ys) = Len(xs) + Len(ys)
<1>1. /\ Holds(w, at, xs) /\ Holds(w, at + Len(xs), ys)
      /\ at + Len(xs) \in Nat \ {0} /\ Len(xs \o ys) = Len(xs) + Len(ys)
  BY HoldsBoth
<1>2. QED
  BY <1>1, Unpacked

-----------------------------------------------------------------------------
(* Each Read takes back what its Write left                                *)

\* r is x, and what was read is xs.
Reads(r, x, at, xs) == r = [value |-> x, next |-> at + Len(xs)]

LEMMA IdRead ==
    ASSUME NEW w \in Seq(Int), NEW at \in Nat \ {0}, NEW id \in Ids, buffer \in Kinds,
           Holds(w, at, WriteId(id))
    PROVE  Reads(ReadId(w, at), id, at, WriteId(id))
<1>1. /\ WriteId(id) \in Seq(Int) /\ Len(WriteId(id)) = 2
      /\ WriteId(id)[1] = id.fId /\ WriteId(id)[2] = id.fProcId
  BY DEF WriteId, Ids
<1>2. Unpack(w, at, 2) = [value |-> WriteId(id), next |-> at + 2]
  BY <1>1, Unpacked
<1>3. [fId |-> WriteId(id)[1], fProcId |-> WriteId(id)[2]] = id
  BY <1>1 DEF Ids
<1>4. QED
  BY <1>1, <1>2, <1>3 DEF ReadId, Reads

LEMMA IdType ==
    ASSUME NEW id \in Ids
    PROVE  WriteId(id) \in Seq(Int) /\ Len(WriteId(id)) = 2
  BY DEF WriteId, Ids

\* A number of numbers, and the numbers.
LEMMA VectorRead ==
    ASSUME NEW w \in Seq(Int), NEW at \in Nat \ {0}, NEW xs \in Seq(Int), buffer \in Kinds,
           Holds(w, at, <<Len(xs)>> \o xs)
    PROVE  Reads(ReadVector(w, at), xs, at, <<Len(xs)>> \o xs)
<1> DEFINE n == <<Len(xs)>>
<1>1. n \in Seq(Int) /\ Len(n) = 1 /\ n[1] = Len(xs) /\ Len(xs) \in Nat
  OBVIOUS
<1> HIDE DEF n
<1>2. Holds(w, at, n \o xs) /\ <<Len(xs)>> = n
  BY DEF n
<1>3. /\ Unpack(w, at, 1) = [value |-> n, next |-> at + 1]
      /\ Holds(w, at + 1, xs) /\ at + 1 \in Nat \ {0} /\ Len(n \o xs) = 1 + Len(xs)
  <2>1. n \in Seq(Int)
    BY <1>1
  <2>2. /\ Unpack(w, at, Len(n)) = [value |-> n, next |-> at + Len(n)]
        /\ Holds(w, at + Len(n), xs) /\ at + Len(n) \in Nat \ {0}
        /\ Len(n \o xs) = Len(n) + Len(xs)
    BY <1>2, <2>1, UnpackedFirst
  <2>3. QED
    BY <1>1, <2>2
<1>4. Unpack(w, at + 1, Len(xs)) = [value |-> xs, next |-> at + 1 + Len(xs)]
  BY <1>3, Unpacked
<1>5. ReadVector(w, at) = [value |-> xs, next |-> at + 1 + Len(xs)]
  BY <1>1, <1>3, <1>4 DEF ReadVector, UnpackMany
<1>6. at + 1 + Len(xs) = at + (1 + Len(xs))
  BY <1>1
<1>7. QED
  BY <1>2, <1>3, <1>5, <1>6 DEF Reads

LEMMA VectorType ==
    ASSUME NEW xs \in Seq(Int)
    PROVE  <<Len(xs)>> \o xs \in Seq(Int) /\ Len(<<Len(xs)>> \o xs) = 1 + Len(xs)
  OBVIOUS

LEMMA VersionType ==
    ASSUME NEW v \in Versions
    PROVE  WriteVersion(v) \in Seq(Int)
<1>1. v.version \in Seq(Int) /\ v.card \in Seq(Int)
  BY DEF Versions
<1>2. QED
  BY <1>1 DEF WriteVersion

LEMMA VersionRead ==
    ASSUME NEW w \in Seq(Int), NEW at \in Nat \ {0}, NEW v \in Versions, buffer \in Kinds,
           Holds(w, at, WriteVersion(v))
    PROVE  Reads(ReadVersion(w, at), v, at, WriteVersion(v))
<1> DEFINE xs == <<Len(v.version)>> \o v.version
           ys == <<Len(v.card)>> \o v.card
<1>1. v.version \in Seq(Int) /\ v.card \in Seq(Int)
      /\ v = [version |-> v.version, card |-> v.card]
  BY DEF Versions
<1>2. xs \in Seq(Int) /\ ys \in Seq(Int)
  BY <1>1, VectorType
<1>3. WriteVersion(v) = xs \o ys
  <2>1. WriteVersion(v) = (xs \o <<Len(v.card)>>) \o v.card
    BY DEF WriteVersion
  <2>2. <<Len(v.card)>> \in Seq(Int)
    BY <1>1
  <2> HIDE DEF xs
  <2>3. QED
    BY <1>1, <1>2, <2>1, <2>2, ConcatAssociative
<1>4. /\ Holds(w, at, xs) /\ Holds(w, at + Len(xs), ys) /\ at + Len(xs) \in Nat \ {0}
      /\ Len(xs \o ys) = Len(xs) + Len(ys)
  <2> HIDE DEF xs, ys
  <2>1. QED
    BY <1>2, <1>3, HoldsBoth
<1>5. ReadVector(w, at) = [value |-> v.version, next |-> at + Len(xs)]
  BY <1>1, <1>4, VectorRead DEF Reads
<1>6. ReadVector(w, at + Len(xs)) = [value |-> v.card, next |-> at + Len(xs) + Len(ys)]
  BY <1>1, <1>4, VectorRead DEF Reads
<1> HIDE DEF xs, ys
<1>7. at + Len(xs) + Len(ys) = at + Len(xs \o ys)
  <2>1. Len(xs) \in Nat /\ Len(ys) \in Nat
    BY <1>2
  <2>2. QED
    BY <1>4, <2>1
<1>8. QED
  BY <1>1, <1>3, <1>5, <1>6, <1>7 DEF ReadVersion, VersionOf, Reads

\* What a buffer makes of doubles has the same length.
LEMMA PackedType ==
    ASSUME NEW b \in Kinds, NEW o \in Objects
    PROVE  Packed(b, o) \in Seq(Int) /\ Len(Packed(b, o)) = Len(o.data) /\ o.data \in Seq(Int)
<1>1. o.data \in Seq(Int)
  <2>1. CASE o = NoObject
    BY <2>1, EmptySeq DEF NoObject
  <2>2. CASE o \in [class : {OOPINT, OOPDOUBLE}, data : {xs \in Seq(Int) : Len(xs) = 1}]
    BY <2>2
  <2>3. CASE o \in [class : {OOPVECINT, OOPVECDOUBLE}, data : Seq(Int)]
    BY <2>3
  <2>4. QED
    BY <2>1, <2>2, <2>3 DEF Objects
<1>2. PackFile(o.data) \in Seq(Int) /\ Len(PackFile(o.data)) = Len(o.data)
  <2>1. DOMAIN o.data = 1..Len(o.data) /\ Len(o.data) \in Nat
    BY <1>1
  <2>2. \A i \in 1..Len(o.data) : ((o.data[i] + 5) \div 10) * 10 \in Int
    BY <1>1
  <2>3. PackFile(o.data) = [i \in 1..Len(o.data) |-> ((o.data[i] + 5) \div 10) * 10]
    BY <2>1 DEF PackFile
  <2>4. QED
    BY <2>1, <2>2, <2>3
<1>3. QED
  BY <1>1, <1>2 DEF Packed, PkDouble, PackSocket, PackMPI

LEMMA KeptObject ==
    ASSUME NEW b \in Kinds, NEW o \in Objects
    PROVE  /\ [o EXCEPT !.data = Packed(b, o)] = [class |-> o.class, data |-> Packed(b, o)]
           /\ o = [class |-> o.class, data |-> o.data] /\ o.class \in Int
  BY DEF Objects, NoObject, OOPINT, OOPDOUBLE, OOPVECINT, OOPVECDOUBLE

LEMMA ObjectType ==
    ASSUME NEW b \in Kinds, NEW o \in Objects
    PROVE  WriteObject(b, o) \in Seq(Int)
<1> DEFINE d == Packed(b, o)
<1>1. d \in Seq(Int) /\ o.data \in Seq(Int) /\ o.class \in Int
  BY PackedType, KeptObject
<1> HIDE DEF d
<1>2. <<Len(o.data)>> \in Seq(Int) /\ <<o.class>> \in Seq(Int) /\ <<-1>> \in Seq(Int)
  BY <1>1
<1>3. <<o.class>> \o d \o <<o.class>> \in Seq(Int)
  BY <1>1, <1>2
<1>4. <<o.class>> \o (<<Len(o.data)>> \o d) \o <<o.class>> \in Seq(Int)
  BY <1>1, <1>2
<1>5. QED
  BY <1>2, <1>3, <1>4 DEF WriteObject, WriteVector, d

LEMMA ObjectRead ==
    ASSUME NEW w \in Seq(Int), NEW at \in Nat \ {0}, NEW b \in Kinds, buffer = b,
           NEW o \in Objects, Holds(w, at, WriteObject(b, o))
    PROVE  Reads(ReadObject(w, at), [o EXCEPT !.data = Packed(b, o)], at, WriteObject(b, o))
<1> DEFINE d == Packed(b, o)
           class == <<o.class>>
<1>1. d \in Seq(Int) /\ Len(d) = Len(o.data) /\ o.data \in Seq(Int) /\ o.class \in Int
      /\ [o EXCEPT !.data = Packed(b, o)] = [class |-> o.class, data |-> d]
      /\ Len(d) \in Nat
  BY PackedType, KeptObject
<1>2. class \in Seq(Int) /\ Len(class) = 1 /\ class[1] = o.class
  BY <1>1
<1>3. CASE o = NoObject
  <2> DEFINE none == <<-1>>
  <2>1. none \in Seq(Int) /\ Len(none) = 1 /\ none[1] = -1
    OBVIOUS
  <2>2. WriteObject(b, o) = none
    <3>1. o.class \notin {OOPINT, OOPDOUBLE}
      BY <1>3 DEF NoObject, OOPINT, OOPDOUBLE
    <3>2. QED
      BY <1>3, <3>1 DEF WriteObject
  <2> HIDE DEF none
  <2>3. Unpack(w, at, 1) = [value |-> none, next |-> at + 1]
    <3>1. Unpack(w, at, Len(none)) = [value |-> none, next |-> at + Len(none)]
      <4>1. none \in Seq(Int) /\ Holds(w, at, none)
        BY <2>1, <2>2
      <4>2. QED
        BY <4>1, Unpacked
    <3>2. QED
      BY <2>1, <3>1
  <2>4. [o EXCEPT !.data = Packed(b, o)] = NoObject
    BY <1>3 DEF Packed, NoObject, OOPDOUBLE, OOPVECDOUBLE
  <2>5. ReadObject(w, at) = [value |-> NoObject, next |-> at + 1]
    BY <2>1, <2>3 DEF ReadObject, RestoreObject
  <2>6. QED
    BY <2>1, <2>2, <2>4, <2>5 DEF Reads
<1>4. CASE o # NoObject
  <2> DEFINE numbers == o.class \in {OOPINT, OOPDOUBLE}
             body == IF numbers THEN d ELSE <<Len(o.data)>> \o d
  <2>1. o.class # -1 /\ (numbers => Len(o.data) = 1)
    BY <1>4 DEF Objects, OOPINT, OOPDOUBLE, OOPVECINT, OOPVECDOUBLE
  <2>2. body \in Seq(Int)
    BY <1>1
  <2>3. WriteObject(b, o) = class \o body \o class
    BY <1>4 DEF WriteObject, WriteVector
  <2> HIDE DEF d, class
  <2>4. numbers => /\ body = d /\ Len(d) = 1
    BY <1>1, <2>1
  <2>5. ~numbers => body = <<Len(d)>> \o d
    BY <1>1
  <2> DEFINE n == Len(body)
  <2>6. n \in Nat
    BY <2>2
  <2> HIDE DEF body
  <2>7. /\ Holds(w, at, class) /\ Holds(w, at + Len(class), body)
        /\ Holds(w, at + Len(class) + Len(body), class)
        /\ at + Len(class) \in Nat \ {0} /\ at + Len(class) + Len(body) \in Nat \ {0}
        /\ at + Len(class \o body \o class) = at + Len(class) + Len(body) + Len(class)
    <3>1. Holds(w, at, class \o body \o class)
      BY <2>3
    <3>2. QED
      <4>1. class \in Seq(Int) /\ body \in Seq(Int)
        BY <1>2, <2>2
      <4>2. QED
        BY <3>1, <4>1, HoldsThree
  <2>8. Unpack(w, at, 1) = [value |-> class, next |-> at + 1]
    <3>1. class \in Seq(Int) /\ Holds(w, at, class)
      BY <1>2, <2>7
    <3>2. Unpack(w, at, Len(class)) = [value |-> class, next |-> at + Len(class)]
      BY <3>1, Unpacked
    <3>3. QED
      BY <1>2, <3>2
  <2>9. Holds(w, at + 1, body) /\ at + 1 \in Nat \ {0} /\ Holds(w, at + 1 + n, class)
        /\ at + 1 + n \in Nat \ {0}
        /\ at + Len(class \o body \o class) = at + 1 + n + 1
    BY <1>2, <2>7
  <2>10. ASSUME numbers PROVE Unpack(w, at + 1, 1) = [value |-> d, next |-> at + 1 + n]
    <3>1. body = d /\ Len(d) = 1 /\ n = 1 /\ Holds(w, at + 1, d)
      BY <2>4, <2>9, <2>10
    <3>2. QED
      <4>1. d \in Seq(Int)
        BY <1>1
      <4>2. Unpack(w, at + 1, Len(d)) = [value |-> d, next |-> at + 1 + Len(d)]
        BY <2>9, <3>1, <4>1, Unpacked
      <4>3. QED
        BY <3>1, <4>2
  <2>11. ASSUME ~numbers PROVE ReadVector(w, at + 1) = [value |-> d, next |-> at + 1 + n]
    <3>1. Holds(w, at + 1, <<Len(d)>> \o d)
      BY <2>5, <2>9, <2>11
    <3>2. Reads(ReadVector(w, at + 1), d, at + 1, <<Len(d)>> \o d)
      BY <1>1, <2>9, <3>1, VectorRead
    <3>3. QED
      BY <2>5, <2>11, <3>2 DEF Reads
  <2>12. Unpack(w, at + 1 + n, 1) = [value |-> class, next |-> at + 1 + n + 1]
    <3>1. class \in Seq(Int)
      BY <1>2
    <3>2. Unpack(w, at + 1 + n, Len(class)) = [value |-> class, next |-> at + 1 + n + Len(class)]
      BY <2>9, <3>1, Unpacked
    <3>3. QED
      BY <1>2, <3>2
  <2> DEFINE data == [value |-> d, next |-> at + 1 + n]
  <2>13. ReadObject(w, at) = ObjectOf(w, o.class, data)
    BY <1>2, <2>1, <2>8, <2>10, <2>11 DEF ReadObject, RestoreObject
  <2>14. ObjectOf(w, o.class, data)
         = [value |-> [class |-> o.class, data |-> d], next |-> at + 1 + n + 1]
    BY <2>12 DEF ObjectOf
  <2>15. QED
    BY <1>1, <2>3, <2>9, <2>13, <2>14 DEF Reads
<1>5. QED
  BY <1>3, <1>4

-----------------------------------------------------------------------------
(* Tags                                                                    *)

LEMMA TagParts ==
    ASSUME NEW b \in Kinds, NEW tag \in Tags
    PROVE  /\ tag.id \in Ids /\ tag.task \in Ids /\ tag.mode \in Int /\ tag.proc \in Int
           /\ tag.version \in Versions /\ tag.object \in Objects
           /\ Kept(b, tag) = [id |-> tag.id, task |-> tag.task, mode |-> tag.mode,
                              proc |-> tag.proc, version |-> tag.version,
                              object |-> [tag.object EXCEPT !.data = Packed(b, tag.object)]]
           /\ WriteId(tag.id) \in Seq(Int) /\ WriteId(tag.task) \in Seq(Int)
           /\ <<tag.mode, tag.proc>> \in Seq(Int) /\ Len(<<tag.mode, tag.proc>>) = 2
           /\ WriteVersion(tag.version) \in Seq(Int)
           /\ WriteObject(b, tag.object) \in Seq(Int)
<1>1. /\ tag.id \in Ids /\ tag.task \in Ids /\ tag.mode \in Int /\ tag.proc \in Int
      /\ tag.version \in Versions /\ tag.object \in Objects
      /\ tag = [id |-> tag.id, task |-> tag.task, mode |-> tag.mode, proc |-> tag.proc,
                version |-> tag.version, object |-> tag.object]
  BY DEF Tags
<1>2. Kept(b, tag) = [id |-> tag.id, task |-> tag.task, mode |-> tag.mode,
                      proc |-> tag.proc, version |-> tag.version,
                      object |-> [tag.object EXCEPT !.data = Packed(b, tag.object)]]
  BY <1>1 DEF Kept
<1>3. <<tag.mode, tag.proc>> \in Seq(Int) /\ Len(<<tag.mode, tag.proc>>) = 2
  BY <1>1
<1>4. QED
  BY <1>1, <1>2, <1>3, IdType, VersionType, ObjectType

LEMMA TagType ==
    ASSUME NEW b \in Kinds, NEW tag \in Tags
    PROVE  WriteTag(b, tag) \in Seq(Int)
  BY TagParts DEF WriteTag

LEMMA TagRead ==
    ASSUME NEW w \in Seq(Int), NEW at \in Nat \ {0}, NEW b \in Kinds, buffer = b,
           NEW tag \in Tags, Holds(w, at, WriteTag(b, tag))
    PROVE  Reads(ReadTag(w, at), Kept(b, tag), at, WriteTag(b, tag))
<1> DEFINE x1 == WriteId(tag.id)
           x2 == WriteId(tag.task)
           x3 == <<tag.mode, tag.proc>>
           x4 == WriteVersion(tag.version)
           x5 == WriteObject(b, tag.object)
           y == x1 \o x2 \o x3
           o == [tag.object EXCEPT !.data = Packed(b, tag.object)]
<1>1. /\ tag.id \in Ids /\ tag.task \in Ids /\ tag.mode \in Int /\ tag.proc \in Int
      /\ tag.version \in Versions /\ tag.object \in Objects
  BY TagParts
<1>2. Kept(b, tag) = [id |-> tag.id, task |-> tag.task, mode |-> tag.mode,
                      proc |-> tag.proc, version |-> tag.version, object |-> o]
  BY TagParts
<1>3. /\ x1 \in Seq(Int) /\ x2 \in Seq(Int) /\ x3 \in Seq(Int) /\ x4 \in Seq(Int) /\ x5 \in Seq(Int)
      /\ Len(x3) = 2 /\ x3[1] = tag.mode /\ x3[2] = tag.proc
  BY TagParts
<1>4. WriteTag(b, tag) = y \o x4 \o x5
  BY DEF WriteTag
<1> HIDE DEF x1, x2, x3, x4, x5, o
<1>5. y \in Seq(Int)
  BY <1>3, Joined
<1> HIDE DEF y
<1> DEFINE a == at + Len(y)
<1>6. /\ Holds(w, at, y) /\ Holds(w, a, x4) /\ Holds(w, a + Len(x4), x5)
      /\ a \in Nat \ {0} /\ a + Len(x4) \in Nat \ {0}
      /\ at + Len(y \o x4 \o x5) = a + Len(x4) + Len(x5)
  <2>1. Holds(w, at, y \o x4 \o x5)
    BY <1>4
  <2>2. QED
    BY <1>3, <1>5, <2>1, HoldsThree
<1> DEFINE a2 == at + Len(x1)
           a3 == at + Len(x1) + Len(x2)
<1>7. /\ Holds(w, at, x1) /\ Holds(w, a2, x2) /\ Holds(w, a3, x3)
      /\ a2 \in Nat \ {0} /\ a3 \in Nat \ {0} /\ a3 + Len(x3) = a
  <2>1. Holds(w, at, x1 \o x2 \o x3)
    BY <1>6 DEF y
  <2>2. QED
    <3>1. x1 \in Seq(Int) /\ x2 \in Seq(Int) /\ x3 \in Seq(Int)
      BY <1>3
    <3>2. /\ Holds(w, at, x1) /\ Holds(w, a2, x2) /\ Holds(w, a3, x3)
          /\ a2 \in Nat \ {0} /\ a3 \in Nat \ {0}
          /\ at + Len(x1 \o x2 \o x3) = a3 + Len(x3)
      BY <2>1, <3>1, HoldsThree
    <3>3. QED
      BY <3>2 DEF y
<1>8. ReadId(w, at) = [value |-> tag.id, next |-> a2]
  BY <1>1, <1>7, IdRead DEF Reads, x1
<1>9. ReadId(w, a2) = [value |-> tag.task, next |-> a3]
  BY <1>1, <1>7, IdRead DEF Reads, x2
<1>10. Unpack(w, a3, 2) = [value |-> x3, next |-> a]
  <2>1. Unpack(w, a3, Len(x3)) = [value |-> x3, next |-> a3 + Len(x3)]
    BY <1>3, <1>7, Unpacked
  <2>2. QED
    BY <1>3, <1>7, <2>1
<1>11. ReadVersion(w, a) = [value |-> tag.version, next |-> a + Len(x4)]
  BY <1>1, <1>6, VersionRead DEF Reads, x4
<1>12. ReadObject(w, a + Len(x4)) = [value |-> o, next |-> a + Len(x4) + Len(x5)]
  <2>1. Reads(ReadObject(w, a + Len(x4)), o, a + Len(x4), x5)
    BY <1>1, <1>6, ObjectRead DEF x5, o
  <2>2. QED
    BY <2>1 DEF Reads
<1> HIDE DEF a, a2, a3
<1>13. ReadTag(w, at) = [value |-> Kept(b, tag), next |-> a + Len(x4) + Len(x5)]
  BY <1>2, <1>3, <1>8, <1>9, <1>10, <1>11, <1>12 DEF ReadTag, TagOf
<1>14. QED
  BY <1>4, <1>6, <1>13 DEF Reads

-----------------------------------------------------------------------------
(* Lists of tags: the recursive functions are what they say, by induction  *)

\* The function by which WriteTags is defined exists.
LEMMA WriteTagsIs ==
    ASSUME NEW b \in Kinds, NEW tags \in Seq(Tags)
    PROVE  \E f : /\ WriteTags(b, tags) = f[Len(tags)]
                  /\ f = [k \in 0..Len(tags) |->
                            IF k = 0 THEN <<Len(tags)>> ELSE f[k - 1] \o WriteTag(b, tags[k])]
<1> DEFINE first == <<Len(tags)>>
           Next1(x, k) == x \o WriteTag(b, tags[k])
           Rec(g, m) == g = [k \in 0..m |-> IF k = 0 THEN first ELSE Next1(g[k - 1], k)]
           S == {m \in Nat : \E g : Rec(g, m)}
<1>1. 0 \in S
  <2> DEFINE g == [k \in 0..0 |-> first]
  <2>1. Rec(g, 0)
    OBVIOUS
  <2> HIDE DEF Rec, g
  <2>2. QED
    BY <2>1
<1>2. ASSUME NEW m \in Nat, m \in S PROVE m + 1 \in S
  <2>1. PICK g : Rec(g, m)
    BY <1>2
  <2> DEFINE h == [k \in 0..(m + 1) |-> IF k = m + 1 THEN Next1(g[m], k) ELSE g[k]]
  <2> HIDE DEF first, Next1
  <2>2. \A k \in 0..m : g[k] = IF k = 0 THEN first ELSE Next1(g[k - 1], k)
    BY <2>1
  <2>3. ASSUME NEW k \in 0..(m + 1)
        PROVE  h[k] = IF k = 0 THEN first ELSE Next1(h[k - 1], k)
    <3> HIDE DEF Rec
    <3>1. k = m + 1 => h[k] = Next1(g[m], k) /\ h[k - 1] = g[m]
      OBVIOUS
    <3>2. k # m + 1 => h[k] = g[k] /\ (k # 0 => h[k - 1] = g[k - 1])
      OBVIOUS
    <3> HIDE DEF h
    <3>3. QED
      BY <3>1, <3>2, <2>2
  <2>4. Rec(h, m + 1)
    <3>1. h = [k \in 0..(m + 1) |-> h[k]]
      OBVIOUS
    <3> HIDE DEF h
    <3>2. QED
      BY <2>3, <3>1
  <2> HIDE DEF h, Rec
  <2>5. QED
    BY <2>4
<1>3. \A m \in Nat : m \in S
  <2> HIDE DEF S
  <2>1. QED
    BY <1>1, <1>2, InductionOnNat
<1>4. \E g : Rec(g, Len(tags))
  <2>1. Len(tags) \in Nat
    OBVIOUS
  <2> HIDE DEF Rec
  <2>2. QED
    BY <1>3, <2>1
<1> DEFINE f == CHOOSE g : Rec(g, Len(tags))
<1>5. Rec(f, Len(tags))
  <2> HIDE DEF Rec
  <2>1. QED
    BY <1>4
<1>6. WriteTags(b, tags) = f[Len(tags)]
  BY DEF WriteTags
<1>7. QED
  <2> HIDE DEF f
  <2>1. QED
    BY <1>5, <1>6

\* What is written with the first k tags, for every k.
LEMMA WrittenTags ==
    ASSUME NEW b \in Kinds, NEW tags \in Seq(Tags)
    PROVE  \E f \in [0..Len(tags) -> Seq(Int)] :
              /\ f[0] = <<Len(tags)>> /\ f[Len(tags)] = WriteTags(b, tags)
              /\ \A k \in 1..Len(tags) : f[k] = f[k - 1] \o WriteTag(b, tags[k])
<1> DEFINE n == Len(tags)
<1>1. n \in Nat
  OBVIOUS
<1>2. PICK f : /\ WriteTags(b, tags) = f[Len(tags)]
               /\ f = [k \in 0..Len(tags) |->
                         IF k = 0 THEN <<Len(tags)>> ELSE f[k - 1] \o WriteTag(b, tags[k])]
  BY WriteTagsIs
<1> HIDE DEF n
<1>3. f = [k \in 0..n |-> IF k = 0 THEN <<n>> ELSE f[k - 1] \o WriteTag(b, tags[k])]
  BY <1>2 DEF n
<1>4. \A k \in 0..n : f[k] = IF k = 0 THEN <<n>> ELSE f[k - 1] \o WriteTag(b, tags[k])
  BY <1>3
<1>5. f[0] = <<n>> /\ <<n>> \in Seq(Int)
  BY <1>1, <1>4
<1>6. ASSUME NEW k \in 1..n PROVE f[k] = f[k - 1] \o WriteTag(b, tags[k])
  <2>1. k \in 0..n /\ k # 0
    BY <1>1
  <2>2. QED
    BY <1>4, <2>1
<1>7. \A k \in 1..n : WriteTag(b, tags[k]) \in Seq(Int)
  <2>1. \A k \in 1..n : tags[k] \in Tags
    BY ElementOfSeq DEF n
  <2>2. QED
    BY <2>1, TagType
<1> DEFINE S == {m \in Nat : m <= n => f[m] \in Seq(Int)}
<1>8. 0 \in S
  BY <1>1, <1>5
<1>9. ASSUME NEW m \in Nat, m \in S PROVE m + 1 \in S
  <2>1. SUFFICES ASSUME m + 1 <= n PROVE f[m + 1] \in Seq(Int)
    OBVIOUS
  <2>2. m + 1 \in 1..n /\ (m + 1) - 1 = m
    BY <1>1, <2>1
  <2>3. f[m] \in Seq(Int)
    BY <1>1, <1>9, <2>1
  <2>4. f[m + 1] = f[m] \o WriteTag(b, tags[m + 1])
    BY <1>6, <2>2
  <2>5. WriteTag(b, tags[m + 1]) \in Seq(Int)
    BY <1>7, <2>2
  <2>6. QED
    BY <2>3, <2>4, <2>5, ConcatProperties
<1>10. \A m \in Nat : m \in S
  <2> HIDE DEF S
  <2>1. QED
    BY <1>8, <1>9, InductionOnNat
<1>11. \A k \in 0..n : f[k] \in Seq(Int)
  BY <1>1, <1>10
<1>12. f \in [0..n -> Seq(Int)]
  <2>1. f = [k \in 0..n |-> f[k]]
    BY <1>3
  <2>2. QED
    BY <1>11, <2>1
<1>13. QED
  BY <1>2, <1>5, <1>6, <1>12 DEF n

LEMMA TagsType ==
    ASSUME NEW b \in Kinds, NEW tags \in Seq(Tags)
    PROVE  WriteTags(b, tags) \in Seq(Int)
<1>1. Len(tags) \in 0..Len(tags)
  OBVIOUS
<1>2. PICK f \in [0..Len(tags) -> Seq(Int)] : f[Len(tags)] = WriteTags(b, tags)
  BY WrittenTags
<1>3. QED
  BY <1>1, <1>2

\* A buffer that holds a list holds what was written with its first k tags.
Grows(f, e, n) == /\ n \in Nat /\ f \in [0..n -> Seq(Int)]
                  /\ \A k \in 1..n : e[k] \in Seq(Int) /\ f[k] = f[k - 1] \o e[k]
EachHeld(w, at, f, e, n) ==
    \A k \in 1..n : /\ Holds(w, at, f[k - 1]) /\ at + Len(f[k - 1]) \in Nat \ {0}
                    /\ Holds(w, at + Len(f[k - 1]), e[k])
                    /\ Len(f[k]) = Len(f[k - 1]) + Len(e[k])

LEMMA HoldsFirst ==
    ASSUME NEW w \in Seq(Int), NEW at \in Nat \ {0}, NEW n, NEW f, NEW e, Grows(f, e, n),
           Holds(w, at, f[n])
    PROVE  EachHeld(w, at, f, e, n)
<1>1. ASSUME NEW k \in 1..n, Holds(w, at, f[k])
      PROVE  /\ Holds(w, at, f[k - 1]) /\ at + Len(f[k - 1]) \in Nat \ {0}
             /\ Holds(w, at + Len(f[k - 1]), e[k])
             /\ Len(f[k]) = Len(f[k - 1]) + Len(e[k])
  <2> USE DEF Grows
  <2> DEFINE x == f[k - 1]
             y == e[k]
  <2>1. x \in Seq(Int)
    <3>1. k - 1 \in 0..n
      OBVIOUS
    <3>2. QED
      BY <3>1
  <2>2. y \in Seq(Int)
    OBVIOUS
  <2>3. f[k] = x \o y
    OBVIOUS
  <2>4. Holds(w, at, x \o y)
    BY <1>1, <2>3
  <2> HIDE DEF x, y
  <2>5. /\ Holds(w, at, x) /\ Holds(w, at + Len(x), y)
        /\ at + Len(x) \in Nat \ {0} /\ Len(x \o y) = Len(x) + Len(y)
    BY <2>1, <2>2, <2>4, HoldsBoth
  <2>6. QED
    BY <2>3, <2>5 DEF x, y
<1> n \in Nat
  BY DEF Grows
<1> DEFINE S == {m \in Nat : m <= n => Holds(w, at, f[n - m])}
<1>2. 0 \in S
  OBVIOUS
<1>3. ASSUME NEW m \in Nat, m \in S PROVE m + 1 \in S
  <2>1. SUFFICES ASSUME m + 1 <= n PROVE Holds(w, at, f[n - (m + 1)])
    OBVIOUS
  <2>2. Holds(w, at, f[n - m])
    BY <1>3, <2>1
  <2>3. n - m \in 1..n /\ (n - m) - 1 = n - (m + 1)
    BY <2>1
  <2>4. QED
    BY <1>1, <2>2, <2>3
<1>4. \A m \in Nat : m \in S
  <2> HIDE DEF S
  <2>1. QED
    BY <1>2, <1>3, InductionOnNat
<1>5. ASSUME NEW k \in 1..n PROVE Holds(w, at, f[k])
  <2>1. n - k \in Nat /\ n - k <= n /\ n - (n - k) = k
    OBVIOUS
  <2>2. QED
    BY <1>4, <2>1
<1>6. QED
  BY <1>1, <1>5 DEF EachHeld

LEMMA KeptType ==
    ASSUME NEW b \in Kinds, NEW tag \in Tags
    PROVE  Kept(b, tag) \in Tags
<1> DEFINE o == tag.object
           d == Packed(b, o)
<1>1. o \in Objects /\ tag.object \in Objects
  BY TagParts
<1>2. d \in Seq(Int) /\ Len(d) = Len(o.data)
  BY <1>1, PackedType
<1>3. [o EXCEPT !.data = d] = [class |-> o.class, data |-> d]
  BY <1>1, KeptObject
<1>4. [class |-> o.class, data |-> d] \in Objects
  <2>1. CASE o = NoObject
    <3>1. d = <<>> /\ o.class = -1
      BY <2>1 DEF Packed, NoObject, OOPDOUBLE, OOPVECDOUBLE
    <3>2. QED
      BY <3>1 DEF Objects, NoObject
  <2> HIDE DEF d
  <2>2. CASE o \in [class : {OOPINT, OOPDOUBLE}, data : {xs \in Seq(Int) : Len(xs) = 1}]
    <3>1. Len(d) = 1 /\ o.class \in {OOPINT, OOPDOUBLE}
      BY <1>2, <2>2
    <3>2. QED
      BY <1>2, <3>1 DEF Objects
  <2>3. CASE o \in [class : {OOPVECINT, OOPVECDOUBLE}, data : Seq(Int)]
    <3>1. o.class \in {OOPVECINT, OOPVECDOUBLE}
      BY <2>3
    <3>2. QED
      BY <1>2, <3>1 DEF Objects
  <2>4. QED
    BY <1>1, <2>1, <2>2, <2>3 DEF Objects
<1>5. Kept(b, tag) = [id |-> tag.id, task |-> tag.task, mode |-> tag.mode,
                      proc |-> tag.proc, version |-> tag.version,
                      object |-> [tag.object EXCEPT !.data = Packed(b, tag.object)]]
  BY TagParts
<1>6. /\ tag.id \in Ids /\ tag.task \in Ids /\ tag.mode \in Int /\ tag.proc \in Int
      /\ tag.version \in Versions
  BY TagParts
<1> HIDE DEF d, o
<1>7. [tag.object EXCEPT !.data = Packed(b, tag.object)] \in Objects
  BY <1>3, <1>4 DEF d, o
<1>8. QED
  BY <1>5, <1>6, <1>7 DEF Tags

LEMMA TagsRead ==
    ASSUME NEW w \in Seq(Int), NEW at \in Nat \ {0}, NEW b \in Kinds, buffer = b,
           NEW tags \in Seq(Tags), Holds(w, at, WriteTags(b, tags))
    PROVE  Reads(ReadTags(w, at), AllKept(b, tags), at, WriteTags(b, tags))
<1> DEFINE n == Len(tags)
           e == [k \in 1..n |-> WriteTag(b, tags[k])]
<1>1. n \in Nat /\ DOMAIN tags = 1..n /\ \A k \in 1..n : tags[k] \in Tags
  BY ElementOfSeq
<1>2. PICK f \in [0..n -> Seq(Int)] :
         /\ f[0] = <<n>> /\ f[n] = WriteTags(b, tags)
         /\ \A k \in 1..n : f[k] = f[k - 1] \o WriteTag(b, tags[k])
  BY WrittenTags
<1> HIDE DEF n
<1>3. \A k \in 1..n : e[k] \in Seq(Int) /\ e[k] = WriteTag(b, tags[k]) /\ f[k] = f[k - 1] \o e[k]
  BY <1>1, <1>2, TagType
<1> HIDE DEF e
<1>4. Holds(w, at, f[n])
  BY <1>2
<1>5. \A k \in 1..n : /\ Holds(w, at, f[k - 1]) /\ at + Len(f[k - 1]) \in Nat \ {0}
                      /\ Holds(w, at + Len(f[k - 1]), e[k])
                      /\ Len(f[k]) = Len(f[k - 1]) + Len(e[k])
  <2>1. \A k \in 1..n : e[k] \in Seq(Int) /\ f[k] = f[k - 1] \o e[k]
    BY <1>3
  <2>2. Grows(f, e, n)
    BY <1>1, <2>1 DEF Grows
  <2>3. EachHeld(w, at, f, e, n)
    BY <1>4, <2>2, HoldsFirst
  <2>4. QED
    BY <2>3 DEF EachHeld
<1>6. Unpack(w, at, 1) = [value |-> <<n>>, next |-> at + 1] /\ Len(f[0]) = 1
  <2>1. Holds(w, at, f[0])
    <3>1. CASE n = 0
      BY <1>4, <3>1
    <3>2. CASE n # 0
      <4>1. 1 \in 1..n /\ 1 - 1 = 0
        BY <1>1, <3>2
      <4>2. QED
        BY <1>5, <4>1
    <3>3. QED
      BY <3>1, <3>2
  <2>2. f[0] \in Seq(Int) /\ Len(f[0]) = 1
    BY <1>1, <1>2
  <2>3. Unpack(w, at, Len(f[0])) = [value |-> f[0], next |-> at + Len(f[0])]
    BY <2>1, <2>2, Unpacked
  <2>4. QED
    BY <1>2, <2>2, <2>3
<1> DEFINE kept(k) == [i \in 1..k |-> Kept(b, tags[i])]
           g == [k \in 0..n |-> [value |-> kept(k), next |-> at + Len(f[k])]]
           Rec(h) == h = [k \in 0..n |-> IF k = 0 THEN NoneYet(at + 1) ELSE MoreTags(w, h[k - 1])]
<1>7. g[0] = NoneYet(at + 1)
  <2>1. kept(0) = <<>>
    OBVIOUS
  <2> HIDE DEF kept
  <2>2. g[0] = [value |-> kept(0), next |-> at + Len(f[0])]
    BY <1>1
  <2> HIDE DEF g
  <2>3. QED
    BY <1>6, <2>1, <2>2 DEF NoneYet
<1>8. ASSUME NEW k \in 1..n PROVE MoreTags(w, g[k - 1]) = g[k]
  <2> DEFINE a == at + Len(f[k - 1])
  <2>1. /\ Holds(w, a, WriteTag(b, tags[k])) /\ a \in Nat \ {0}
        /\ Len(f[k]) = Len(f[k - 1]) + Len(WriteTag(b, tags[k]))
        /\ tags[k] \in Tags
    BY <1>1, <1>3, <1>5
  <2>2. Reads(ReadTag(w, a), Kept(b, tags[k]), a, WriteTag(b, tags[k]))
    BY <2>1, TagRead
  <2>3. a + Len(WriteTag(b, tags[k])) = at + Len(f[k])
    <3>1. k - 1 \in 0..n
      BY <1>1
    <3>2. f[k - 1] \in Seq(Int) /\ WriteTag(b, tags[k]) \in Seq(Int)
      BY <2>1, <3>1, TagType
    <3>3. Len(f[k - 1]) \in Nat /\ Len(WriteTag(b, tags[k])) \in Nat
      BY <3>2, LenProperties
    <3> DEFINE p == Len(f[k - 1])
               q == Len(WriteTag(b, tags[k]))
    <3>4. a = at + p /\ at + Len(f[k]) = at + (p + q) /\ p \in Nat /\ q \in Nat
      BY <2>1, <3>3
    <3> HIDE DEF p, q, a
    <3>5. a + q = at + (p + q)
      BY <3>4
    <3>6. QED
      BY <3>4, <3>5 DEF q
  <2>4. ReadTag(w, a) = [value |-> Kept(b, tags[k]), next |-> at + Len(f[k])]
    BY <2>2, <2>3 DEF Reads
  <2>5. Append(kept(k - 1), Kept(b, tags[k])) = kept(k)
    <3>1. \A i \in 1..k : i \in 1..n /\ Kept(b, tags[i]) \in Tags
      BY <1>1, KeptType
    <3>2. kept(k - 1) \in Seq(Tags) /\ Len(kept(k - 1)) = k - 1 /\ Kept(b, tags[k]) \in Tags
      BY <1>1, <3>1
    <3>3. kept(k) \in Seq(Tags) /\ Len(kept(k)) = k
      BY <1>1, <3>1
    <3>4. /\ Append(kept(k - 1), Kept(b, tags[k])) \in Seq(Tags)
          /\ Len(Append(kept(k - 1), Kept(b, tags[k]))) = k
          /\ \A i \in 1..k : Append(kept(k - 1), Kept(b, tags[k]))[i] = kept(k)[i]
      BY <1>1, <3>2
    <3>5. QED
      <4> DEFINE p == Append(kept(k - 1), Kept(b, tags[k]))
                 q == kept(k)
      <4>1. p \in Seq(Tags) /\ q \in Seq(Tags) /\ Len(p) = Len(q) /\ \A i \in 1..Len(p) : p[i] = q[i]
        BY <3>3, <3>4
      <4> HIDE DEF p, q
      <4>2. p = q
        BY <4>1, SeqEqual
      <4>3. QED
        BY <4>2 DEF p, q
  <2>6. g[k - 1] = [value |-> kept(k - 1), next |-> a]
        /\ g[k] = [value |-> kept(k), next |-> at + Len(f[k])]
    <3> HIDE DEF kept
    <3>1. k - 1 \in 0..n /\ k \in 0..n
      BY <1>1
    <3>2. QED
      BY <3>1
  <2> HIDE DEF g, kept, a
  <2>7. QED
    <3>1. g[k - 1].value = kept(k - 1) /\ g[k - 1].next = a
      BY <2>6
    <3>2. ReadTag(w, a).value = Kept(b, tags[k]) /\ ReadTag(w, a).next = at + Len(f[k])
      BY <2>4
    <3>3. MoreTags(w, g[k - 1]) = [value |-> Append(kept(k - 1), Kept(b, tags[k])),
                                   next |-> at + Len(f[k])]
      BY <3>1, <3>2 DEF MoreTags, More
    <3>4. QED
      BY <2>5, <2>6, <3>3
<1>9. Rec(g)
  <2> HIDE DEF kept
  <2>1. g = [k \in 0..n |-> g[k]]
    OBVIOUS
  <2> HIDE DEF g
  <2>2. \A k \in 0..n : g[k] = IF k = 0 THEN NoneYet(at + 1) ELSE MoreTags(w, g[k - 1])
    BY <1>1, <1>7, <1>8
  <2>3. QED
    BY <2>1, <2>2
<1> DEFINE h == CHOOSE h : Rec(h)
<1>10. Rec(h)
  <2> HIDE DEF g, Rec
  <2>1. QED
    BY <1>9
<1>11. ReadTags(w, at) = h[n]
  <2> DEFINE size == Unpack(w, at, 1)
  <2>1. size.value[1] = n /\ size.next = at + 1
    BY <1>6
  <2> HIDE DEF size
  <2>2. ReadTags(w, at)
        = (CHOOSE f1 : f1 = [k \in 0..size.value[1] |->
                                IF k = 0 THEN NoneYet(size.next) ELSE MoreTags(w, f1[k - 1])])[size.value[1]]
    BY DEF ReadTags, size
  <2>3. QED
    BY <2>1, <2>2
<1>12. h[n] = g[n]
  <2> HIDE DEF h, g
  <2>1. \A k \in 0..n : h[k] = IF k = 0 THEN NoneYet(at + 1) ELSE MoreTags(w, h[k - 1])
    BY <1>10
  <2> HIDE DEF Rec
  <2> DEFINE S == {m \in Nat : m <= n => h[m] = g[m]}
  <2>2. 0 \in S
    BY <1>1, <1>7, <2>1
  <2>3. ASSUME NEW m \in Nat, m \in S PROVE m + 1 \in S
    <3>1. SUFFICES ASSUME m + 1 <= n PROVE h[m + 1] = g[m + 1]
      OBVIOUS
    <3>2. m + 1 \in 1..n /\ (m + 1) - 1 = m /\ m + 1 \in 0..n /\ m + 1 # 0
      BY <1>1, <3>1
    <3>3. h[m] = g[m]
      BY <1>1, <2>3, <3>1
    <3>4. h[m + 1] = MoreTags(w, g[m]) /\ MoreTags(w, g[m]) = g[m + 1]
      BY <1>8, <2>1, <3>2, <3>3
    <3>5. QED
      BY <3>4
  <2>4. \A m \in Nat : m \in S
    <3> HIDE DEF S
    <3>1. QED
      BY <2>2, <2>3, InductionOnNat
  <2>5. QED
    BY <1>1, <2>4
<1>13. g[n] = [value |-> AllKept(b, tags), next |-> at + Len(WriteTags(b, tags))]
  <2>1. AllKept(b, tags) = kept(n)
    BY <1>1 DEF AllKept
  <2>2. g[n] = [value |-> kept(n), next |-> at + Len(f[n])]
    BY <1>1
  <2> HIDE DEF g, kept
  <2>3. QED
    BY <1>2, <2>1, <2>2
<1>14. QED
  <2> HIDE DEF g, h
  <2>1. QED
    BY <1>11, <1>12, <1>13 DEF Reads

-----------------------------------------------------------------------------
(* Tasks                                                                   *)

LEMMA TaskParts ==
    ASSUME NEW t \in Message
    PROVE  /\ t.class \in Int /\ t.id \in Ids /\ t.proc \in Int /\ t.update \in BOOLEAN
           /\ t.depend \in Seq(Tags) /\ t.tag \in Tags /\ t.transfer \in Seq(Tags)
           /\ t.status \in Int /\ t.origin \in Int /\ t.target \in Ids
           /\ t.class \notin {TDMREQUESTTASK, TDMOWNERTASK} => t.tag = NoTag
           /\ t.class # TDMOWNERTASK => t.transfer = <<>>
           /\ t.class # TTERMINATIONTASK => t.status = 0 /\ t.origin = 0
           /\ t.class # TDELOBJECTTASK => t.target = NoId
  BY DEF Message, Fields

LEMMA NothingToKeep ==
    ASSUME NEW b \in Kinds
    PROVE  /\ NoTag \in Tags /\ Kept(b, NoTag) = NoTag /\ AllKept(b, <<>>) = <<>>
<1>1. NoObject \in Objects /\ NoId \in Ids /\ <<>> \in Seq(Int)
  BY EmptySeq DEF Objects, NoId, Ids
<1>2. NoTag \in Tags
  BY <1>1 DEF NoTag, Tags, Versions
<1>3. Packed(b, NoObject) = <<>>
  BY DEF Packed, NoObject, OOPDOUBLE, OOPVECDOUBLE
<1>4. [NoObject EXCEPT !.data = Packed(b, NoObject)] = NoObject
  BY <1>3 DEF NoObject
<1>5. Kept(b, NoTag) = NoTag
  <2>1. NoTag.object = NoObject
    BY DEF NoTag
  <2>2. Kept(b, NoTag) = [id |-> NoTag.id, task |-> NoTag.task, mode |-> NoTag.mode,
                          proc |-> NoTag.proc, version |-> NoTag.version,
                          object |-> [NoTag.object EXCEPT !.data = Packed(b, NoTag.object)]]
    BY <1>2, TagParts
  <2>3. QED
    BY <1>4, <2>1, <2>2 DEF NoTag
<1>6. AllKept(b, <<>>) = <<>>
  BY DEF AllKept
<1>7. QED
  BY <1>2, <1>5, <1>6

\* What OOPTask::Read has made of a task when its class reads on.
Bare(b, t) == [class |-> t.class, id |-> t.id, proc |-> t.proc, update |-> t.update,
               depend |-> AllKept(b, t.depend), tag |-> NoTag, transfer |-> <<>>,
               status |-> 0, origin |-> 0, target |-> NoId]

\* A task in which some fields are replaced, written out.
TaskOfAll(c, i, p, u, d, g, r, s, o, x) ==
    [class |-> c, id |-> i, proc |-> p, update |-> u, depend |-> d, tag |-> g,
     transfer |-> r, status |-> s, origin |-> o, target |-> x]

WithTags(t, g, r) == [t EXCEPT !.tag = g, !.transfer = r]
WithInts(t, s, o) == [t EXCEPT !.status = s, !.origin = o]
WithLists(t, d, g, r) == [t EXCEPT !.depend = d, !.tag = g, !.transfer = r]

LEMMA TagsReplaced ==
    ASSUME NEW c, NEW i, NEW p, NEW u, NEW d, NEW g, NEW r, NEW s, NEW o, NEW x,
           NEW t, t = TaskOfAll(c, i, p, u, d, g, r, s, o, x), NEW g1, NEW r1
    PROVE  WithTags(t, g1, r1) = TaskOfAll(c, i, p, u, d, g1, r1, s, o, x)
<1> DEFINE t1 == [t EXCEPT !.tag = g1]
<1>1. t1 = TaskOfAll(c, i, p, u, d, g1, r, s, o, x)
  BY DEF TaskOfAll
<1> HIDE DEF t1
<1>2. [t1 EXCEPT !.transfer = r1] = TaskOfAll(c, i, p, u, d, g1, r1, s, o, x)
  BY <1>1 DEF TaskOfAll
<1>3. QED
  BY <1>2 DEF t1, WithTags

LEMMA IntsReplaced ==
    ASSUME NEW c, NEW i, NEW p, NEW u, NEW d, NEW g, NEW r, NEW s, NEW o, NEW x,
           NEW t, t = TaskOfAll(c, i, p, u, d, g, r, s, o, x), NEW s1, NEW o1
    PROVE  WithInts(t, s1, o1) = TaskOfAll(c, i, p, u, d, g, r, s1, o1, x)
<1> DEFINE t1 == [t EXCEPT !.status = s1]
<1>1. t1 = TaskOfAll(c, i, p, u, d, g, r, s1, o, x)
  BY DEF TaskOfAll
<1> HIDE DEF t1
<1>2. [t1 EXCEPT !.origin = o1] = TaskOfAll(c, i, p, u, d, g, r, s1, o1, x)
  BY <1>1 DEF TaskOfAll
<1>3. QED
  BY <1>2 DEF t1, WithInts

LEMMA ListsReplaced ==
    ASSUME NEW c, NEW i, NEW p, NEW u, NEW d, NEW g, NEW r, NEW s, NEW o, NEW x,
           NEW t, t = TaskOfAll(c, i, p, u, d, g, r, s, o, x), NEW d1, NEW g1, NEW r1
    PROVE  WithLists(t, d1, g1, r1) = TaskOfAll(c, i, p, u, d1, g1, r1, s, o, x)
<1> DEFINE t1 == [t EXCEPT !.depend = d1]
           t2 == [t1 EXCEPT !.tag = g1]
<1>1. t1 = TaskOfAll(c, i, p, u, d1, g, r, s, o, x)
  BY DEF TaskOfAll
<1> HIDE DEF t1
<1>2. t2 = TaskOfAll(c, i, p, u, d1, g1, r, s, o, x)
  BY <1>1 DEF TaskOfAll
<1> HIDE DEF t2
<1>3. [t2 EXCEPT !.transfer = r1] = TaskOfAll(c, i, p, u, d1, g1, r1, s, o, x)
  BY <1>2 DEF TaskOfAll
<1>4. QED
  BY <1>3 DEF t1, t2, WithLists

LEMMA AsKeptIs ==
    ASSUME NEW b \in Kinds, NEW t \in Message
    PROVE  AsKept(b, t) = [class |-> t.class, id |-> t.id, proc |-> t.proc, update |-> t.update,
                           depend |-> AllKept(b, t.depend), tag |-> Kept(b, t.tag),
                           transfer |-> AllKept(b, t.transfer), status |-> t.status,
                           origin |-> t.origin, target |-> t.target]
<1>1. t = [class |-> t.class, id |-> t.id, proc |-> t.proc, update |-> t.update,
           depend |-> t.depend, tag |-> t.tag, transfer |-> t.transfer, status |-> t.status,
           origin |-> t.origin, target |-> t.target]
  BY DEF Message, Fields
<1>2. t = TaskOfAll(t.class, t.id, t.proc, t.update, t.depend, t.tag, t.transfer, t.status,
                    t.origin, t.target)
  BY <1>1 DEF TaskOfAll
<1>3. AsKept(b, t) = TaskOfAll(t.class, t.id, t.proc, t.update, AllKept(b, t.depend),
                               Kept(b, t.tag), AllKept(b, t.transfer), t.status, t.origin, t.target)
  <2>1. AsKept(b, t) = WithLists(t, AllKept(b, t.depend), Kept(b, t.tag), AllKept(b, t.transfer))
    BY DEF AsKept, WithLists
  <2>2. QED
    BY <1>2, <2>1, ListsReplaced
<1>4. QED
  BY <1>3 DEF TaskOfAll

LEMMA TaskType ==
    ASSUME NEW b \in Kinds, NEW t \in Message
    PROVE  WriteTask(b, t) \in Seq(Int)
<1> DEFINE x1 == WriteId(t.id)
           x2 == <<t.proc, IF t.update THEN 1 ELSE 0>>
           x3 == WriteTags(b, t.depend)
<1>1. x1 \in Seq(Int) /\ x3 \in Seq(Int)
  BY TaskParts, IdType, TagsType
<1>2. x2 \in Seq(Int)
  BY TaskParts
<1>3. WriteTask(b, t) = x1 \o x2 \o x3
  BY DEF WriteTask
<1> HIDE DEF x1, x2, x3
<1>4. QED
  BY <1>1, <1>2, <1>3

LEMMA TaskRead ==
    ASSUME NEW w \in Seq(Int), NEW at \in Nat \ {0}, NEW b \in Kinds, buffer = b,
           NEW t \in Message, Holds(w, at, WriteTask(b, t))
    PROVE  Reads(ReadTask(w, at, t.class), Bare(b, t), at, WriteTask(b, t))
<1> DEFINE x1 == WriteId(t.id)
           x2 == <<t.proc, IF t.update THEN 1 ELSE 0>>
           x3 == WriteTags(b, t.depend)
           a2 == at + Len(x1)
           a3 == at + Len(x1) + Len(x2)
<1>1. t.id \in Ids /\ t.proc \in Int /\ t.update \in BOOLEAN /\ t.depend \in Seq(Tags)
  BY TaskParts
<1>2. x1 \in Seq(Int) /\ x3 \in Seq(Int)
  BY <1>1, IdType, TagsType
<1>3. x2 \in Seq(Int) /\ Len(x2) = 2 /\ x2[1] = t.proc /\ (x2[2] # 0) = t.update
  BY <1>1
<1>4. WriteTask(b, t) = x1 \o x2 \o x3
  BY DEF WriteTask
<1> HIDE DEF x1, x2, x3
<1>5. /\ Holds(w, at, x1) /\ Holds(w, a2, x2) /\ Holds(w, a3, x3)
      /\ a2 \in Nat \ {0} /\ a3 \in Nat \ {0}
      /\ at + Len(x1 \o x2 \o x3) = a3 + Len(x3)
  <2>1. Holds(w, at, x1 \o x2 \o x3)
    BY <1>4
  <2>2. x2 \in Seq(Int)
    BY <1>3
  <2>3. QED
    BY <1>2, <2>1, <2>2, HoldsThree
<1>6. ReadId(w, at) = [value |-> t.id, next |-> a2]
  BY <1>1, <1>5, IdRead DEF Reads, x1
<1>7. Unpack(w, a2, 2) = [value |-> x2, next |-> a3]
  <2>1. x2 \in Seq(Int)
    BY <1>3
  <2>2. Unpack(w, a2, Len(x2)) = [value |-> x2, next |-> a2 + Len(x2)]
    BY <1>5, <2>1, Unpacked
  <2>3. QED
    BY <1>3, <2>2
<1>8. ReadTags(w, a3) = [value |-> AllKept(b, t.depend), next |-> a3 + Len(x3)]
  <2>1. Reads(ReadTags(w, a3), AllKept(b, t.depend), a3, x3)
    BY <1>1, <1>5, TagsRead DEF x3
  <2>2. QED
    BY <2>1 DEF Reads
<1> HIDE DEF a2, a3
<1>9. ReadTask(w, at, t.class)
      = TaskOf(t.class, ReadId(w, at), Unpack(w, a2, 2), ReadTags(w, a3))
  BY <1>6, <1>7 DEF ReadTask
<1>10. TaskOf(t.class, ReadId(w, at), Unpack(w, a2, 2), ReadTags(w, a3))
       = [value |-> Bare(b, t), next |-> a3 + Len(x3)]
  BY <1>3, <1>6, <1>7, <1>8 DEF TaskOf, Bare
<1>11. QED
  BY <1>4, <1>5, <1>9, <1>10 DEF Reads

LEMMA FieldsType ==
    ASSUME NEW b \in Kinds, NEW t \in Message
    PROVE  WriteFields(b, t) \in Seq(Int)
<1>1. WriteTag(b, t.tag) \in Seq(Int) /\ WriteTags(b, t.transfer) \in Seq(Int)
      /\ WriteId(t.target) \in Seq(Int)
  BY TaskParts, TagType, TagsType, IdType
<1>2. <<t.status, t.origin>> \in Seq(Int) /\ <<t.class>> \in Seq(Int) /\ <<>> \in Seq(Int)
  BY TaskParts
<1>3. WriteTag(b, t.tag) \o WriteTags(b, t.transfer) \in Seq(Int)
  BY <1>1, ConcatProperties
<1>4. QED
  BY <1>1, <1>2, <1>3
  DEF WriteFields, WriteRequest, WriteOwner, WriteTermination, WriteDelete, WriteSnapshot,
      TDMREQUESTTASK, TDMOWNERTASK, TTERMINATIONTASK, TDELOBJECTTASK, TSNAPSHOTTASK

LEMMA FieldsRead ==
    ASSUME NEW w \in Seq(Int), NEW at \in Nat \ {0}, NEW b \in Kinds, buffer = b,
           NEW t \in Message, Holds(w, at, WriteFields(b, t))
    PROVE  Reads(ReadFields(w, [value |-> Bare(b, t), next |-> at]), AsKept(b, t), at,
                 WriteFields(b, t))
<1> DEFINE bare == Bare(b, t)
           xs == WriteFields(b, t)
           read == [value |-> bare, next |-> at]
<1> USE DEF TDMREQUESTTASK, TDMOWNERTASK, TTERMINATIONTASK, TDELOBJECTTASK, TSNAPSHOTTASK
<1>1. /\ t.class \in Int /\ t.tag \in Tags /\ t.transfer \in Seq(Tags)
      /\ t.status \in Int /\ t.origin \in Int /\ t.target \in Ids
      /\ t.class \notin {TDMREQUESTTASK, TDMOWNERTASK} => t.tag = NoTag
      /\ t.class # TDMOWNERTASK => t.transfer = <<>>
      /\ t.class # TTERMINATIONTASK => t.status = 0 /\ t.origin = 0
      /\ t.class # TDELOBJECTTASK => t.target = NoId
  BY TaskParts
<1> DEFINE All(g, r, s, o, x) == TaskOfAll(t.class, t.id, t.proc, t.update, AllKept(b, t.depend),
                                           g, r, s, o, x)
<1>2. AsKept(b, t) = All(Kept(b, t.tag), AllKept(b, t.transfer), t.status, t.origin, t.target)
  BY AsKeptIs DEF TaskOfAll
<1>3. Kept(b, NoTag) = NoTag /\ AllKept(b, <<>>) = <<>>
  BY NothingToKeep
<1>4. bare = All(NoTag, <<>>, 0, 0, NoId)
      /\ bare.class = t.class /\ read.value = bare /\ read.next = at
  BY DEF Bare, TaskOfAll
<1>5. xs \in Seq(Int) /\ Holds(w, at, xs) /\ xs = WriteFields(b, t)
  BY FieldsType
<1>6. ReadFields(w, [value |-> Bare(b, t), next |-> at]) = ReadFields(w, read)
  OBVIOUS
<1> HIDE DEF bare, xs, read
<1>7. CASE t.class = TDMREQUESTTASK
  <2>1. xs = WriteTag(b, t.tag)
    BY <1>5, <1>7 DEF WriteFields, WriteRequest
  <2>2. ReadFields(w, read) = ReadRequest(w, at, bare)
    BY <1>4, <1>7 DEF ReadFields
  <2>3. ReadTag(w, at) = [value |-> Kept(b, t.tag), next |-> at + Len(xs)]
    <3>1. Reads(ReadTag(w, at), Kept(b, t.tag), at, WriteTag(b, t.tag))
      BY <1>1, <1>5, <2>1, TagRead
    <3>2. QED
      BY <2>1, <3>1 DEF Reads
  <2>4. ReadRequest(w, at, bare) = [value |-> [bare EXCEPT !.tag = Kept(b, t.tag)], next |-> at + Len(xs)]
    BY <2>3 DEF ReadRequest, RequestOf
  <2>5. [bare EXCEPT !.tag = Kept(b, t.tag)] = AsKept(b, t)
    <3>1. AsKept(b, t) = All(Kept(b, t.tag), <<>>, 0, 0, NoId)
      BY <1>1, <1>2, <1>3, <1>7
    <3>2. QED
      BY <1>4, <3>1 DEF TaskOfAll
  <2>6. QED
    BY <1>5, <1>6, <2>2, <2>4, <2>5 DEF Reads
<1>8. CASE t.class = TDMOWNERTASK
  <2> DEFINE x1 == WriteTag(b, t.tag)
             x2 == WriteTags(b, t.transfer)
             a == at + Len(x1)
  <2>1. xs = x1 \o x2
    BY <1>5, <1>8 DEF WriteFields, WriteOwner
  <2>2. x1 \in Seq(Int) /\ x2 \in Seq(Int)
    BY <1>1, TagType, TagsType
  <2> HIDE DEF x1, x2
  <2>3. /\ Holds(w, at, x1) /\ Holds(w, a, x2) /\ a \in Nat \ {0}
        /\ Len(xs) = Len(x1) + Len(x2)
    <3>1. Holds(w, at, x1 \o x2)
      BY <1>5, <2>1
    <3>2. /\ Holds(w, at, x1) /\ Holds(w, at + Len(x1), x2) /\ at + Len(x1) \in Nat \ {0}
          /\ Len(x1 \o x2) = Len(x1) + Len(x2)
      BY <2>2, <3>1, HoldsBoth
    <3>3. QED
      BY <2>1, <3>2
  <2>4. ReadTag(w, at) = [value |-> Kept(b, t.tag), next |-> a]
    <3>1. Reads(ReadTag(w, at), Kept(b, t.tag), at, x1)
      BY <1>1, <2>3, TagRead DEF x1
    <3>2. QED
      BY <3>1 DEF Reads
  <2>5. ReadTags(w, a) = [value |-> AllKept(b, t.transfer), next |-> a + Len(x2)]
    <3>1. Reads(ReadTags(w, a), AllKept(b, t.transfer), a, x2)
      BY <1>1, <2>3, TagsRead DEF x2
    <3>2. QED
      BY <3>1 DEF Reads
  <2>6. a + Len(x2) = at + Len(xs)
    <3>1. Len(x1) \in Nat /\ Len(x2) \in Nat
      BY <2>2, LenProperties
    <3>2. QED
      BY <2>3, <3>1
  <2> HIDE DEF a
  <2>7. ReadFields(w, read) = ReadOwner(w, at, bare)
    BY <1>4, <1>8 DEF ReadFields
  <2>8. ReadOwner(w, at, bare)
        = [value |-> [bare EXCEPT !.tag = Kept(b, t.tag), !.transfer = AllKept(b, t.transfer)],
           next |-> at + Len(xs)]
    <3> DEFINE tag == ReadTag(w, at)
               transfer == ReadTags(w, tag.next)
    <3>1. tag.value = Kept(b, t.tag) /\ tag.next = a
      BY <2>4
    <3>2. transfer.value = AllKept(b, t.transfer) /\ transfer.next = at + Len(xs)
      BY <2>5, <2>6, <3>1
    <3>3. ReadOwner(w, at, bare) = OwnerOf(bare, tag, transfer)
      BY DEF ReadOwner
    <3> HIDE DEF tag, transfer
    <3>4. OwnerOf(bare, tag, transfer)
          = [value |-> [bare EXCEPT !.tag = tag.value, !.transfer = transfer.value],
             next |-> transfer.next]
      BY DEF OwnerOf
    <3>5. QED
      BY <3>1, <3>2, <3>3, <3>4, Zenon
  <2>9. [bare EXCEPT !.tag = Kept(b, t.tag), !.transfer = AllKept(b, t.transfer)] = AsKept(b, t)
    <3>1. AsKept(b, t) = All(Kept(b, t.tag), AllKept(b, t.transfer), 0, 0, NoId)
      BY <1>1, <1>2, <1>3, <1>8
    <3>2. WithTags(bare, Kept(b, t.tag), AllKept(b, t.transfer))
          = All(Kept(b, t.tag), AllKept(b, t.transfer), 0, 0, NoId)
      BY <1>4, TagsReplaced
    <3>3. QED
      BY <3>1, <3>2 DEF WithTags
  <2>10. QED
    BY <1>5, <1>6, <2>7, <2>8, <2>9 DEF Reads
<1>9. CASE t.class = TTERMINATIONTASK
  <2>1. xs = <<t.status, t.origin>>
    BY <1>5, <1>9 DEF WriteFields, WriteTermination
  <2>2. Len(xs) = 2 /\ xs[1] = t.status /\ xs[2] = t.origin
    BY <1>1, <2>1
  <2>3. Unpack(w, at, 2) = [value |-> xs, next |-> at + Len(xs)]
    <3>1. Unpack(w, at, Len(xs)) = [value |-> xs, next |-> at + Len(xs)]
      BY <1>5, Unpacked
    <3>2. QED
      BY <2>2, <3>1
  <2>4. ReadFields(w, read) = ReadTermination(w, at, bare)
    BY <1>4, <1>9 DEF ReadFields
  <2>5. ReadTermination(w, at, bare)
        = [value |-> [bare EXCEPT !.status = t.status, !.origin = t.origin], next |-> at + Len(xs)]
    <3> DEFINE ints == Unpack(w, at, 2)
    <3>1. ints.value[1] = t.status /\ ints.value[2] = t.origin /\ ints.next = at + Len(xs)
      BY <2>2, <2>3
    <3> HIDE DEF ints
    <3>2. ReadTermination(w, at, bare)
          = [value |-> [bare EXCEPT !.status = ints.value[1], !.origin = ints.value[2]],
             next |-> ints.next]
      BY Zenon DEF ReadTermination, ints
    <3>3. QED
      BY <3>1, <3>2, Zenon
  <2>6. [bare EXCEPT !.status = t.status, !.origin = t.origin] = AsKept(b, t)
    <3>1. AsKept(b, t) = All(NoTag, <<>>, t.status, t.origin, NoId)
      BY <1>1, <1>2, <1>3, <1>9
    <3>2. WithInts(bare, t.status, t.origin) = All(NoTag, <<>>, t.status, t.origin, NoId)
      BY <1>4, IntsReplaced
    <3>3. QED
      BY <3>1, <3>2 DEF WithInts
  <2>7. QED
    BY <1>5, <1>6, <2>4, <2>5, <2>6 DEF Reads
<1>10. CASE t.class = TDELOBJECTTASK
  <2>1. xs = WriteId(t.target)
    BY <1>5, <1>10 DEF WriteFields, WriteDelete
  <2>2. ReadId(w, at) = [value |-> t.target, next |-> at + Len(xs)]
    <3>1. Reads(ReadId(w, at), t.target, at, WriteId(t.target))
      BY <1>1, <1>5, <2>1, IdRead
    <3>2. QED
      BY <2>1, <3>1 DEF Reads
  <2>3. ReadFields(w, read) = ReadDelete(w, at, bare)
    BY <1>4, <1>10 DEF ReadFields
  <2>4. ReadDelete(w, at, bare)
        = [value |-> [bare EXCEPT !.target = t.target], next |-> at + Len(xs)]
    BY <2>2 DEF ReadDelete
  <2>5. [bare EXCEPT !.target = t.target] = AsKept(b, t)
    <3>1. AsKept(b, t) = All(NoTag, <<>>, 0, 0, t.target)
      BY <1>1, <1>2, <1>3, <1>10
    <3>2. QED
      BY <1>4, <3>1 DEF TaskOfAll
  <2>6. QED
    BY <1>5, <1>6, <2>3, <2>4, <2>5 DEF Reads
<1>11. CASE t.class = TSNAPSHOTTASK
  <2>1. xs = <<t.class>>
    BY <1>5, <1>11 DEF WriteFields, WriteSnapshot
  <2>2. Len(xs) = 1
    BY <1>1, <2>1
  <2>3. Unpack(w, at, 1).next = at + Len(xs)
    <3>1. Unpack(w, at, Len(xs)) = [value |-> xs, next |-> at + Len(xs)]
      BY <1>5, Unpacked
    <3>2. QED
      BY <2>2, <3>1
  <2>4. ReadFields(w, read) = ReadSnapshot(w, at, bare)
    BY <1>4, <1>11 DEF ReadFields
  <2>5. bare = AsKept(b, t)
    <3>1. AsKept(b, t) = All(NoTag, <<>>, 0, 0, NoId)
      BY <1>1, <1>2, <1>3, <1>11
    <3>2. QED
      BY <1>4, <3>1
  <2>6. QED
    BY <1>5, <1>6, <2>3, <2>4, <2>5 DEF Reads, ReadSnapshot
<1>12. CASE t.class \notin {TDMREQUESTTASK, TDMOWNERTASK, TTERMINATIONTASK, TDELOBJECTTASK, TSNAPSHOTTASK}
  <2>1. xs = <<>> /\ Len(xs) = 0
    BY <1>5, <1>12 DEF WriteFields
  <2>2. ReadFields(w, read) = read
    BY <1>4, <1>12 DEF ReadFields
  <2>3. bare = AsKept(b, t)
    <3>1. AsKept(b, t) = All(NoTag, <<>>, 0, 0, NoId)
      BY <1>1, <1>2, <1>3, <1>12
    <3>2. QED
      BY <1>4, <3>1
  <2>4. read = [value |-> bare, next |-> at] /\ at + Len(xs) = at
    BY <2>1 DEF read
  <2>5. QED
    BY <1>5, <1>6, <2>2, <2>3, <2>4 DEF Reads
<1>13. QED
  BY <1>7, <1>8, <1>9, <1>10, <1>11, <1>12

LEMMA WrittenType ==
    ASSUME NEW b \in Kinds, NEW t \in Message
    PROVE  Written(b, t) \in Seq(Int)
<1> DEFINE x1 == IF WithClassId(b, t) THEN <<t.class>> ELSE <<>>
           x2 == WriteTask(b, t)
           x3 == WriteFields(b, t)
<1>1. x1 \in Seq(Int)
  BY TaskParts
<1>2. x2 \in Seq(Int) /\ x3 \in Seq(Int)
  BY TaskType, FieldsType
<1>3. Written(b, t) = x1 \o x2 \o x3
  BY DEF Written
<1> HIDE DEF x1, x2, x3
<1>4. QED
  BY <1>1, <1>2, <1>3

\* Restore makes the task again, except for the digits that the buffer drops.
LEMMA TaskRestored ==
    ASSUME NEW w \in Seq(Int), NEW at \in Nat \ {0}, NEW b \in Kinds, buffer = b,
           NEW t \in Message, WithClassId(b, t), Holds(w, at, Written(b, t))
    PROVE  Reads(Restore(w, at), AsKept(b, t), at, Written(b, t))
<1> DEFINE x1 == <<t.class>>
           x2 == WriteTask(b, t)
           x3 == WriteFields(b, t)
           a2 == at + Len(x1)
           a3 == at + Len(x1) + Len(x2)
<1>1. x1 \in Seq(Int) /\ Len(x1) = 1 /\ x1[1] = t.class
  BY TaskParts
<1>2. x2 \in Seq(Int) /\ x3 \in Seq(Int)
  BY TaskType, FieldsType
<1>3. Written(b, t) = x1 \o x2 \o x3
  BY DEF Written
<1> HIDE DEF x1, x2, x3
<1>4. /\ Holds(w, at, x1) /\ Holds(w, a2, x2) /\ Holds(w, a3, x3)
      /\ a2 \in Nat \ {0} /\ a3 \in Nat \ {0}
      /\ at + Len(x1 \o x2 \o x3) = a3 + Len(x3)
  <2>1. Holds(w, at, x1 \o x2 \o x3)
    BY <1>3
  <2>2. x1 \in Seq(Int)
    BY <1>1
  <2>3. QED
    BY <1>2, <2>1, <2>2, HoldsThree
<1>5. Unpack(w, at, 1) = [value |-> x1, next |-> a2]
  <2>1. x1 \in Seq(Int)
    BY <1>1
  <2>2. Unpack(w, at, Len(x1)) = [value |-> x1, next |-> at + Len(x1)]
    BY <1>4, <2>1, Unpacked
  <2>3. QED
    BY <1>1, <2>2
<1>6. ReadTask(w, a2, t.class) = [value |-> Bare(b, t), next |-> a3]
  <2>1. Reads(ReadTask(w, a2, t.class), Bare(b, t), a2, x2)
    BY <1>4, TaskRead DEF x2
  <2>2. QED
    BY <2>1 DEF Reads
<1>7. Reads(ReadFields(w, [value |-> Bare(b, t), next |-> a3]), AsKept(b, t), a3, x3)
  BY <1>4, FieldsRead DEF x3
<1> HIDE DEF a2, a3
<1>8. Restore(w, at) = ReadFields(w, [value |-> Bare(b, t), next |-> a3])
  BY <1>1, <1>5, <1>6 DEF Restore
<1>9. QED
  BY <1>3, <1>4, <1>7, <1>8 DEF Reads

-----------------------------------------------------------------------------
(* Files: one task after another                                           *)

LEMMA HoldsLonger ==
    ASSUME NEW w \in Seq(Int), NEW ys \in Seq(Int), NEW at \in Nat \ {0}, NEW xs \in Seq(Int),
           Holds(w, at, xs)
    PROVE  Holds(w \o ys, at, xs)
<1> DEFINE v == w \o ys
<1>1. /\ v \in Seq(Int) /\ Len(v) = Len(w) + Len(ys) /\ Len(w) \in Nat /\ Len(ys) \in Nat
      /\ \A i \in 1..Len(w) : v[i] = w[i]
  BY Joined
<1>2. at + Len(xs) - 1 <= Len(w) /\ \A i \in 1..Len(xs) : w[at + i - 1] = xs[i]
  BY DEF Holds
<1>3. Len(xs) \in Nat
  OBVIOUS
<1> HIDE DEF v
<1>4. at + Len(xs) - 1 <= Len(v)
  BY <1>1, <1>2, <1>3
<1>5. \A i \in 1..Len(xs) : at + i - 1 \in 1..Len(w)
  BY <1>1, <1>2, <1>3
<1>6. \A i \in 1..Len(xs) : v[at + i - 1] = xs[i]
  BY <1>1, <1>2, <1>5
<1>7. Holds(v, at, xs)
  BY <1>4, <1>6 DEF Holds
<1>8. QED
  BY <1>7 DEF v

LEMMA HoldsAtEnd ==
    ASSUME NEW w \in Seq(Int), NEW ys \in Seq(Int)
    PROVE  Holds(w \o ys, Len(w) + 1, ys) /\ Len(w) + 1 \in Nat \ {0}
<1> DEFINE v == w \o ys
<1>1. /\ Len(v) = Len(w) + Len(ys) /\ Len(w) \in Nat /\ Len(ys) \in Nat
      /\ \A i \in 1..Len(ys) : v[Len(w) + i] = ys[i]
  BY Joined
<1> HIDE DEF v
<1>2. Len(w) + 1 + Len(ys) - 1 <= Len(v)
  BY <1>1
<1>3. \A i \in 1..Len(ys) : Len(w) + 1 + i - 1 = Len(w) + i
  BY <1>1
<1>4. \A i \in 1..Len(ys) : v[Len(w) + 1 + i - 1] = ys[i]
  BY <1>1, <1>3
<1>5. Holds(v, Len(w) + 1, ys)
  BY <1>2, <1>4 DEF Holds
<1>6. QED
  BY <1>1, <1>5 DEF v

\* The first of the numbers that a buffer holds.
LEMMA FirstUnpacked ==
    ASSUME NEW w \in Seq(Int), NEW at \in Nat \ {0}, NEW xs \in Seq(Int), buffer \in Kinds,
           Holds(w, at, xs), Len(xs) # 0
    PROVE  Unpack(w, at, 1) = [value |-> <<xs[1]>>, next |-> at + 1] /\ xs[1] \in Int
<1> DEFINE ys == <<xs[1]>>
<1>1. Len(xs) \in Nat /\ 1 \in 1..Len(xs) /\ xs[1] \in Int
  OBVIOUS
<1>2. ys \in Seq(Int) /\ Len(ys) = 1 /\ ys[1] = xs[1]
  BY <1>1
<1>3. at + Len(xs) - 1 <= Len(w) /\ \A i \in 1..Len(xs) : w[at + i - 1] = xs[i]
  BY DEF Holds
<1> HIDE DEF ys
<1>4. Len(w) \in Nat
  OBVIOUS
<1>5. at + Len(ys) - 1 <= Len(w)
  BY <1>1, <1>2, <1>3, <1>4
<1>6. \A i \in 1..Len(ys) : w[at + i - 1] = ys[i]
  BY <1>1, <1>2, <1>3
<1>7. Holds(w, at, ys)
  BY <1>5, <1>6 DEF Holds
<1>8. Unpack(w, at, Len(ys)) = [value |-> ys, next |-> at + Len(ys)]
  <2>1. ys \in Seq(Int)
    BY <1>2
  <2>2. QED
    BY <1>7, <2>1, Unpacked
<1>9. QED
  BY <1>1, <1>2, <1>8 DEF ys

\* A byte, and the task.
OneMore(t) == <<1>> \o Written("file", t)

LEMMA OneMoreType ==
    ASSUME NEW t \in Message
    PROVE  OneMore(t) \in Seq(Int) /\ Len(OneMore(t)) \in Nat \ {0}
<1>1. "file" \in Kinds
  BY DEF Kinds
<1>2. Written("file", t) \in Seq(Int) /\ <<1>> \in Seq(Int) /\ Len(<<1>>) = 1
  BY <1>1, WrittenType
<1>3. QED
  BY <1>2 DEF OneMore

\* Where each task is, in a file with the header.
FileHolds(w, tasks) ==
    \E at \in [1..(Len(tasks) + 1) -> Nat \ {0}] :
        /\ at[1] = 2 /\ at[Len(tasks) + 1] = Len(w) + 1
        /\ \A i \in 1..(Len(tasks) + 1) : at[i] > i
        /\ \A i \in 1..Len(tasks) : /\ Holds(w, at[i], OneMore(tasks[i]))
                                    /\ at[i + 1] = at[i] + Len(OneMore(tasks[i]))

LEMMA EmptyFile == FileHolds(<<Myself>>, <<>>)
<1> DEFINE at == [i \in 1..1 |-> 2]
<1>1. /\ at \in [1..(Len(<<>>) + 1) -> Nat \ {0}] /\ at[1] = 2 /\ at[Len(<<>>) + 1] = Len(<<Myself>>) + 1
      /\ \A i \in 1..(Len(<<>>) + 1) : at[i] > i
      /\ \A i \in 1..Len(<<>>) : FALSE
  OBVIOUS
<1>2. QED
  BY <1>1 DEF FileHolds

LEMMA LongerFile ==
    ASSUME NEW w \in Seq(Int), NEW tasks \in Seq(Message), FileHolds(w, tasks), NEW t \in Message
    PROVE  FileHolds(w \o OneMore(t), Append(tasks, t))
<1> DEFINE n == Len(tasks)
           ys == OneMore(t)
           v == w \o ys
           more == Append(tasks, t)
<1>1. /\ n \in Nat /\ more \in Seq(Message) /\ Len(more) = n + 1
      /\ \A i \in 1..n : more[i] = tasks[i] /\ tasks[i] \in Message
      /\ more[n + 1] = t
  OBVIOUS
<1>2. ys \in Seq(Int) /\ Len(ys) \in Nat \ {0}
  BY OneMoreType
<1>3. v \in Seq(Int) /\ Len(v) = Len(w) + Len(ys) /\ Len(w) \in Nat
  BY <1>2, Joined
<1>4. PICK at \in [1..(n + 1) -> Nat \ {0}] :
         /\ at[1] = 2 /\ at[n + 1] = Len(w) + 1
         /\ \A i \in 1..(n + 1) : at[i] > i
         /\ \A i \in 1..n : /\ Holds(w, at[i], OneMore(tasks[i]))
                            /\ at[i + 1] = at[i] + Len(OneMore(tasks[i]))
  BY DEF FileHolds
<1> DEFINE to == [i \in 1..(n + 2) |-> IF i = n + 2 THEN Len(v) + 1 ELSE at[i]]
<1> HIDE DEF n, ys, v, more
<1>5. to \in [1..(n + 2) -> Nat \ {0}] /\ to[1] = 2 /\ to[n + 2] = Len(v) + 1
      /\ (\A i \in 1..(n + 1) : to[i] = at[i])
  <2>1. n + 2 \in 1..(n + 2) /\ 1 \in 1..(n + 1) /\ 1 # n + 2 /\ Len(v) + 1 \in Nat \ {0}
    BY <1>1, <1>2, <1>3
  <2>2. \A i \in 1..(n + 1) : i \in 1..(n + 2) /\ i # n + 2
    BY <1>1
  <2>3. \A i \in 1..(n + 2) : i # n + 2 => i \in 1..(n + 1)
    BY <1>1
  <2>4. QED
    BY <1>4, <2>1, <2>2, <2>3
<1> HIDE DEF to
<1>6. ASSUME NEW i \in 1..(n + 2) PROVE to[i] > i
  <2>1. CASE i = n + 2
    <3>1. n + 1 \in 1..(n + 1)
      BY <1>1
    <3>2. at[n + 1] > n + 1
      BY <1>4, <3>1
    <3>3. QED
      BY <1>1, <1>2, <1>3, <1>4, <1>5, <2>1, <3>2
  <2>2. CASE i # n + 2
    <3>1. i \in 1..(n + 1)
      BY <1>1, <2>2
    <3>2. QED
      BY <1>4, <1>5, <3>1
  <2>3. QED
    BY <2>1, <2>2
<1>7. ASSUME NEW i \in 1..(n + 1)
      PROVE  Holds(v, to[i], OneMore(more[i])) /\ to[i + 1] = to[i] + Len(OneMore(more[i]))
  <2>1. CASE i = n + 1
    <3>1. Holds(v, Len(w) + 1, ys)
      BY <1>2, HoldsAtEnd DEF v
    <3>2. to[i] = Len(w) + 1 /\ OneMore(more[i]) = ys
      BY <1>1, <1>4, <1>5, <2>1 DEF ys
    <3>3. to[i + 1] = Len(v) + 1
      BY <1>1, <1>5, <2>1
    <3>4. Len(v) + 1 = Len(w) + 1 + Len(ys)
      BY <1>2, <1>3
    <3>5. QED
      BY <3>1, <3>2, <3>3, <3>4
  <2>2. CASE i # n + 1
    <3>1. i \in 1..n /\ i + 1 \in 1..(n + 1)
      BY <1>1, <2>2
    <3>2. Holds(w, at[i], OneMore(tasks[i])) /\ at[i + 1] = at[i] + Len(OneMore(tasks[i]))
          /\ more[i] = tasks[i] /\ tasks[i] \in Message
      BY <1>1, <1>4, <3>1
    <3>3. OneMore(tasks[i]) \in Seq(Int) /\ at[i] \in Nat \ {0}
      BY <3>2, OneMoreType
    <3>4. Holds(v, at[i], OneMore(tasks[i]))
      BY <1>2, <3>2, <3>3, HoldsLonger DEF v
    <3>5. QED
      BY <1>5, <3>1, <3>2, <3>4
  <2>3. QED
    BY <2>1, <2>2
<1>8. Len(more) + 1 = n + 2 /\ 1..Len(more) = 1..(n + 1)
  BY <1>1
<1>9. FileHolds(v, more)
  <2>1. to \in [1..(Len(more) + 1) -> Nat \ {0}] /\ to[1] = 2 /\ to[Len(more) + 1] = Len(v) + 1
    BY <1>5, <1>8
  <2>2. \A i \in 1..(Len(more) + 1) : to[i] > i
    BY <1>6, <1>8
  <2>3. \A i \in 1..Len(more) : /\ Holds(v, to[i], OneMore(more[i]))
                                /\ to[i + 1] = to[i] + Len(OneMore(more[i]))
    BY <1>7, <1>8
  <2>4. QED
    BY <2>1, <2>2, <2>3, Zenon DEF FileHolds
<1>10. QED
  BY <1>9 DEF v, more, ys

\* A task that a file buffer can restore.
Good(t) == t.class \in Registered /\ t.id.fId # 0

LEMMA FirstOfWritten ==
    ASSUME NEW t \in Message
    PROVE  /\ Len(Written("file", t)) # 0
           /\ Written("file", t)[1] = IF t.id.fId # 0 THEN t.class ELSE 0
<1> DEFINE x1 == IF WithClassId("file", t) THEN <<t.class>> ELSE <<>>
           x3 == <<t.proc, IF t.update THEN 1 ELSE 0>>
           x4 == WriteTags("file", t.depend)
           x5 == WriteFields("file", t)
           rest == x3 \o x4 \o x5
<1>1. "file" \in Kinds
  BY DEF Kinds
<1>2. x3 \in Seq(Int) /\ x4 \in Seq(Int) /\ x5 \in Seq(Int)
  BY <1>1, TaskParts, TagsType, FieldsType
<1>3. t.class \in Int /\ t.id.fId \in Int /\ t.id.fProcId \in Int
  BY TaskParts DEF Ids
<1>4. Written("file", t) = x1 \o (WriteId(t.id) \o x3 \o x4) \o x5
  BY DEF Written, WriteTask
<1>5. WithClassId("file", t) <=> t.id.fId # 0
  BY DEF WithClassId
<1> HIDE DEF x3, x4, x5
<1>6. WriteId(t.id) = <<t.id.fId, t.id.fProcId>>
  BY DEF WriteId
<1>7. WriteId(t.id) \in Seq(Int) /\ x1 \in Seq(Int)
  BY <1>3, <1>6
<1>8. CASE t.id.fId # 0
  <2>1. x1 = <<t.class>>
    BY <1>5, <1>8
  <2> DEFINE y == WriteId(t.id) \o x3 \o x4
  <2>2. y \in Seq(Int)
    BY <1>2, <1>7
  <2> HIDE DEF y
  <2>3. Written("file", t) = (<<t.class>> \o y) \o x5
    BY <1>4, <2>1 DEF y
  <2>4. Len((<<t.class>> \o y) \o x5) # 0 /\ ((<<t.class>> \o y) \o x5)[1] = t.class
    BY <1>2, <1>3, <2>2
  <2>5. QED
    BY <1>8, <2>3, <2>4
<1>9. CASE t.id.fId = 0
  <2>1. x1 = <<>>
    BY <1>5, <1>9
  <2>2. WriteId(t.id) = <<0, t.id.fProcId>>
    BY <1>6, <1>9
  <2> HIDE DEF x1
  <2>3. Written("file", t) = (<<>> \o ((<<0, t.id.fProcId>> \o x3) \o x4)) \o x5
    BY <1>4, <2>1, <2>2
  <2> DEFINE y == (<<0, t.id.fProcId>> \o x3) \o x4
  <2>4. y \in Seq(Int) /\ y[1] = 0 /\ Len(y) # 0
    BY <1>2, <1>3
  <2> HIDE DEF y
  <2>5. Len((<<>> \o y) \o x5) # 0 /\ ((<<>> \o y) \o x5)[1] = 0
    BY <1>2, <2>4
  <2>6. QED
    BY <1>9, <2>3, <2>5 DEF y
<1>10. QED
  BY <1>8, <1>9

\* What ReceiveMessages does with a byte 1 and a task.
LEMMA TaskOfFile ==
    ASSUME NEW w \in Seq(Int), NEW at \in Nat \ {0}, NEW t \in Message, buffer = "file",
           Holds(w, at, OneMore(t)), NEW before
    PROVE  LET r == [value |-> before, next |-> at]
           IN  /\ GoesOn(w, r) <=> Good(t)
               /\ Good(t) => MoreTasks(w, r) = [value |-> Append(before, AsKept("file", t)),
                                                next |-> at + Len(OneMore(t))]
               /\ ~Good(t) => AtTheEnd(w, r) = Crash
<1> DEFINE r == [value |-> before, next |-> at]
           one == <<1>>
           ys == Written("file", t)
<1>1. "file" \in Kinds /\ buffer \in Kinds
  BY DEF Kinds
<1>2. ys \in Seq(Int) /\ one \in Seq(Int) /\ Len(one) = 1
  BY <1>1, WrittenType
<1>3. OneMore(t) = one \o ys
  BY DEF OneMore
<1> HIDE DEF one, ys
<1>4. /\ Unpack(w, at, Len(one)) = [value |-> one, next |-> at + Len(one)]
      /\ Holds(w, at + Len(one), ys) /\ at + Len(one) \in Nat \ {0}
      /\ Len(one \o ys) = Len(one) + Len(ys)
  <2>1. Holds(w, at, one \o ys)
    BY <1>3
  <2>2. one \in Seq(Int) /\ ys \in Seq(Int) /\ buffer \in Kinds
    BY <1>1, <1>2
  <2>3. QED
    BY <2>1, <2>2, UnpackedFirst
<1>5. /\ Unpack(w, at, 1) = [value |-> one, next |-> at + 1]
      /\ Holds(w, at + 1, ys) /\ at + 1 \in Nat \ {0}
      /\ Len(OneMore(t)) = 1 + Len(ys) /\ Len(ys) \in Nat
  BY <1>2, <1>3, <1>4
<1>6. Flag(w, r) = [value |-> one, next |-> at + 1]
  BY <1>5 DEF Flag
<1>7. one[1] = 1
  BY DEF one
<1>8. CanRestore(w, at + 1) <=> Good(t)
  <2>1. Len(ys) # 0 /\ ys[1] = IF t.id.fId # 0 THEN t.class ELSE 0
    BY FirstOfWritten DEF ys
  <2>2. Unpack(w, at + 1, 1) = [value |-> <<ys[1]>>, next |-> at + 1 + 1]
    BY <1>1, <1>2, <1>5, <2>1, FirstUnpacked
  <2>3. CanRestore(w, at + 1) <=> ys[1] \in Registered
    BY <2>2 DEF CanRestore
  <2>4. QED
    BY <2>1, <2>3, RegisteredAssumption DEF Good
<1>9. GoesOn(w, r) <=> Good(t)
  BY <1>6, <1>7, <1>8 DEF GoesOn
<1>10. ASSUME Good(t)
       PROVE  MoreTasks(w, r) = [value |-> Append(before, AsKept("file", t)),
                                 next |-> at + Len(OneMore(t))]
  <2>1. WithClassId("file", t)
    BY <1>10 DEF Good, WithClassId
  <2>2. Holds(w, at + 1, Written("file", t))
    BY <1>5 DEF ys
  <2>3. Reads(Restore(w, at + 1), AsKept("file", t), at + 1, Written("file", t))
    BY <1>1, <1>5, <2>1, <2>2, TaskRestored
  <2>4. Restore(w, at + 1) = [value |-> AsKept("file", t), next |-> at + 1 + Len(ys)]
    BY <2>3 DEF Reads, ys
  <2>5. at + 1 + Len(ys) = at + Len(OneMore(t))
    BY <1>5
  <2>6. r.value = before /\ Flag(w, r).next = at + 1
    BY <1>6
  <2> HIDE DEF r
  <2>7. More(r.value, Restore(w, at + 1)) = [value |-> Append(before, AsKept("file", t)),
                                             next |-> at + Len(OneMore(t))]
    <3>1. Restore(w, at + 1).value = AsKept("file", t)
      BY <2>4
    <3>2. Restore(w, at + 1).next = at + Len(OneMore(t))
      BY <2>4, <2>5
    <3>3. QED
      BY <2>6, <3>1, <3>2 DEF More
  <2>8. QED
    BY <2>6, <2>7 DEF MoreTasks
<1>11. ~Good(t) => AtTheEnd(w, r) = Crash
  BY <1>6, <1>7 DEF AtTheEnd
<1>12. QED
  BY <1>9, <1>10, <1>11

\* And with the last byte.
LEMMA EndOfFile ==
    ASSUME NEW w \in Seq(Int), NEW tasks, buffer = "file"
    PROVE  LET v == w \o <<0>>
               r == [value |-> tasks, next |-> Len(w) + 1]
           IN  ~GoesOn(v, r) /\ AtTheEnd(v, r) = [outcome |-> "end", tasks |-> tasks]
<1> DEFINE ys == <<0>>
           v == w \o ys
           r == [value |-> tasks, next |-> Len(w) + 1]
<1>1. buffer \in Kinds
  BY DEF Kinds
<1>2. ys \in Seq(Int) /\ Len(ys) = 1 /\ ys[1] = 0
  OBVIOUS
<1> HIDE DEF ys
<1>3. v \in Seq(Int) /\ Len(v) = Len(w) + 1 /\ Len(w) \in Nat
  <2>1. ys \in Seq(Int)
    BY <1>2
  <2>2. w \o ys \in Seq(Int) /\ Len(w \o ys) = Len(w) + Len(ys) /\ Len(w) \in Nat
    BY <2>1, Joined
  <2>3. QED
    BY <1>2, <2>2
<1>4. Holds(v, Len(w) + 1, ys) /\ Len(w) + 1 \in Nat \ {0}
  BY <1>2, HoldsAtEnd
<1> HIDE DEF v
<1>5. Unpack(v, Len(w) + 1, Len(ys)) = [value |-> ys, next |-> Len(w) + 1 + Len(ys)]
  BY <1>1, <1>2, <1>3, <1>4, Unpacked
<1>6. Flag(v, r) = [value |-> ys, next |-> Len(w) + 2]
  BY <1>2, <1>3, <1>5 DEF Flag
<1>7. ~GoesOn(v, r)
  BY <1>2, <1>6 DEF GoesOn
<1>8. AtTheEnd(v, r) = Restored(v, [value |-> tasks, next |-> Len(w) + 2])
  BY <1>2, <1>6 DEF AtTheEnd
<1>9. Restored(v, [value |-> tasks, next |-> Len(w) + 2]) = [outcome |-> "end", tasks |-> tasks]
  BY <1>3 DEF Restored, Aborted
<1>10. QED
  BY <1>7, <1>8, <1>9 DEF v, ys

\* The function by which ReadFile is defined exists.
Stops(w, f, k) == ~GoesOn(w, f[k]) /\ \A j \in 0..(k - 1) : GoesOn(w, f[j])

LEMMA ReadFileIs ==
    ASSUME NEW w \in Seq(Int)
    PROVE  \E f : /\ ReadFile(w) = AtTheEnd(w, f[CHOOSE k \in 0..Len(w) : Stops(w, f, k)])
                  /\ \A k \in 0..Len(w) : f[k] = IF k = 0 THEN NoneYet(2)
                                                 ELSE MoreTasks(w, f[k - 1])
<1> DEFINE Rec(g, m) == g = [k \in 0..m |-> IF k = 0 THEN NoneYet(2) ELSE MoreTasks(w, g[k - 1])]
           S == {m \in Nat : \E g : Rec(g, m)}
<1>1. 0 \in S
  <2> DEFINE g == [k \in 0..0 |-> NoneYet(2)]
  <2>1. Rec(g, 0)
    OBVIOUS
  <2> HIDE DEF Rec, g
  <2>2. QED
    BY <2>1
<1>2. ASSUME NEW m \in Nat, m \in S PROVE m + 1 \in S
  <2>1. PICK g : Rec(g, m)
    BY <1>2
  <2> DEFINE h == [k \in 0..(m + 1) |-> IF k = m + 1 THEN MoreTasks(w, g[m]) ELSE g[k]]
  <2>2. \A k \in 0..m : g[k] = IF k = 0 THEN NoneYet(2) ELSE MoreTasks(w, g[k - 1])
    BY <2>1
  <2>3. ASSUME NEW k \in 0..(m + 1)
        PROVE  h[k] = IF k = 0 THEN NoneYet(2) ELSE MoreTasks(w, h[k - 1])
    <3> HIDE DEF Rec
    <3>1. k = m + 1 => h[k] = MoreTasks(w, g[m]) /\ h[k - 1] = g[m]
      OBVIOUS
    <3>2. k # m + 1 => h[k] = g[k] /\ (k # 0 => h[k - 1] = g[k - 1])
      OBVIOUS
    <3> HIDE DEF h
    <3>3. QED
      BY <3>1, <3>2, <2>2
  <2>4. Rec(h, m + 1)
    <3>1. h = [k \in 0..(m + 1) |-> h[k]]
      OBVIOUS
    <3> HIDE DEF h
    <3>2. QED
      BY <2>3, <3>1
  <2> HIDE DEF h, Rec
  <2>5. QED
    BY <2>4
<1>3. \A m \in Nat : m \in S
  <2> HIDE DEF S
  <2>1. QED
    BY <1>1, <1>2, InductionOnNat
<1>4. \E g : Rec(g, Len(w))
  <2>1. Len(w) \in Nat
    OBVIOUS
  <2> HIDE DEF Rec
  <2>2. QED
    BY <1>3, <2>1
<1> DEFINE f == CHOOSE g : Rec(g, Len(w))
<1>5. Rec(f, Len(w))
  <2> HIDE DEF Rec
  <2>1. QED
    BY <1>4
<1>6. ReadFile(w) = AtTheEnd(w, f[CHOOSE k \in 0..Len(w) : Stops(w, f, k)])
  BY DEF ReadFile, Stops
<1>7. \A k \in 0..Len(w) : f[k] = IF k = 0 THEN NoneYet(2) ELSE MoreTasks(w, f[k - 1])
  <2> HIDE DEF f
  <2>1. QED
    BY <1>5
<1>8. QED
  <2> HIDE DEF f
  <2>1. QED
    BY <1>6, <1>7

\* What is read of the first k tasks.
FirstKept(tasks, k) == [i \in 1..k |-> AsKept("file", tasks[i])]

LEMMA OneMoreKept ==
    ASSUME NEW tasks \in Seq(Message), NEW k \in Nat
    PROVE  Append(FirstKept(tasks, k), AsKept("file", tasks[k + 1])) = FirstKept(tasks, k + 1)
<1> DEFINE E(i) == AsKept("file", tasks[i])
           T == {E(i) : i \in 1..(k + 1)}
           p == [i \in 1..k |-> E(i)]
           q == [i \in 1..(k + 1) |-> E(i)]
<1> HIDE DEF E
<1>1. p \in [1..k -> T] /\ q \in [1..(k + 1) -> T] /\ E(k + 1) \in T
  OBVIOUS
<1> HIDE DEF T
<1>2. p \in Seq(T) /\ q \in Seq(T) /\ Len(p) = k /\ Len(q) = k + 1
  <2>1. \A i \in 1..k : p[i] \in T
    BY <1>1
  <2>2. \A i \in 1..(k + 1) : q[i] \in T
    BY <1>1
  <2> HIDE DEF p, q
  <2>3. DOMAIN p = 1..k /\ DOMAIN q = 1..(k + 1) /\ k + 1 \in Nat
    BY <1>1
  <2>4. QED
    BY <1>1, <2>3, SeqDef, LenProperties
<1>3. \A i \in 1..k : p[i] = q[i]
  OBVIOUS
<1>4. q[k + 1] = E(k + 1)
  OBVIOUS
<1> DEFINE x == E(k + 1)
<1> HIDE DEF p, q, x
<1>5. /\ Append(p, x) \in Seq(T) /\ Len(Append(p, x)) = k + 1
      /\ \A i \in 1..k : Append(p, x)[i] = p[i]
      /\ Append(p, x)[k + 1] = x
  BY <1>1, <1>2, AppendProperties DEF x
<1>6. \A i \in 1..(k + 1) : Append(p, x)[i] = q[i]
  BY <1>3, <1>4, <1>5 DEF x
<1>7. Append(p, x) = q
  BY <1>2, <1>5, <1>6, SeqEqual
<1>8. QED
  BY <1>7 DEF E, FirstKept, p, q, x

LEMMA FileRead ==
    ASSUME NEW w \in Seq(Int), NEW tasks \in Seq(Message), FileHolds(w, tasks), buffer = "file"
    PROVE  ReadFile(w \o <<0>>) =
             IF \A i \in 1..Len(tasks) : Good(tasks[i])
             THEN [outcome |-> "end", tasks |-> FirstKept(tasks, Len(tasks))] ELSE Crash
<1> DEFINE n == Len(tasks)
           v == w \o <<0>>
<1>1. n \in Nat /\ \A i \in 1..n : tasks[i] \in Message
  OBVIOUS
<1>2. PICK at \in [1..(n + 1) -> Nat \ {0}] :
         /\ at[1] = 2 /\ at[n + 1] = Len(w) + 1
         /\ \A i \in 1..(n + 1) : at[i] > i
         /\ \A i \in 1..n : /\ Holds(w, at[i], OneMore(tasks[i]))
                            /\ at[i + 1] = at[i] + Len(OneMore(tasks[i]))
  BY Zenon DEF FileHolds
<1>3. v \in Seq(Int) /\ Len(v) = Len(w) + 1 /\ Len(w) \in Nat
  OBVIOUS
<1>4. ASSUME NEW i \in 1..n PROVE Holds(v, at[i], OneMore(tasks[i]))
  <2>1. Holds(w, at[i], OneMore(tasks[i])) /\ tasks[i] \in Message
    BY <1>1, <1>2
  <2>2. OneMore(tasks[i]) \in Seq(Int) /\ <<0>> \in Seq(Int) /\ at[i] \in Nat \ {0}
    <3>1. OneMore(tasks[i]) \in Seq(Int)
      BY <2>1, OneMoreType
    <3>2. i \in 1..(n + 1)
      BY <1>1
    <3> HIDE DEF n
    <3>3. at[i] \in Nat \ {0}
      BY <1>2, <3>2
    <3>4. QED
      BY <3>1, <3>3
  <2>3. QED
    BY <2>1, <2>2, HoldsLonger
<1>5. PICK f : /\ ReadFile(v) = AtTheEnd(v, f[CHOOSE k \in 0..Len(v) : Stops(v, f, k)])
               /\ \A k \in 0..Len(v) : f[k] = IF k = 0 THEN NoneYet(2)
                                              ELSE MoreTasks(v, f[k - 1])
  <2> HIDE DEF v
  <2>1. QED
    BY <1>3, ReadFileIs, Zenon
<1> HIDE DEF n, v
<1>6. n < Len(w) /\ n <= Len(v)
  <2>1. n + 1 \in 1..(n + 1)
    BY <1>1
  <2>2. at[n + 1] > n + 1
    BY <1>2, <2>1
  <2>3. QED
    BY <1>1, <1>2, <1>3, <2>2
<1> DEFINE Then(k) == [value |-> FirstKept(tasks, k), next |-> at[k + 1]]
\* The first tasks are read if they are good.
<1> DEFINE S == {m \in Nat : m <= n /\ (\A i \in 1..m : Good(tasks[i])) => f[m] = Then(m)}
<1>7. 0 \in S
  <2>1. 0 \in 0..Len(v)
    BY <1>3
  <2>2. f[0] = NoneYet(2)
    BY <1>5, <2>1
  <2>3. FirstKept(tasks, 0) = <<>>
    BY DEF FirstKept
  <2>4. QED
    BY <1>2, <2>2, <2>3 DEF NoneYet
<1>8. ASSUME NEW k \in 0..(n - 1), f[k] = Then(k)
      PROVE  /\ GoesOn(v, f[k]) <=> Good(tasks[k + 1])
             /\ Good(tasks[k + 1]) => MoreTasks(v, f[k]) = Then(k + 1)
             /\ ~Good(tasks[k + 1]) => AtTheEnd(v, f[k]) = Crash
  <2>1. k + 1 \in 1..n /\ k \in Nat
    BY <1>1
  <2>2. Holds(v, at[k + 1], OneMore(tasks[k + 1])) /\ tasks[k + 1] \in Message
        /\ at[k + 1] \in Nat \ {0}
    BY <1>1, <1>2, <1>4, <2>1
  <2> DEFINE b == FirstKept(tasks, k)
             a == at[k + 1]
             t == tasks[k + 1]
  <2>3. a \in Nat \ {0} /\ t \in Message /\ Holds(v, a, OneMore(t)) /\ v \in Seq(Int)
    BY <1>3, <2>2
  <2>4. f[k] = [value |-> b, next |-> a]
    BY <1>8
  <2>5. /\ Append(b, AsKept("file", t)) = FirstKept(tasks, k + 1)
        /\ a + Len(OneMore(t)) = at[(k + 1) + 1]
    BY <1>2, <2>1, OneMoreKept
  <2> HIDE DEF b, a, t
  <2>6. LET r == [value |-> b, next |-> a]
        IN  /\ GoesOn(v, r) <=> Good(t)
            /\ Good(t) => MoreTasks(v, r) = [value |-> Append(b, AsKept("file", t)),
                                             next |-> a + Len(OneMore(t))]
            /\ ~Good(t) => AtTheEnd(v, r) = Crash
    BY <2>3, TaskOfFile
  <2>7. QED
    BY <2>4, <2>5, <2>6 DEF t
<1>9. ASSUME NEW m \in Nat, m \in S PROVE m + 1 \in S
  <2>1. SUFFICES ASSUME m + 1 <= n, \A i \in 1..(m + 1) : Good(tasks[i])
                 PROVE  f[m + 1] = Then(m + 1)
    OBVIOUS
  <2>2. f[m] = Then(m)
    BY <1>1, <1>9, <2>1
  <2>3. /\ m \in 0..(n - 1) /\ Good(tasks[m + 1])
        /\ m + 1 \in 0..Len(v) /\ (m + 1) - 1 = m /\ m + 1 # 0
    <3>1. m + 1 \in 1..(m + 1)
      OBVIOUS
    <3>2. Good(tasks[m + 1])
      BY <2>1, <3>1
    <3>3. Len(v) \in Nat
      BY <1>3
    <3>4. QED
      BY <1>1, <1>6, <2>1, <3>2, <3>3
  <2> HIDE DEF Then
  <2>4. MoreTasks(v, f[m]) = Then(m + 1)
    BY <1>8, <2>2, <2>3
  <2>5. QED
    BY <1>5, <2>3, <2>4
<1>10. \A m \in Nat : m \in S
  <2> HIDE DEF S
  <2>1. QED
    BY <1>7, <1>9, InductionOnNat
<1>11. ASSUME NEW m \in 0..n, \A i \in 1..m : Good(tasks[i]) PROVE f[m] = Then(m)
  BY <1>1, <1>10, <1>11
<1> HIDE DEF S, Then
\* So that reading goes on up to the first that is not, and no further.
<1>12. ASSUME NEW m \in 0..n, \A i \in 1..m : Good(tasks[i]), ~GoesOn(v, f[m])
       PROVE  ReadFile(v) = AtTheEnd(v, f[m])
  <2>1. ASSUME NEW j \in 0..(m - 1) PROVE GoesOn(v, f[j])
    <3>1. j \in 0..n /\ j \in 0..(n - 1) /\ j + 1 \in 1..m /\ \A i \in 1..j : i \in 1..m
      BY <1>1
    <3>2. f[j] = Then(j)
      BY <1>11, <1>12, <3>1
    <3>3. QED
      BY <1>8, <1>12, <3>1, <3>2
  <2>2. m \in 0..Len(v) /\ Len(v) \in Nat
    BY <1>1, <1>3, <1>6
  <2>3. Stops(v, f, m)
    BY <1>12, <2>1 DEF Stops
  <2>4. ASSUME NEW k \in 0..Len(v), Stops(v, f, k) PROVE k = m
    <3>1. ~(k < m)
      <4>1. k < m => k \in 0..(m - 1)
        BY <2>2
      <4>2. QED
        BY <2>1, <2>4, <4>1 DEF Stops
    <3>2. ~(m < k)
      <4>1. m < k => m \in 0..(k - 1)
        BY <2>2
      <4>2. QED
        BY <1>12, <2>4, <4>1 DEF Stops
    <3>3. QED
      BY <2>2, <3>1, <3>2
  <2> DEFINE c == CHOOSE k \in 0..Len(v) : Stops(v, f, k)
  <2>5. c \in 0..Len(v) /\ Stops(v, f, c)
    BY <2>2, <2>3
  <2>6. ReadFile(v) = AtTheEnd(v, f[c])
    BY <1>5
  <2> HIDE DEF c
  <2>7. c = m
    BY <2>4, <2>5
  <2>8. QED
    BY <2>6, <2>7
<1>13. CASE \A i \in 1..n : Good(tasks[i])
  <2>1. n \in 0..n
    BY <1>1
  <2>2. f[n] = [value |-> FirstKept(tasks, n), next |-> Len(w) + 1]
    BY <1>2, <1>11, <1>13, <2>1 DEF Then
  <2>3. ~GoesOn(v, f[n]) /\ AtTheEnd(v, f[n]) = [outcome |-> "end", tasks |-> FirstKept(tasks, n)]
    BY <2>2, EndOfFile DEF v
  <2>4. QED
    BY <1>12, <1>13, <2>1, <2>3 DEF n, v
<1>14. CASE \E i \in 1..n : ~Good(tasks[i])
  <2> DEFINE B == {k \in 0..(n - 1) : ~Good(tasks[k + 1])}
  <2>1. PICK i \in 1..n : ~Good(tasks[i])
    BY <1>14
  <2>2. i - 1 \in B /\ B \in SUBSET Nat
    BY <1>1, <2>1
  <2>3. PICK m \in B : \A k \in B : m <= k
    <3> HIDE DEF B
    <3>1. QED
      BY <2>2, Smallest
  <2>4. m \in 0..(n - 1) /\ m \in 0..n /\ ~Good(tasks[m + 1])
    BY <1>1
  <2>5. ASSUME NEW j \in 1..m PROVE Good(tasks[j])
    <3>1. j - 1 \in 0..(n - 1) /\ (j - 1) + 1 = j /\ ~(m <= j - 1)
      BY <1>1, <2>4
    <3>2. QED
      BY <2>3, <3>1
  <2>6. f[m] = Then(m)
    BY <1>11, <2>4, <2>5
  <2>7. ~GoesOn(v, f[m]) /\ AtTheEnd(v, f[m]) = Crash
    BY <1>8, <2>4, <2>6
  <2>8. ReadFile(v) = Crash
    BY <1>12, <2>4, <2>5, <2>7
  <2>9. QED
    BY <1>14, <2>8 DEF n, v
<1>15. QED
  BY <1>13, <1>14

-----------------------------------------------------------------------------
(* What is received is what was sent                                       *)

\* Sockets and MPI drop nothing.
LEMMA AllIsKept ==
    ASSUME NEW b \in {"socket", "mpi"}, NEW t \in Message
    PROVE  AsKept(b, t) = t
<1>1. b \in Kinds
  BY DEF Kinds
<1>2. ASSUME NEW tag \in Tags PROVE Kept(b, tag) = tag
  <2> DEFINE o == tag.object
  <2>1. o \in Objects /\ tag = [id |-> tag.id, task |-> tag.task, mode |-> tag.mode,
                                proc |-> tag.proc, version |-> tag.version, object |-> o]
    BY DEF Tags
  <2>2. Packed(b, o) = o.data
    BY DEF Packed, PkDouble, PackSocket, PackMPI
  <2>3. [o EXCEPT !.data = Packed(b, o)] = o
    BY <1>1, <2>1, <2>2, KeptObject
  <2>4. Kept(b, tag) = [id |-> tag.id, task |-> tag.task, mode |-> tag.mode,
                        proc |-> tag.proc, version |-> tag.version,
                        object |-> [o EXCEPT !.data = Packed(b, o)]]
    BY <1>1, TagParts
  <2> HIDE DEF o
  <2>5. QED
    BY <2>1, <2>3, <2>4
<1>3. ASSUME NEW tags \in Seq(Tags) PROVE AllKept(b, tags) = tags
  <2>1. \A i \in DOMAIN tags : tags[i] \in Tags
    OBVIOUS
  <2>2. AllKept(b, tags) = [i \in DOMAIN tags |-> tags[i]]
    BY <1>2, <2>1 DEF AllKept
  <2>3. tags = [i \in DOMAIN tags |-> tags[i]]
    OBVIOUS
  <2>4. QED
    BY <2>2, <2>3
<1>4. Kept(b, t.tag) = t.tag /\ AllKept(b, t.depend) = t.depend
      /\ AllKept(b, t.transfer) = t.transfer
  BY <1>2, <1>3, TaskParts
<1>5. t = [class |-> t.class, id |-> t.id, proc |-> t.proc, update |-> t.update,
           depend |-> t.depend, tag |-> t.tag, transfer |-> t.transfer, status |-> t.status,
           origin |-> t.origin, target |-> t.target]
  BY DEF Message, Fields
<1>6. QED
  BY <1>1, <1>4, <1>5, AsKeptIs

\* A buffer of one task.
LEMMA OneRestored ==
    ASSUME NEW b \in {"socket", "mpi"}, buffer = b, NEW t \in Message, wire = Written(b, t)
    PROVE  RestoreTask = [outcome |-> "end", tasks |-> <<t>>]
<1> DEFINE w == Written(b, t)
<1>1. b \in Kinds /\ WithClassId(b, t)
  BY DEF Kinds, WithClassId
<1>2. w \in Seq(Int)
  BY <1>1, WrittenType
<1>3. Holds(w, 1, Written(b, t))
  <2> HIDE DEF w
  <2>1. Holds(w, 1, w)
    BY <1>2 DEF Holds
  <2>2. QED
    BY <2>1 DEF w
<1>4. Reads(Restore(w, 1), AsKept(b, t), 1, Written(b, t))
  <2> HIDE DEF w
  <2>1. 1 \in Nat \ {0}
    OBVIOUS
  <2>2. QED
    BY <1>1, <1>2, <1>3, <2>1, TaskRestored
<1>5. AsKept(b, t) = t
  BY AllIsKept
<1>6. Restore(w, 1) = [value |-> t, next |-> 1 + Len(w)]
  BY <1>4, <1>5 DEF Reads
<1> HIDE DEF w
<1>7. More(<<>>, Restore(w, 1)) = [value |-> <<t>>, next |-> 1 + Len(w)]
  BY <1>6 DEF More
<1>8. Restored(w, [value |-> <<t>>, next |-> 1 + Len(w)]) = [outcome |-> "end", tasks |-> <<t>>]
  BY <1>2 DEF Restored, Aborted
<1>9. QED
  BY <1>7, <1>8 DEF RestoreTask, w

\* What the buffer holds, of what was written to it.
Carries == IF buffer = "file" THEN wire \in Seq(Int) /\ FileHolds(wire, sent)
           ELSE \E t \in Message : sent = <<t>> /\ wire = Written(buffer, t)
MessagesInv == /\ HistoryInv
               /\ buffer \in Kinds /\ sent \in Seq(Message)
               /\ sent = <<>> => wire = <<>> /\ received = Nothing
               /\ wire # <<>> => Carries
               /\ RestoredAsWritten

LEMMA MessagesInitial == MessagesInit => MessagesInv
<1>1. ASSUME MessagesInit PROVE MessagesInv
  <2>1. HistoryInv
    BY <1>1, HistoryInit DEF MessagesInit
  <2>2. buffer \in Kinds /\ sent = <<>> /\ wire = <<>> /\ received = Nothing
    BY <1>1 DEF MessagesInit, Kinds
  <2>3. RestoredAsWritten
    BY <2>2 DEF RestoredAsWritten
  <2>4. sent \in Seq(Message)
    BY <2>2, EmptySeq
  <2>5. QED
    BY <2>1, <2>2, <2>3, <2>4 DEF MessagesInv
<1>2. QED
  BY <1>1

\* The version goes on as in DataVersion, and keeps still while a buffer is used.
LEMMA VersionsOnly ==
    MessagesNext => \/ Next /\ sent = <<>> /\ UNCHANGED msgVars
                    \/ UNCHANGED vars
<1>1. ASSUME NEW t \in TasksOf(version)
      PROVE  SocketSendTask(t) \/ MPISendTask(t) \/ FileSendTask(t) => UNCHANGED vars
  BY Zenon DEF SocketSendTask, MPISendTask, FileSendTask, SendTask
<1>2. Receive => UNCHANGED vars
  BY DEF Receive
<1>3. QED
  BY <1>1, <1>2, Zenon DEF MessagesNext, Next

LEMMA SendKeeps ==
    ASSUME MessagesInv, NEW b \in {"socket", "mpi"}, NEW t \in Message, SendTask(b, t),
           HistoryInv'
    PROVE  MessagesInv'
<1>1. /\ buffer' = b /\ sent' = <<t>> /\ wire' = Written(b, t) /\ received' = Nothing
  BY DEF SendTask
<1>2. buffer' \in Kinds /\ sent' \in Seq(Message) /\ sent' # <<>> /\ buffer' # "file"
  BY <1>1 DEF Kinds
<1>3. Carries'
  BY <1>1, <1>2 DEF Carries
<1>4. RestoredAsWritten'
  BY <1>1 DEF RestoredAsWritten
<1>5. QED
  BY <1>2, <1>3, <1>4 DEF MessagesInv

LEMMA FileKeeps ==
    ASSUME MessagesInv, NEW t \in Message, FileSendTask(t), HistoryInv'
    PROVE  MessagesInv'
<1>1. buffer' = "file" /\ received' = Nothing
  BY DEF FileSendTask
<1>2. RestoredAsWritten'
  BY <1>1 DEF RestoredAsWritten
<1>3. sent \in Seq(Message)
  BY DEF MessagesInv
<1>4. /\ <<1>> \in Seq(Int) /\ Written("file", t) \in Seq(Int) /\ OneMore(t) \in Seq(Int)
      /\ <<Myself>> \in Seq(Int)
  <2>1. "file" \in Kinds
    BY DEF Kinds
  <2>2. Written("file", t) \in Seq(Int) /\ OneMore(t) \in Seq(Int)
    BY <2>1, WrittenType, OneMoreType
  <2>3. QED
    BY <2>2 DEF Myself
<1>5. ASSUME NEW w \in Seq(Int) PROVE (w \o <<1>>) \o Written("file", t) = w \o OneMore(t)
  <2> DEFINE ys == Written("file", t)
  <2>1. ys \in Seq(Int)
    BY <1>4
  <2> HIDE DEF ys
  <2>2. (w \o <<1>>) \o ys = w \o (<<1>> \o ys)
    BY <2>1
  <2>3. QED
    BY <2>2 DEF ys, OneMore
<1>6. CASE wire = <<>>
  <2>1. sent' = <<t>> /\ wire' = (<<Myself>> \o <<1>>) \o Written("file", t)
    BY <1>6 DEF FileSendTask
  <2>2. wire' = <<Myself>> \o OneMore(t)
    BY <1>4, <1>5, <2>1
  <2>3. <<>> \in Seq(Message) /\ Append(<<>>, t) = <<t>>
    OBVIOUS
  <2>4. FileHolds(<<Myself>> \o OneMore(t), <<t>>)
    BY <1>4, <2>3, EmptyFile, LongerFile
  <2>5. <<Myself>> \o OneMore(t) \in Seq(Int)
    BY <1>4, ConcatProperties
  <2>6. Carries'
    BY <1>1, <2>1, <2>2, <2>4, <2>5 DEF Carries
  <2>7. sent' \in Seq(Message) /\ sent' # <<>>
    BY <2>1
  <2>8. QED
    BY <1>1, <1>2, <2>6, <2>7 DEF MessagesInv, Kinds
<1>7. CASE wire # <<>>
  <2>1. sent' = Append(sent, t) /\ wire' = (wire \o <<1>>) \o Written("file", t)
    BY <1>7 DEF FileSendTask
  <2>2. sent # <<>> /\ buffer = "file"
    BY <1>7 DEF FileSendTask, MessagesInv
  <2>3. wire \in Seq(Int) /\ FileHolds(wire, sent)
    BY <1>7, <2>2 DEF MessagesInv, Carries
  <2>4. wire' = wire \o OneMore(t)
    BY <1>5, <2>1, <2>3
  <2>5. FileHolds(wire \o OneMore(t), Append(sent, t)) /\ wire \o OneMore(t) \in Seq(Int)
    BY <1>3, <1>4, <2>3, LongerFile, ConcatProperties
  <2>6. Carries'
    BY <1>1, <2>1, <2>4, <2>5 DEF Carries
  <2>7. sent' \in Seq(Message) /\ sent' # <<>>
    BY <1>3, <2>1, AppendProperties
  <2>8. QED
    BY <1>1, <1>2, <2>6, <2>7 DEF MessagesInv, Kinds
<1>8. QED
  BY <1>6, <1>7

LEMMA ReceiveKeeps ==
    ASSUME MessagesInv, Receive, HistoryInv'
    PROVE  MessagesInv'
<1>1. wire # <<>> /\ wire' = <<>> /\ buffer' = buffer /\ sent' = sent
  BY DEF Receive
<1>2. sent # <<>> /\ Carries /\ buffer \in Kinds /\ sent \in Seq(Message)
  BY <1>1 DEF MessagesInv
<1>3. CASE buffer # "file"
  <2>1. PICK t \in Message : sent = <<t>> /\ wire = Written(buffer, t)
    BY <1>2, <1>3 DEF Carries
  <2>2. received' = RestoreTask /\ buffer \in {"socket", "mpi"}
    BY <1>2, <1>3 DEF Receive, SocketReceive, MPIReceive, FileReceive, Kinds
  <2>3. received' = [outcome |-> "end", tasks |-> sent]
    BY <2>1, <2>2, OneRestored
  <2>4. QED
    BY <1>1, <1>3, <2>3 DEF RestoredAsWritten, MessagesInv
<1>4. CASE buffer = "file"
  <2> DEFINE n == Len(sent)
             v == wire \o <<0>>
  <2>1. received' = ReadFile(v)
    BY <1>4 DEF Receive, SocketReceive, MPIReceive, FileReceive
  <2>2. wire \in Seq(Int) /\ FileHolds(wire, sent)
    BY <1>2, <1>4 DEF Carries
  <2>3. ReadFile(v) = IF \A i \in 1..n : Good(sent[i])
                      THEN [outcome |-> "end", tasks |-> FirstKept(sent, n)] ELSE Crash
    BY <1>2, <1>4, <2>2, FileRead
  <2>4. DOMAIN sent = 1..n
    BY <1>2
  <2> HIDE DEF n, v
  <2>5. FirstKept(sent, n) = [i \in DOMAIN sent |-> AsKept("file", sent[i])]
    BY <2>4 DEF FirstKept
  <2>6. (\A i \in 1..n : Good(sent[i]))
        <=> \A i \in DOMAIN sent : sent[i].class \in Registered /\ sent[i].id.fId # 0
    BY <2>4 DEF Good
  <2>7. RestoredAsWritten'
    BY <1>1, <1>4, <2>1, <2>3, <2>5, <2>6 DEF RestoredAsWritten
  <2>8. QED
    BY <1>1, <1>2, <2>7 DEF MessagesInv
<1>5. QED
  BY <1>3, <1>4

LEMMA MessagesKeep ==
    ASSUME \A v \in Version : TasksOf(v) \subseteq Message,
           MessagesInv, [MessagesNext]_<<vars, msgVars>>
    PROVE  MessagesInv'
<1>1. HistoryInv'
  <2>1. [Next]_vars
    BY VersionsOnly
  <2>2. QED
    BY <2>1, HistoryNext DEF MessagesInv
<1>2. CASE UNCHANGED msgVars
  BY <1>1, <1>2 DEF MessagesInv, msgVars, RestoredAsWritten, Carries
<1>3. ASSUME NEW t \in TasksOf(version) PROVE t \in Message
  BY <1>3 DEF MessagesInv, HistoryInv
<1>4. CASE \E t \in TasksOf(version) : SocketSendTask(t)
  BY <1>1, <1>3, <1>4, SendKeeps DEF SocketSendTask
<1>5. CASE \E t \in TasksOf(version) : MPISendTask(t)
  BY <1>1, <1>3, <1>5, SendKeeps DEF MPISendTask
<1>6. CASE \E t \in TasksOf(version) : FileSendTask(t)
  BY <1>1, <1>3, <1>6, FileKeeps
<1>7. CASE Receive
  BY <1>1, <1>7, ReceiveKeeps
<1>8. QED
  BY <1>2, <1>4, <1>5, <1>6, <1>7, Zenon DEF MessagesNext

\* A process that sends and receives tasks still takes its object through the
\* versions of DataVersion, so that the theorems about those hold of it.
THEOREM VersionsAreDataVersion == MessagesSpec => Spec
<1>1. MessagesInit => Init
  BY DEF MessagesInit
<1>2. [MessagesNext]_<<vars, msgVars>> => [Next]_vars
  BY VersionsOnly
<1>3. QED
  BY <1>1, <1>2, PTL DEF MessagesSpec, Spec

\* Of any tasks of the library's classes, with any numbers, versions, lists of
\* tags and objects, sent by a socket, by MPI or in a file with any number of
\* others, what the other processor restores is what was written, or, of a file
\* that holds a task it cannot make, a crash.
THEOREM ReadTakesBackWritten ==
    ASSUME \A v \in Version : TasksOf(v) \subseteq Message
    PROVE  MessagesSpec => []RestoredAsWritten
<1>1. MessagesInv /\ [MessagesNext]_<<vars, msgVars>> => MessagesInv'
  BY MessagesKeep
<1>2. MessagesInv => RestoredAsWritten
  BY DEF MessagesInv
<1>3. QED
  BY <1>1, <1>2, MessagesInitial, PTL DEF MessagesSpec
=============================================================================
