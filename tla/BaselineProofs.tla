--------------------------- MODULE BaselineProofs ---------------------------
(***************************************************************************)
(* Machine-checked proofs about Baseline, for any patterns, grades, days,   *)
(* limits and bounds.                                                      *)
(*                                                                         *)
(* What holds of the state in memory has to hold of the file too, which a   *)
(* crash puts in its place: every part of the invariant is stated of both.  *)
(***************************************************************************)
EXTENDS Baseline, FiniteSetTheorems, WellFoundedInduction, TLAPS

LEMMA Numbers ==
  /\ LastHour \in Nat /\ NoisyPerDay \in Nat /\ MaxBlocks \in Nat /\ MaxProposals \in Nat
  /\ MaxCrashes \in Nat /\ MaxCommands \in Nat /\ LearningDays \in Nat
  /\ HoursPerDay \in Nat \ {0} /\ RedemoteAt \in Nat \ {0}
  BY BaselineAssumption

-----------------------------------------------------------------------------
(* Sums over the hours *)

\* Every set of numbers that is not empty has a least element.  The initial segments
\* 0 .. n are finite sets, whose strict inclusion is well founded.
LEMMA LeastNat ==
  ASSUME NEW T, T \subseteq Nat, T # {}
  PROVE  \E x \in T : \A y \in T : x <= y
<1> DEFINE C == {0 .. n : n \in T}
<1>1. C \subseteq FiniteSubsetsOf(Nat)
  <2> SUFFICES ASSUME NEW n \in T PROVE IsFiniteSet(0 .. n) /\ 0 .. n \subseteq Nat
    BY DEF FiniteSubsetsOf
  <2> QED BY FS_Interval
<1>2. C # {}
  OBVIOUS
<1>3. IsWellFoundedOn(StrictSubsetOrdering(Nat), FiniteSubsetsOf(Nat))
  BY FS_StrictSubsetOrderingWellFounded
<1>4. PICK c \in C : \A d \in C : ~ (<<d, c>> \in StrictSubsetOrdering(Nat))
  <2> HIDE DEF C
  <2> QED BY <1>1, <1>2, <1>3, WFMin
<1>5. PICK x \in T : c = 0 .. x
  OBVIOUS
<1>6. ASSUME NEW y \in T, y < x PROVE FALSE
  <2>1. 0 .. y \subseteq 0 .. x /\ 0 .. x \subseteq Nat /\ x \in 0 .. x /\ x \notin 0 .. y
    BY <1>6
  <2>2. <<0 .. y, 0 .. x>> \in StrictSubsetOrdering(Nat)
    BY <2>1 DEF StrictSubsetOrdering
  <2> QED BY <2>2, <1>4, <1>5
<1> QED
  BY <1>6

\* A set that holds 0 and the successor of each of its numbers holds them all.
LEMMA NumbersByInduction ==
  ASSUME NEW T, 0 \in T, \A n \in Nat : n \in T => n + 1 \in T
  PROVE  Nat \subseteq T
<1> SUFFICES ASSUME ~(Nat \subseteq T) PROVE FALSE
  OBVIOUS
<1>1. PICK x \in Nat \ T : \A y \in Nat \ T : x <= y
  BY LeastNat
<1>2. x # 0 /\ x - 1 \in Nat /\ ~(x <= x - 1)
  BY <1>1
<1>3. x - 1 \in T
  BY <1>1, <1>2
<1> QED BY <1>1, <1>2, <1>3

\* The sums of the first hours.
Sums(f, w, n) == f = [h \in 0 .. n |-> w[h] + IF h = 0 THEN 0 ELSE f[h - 1]]

LEMMA SumsExist ==
  ASSUME NEW w \in [Hours -> Nat]
  PROVE  \E f : Sums(f, w, LastHour)
  <1> DEFINE T == {n \in Nat : n <= LastHour => \E f : Sums(f, w, n)}
  <1>1. 0 \in T
    <2> DEFINE f == [h \in 0 .. 0 |-> w[h]]
    <2>2. 0 \in Hours /\ \A h \in 0 .. 0 : h = 0
      BY Numbers DEF Hours
    <2>3. w[0] + 0 = w[0]
      BY <2>2
    <2>4. f = [h \in 0 .. 0 |-> w[h] + IF h = 0 THEN 0 ELSE f[h - 1]]
      BY <2>2, <2>3
    <2>1. Sums(f, w, 0)
      BY <2>4 DEF Sums
    <2> QED
      BY <2>1
  <1>2. ASSUME NEW n \in Nat, n \in T
        PROVE  n + 1 \in T
    <2> SUFFICES ASSUME n + 1 <= LastHour PROVE \E f : Sums(f, w, n + 1)
      OBVIOUS
    <2>1. PICK f : Sums(f, w, n)
      BY <1>2, Numbers
    <2> DEFINE g == [h \in 0 .. n + 1 |-> IF h <= n THEN f[h] ELSE w[h] + f[h - 1]]
    <2>2. \A h \in 0 .. n + 1 : g[h] = w[h] + IF h = 0 THEN 0 ELSE g[h - 1]
      <3> SUFFICES ASSUME NEW h \in 0 .. n + 1
                   PROVE  g[h] = w[h] + IF h = 0 THEN 0 ELSE g[h - 1]
        OBVIOUS
      <3>1. CASE h = n + 1
        <4>1. g[h] = w[h] + f[h - 1] /\ g[h - 1] = f[h - 1] /\ h # 0
          BY <3>1
        <4> QED
          BY <4>1
      <3>2. CASE h \in 0 .. n
        <4>1. f[h] = w[h] + IF h = 0 THEN 0 ELSE f[h - 1]
          BY <2>1, <3>2 DEF Sums
        <4>2. g[h] = f[h] /\ (h # 0 => g[h - 1] = f[h - 1])
          BY <3>2
        <4> QED
          BY <4>1, <4>2
      <3> QED
        BY <3>1, <3>2
    <2>3. g = [h \in 0 .. n + 1 |-> g[h]]
      OBVIOUS
    <2> HIDE DEF g
    <2>4. Sums(g, w, n + 1)
      BY <2>2, <2>3 DEF Sums
    <2> QED
      BY <2>4
  <1> HIDE DEF T
  <1>3. Nat \subseteq T
    BY <1>1, <1>2, NumbersByInduction
  <1> QED
    BY <1>3, Numbers DEF T

LEMMA AlertsAreSums ==
  ASSUME NEW w \in [Hours -> Nat]
  PROVE  \E f : Sums(f, w, LastHour) /\ Alerts(w) = f[LastHour]
  <1> DEFINE f == CHOOSE f : f = [h \in Hours |-> w[h] + IF h = 0 THEN 0 ELSE f[h - 1]]
  <1>1. \E g : g = [h \in Hours |-> w[h] + IF h = 0 THEN 0 ELSE g[h - 1]]
    BY SumsExist DEF Sums, Hours
  <1>2. f = [h \in Hours |-> w[h] + IF h = 0 THEN 0 ELSE f[h - 1]]
    BY <1>1
  <1>3. Alerts(w) = f[LastHour]
    BY DEF Alerts
  <1> HIDE DEF f
  <1> QED
    BY <1>2, <1>3 DEF Sums, Hours

\* The alerts of more are more, and of an hour no more than of the day.
LEMMA AlertsFacts ==
  ASSUME NEW v \in [Hours -> Nat], NEW w \in [Hours -> Nat]
  PROVE  /\ Alerts(w) \in Nat
         /\ \A h \in Hours : w[h] <= Alerts(w)
         /\ (\A h \in Hours : v[h] <= w[h]) => Alerts(v) <= Alerts(w)
  <1>1. PICK f : Sums(f, w, LastHour) /\ Alerts(w) = f[LastHour]
    BY AlertsAreSums
  <1>2. PICK g : Sums(g, v, LastHour) /\ Alerts(v) = g[LastHour]
    BY AlertsAreSums
  <1>3. ASSUME NEW h \in Hours
        PROVE  /\ f[h] = w[h] + IF h = 0 THEN 0 ELSE f[h - 1]
               /\ g[h] = v[h] + IF h = 0 THEN 0 ELSE g[h - 1]
               /\ w[h] \in Nat /\ v[h] \in Nat
    BY <1>1, <1>2 DEF Sums, Hours
  <1> DEFINE T == {n \in Nat : n <= LastHour =>
                     /\ f[n] \in Nat /\ g[n] \in Nat
                     /\ \A h \in 0 .. n : w[h] <= f[n]
                     /\ (\A h \in 0 .. n : v[h] <= w[h]) => g[n] <= f[n]}
  <1>4. 0 \in T
    <2>1. 0 \in Hours
      BY Numbers DEF Hours
    <2>2. f[0] = w[0] /\ g[0] = v[0] /\ w[0] \in Nat /\ v[0] \in Nat
      BY <1>3, <2>1
    <2> QED
      BY <2>2
  <1>5. ASSUME NEW n \in Nat, n \in T
        PROVE  n + 1 \in T
    <2> SUFFICES ASSUME n + 1 <= LastHour
                 PROVE  /\ f[n + 1] \in Nat /\ g[n + 1] \in Nat
                        /\ \A h \in 0 .. n + 1 : w[h] <= f[n + 1]
                        /\ (\A h \in 0 .. n + 1 : v[h] <= w[h]) => g[n + 1] <= f[n + 1]
      OBVIOUS
    <2>1. n + 1 \in Hours /\ \A h \in 0 .. n : h \in Hours
      BY Numbers DEF Hours
    <2>2. f[n + 1] = w[n + 1] + f[n] /\ g[n + 1] = v[n + 1] + g[n]
          /\ w[n + 1] \in Nat /\ v[n + 1] \in Nat
      <3>1. n + 1 # 0 /\ (n + 1) - 1 = n
        OBVIOUS
      <3> QED
        BY <1>3, <2>1, <3>1
    <2>3. /\ f[n] \in Nat /\ g[n] \in Nat
          /\ \A h \in 0 .. n : w[h] <= f[n]
          /\ (\A h \in 0 .. n : v[h] <= w[h]) => g[n] <= f[n]
      BY <1>5, Numbers
    <2>4. \A h \in 0 .. n : w[h] \in Nat
      BY <2>1
    <2>5. \A h \in 0 .. n + 1 : w[h] <= f[n + 1]
      <3> SUFFICES ASSUME NEW h \in 0 .. n + 1 PROVE w[h] <= f[n + 1]
        OBVIOUS
      <3>1. CASE h = n + 1
        BY <2>2, <2>3, <3>1
      <3>2. CASE h \in 0 .. n
        BY <2>2, <2>3, <2>4, <3>2
      <3> QED
        BY <3>1, <3>2
    <2>6. (\A h \in 0 .. n + 1 : v[h] <= w[h]) => g[n + 1] <= f[n + 1]
      <3> SUFFICES ASSUME \A h \in 0 .. n + 1 : v[h] <= w[h] PROVE g[n + 1] <= f[n + 1]
        OBVIOUS
      <3>1. v[n + 1] <= w[n + 1] /\ g[n] <= f[n]
        BY <2>3
      <3> QED
        BY <2>2, <2>3, <3>1
    <2> QED
      BY <2>2, <2>3, <2>5, <2>6
  <1> HIDE DEF T
  <1>6. Nat \subseteq T
    BY <1>4, <1>5, NumbersByInduction
  <1>7. LastHour \in T
    BY <1>6, Numbers
  <1> QED
    BY <1>1, <1>2, <1>7, Numbers DEF T, Hours

-----------------------------------------------------------------------------
(* Sequences and maps *)

LEMMA Blocks ==
  ASSUME NEW S, NEW n \in Nat, NEW q
  PROVE  q \in BoundedSeq(S, n) <=> q \in Seq(S) /\ Len(q) <= n
  <1>1. ASSUME q \in BoundedSeq(S, n)
        PROVE  q \in Seq(S) /\ Len(q) <= n
    <2>1. PICK m \in 0 .. n : q \in [1 .. m -> S]
      BY <1>1 DEF BoundedSeq, SeqOf
    <2> QED
      BY <2>1
  <1>2. ASSUME q \in Seq(S), Len(q) <= n
        PROVE  q \in BoundedSeq(S, n)
    <2>1. Len(q) \in 0 .. n /\ q \in [1 .. Len(q) -> S]
      BY <1>2
    <2> QED
      BY <2>1 DEF BoundedSeq, SeqOf
  <1> QED
    BY <1>1, <1>2

LEMMA Joined ==
  ASSUME NEW S, NEW f \in Seq(S), NEW g \in Seq(S)
  PROVE  /\ f \o g \in Seq(S)
         /\ Len(f \o g) = Len(f) + Len(g)
         /\ \A j \in 1 .. Len(f) + Len(g) :
              (f \o g)[j] = IF j <= Len(f) THEN f[j] ELSE g[j - Len(f)]
  OBVIOUS

\* Removing from a sequence: its elements before the place and after it, in their order.
LEMMA Removed ==
  ASSUME NEW S, NEW q \in Seq(S), NEW i \in DOMAIN q
  PROVE  /\ RemoveAt(q, i) \in Seq(S)
         /\ Len(RemoveAt(q, i)) = Len(q) - 1
         /\ \A j \in 1 .. Len(q) - 1 :
              RemoveAt(q, i)[j] = IF j < i THEN q[j] ELSE q[j + 1]
  <1> DEFINE f == SubSeq(q, 1, i - 1)
             g == SubSeq(q, i + 1, Len(q))
  <1>1. i \in 1 .. Len(q) /\ Len(q) \in Nat
    OBVIOUS
  <1>2. f \in Seq(S) /\ Len(f) = i - 1 /\ \A j \in 1 .. i - 1 : f[j] = q[j]
    BY <1>1
  <1>3. g \in Seq(S) /\ Len(g) = Len(q) - i /\ \A j \in 1 .. Len(q) - i : g[j] = q[i + j]
    BY <1>1
  <1>4. RemoveAt(q, i) = f \o g
    BY DEF RemoveAt
  <1> HIDE DEF f, g
  <1>5. /\ f \o g \in Seq(S) /\ Len(f \o g) = Len(q) - 1
        /\ \A j \in 1 .. Len(q) - 1 : (f \o g)[j] = IF j < i THEN f[j] ELSE g[j - (i - 1)]
    <2>1. /\ f \o g \in Seq(S) /\ Len(f \o g) = (i - 1) + (Len(q) - i)
          /\ \A j \in 1 .. (i - 1) + (Len(q) - i) :
                (f \o g)[j] = IF j <= i - 1 THEN f[j] ELSE g[j - (i - 1)]
      <3>1. f \in Seq(S) /\ g \in Seq(S)
        BY <1>2, <1>3
      <3>2. /\ f \o g \in Seq(S) /\ Len(f \o g) = Len(f) + Len(g)
            /\ \A j \in 1 .. Len(f) + Len(g) :
                 (f \o g)[j] = IF j <= Len(f) THEN f[j] ELSE g[j - Len(f)]
        BY <3>1, Joined, Zenon
      <3>3. Len(f) = i - 1 /\ Len(g) = Len(q) - i
        BY <1>2, <1>3
      <3> QED
        BY <3>2, <3>3, Zenon
    <2>2. (i - 1) + (Len(q) - i) = Len(q) - 1
      BY <1>1
    <2>3. \A j \in 1 .. Len(q) - 1 : j <= i - 1 <=> j < i
      BY <1>1
    <2> QED
      BY <2>1, <2>2, <2>3
  <1>6. ASSUME NEW j \in 1 .. Len(q) - 1
        PROVE  (f \o g)[j] = IF j < i THEN q[j] ELSE q[j + 1]
    <2>1. CASE j < i
      BY <1>2, <1>5, <2>1, <1>1
    <2>2. CASE ~(j < i)
      <3>1. j - (i - 1) \in 1 .. Len(q) - i /\ i + (j - (i - 1)) = j + 1
        BY <1>1, <2>2
      <3> QED
        BY <1>3, <1>5, <2>2, <3>1
    <2> QED
      BY <2>1, <2>2
  <1> QED
    BY <1>4, <1>5, <1>6

\* A finite set as a sequence of its members.
LEMMA Listed ==
  ASSUME NEW S, IsFiniteSet(S)
  PROVE  /\ Cardinality(S) \in Nat
         /\ \A i \in 1 .. Cardinality(S) : SetToSeq(S)[i] \in S
  <1>1. Cardinality(S) \in Nat
    BY FS_CardinalityType
  <1>2. PICK n \in Nat : n = Cardinality(S) /\ ExistsBijection(1 .. n, S)
    BY FS_NatBijection, FS_CountingElements
  <1>3. PICK f \in Bijection(1 .. Cardinality(S), S) : TRUE
    BY <1>2 DEF ExistsBijection
  <1>4. f \in [1 .. Cardinality(S) -> S] /\ IsInjective(f)
    BY <1>3 DEF Bijection, Injection, IsInjective
  <1>5. SetToSeq(S) \in [1 .. Cardinality(S) -> S]
    BY <1>4 DEF SetToSeq
  <1> QED
    BY <1>1, <1>5

LEMMA DayGrows ==
  ASSUME NEW a \in Nat, NEW c \in Nat, a <= c, NEW d \in Nat \ {0}
  PROVE  a \div d \in 0 .. c \div d
  OBVIOUS

LEMMA Larger ==
  ASSUME NEW m \in Int, NEW n \in Int
  PROVE  /\ Max({m, n}) \in {m, n} /\ m <= Max({m, n}) /\ n <= Max({m, n})
         /\ Min({m, n}) \in {m, n} /\ Min({m, n}) <= m /\ Min({m, n}) <= n
  <1>1. \E x \in {m, n} : \A y \in {m, n} : x >= y
    OBVIOUS
  <1>2. \E x \in {m, n} : \A y \in {m, n} : x <= y
    OBVIOUS
  <1>3. Max({m, n}) \in {m, n} /\ \A y \in {m, n} : Max({m, n}) >= y
    BY <1>1 DEF Max
  <1>4. Min({m, n}) \in {m, n} /\ \A y \in {m, n} : Min({m, n}) <= y
    BY <1>2 DEF Min
  <1> QED
    BY <1>3, <1>4

-----------------------------------------------------------------------------
(* The invariant *)

\* The maps of observed patterns: finite, as each is observed once at a time.
TupleMaps == UNION {[K -> TupleStat] : K \in {K \in SUBSET Tuples : IsFiniteSet(K)}}

State == [until : Int, tuples : TupleMaps, proposals : Seq(Proposal),
          demoted : [Tuples -> [since : Hours] \cup {Nothing}],
          redemotions : [Tuples -> 0 .. RedemoteAt],
          windows : [Tuples -> [Hours -> Nat]],
          learned : [Tuples -> LearnedEntry \cup {Nothing}]]

\* A pattern marked learned has an entry in force.
Backed(s) == \A t \in Known(s) : s.tuples[t].learned => InForce(s, t)

\* The record of a grave pattern says so.
Marked(s, grave) ==
  \A t \in grave : /\ t \in Known(s)
                   /\ s.tuples[t].maxBaseRank > Medium \/ s.tuples[t].maxRank >= Critical

\* So does the record of one that was refused.
Remembered(s, refused) == \A t \in refused : t \in Known(s) /\ s.tuples[t].dismissed

\* No window counts an alert that was not shown; the tally stops counting at its bound.
Shown(s, tally) ==
  \A t \in Tuples, h \in Hours :
    s.windows[t][h] <= tally[t][h] \/ tally[t][h] = NoisyPerDay + 1

\* The alerts of the day that ended at `since`.
DayOf(w, since) == [h \in Hours |-> IF since - HoursPerDay < h /\ h <= since
                                    THEN w[h] ELSE 0]

\* Every demotion was earned.
Earned(s, tally) ==
  \A t \in Tuples : s.demoted[t] # Nothing =>
    Alerts(DayOf(tally[t], s.demoted[t].since)) > NoisyPerDay

\* What holds of a state, in memory or on disk, beside what really happened.
Sound(s, grave, refused, tally) ==
  /\ s \in State
  /\ Backed(s)
  /\ Marked(s, grave)
  /\ Remembered(s, refused)
  /\ Shown(s, tally)
  /\ Earned(s, tally)

BlockLists == [Tuples -> BoundedSeq({"learned", "accepted"}, MaxBlocks)]

Inv ==
  /\ hour \in Hours /\ crashes \in 0 .. MaxCrashes
  /\ commands \in 0 .. MaxCommands /\ moved \in BOOLEAN
  /\ official \subseteq Tuples
  /\ past \in Past
  /\ blocks \in BlockLists
  /\ Sound(b, past.grave, past.refused, past.tally)
  /\ Sound(disk, past.graveSaved, past.refused, past.tally)

-----------------------------------------------------------------------------
(* Maps of patterns *)

LEMMA MapFacts ==
  ASSUME NEW f \in TupleMaps
  PROVE  /\ DOMAIN f \subseteq Tuples /\ IsFiniteSet(DOMAIN f)
         /\ f \in [DOMAIN f -> TupleStat]
         /\ f = [x \in DOMAIN f |-> f[x]]
         /\ \A t \in DOMAIN f : t \in Tuples /\ f[t] \in TupleStat
  BY DEF TupleMaps

LEMMA MapMade ==
  ASSUME NEW K \in SUBSET Tuples, IsFiniteSet(K), NEW f \in [K -> TupleStat]
  PROVE  f \in TupleMaps /\ DOMAIN f = K
  BY DEF TupleMaps

LEMMA StateFacts ==
  ASSUME NEW s \in State
  PROVE  /\ s.until \in Int /\ s.tuples \in TupleMaps /\ s.proposals \in Seq(Proposal)
         /\ s.demoted \in [Tuples -> [since : Hours] \cup {Nothing}]
         /\ s.redemotions \in [Tuples -> 0 .. RedemoteAt]
         /\ s.windows \in [Tuples -> [Hours -> Nat]]
         /\ s.learned \in [Tuples -> LearnedEntry \cup {Nothing}]
         /\ Known(s) \subseteq Tuples /\ IsFiniteSet(Known(s))
         /\ \A t \in Known(s) : s.tuples[t] \in TupleStat
  BY MapFacts DEF State, Known

\* What the entries of two kinds never are: the absence of one.
LEMMA NothingElse ==
  ASSUME NEW x \in LearnedEntry \cup [since : Hours]
  PROVE  x # Nothing
  BY DEF LearnedEntry, Nothing

\* SetTuple leaves the other fields, and the other patterns.
LEMMA SetTupleFacts ==
  ASSUME NEW s \in State, NEW t \in Tuples, NEW e \in TupleStat
  PROVE  /\ SetTuple(s, t, e) \in State
         /\ SetTuple(s, t, e) = [s EXCEPT !.tuples = SetTuple(s, t, e).tuples]
         /\ Known(SetTuple(s, t, e)) = Known(s) \cup {t}
         /\ SetTuple(s, t, e).tuples[t] = e
         /\ \A x \in Known(s) \ {t} : SetTuple(s, t, e).tuples[x] = s.tuples[x]
  <1> DEFINE f == [x \in Known(s) \cup {t} |-> IF x = t THEN e ELSE s.tuples[x]]
  <1>1. f \in TupleMaps /\ DOMAIN f = Known(s) \cup {t}
    <2>1. Known(s) \cup {t} \in SUBSET Tuples /\ IsFiniteSet(Known(s) \cup {t})
      BY StateFacts, FS_AddElement
    <2>2. f \in [Known(s) \cup {t} -> TupleStat]
      BY StateFacts
    <2> QED
      BY <2>1, <2>2, MapMade
  <1>2. f[t] = e /\ \A x \in Known(s) \ {t} : f[x] = s.tuples[x]
    OBVIOUS
  <1>3. SetTuple(s, t, e) = [s EXCEPT !.tuples = f]
    BY DEF SetTuple
  <1> HIDE DEF f
  <1>4. [s EXCEPT !.tuples = f] \in State /\ [s EXCEPT !.tuples = f].tuples = f
    BY <1>1 DEF State
  <1> QED
    BY <1>1, <1>2, <1>3, <1>4 DEF Known

-----------------------------------------------------------------------------
(* What the operators do to a sound state *)

LEMMA Ranks == Medium = 1 /\ High = 2 /\ Critical = 3
  BY DEF Medium, High, Critical

\* One pattern's record is set to e, and perhaps its entry changed.
LEMMA OneSet ==
  ASSUME NEW G, NEW R, NEW T, NEW G2,
         NEW s, Sound(s, G, R, T), NEW s2 \in State,
         NEW t \in Tuples, NEW e \in TupleStat,
         Known(s2) = Known(s) \cup {t}, s2.tuples[t] = e,
         \A x \in Known(s) \ {t} : s2.tuples[x] = s.tuples[x],
         \A x \in Tuples \ {t} : s2.learned[x] = s.learned[x],
         s2.windows = s.windows, s2.demoted = s.demoted,
         e.learned => InForce(s2, t),
         t \in G2 => e.maxBaseRank > Medium \/ e.maxRank >= Critical,
         t \in R => e.dismissed,
         G2 \subseteq G \cup {t}
  PROVE  Sound(s2, G2, R, T)
  <1>0. Known(s) \subseteq Tuples
    BY StateFacts DEF Sound
  <1>1. Backed(s2)
    BY <1>0 DEF Sound, Backed, InForce
  <1>2. Marked(s2, G2)
    BY DEF Sound, Marked
  <1>3. Remembered(s2, R)
    BY DEF Sound, Remembered
  <1>4. Shown(s2, T) /\ Earned(s2, T)
    BY DEF Sound, Shown, Earned
  <1> QED
    BY <1>1, <1>2, <1>3, <1>4 DEF Sound

\* Observing an alert: the record never forgets how bad the pattern has been, nor that
\* it was refused.
LEMMA NotedFacts ==
  ASSUME NEW s \in State, NEW t \in Tuples, NEW g \in Grades[t], hour \in Hours
  PROVE  LET e == Noted(s, t, g) IN
         /\ e \in TupleStat
         /\ e.maxRank >= g.severity /\ e.maxBaseRank >= g.base
         /\ t \notin Known(s) => ~e.learned
         /\ t \in Known(s) => LET o == s.tuples[t] IN
              /\ e.learned = o.learned /\ e.dismissed = o.dismissed
              /\ e.maxRank >= o.maxRank /\ e.maxBaseRank >= o.maxBaseRank
  <1> DEFINE o == IF t \in Known(s) THEN s.tuples[t] ELSE Unseen
             r == Max({o.maxRank, g.severity})
             r2 == Max({o.maxBaseRank, g.base})
             ds == o.days \cup {hour \div HoursPerDay}
  <1>1. o \in TupleStat /\ (t \notin Known(s) => ~o.learned)
    <2>1. Unseen \in TupleStat /\ ~Unseen.learned
      BY Ranks DEF Unseen, TupleStat
    <2> QED
      BY <2>1, StateFacts
  <1>2. g.severity \in Medium .. Critical /\ g.base \in Medium .. Critical
    BY BaselineAssumption
  <1>3. hour \div HoursPerDay \in Days
    BY DayGrows, Numbers DEF Hours, Days
  <1> HIDE DEF o
  <1>4. o.maxRank \in 0 .. Critical /\ o.maxBaseRank \in 0 .. Critical /\ o.days \subseteq Days
    BY <1>1 DEF TupleStat
  <1>5. /\ r \in 0 .. Critical /\ r >= g.severity /\ r >= o.maxRank
        /\ r2 \in 0 .. Critical /\ r2 >= g.base /\ r2 >= o.maxBaseRank
    <2>1. o.maxRank \in Int /\ g.severity \in Int /\ o.maxBaseRank \in Int /\ g.base \in Int
      BY <1>2, <1>4, Ranks
    <2>2. r \in {o.maxRank, g.severity} /\ r >= g.severity /\ r >= o.maxRank
      BY <2>1, Larger
    <2>3. r2 \in {o.maxBaseRank, g.base} /\ r2 >= g.base /\ r2 >= o.maxBaseRank
      BY <2>1, Larger
    <2> HIDE DEF r, r2
    <2> QED
      BY <1>2, <1>4, <2>2, <2>3, Ranks
  <1>6. Noted(s, t, g) = [o EXCEPT !.maxRank = r, !.maxBaseRank = r2,
                                   !.official = t \in official, !.days = ds]
    BY DEF Noted, o
  <1>7. ds \subseteq Days /\ (t \in official) \in BOOLEAN
    BY <1>3, <1>4
  <1> HIDE DEF r, r2, ds
  <1>8. LET e == Noted(s, t, g) IN
        /\ e \in TupleStat /\ e.maxRank = r /\ e.maxBaseRank = r2
        /\ e.learned = o.learned /\ e.dismissed = o.dismissed
    BY <1>1, <1>5, <1>6, <1>7 DEF TupleStat
  <1> QED
    BY <1>1, <1>5, <1>8 DEF o

\* The patterns an alert of grade g adds to the grave ones.
Fresh(t, g) == IF g.base > Medium \/ g.severity = Critical THEN {t} ELSE {}

\* A pattern that is eligible is neither grave nor refused.
LEMMA EligibleFacts ==
  ASSUME NEW G, NEW R, NEW T, Sound(b, G, R, T), hour \in Hours,
         NEW t \in Tuples, NEW g \in Grades[t], NEW common,
         Decision(t, Noted(b, t, g), common) # "none"
  PROVE  t \notin G \cup Fresh(t, g) /\ t \notin R
  <1> DEFINE e == Noted(b, t, g)
  <1>1. ~e.dismissed /\ e.maxBaseRank <= Medium /\ e.maxRank < Critical
    BY DEF Decision, Eligible
  <1>2. b \in State
    BY DEF Sound
  <1>3. e \in TupleStat /\ e.maxRank >= g.severity /\ e.maxBaseRank >= g.base
    BY <1>2, NotedFacts
  <1>4. t \in Known(b) => LET o == b.tuples[t] IN
          /\ o \in TupleStat /\ e.dismissed = o.dismissed
          /\ e.maxRank >= o.maxRank /\ e.maxBaseRank >= o.maxBaseRank
    BY <1>2, NotedFacts, StateFacts
  <1>5. g.severity \in Int /\ g.base \in Int
    BY BaselineAssumption, Ranks
  <1> HIDE DEF e
  <1>6. /\ e.maxRank \in Int /\ e.maxBaseRank \in Int
        /\ t \in Known(b) => b.tuples[t].maxRank \in Int /\ b.tuples[t].maxBaseRank \in Int
    BY <1>3, <1>4, Ranks DEF TupleStat
  <1>7. t \notin Fresh(t, g)
    BY <1>1, <1>3, <1>5, <1>6, Ranks DEF Fresh
  <1>8. t \notin R
    BY <1>1, <1>4 DEF Sound, Remembered
  <1>9. ASSUME t \in G
        PROVE  FALSE
    <2>1. t \in Known(b) /\ (b.tuples[t].maxBaseRank > Medium \/ b.tuples[t].maxRank >= Critical)
      BY <1>9 DEF Sound, Marked
    <2>2. e.maxRank >= b.tuples[t].maxRank /\ e.maxBaseRank >= b.tuples[t].maxBaseRank
      BY <1>4, <2>1
    <2>3. b.tuples[t].maxRank \in Int /\ b.tuples[t].maxBaseRank \in Int
      BY <1>6, <2>1
    <2> QED
      BY <1>1, <1>6, <2>1, <2>2, <2>3, Ranks
  <1> QED
    BY <1>7, <1>8, <1>9

LEMMA ObservedSound ==
  ASSUME NEW G, NEW R, NEW T, Sound(b, G, R, T), hour \in Hours,
         NEW t \in Tuples, NEW g \in Grades[t], NEW common
  PROVE  LET o == Observed(t, g, common)
             d == Decision(t, Noted(b, t, g), common)
         IN
         /\ Sound(o, G \cup Fresh(t, g), R, T)
         /\ o.windows = b.windows
         /\ d # "proposed" => o.proposals = b.proposals
         /\ d = "proposed" =>
              o.proposals = Append(b.proposals, [key |-> t, redemoted |-> FALSE])
  <1> DEFINE e == Noted(b, t, g)
             d == Decision(t, e, common)
             o == Observed(t, g, common)
             G2 == G \cup Fresh(t, g)
  <1>0. b \in State
    BY DEF Sound
  <1>1. e \in TupleStat /\ e.maxRank >= g.severity /\ e.maxBaseRank >= g.base
        /\ (t \notin Known(b) => ~e.learned)
    BY <1>0, NotedFacts
  <1>2. t \in Known(b) => LET p == b.tuples[t] IN
          /\ p \in TupleStat /\ e.learned = p.learned /\ e.dismissed = p.dismissed
          /\ e.maxRank >= p.maxRank /\ e.maxBaseRank >= p.maxBaseRank
    BY <1>0, NotedFacts, StateFacts
  <1>3. g.severity \in Int /\ g.base \in Int
    BY BaselineAssumption, Ranks
  <1>4. Observed(t, g, common) =
        CASE d = "none" -> SetTuple(b, t, e)
          [] d = "entry" ->
               [SetTuple(b, t, [e EXCEPT !.learned = TRUE]) EXCEPT
                  !.learned[t] = [revoked |-> FALSE, accepted |-> FALSE]]
          [] OTHER ->
               [SetTuple(b, t, [e EXCEPT !.proposed = TRUE]) EXCEPT
                  !.proposals = Append(@, [key |-> t, redemoted |-> FALSE])]
    BY DEF Observed
  <1>5. d \in {"none", "entry", "proposed"}
    BY DEF Decision
  <1>6. d # "none" => t \notin G2 /\ t \notin R
    BY EligibleFacts
  <1> HIDE DEF e, d
  <1>7. t \in G2 => e.maxBaseRank > Medium \/ e.maxRank >= Critical
    <2>1. CASE t \in G
      <3>1. t \in Known(b) /\ (b.tuples[t].maxBaseRank > Medium \/ b.tuples[t].maxRank >= Critical)
        BY <2>1 DEF Sound, Marked
      <3>2. e.maxRank >= b.tuples[t].maxRank /\ e.maxBaseRank >= b.tuples[t].maxBaseRank
        BY <1>2, <3>1
      <3>3. b.tuples[t].maxRank \in Int /\ b.tuples[t].maxBaseRank \in Int
            /\ e.maxRank \in Int /\ e.maxBaseRank \in Int
        BY <1>1, <1>2, <3>1, Ranks DEF TupleStat
      <3> QED
        BY <3>1, <3>2, <3>3, Ranks
    <2>2. CASE t \in Fresh(t, g)
      <3>1. g.base > Medium \/ g.severity = Critical
        BY <2>2 DEF Fresh
      <3>2. e.maxRank \in Int /\ e.maxBaseRank \in Int
        BY <1>1, Ranks DEF TupleStat
      <3> QED
        BY <1>1, <1>3, <3>1, <3>2, Ranks
    <2> QED
      BY <2>1, <2>2
  <1>8. t \in R => e.dismissed
    BY <1>2 DEF Sound, Remembered
  <1>9. G2 \subseteq G \cup {t}
    BY DEF Fresh
  <1> HIDE DEF G2, o
  <1>10. CASE d = "none"
    <2>1. o = SetTuple(b, t, e)
      BY <1>4, <1>10 DEF o
    <2>2. /\ o \in State /\ o = [b EXCEPT !.tuples = o.tuples]
          /\ Known(o) = Known(b) \cup {t} /\ o.tuples[t] = e
          /\ \A x \in Known(b) \ {t} : o.tuples[x] = b.tuples[x]
      BY <1>0, <1>1, <2>1, SetTupleFacts
    <2>3. /\ o.learned = b.learned /\ o.windows = b.windows /\ o.demoted = b.demoted
          /\ o.proposals = b.proposals
      BY <1>0, <2>2 DEF State
    <2>4. e.learned => InForce(o, t)
      BY <1>1, <1>2, <2>3 DEF Sound, Backed, InForce
    <2>5. \A x \in Tuples \ {t} : o.learned[x] = b.learned[x]
      BY <2>3
    <2>6. Sound(o, G2, R, T)
      BY <1>1, <1>7, <1>8, <1>9, <2>2, <2>3, <2>4, <2>5, OneSet
    <2> QED
      BY <1>10, <2>3, <2>6 DEF o, d, G2, e
  <1>11. CASE d = "entry"
    <2> DEFINE e2 == [e EXCEPT !.learned = TRUE]
               m == SetTuple(b, t, e2)
    <2>1. /\ e2 \in TupleStat /\ e2.maxBaseRank = e.maxBaseRank /\ e2.maxRank = e.maxRank
          /\ e2.dismissed = e.dismissed
      BY <1>1 DEF TupleStat
    <2>2. o = [m EXCEPT !.learned[t] = [revoked |-> FALSE, accepted |-> FALSE]]
      BY <1>4, <1>11 DEF o
    <2> HIDE DEF e2
    <2>3. /\ m \in State /\ m = [b EXCEPT !.tuples = m.tuples]
          /\ Known(m) = Known(b) \cup {t} /\ m.tuples[t] = e2
          /\ \A x \in Known(b) \ {t} : m.tuples[x] = b.tuples[x]
      BY <1>0, <2>1, SetTupleFacts
    <2> HIDE DEF m
    <2>4. /\ m.learned = b.learned /\ m.windows = b.windows /\ m.demoted = b.demoted
          /\ m.proposals = b.proposals
      BY <1>0, <2>3 DEF State
    <2> DEFINE x == [revoked |-> FALSE, accepted |-> FALSE]
               l == [m.learned EXCEPT ![t] = x]
    <2>5. x \in LearnedEntry /\ ~x.revoked /\ x # Nothing
      BY NothingElse DEF LearnedEntry
    <2>6. l \in [Tuples -> LearnedEntry \cup {Nothing}]
      <3> HIDE DEF x
      <3> QED
        BY <2>3, <2>5, StateFacts
    <2>7. l[t] = x /\ \A y \in Tuples \ {t} : l[y] = b.learned[y]
      BY <2>3, <2>4, StateFacts
    <2>8. o = [m EXCEPT !.learned = l]
      BY <2>2, <2>3 DEF State
    <2> HIDE DEF l, x
    <2>9. /\ o \in State /\ o.learned = l /\ o.tuples = m.tuples /\ o.windows = m.windows
          /\ o.demoted = m.demoted /\ o.proposals = m.proposals
      BY <2>3, <2>6, <2>8 DEF State
    <2>10. InForce(o, t)
      BY <2>5, <2>7, <2>9 DEF InForce
    <2>11. /\ Known(o) = Known(b) \cup {t} /\ o.tuples[t] = e2
           /\ \A y \in Known(b) \ {t} : o.tuples[y] = b.tuples[y]
           /\ \A y \in Tuples \ {t} : o.learned[y] = b.learned[y]
           /\ o.windows = b.windows /\ o.demoted = b.demoted /\ o.proposals = b.proposals
      BY <2>3, <2>4, <2>7, <2>9 DEF Known
    <2>12. Sound(o, G2, R, T)
      BY <1>7, <1>8, <1>9, <2>1, <2>9, <2>10, <2>11, OneSet
    <2> QED
      BY <1>11, <2>11, <2>12 DEF o, d, G2, e
  <1>12. CASE d = "proposed"
    <2> DEFINE e2 == [e EXCEPT !.proposed = TRUE]
               m == SetTuple(b, t, e2)
               p == [key |-> t, redemoted |-> FALSE]
    <2>1. /\ e2 \in TupleStat /\ e2.maxBaseRank = e.maxBaseRank /\ e2.maxRank = e.maxRank
          /\ e2.dismissed = e.dismissed /\ e2.learned = e.learned
      BY <1>1 DEF TupleStat
    <2>2. o = [m EXCEPT !.proposals = Append(@, p)]
      BY <1>4, <1>12 DEF o
    <2> HIDE DEF e2
    <2>3. /\ m \in State /\ m = [b EXCEPT !.tuples = m.tuples]
          /\ Known(m) = Known(b) \cup {t} /\ m.tuples[t] = e2
          /\ \A x \in Known(b) \ {t} : m.tuples[x] = b.tuples[x]
      BY <1>0, <2>1, SetTupleFacts
    <2> HIDE DEF m
    <2>4. /\ m.learned = b.learned /\ m.windows = b.windows /\ m.demoted = b.demoted
          /\ m.proposals = b.proposals
      BY <1>0, <2>3 DEF State
    <2>5. p \in Proposal
      BY DEF Proposal
    <2> HIDE DEF p
    <2>6. Append(b.proposals, p) \in Seq(Proposal)
      BY <1>0, <2>5, StateFacts
    <2>7. o = [m EXCEPT !.proposals = Append(b.proposals, p)]
      BY <2>2, <2>3, <2>4 DEF State
    <2>8. /\ o \in State /\ o.learned = m.learned /\ o.tuples = m.tuples
          /\ o.windows = m.windows /\ o.demoted = m.demoted
          /\ o.proposals = Append(b.proposals, p)
      BY <2>3, <2>6, <2>7 DEF State
    <2>9. /\ Known(o) = Known(b) \cup {t} /\ o.tuples[t] = e2
          /\ \A y \in Known(b) \ {t} : o.tuples[y] = b.tuples[y]
          /\ \A y \in Tuples \ {t} : o.learned[y] = b.learned[y]
          /\ o.windows = b.windows /\ o.demoted = b.demoted
      BY <2>3, <2>4, <2>8 DEF Known
    <2>10. e2.learned => InForce(o, t)
      BY <1>1, <1>2, <2>1, <2>4, <2>8 DEF Sound, Backed, InForce
    <2>11. Sound(o, G2, R, T)
      BY <1>7, <1>8, <1>9, <2>1, <2>8, <2>9, <2>10, OneSet
    <2> QED
      BY <1>12, <2>8, <2>9, <2>11 DEF o, d, G2, e, p
  <1> QED
    BY <1>5, <1>10, <1>11, <1>12 DEF d

LEMMA MarkRevokedSound ==
  ASSUME NEW G, NEW R, NEW T, NEW s, Sound(s, G, R, T), NEW t \in Tuples
  PROVE  LET o == MarkRevoked(s, t) IN
         Sound(o, G, R, T) /\ o.windows = s.windows /\ o.proposals = s.proposals
  <1> DEFINE l == IF s.learned[t] = Nothing THEN s.learned
                  ELSE [s.learned EXCEPT ![t].revoked = TRUE]
             n == [s EXCEPT !.learned = l]
             o == MarkRevoked(s, t)
  <1>0. s \in State
    BY DEF Sound
  <1>1. /\ l \in [Tuples -> LearnedEntry \cup {Nothing}]
        /\ \A x \in Tuples \ {t} : l[x] = s.learned[x]
    <2>1. CASE s.learned[t] = Nothing
      BY <1>0, <2>1, StateFacts
    <2>2. CASE s.learned[t] # Nothing
      <3> DEFINE y == [s.learned[t] EXCEPT !.revoked = TRUE]
      <3>1. s.learned[t] \in LearnedEntry
        BY <1>0, <2>2, StateFacts
      <3>2. y \in LearnedEntry
        BY <3>1 DEF LearnedEntry
      <3>3. l = [s.learned EXCEPT ![t] = y]
        BY <2>2
      <3> HIDE DEF y, l
      <3> QED
        BY <1>0, <3>2, <3>3, StateFacts
    <2> QED
      BY <2>1, <2>2
  <1>2. o = IF t \in Known(n) THEN [n EXCEPT !.tuples[t].learned = FALSE] ELSE n
    <2>1. CASE s.learned[t] = Nothing
      <3>1. n = s
        BY <1>0, <2>1 DEF State
      <3> QED
        BY <2>1, <3>1 DEF MarkRevoked
    <2>2. CASE s.learned[t] # Nothing
      <3>1. n = [s EXCEPT !.learned[t].revoked = TRUE]
        BY <1>0, <2>2 DEF State
      <3> QED
        BY <2>2, <3>1 DEF MarkRevoked
    <2> QED
      BY <2>1, <2>2
  <1> HIDE DEF l, o
  <1>3. /\ n \in State /\ n.learned = l /\ n.tuples = s.tuples /\ n.windows = s.windows
        /\ n.demoted = s.demoted /\ n.proposals = s.proposals
    BY <1>0, <1>1 DEF State
  <1> HIDE DEF n
  <1>4. CASE t \notin Known(n)
    <2>1. o = n /\ t \notin Known(s)
      BY <1>2, <1>3, <1>4 DEF Known
    <2>2. Backed(n)
      <3> SUFFICES ASSUME NEW x \in Known(n), n.tuples[x].learned PROVE InForce(n, x)
        BY DEF Backed
      <3>1. x \in Known(s) /\ s.tuples[x].learned /\ x # t /\ x \in Tuples
        BY <1>0, <1>3, <2>1, StateFacts DEF Known
      <3>2. InForce(s, x)
        BY <3>1 DEF Sound, Backed
      <3> QED
        BY <1>1, <1>3, <3>1, <3>2 DEF InForce
    <2>3. Marked(n, G) /\ Remembered(n, R)
      BY <1>3 DEF Sound, Marked, Remembered, Known
    <2>4. Shown(n, T) /\ Earned(n, T)
      BY <1>3 DEF Sound, Shown, Earned
    <2> QED
      BY <1>3, <2>1, <2>2, <2>3, <2>4 DEF o, Sound
  <1>5. CASE t \in Known(n)
    <2> DEFINE e == [n.tuples[t] EXCEPT !.learned = FALSE]
               f == [n.tuples EXCEPT ![t] = e]
    <2>1. /\ n.tuples[t] \in TupleStat /\ n.tuples \in [Known(n) -> TupleStat]
          /\ Known(n) \in SUBSET Tuples /\ IsFiniteSet(Known(n)) /\ Known(n) = Known(s)
      BY <1>3, <1>5, StateFacts, MapFacts DEF Known
    <2>2. /\ e \in TupleStat /\ e.maxBaseRank = s.tuples[t].maxBaseRank
          /\ e.maxRank = s.tuples[t].maxRank
          /\ e.dismissed = s.tuples[t].dismissed /\ ~e.learned
      BY <1>3, <2>1 DEF TupleStat
    <2>3. o = [n EXCEPT !.tuples = f]
      BY <1>2, <1>3, <1>5 DEF State
    <2> HIDE DEF e
    <2>4. f \in [Known(n) -> TupleStat] /\ f[t] = e /\ \A x \in Known(n) \ {t} : f[x] = n.tuples[x]
      BY <1>5, <2>1, <2>2
    <2> HIDE DEF f
    <2>5. f \in TupleMaps /\ DOMAIN f = Known(n)
      BY <2>1, <2>4, MapMade
    <2>6. /\ o \in State /\ o.tuples = f /\ o.learned = n.learned /\ o.windows = n.windows
          /\ o.demoted = n.demoted /\ o.proposals = n.proposals
      BY <1>3, <2>3, <2>5 DEF State
    <2>7. /\ Known(o) = Known(s) \cup {t} /\ o.tuples[t] = e
          /\ \A x \in Known(s) \ {t} : o.tuples[x] = s.tuples[x]
          /\ \A x \in Tuples \ {t} : o.learned[x] = s.learned[x]
          /\ o.windows = s.windows /\ o.demoted = s.demoted /\ o.proposals = s.proposals
      BY <1>1, <1>3, <1>5, <2>1, <2>4, <2>5, <2>6 DEF Known
    <2>8. t \in G => e.maxBaseRank > Medium \/ e.maxRank >= Critical
      BY <2>2 DEF Sound, Marked
    <2>9. t \in R => e.dismissed
      BY <2>2 DEF Sound, Remembered
    <2>10. Sound(o, G, R, T)
      BY <2>2, <2>6, <2>7, <2>8, <2>9, OneSet
    <2> QED
      BY <2>7, <2>10 DEF o
  <1> QED
    BY <1>4, <1>5

-----------------------------------------------------------------------------
(* The noise guard *)

\* What really happened is counted up to a bound.
Tallies == [Tuples -> [Hours -> 0 .. NoisyPerDay + 1]]

LEMMA RolledFacts ==
  ASSUME NEW w \in [Hours -> Nat]
  PROVE  /\ Rolled(w) \in [Hours -> Nat]
         /\ \A h \in Hours : Rolled(w)[h] <= w[h]
         /\ \A h \in Hours : h \notin Window => Rolled(w)[h] = 0
  BY DEF Rolled

\* A tally that only grows keeps what was earned.
LEMMA TallyGrows ==
  ASSUME NEW G, NEW R, NEW T \in Tallies, NEW s, Sound(s, G, R, T),
         NEW T2 \in Tallies, \A t \in Tuples, h \in Hours : T[t][h] <= T2[t][h]
  PROVE  Sound(s, G, R, T2)
  <1>0. s \in State
    BY DEF Sound
  <1>1. Shown(s, T2)
    <2> SUFFICES ASSUME NEW t \in Tuples, NEW h \in Hours
                 PROVE  s.windows[t][h] <= T2[t][h] \/ T2[t][h] = NoisyPerDay + 1
      BY DEF Shown
    <2>1. s.windows[t][h] \in Nat
      BY <1>0, StateFacts
    <2>2. T[t][h] \in 0 .. NoisyPerDay + 1 /\ T2[t][h] \in 0 .. NoisyPerDay + 1
      BY DEF Tallies
    <2>3. s.windows[t][h] <= T[t][h] \/ T[t][h] = NoisyPerDay + 1
      BY DEF Sound, Shown
    <2> QED
      BY <2>1, <2>2, <2>3, Numbers
  <1>2. Earned(s, T2)
    <2> SUFFICES ASSUME NEW t \in Tuples, s.demoted[t] # Nothing
                 PROVE  Alerts(DayOf(T2[t], s.demoted[t].since)) > NoisyPerDay
      BY DEF Earned
    <2> DEFINE c == s.demoted[t].since
               v == DayOf(T[t], c)
               w == DayOf(T2[t], c)
    <2>1. T[t] \in [Hours -> 0 .. NoisyPerDay + 1] /\ T2[t] \in [Hours -> 0 .. NoisyPerDay + 1]
      BY DEF Tallies
    <2> HIDE DEF c
    <2>2. v \in [Hours -> Nat] /\ w \in [Hours -> Nat] /\ \A h \in Hours : v[h] <= w[h]
      BY <2>1, Numbers DEF DayOf
    <2> HIDE DEF v, w
    <2>3. Alerts(v) \in Nat /\ Alerts(w) \in Nat /\ Alerts(v) <= Alerts(w)
      BY <2>2, AlertsFacts
    <2>4. Alerts(v) > NoisyPerDay
      BY DEF Sound, Earned, v, c
    <2> QED
      BY <2>3, <2>4, Numbers DEF w, c
  <1> QED
    BY <1>1, <1>2 DEF Sound

\* An alert is counted in the tally of its hour.
Counted(T, t) == [T EXCEPT ![t][hour] = Min({@ + 1, NoisyPerDay + 1})]

LEMMA CountedFacts ==
  ASSUME NEW T \in Tallies, hour \in Hours, NEW t \in Tuples
  PROVE  /\ Counted(T, t) \in Tallies
         /\ \A x \in Tuples, h \in Hours : T[x][h] <= Counted(T, t)[x][h]
         /\ \A x \in Tuples \ {t} : Counted(T, t)[x] = T[x]
         /\ \A h \in Hours \ {hour} : Counted(T, t)[t][h] = T[t][h]
         /\ \/ Counted(T, t)[t][hour] = T[t][hour] + 1
            \/ Counted(T, t)[t][hour] = NoisyPerDay + 1
  <1> DEFINE v == T[t]
             m == Min({v[hour] + 1, NoisyPerDay + 1})
             w == [v EXCEPT ![hour] = m]
  <1>1. v \in [Hours -> 0 .. NoisyPerDay + 1] /\ v[hour] \in 0 .. NoisyPerDay + 1
    BY DEF Tallies
  <1>2. m \in {v[hour] + 1, NoisyPerDay + 1} /\ m <= v[hour] + 1 /\ m <= NoisyPerDay + 1
    <2>1. v[hour] + 1 \in Int /\ NoisyPerDay + 1 \in Int
      BY <1>1, Numbers
    <2> HIDE DEF v
    <2> QED
      BY <2>1, Larger
  <1>3. Counted(T, t) = [T EXCEPT ![t] = w]
    BY DEF Counted
  <1> HIDE DEF m
  <1>4. m \in 0 .. NoisyPerDay + 1 /\ v[hour] <= m /\ (m = v[hour] + 1 \/ m = NoisyPerDay + 1)
    BY <1>1, <1>2, Numbers
  <1> HIDE DEF v
  <1>5. /\ w \in [Hours -> 0 .. NoisyPerDay + 1] /\ w[hour] = m
        /\ \A h \in Hours \ {hour} : w[h] = v[h]
    BY <1>1, <1>4
  <1>6. \A h \in Hours : v[h] <= w[h]
    <2> HIDE DEF w
    <2> SUFFICES ASSUME NEW h \in Hours PROVE v[h] <= w[h]
      OBVIOUS
    <2>1. v[h] \in 0 .. NoisyPerDay + 1
      BY <1>1
    <2> QED
      BY <2>1, <1>4, <1>5, Numbers
  <1> HIDE DEF w
  <1>7. /\ Counted(T, t) \in Tallies /\ Counted(T, t)[t] = w
        /\ \A x \in Tuples \ {t} : Counted(T, t)[x] = T[x]
    BY <1>3, <1>5 DEF Tallies
  <1>8. \A x \in Tuples, h \in Hours : T[x][h] <= Counted(T, t)[x][h]
    <2> SUFFICES ASSUME NEW x \in Tuples, NEW h \in Hours
                 PROVE  T[x][h] <= Counted(T, t)[x][h]
      OBVIOUS
    <2>1. T[x][h] \in 0 .. NoisyPerDay + 1
      BY DEF Tallies
    <2>2. CASE x = t
      BY <1>6, <1>7, <2>2 DEF v
    <2>3. CASE x # t
      BY <1>7, <2>1, <2>3, Numbers
    <2> QED
      BY <2>2, <2>3
  <1> QED
    BY <1>4, <1>5, <1>7, <1>8 DEF v

\* The window with the alert in it: nothing in it that was not shown, and when it is too
\* many, what was shown in the day is too many.
LEMMA WindowShown ==
  ASSUME NEW G, NEW R, NEW T \in Tallies, NEW s, Sound(s, G, R, T),
         hour \in Hours, NEW t \in Tuples
  PROVE  LET w == [Rolled(s.windows[t]) EXCEPT ![hour] = @ + 1]
             v == Counted(T, t)[t]
         IN
         /\ w \in [Hours -> Nat]
         /\ \A h \in Hours : w[h] <= v[h] \/ v[h] = NoisyPerDay + 1
         /\ Alerts(w) > NoisyPerDay => Alerts(DayOf(v, hour)) > NoisyPerDay
  <1> DEFINE u == s.windows[t]
             r == Rolled(u)
             w == [r EXCEPT ![hour] = @ + 1]
             v == Counted(T, t)[t]
             d == DayOf(v, hour)
  <1>0. s \in State /\ u \in [Hours -> Nat]
    BY StateFacts DEF Sound
  <1>1. \A h \in Hours : u[h] <= T[t][h] \/ T[t][h] = NoisyPerDay + 1
    BY DEF Sound, Shown
  <1>2. /\ v \in [Hours -> 0 .. NoisyPerDay + 1]
        /\ \A h \in Hours : T[t][h] <= v[h]
        /\ \A h \in Hours \ {hour} : v[h] = T[t][h]
        /\ v[hour] = T[t][hour] + 1 \/ v[hour] = NoisyPerDay + 1
        /\ \A h \in Hours : T[t][h] \in 0 .. NoisyPerDay + 1
    BY CountedFacts DEF Tallies
  <1> HIDE DEF u, v
  <1>3. /\ r \in [Hours -> Nat] /\ \A h \in Hours : r[h] <= u[h]
        /\ \A h \in Hours : h \notin Window => r[h] = 0
    BY <1>0, RolledFacts
  <1> HIDE DEF r
  <1>4. /\ w \in [Hours -> Nat] /\ w[hour] = r[hour] + 1
        /\ \A h \in Hours \ {hour} : w[h] = r[h]
    BY <1>3
  <1> HIDE DEF w
  <1>5. ASSUME NEW h \in Hours
        PROVE  w[h] <= v[h] \/ v[h] = NoisyPerDay + 1
    <2>1. /\ u[h] \in Nat /\ r[h] \in Nat /\ w[h] \in Nat /\ r[h] <= u[h]
          /\ v[h] \in 0 .. NoisyPerDay + 1 /\ T[t][h] \in 0 .. NoisyPerDay + 1
          /\ T[t][h] <= v[h]
          /\ u[h] <= T[t][h] \/ T[t][h] = NoisyPerDay + 1
      BY <1>0, <1>1, <1>2, <1>3, <1>4
    <2>2. CASE h = hour
      <3>1. w[h] = r[h] + 1 /\ (v[h] = T[t][h] + 1 \/ v[h] = NoisyPerDay + 1)
        BY <1>2, <1>4, <2>2
      <3> QED
        BY <2>1, <3>1, Numbers
    <2>3. CASE h # hour
      <3>1. w[h] = r[h] /\ v[h] = T[t][h]
        BY <1>2, <1>4, <2>3
      <3> QED
        BY <2>1, <3>1, Numbers
    <2> QED
      BY <2>2, <2>3
  <1>6. ASSUME Alerts(w) > NoisyPerDay
        PROVE  Alerts(d) > NoisyPerDay
    <2>1. /\ d \in [Hours -> Nat]
          /\ \A h \in Hours : d[h] = IF h \in Window THEN v[h] ELSE 0
      BY <1>2, Numbers DEF DayOf, Window, Hours
    <2>2. \A h \in Hours : h \notin Window => w[h] = 0
      <3>1. hour \in Window
        BY Numbers DEF Window, Hours
      <3> QED
        BY <1>3, <1>4, <3>1
    <2> HIDE DEF d
    <2>3. Alerts(d) \in Nat /\ Alerts(w) \in Nat
      BY <1>4, <2>1, AlertsFacts
    <2>4. CASE \A h \in Hours : w[h] <= d[h]
      <3>1. Alerts(w) <= Alerts(d)
        BY <1>4, <2>1, <2>4, AlertsFacts
      <3> QED
        BY <1>6, <2>3, <3>1, Numbers
    <2>5. ASSUME NEW h \in Hours, ~(w[h] <= d[h])
          PROVE  Alerts(d) > NoisyPerDay
      <3>1. h \in Window
        BY <1>4, <2>1, <2>2, <2>5
      <3>2. d[h] = v[h]
        BY <2>1, <3>1
      <3>3. d[h] = NoisyPerDay + 1
        BY <1>5, <2>5, <3>2
      <3>4. d[h] <= Alerts(d)
        BY <2>1, AlertsFacts
      <3> QED
        BY <2>3, <3>3, <3>4, Numbers
    <2> QED
      BY <2>4, <2>5
  <1> QED
    BY <1>4, <1>5, <1>6 DEF w, r, u, v, d

\* A state that differs in its windows, its demotions and its proposals alone.
LEMMA OtherFields ==
  ASSUME NEW G, NEW R, NEW T, NEW T2, NEW s, Sound(s, G, R, T), NEW s2 \in State,
         s2.tuples = s.tuples, s2.learned = s.learned, Shown(s2, T2), Earned(s2, T2)
  PROVE  Sound(s2, G, R, T2)
  <1>1. Backed(s2) /\ Marked(s2, G) /\ Remembered(s2, R)
    BY DEF Sound, Backed, Marked, Remembered, Known, InForce
  <1> QED
    BY <1>1 DEF Sound

\* What propose_redemoted asks.
Redemotion(t) == [key |-> t, redemoted |-> TRUE]

\* A demotion is decided on alerts that were shown, all within the day.
LEMMA NoteAlertSound ==
  ASSUME NEW G, NEW R, NEW T \in Tallies, NEW s, Sound(s, G, R, T),
         hour \in Hours, NEW t \in Tuples
  PROVE  Sound(NoteAlert(s, t), G, R, Counted(T, t))
  <1> DEFINE w == [Rolled(s.windows[t]) EXCEPT ![hour] = @ + 1]
             ws == [s.windows EXCEPT ![t] = w]
             counted == [s EXCEPT !.windows = ws]
             times == Min({s.redemotions[t] + 1, RedemoteAt})
             ds == [s.demoted EXCEPT ![t] = [since |-> hour]]
             rs == [s.redemotions EXCEPT ![t] = times]
             quiet == [counted EXCEPT !.demoted = ds, !.redemotions = rs]
             p == [key |-> t, redemoted |-> TRUE]
             asked == [quiet EXCEPT !.proposals = Append(s.proposals, p)]
             v == Counted(T, t)
             o == NoteAlert(s, t)
  <1>0. s \in State
    BY DEF Sound
  <1>1. /\ w \in [Hours -> Nat]
        /\ \A h \in Hours : w[h] <= v[t][h] \/ v[t][h] = NoisyPerDay + 1
        /\ Alerts(w) > NoisyPerDay => Alerts(DayOf(v[t], hour)) > NoisyPerDay
    BY WindowShown
  <1>2. /\ v \in Tallies
        /\ \A x \in Tuples, h \in Hours : T[x][h] <= v[x][h]
        /\ \A x \in Tuples \ {t} : v[x] = T[x]
    BY CountedFacts
  <1>3. Sound(s, G, R, v)
    BY <1>2, TallyGrows
  <1>4. o \in {counted, quiet, asked}
        /\ (o # counted => Alerts(w) > NoisyPerDay)
    <2> DEFINE c == [s EXCEPT !.windows[t] = w]
               q == [c EXCEPT !.demoted[t] = [since |-> hour], !.redemotions[t] = times]
    <2>0. o = IF s.demoted[t] # Nothing \/ Alerts(w) <= NoisyPerDay THEN c
              ELSE IF times >= RedemoteAt THEN ProposeRedemoted(q, t)
              ELSE q
      BY DEF NoteAlert
    <2>1. c = counted
      BY <1>0 DEF State
    <2>2. q = quiet
      <3>1. q = [counted EXCEPT !.demoted[t] = [since |-> hour], !.redemotions[t] = times]
        BY <2>1
      <3> QED
        BY <1>0, <3>1 DEF State
    <2>3. /\ quiet.proposals = s.proposals
          /\ [quiet EXCEPT !.proposals = Append(@, p)] = asked
      BY <1>0 DEF State
    <2> HIDE DEF w, counted, quiet, asked, times, p, o, c, q
    <2>4. o = IF s.demoted[t] # Nothing \/ Alerts(w) <= NoisyPerDay THEN counted
              ELSE IF times >= RedemoteAt THEN ProposeRedemoted(quiet, t)
              ELSE quiet
      BY <2>0, <2>1, <2>2
    <2>5. ProposeRedemoted(quiet, t) \in {quiet, asked}
      BY <2>3 DEF ProposeRedemoted, p
    <2>6. Alerts(w) \in Nat
      BY <1>1, AlertsFacts
    <2> QED
      BY <2>4, <2>5, <2>6, Numbers
  <1>5. times \in 0 .. RedemoteAt
    <2>1. s.redemotions[t] \in 0 .. RedemoteAt
      BY <1>0, StateFacts
    <2>3. s.redemotions[t] + 1 \in Int /\ RedemoteAt \in Int
      BY <2>1, Numbers
    <2>2. times \in {s.redemotions[t] + 1, RedemoteAt} /\ times <= RedemoteAt
      BY <2>3, Larger
    <2> HIDE DEF times
    <2> QED
      BY <2>1, <2>2, Numbers
  <1> HIDE DEF w, v, times, o
  <1>6. /\ ws \in [Tuples -> [Hours -> Nat]] /\ ws[t] = w
        /\ \A x \in Tuples \ {t} : ws[x] = s.windows[x]
    BY <1>0, <1>1, StateFacts
  <1>7. /\ ds \in [Tuples -> [since : Hours] \cup {Nothing}] /\ ds[t] = [since |-> hour]
        /\ \A x \in Tuples \ {t} : ds[x] = s.demoted[x]
    <2>1. [since |-> hour] \in [since : Hours]
      OBVIOUS
    <2> QED
      BY <1>0, <2>1, StateFacts
  <1>8. rs \in [Tuples -> 0 .. RedemoteAt]
    BY <1>0, <1>5, StateFacts
  <1>9. Append(s.proposals, p) \in Seq(Proposal)
    <2>1. p \in Proposal
      BY DEF Proposal
    <2> HIDE DEF p
    <2> QED
      BY <1>0, <2>1, StateFacts
  <1> HIDE DEF ws, ds, rs
  <1>10. /\ counted \in State /\ counted.tuples = s.tuples /\ counted.learned = s.learned
         /\ counted.windows = ws /\ counted.demoted = s.demoted
         /\ counted.proposals = s.proposals
    BY <1>0, <1>6 DEF State
  <1> HIDE DEF counted
  <1>11. /\ quiet \in State /\ quiet.tuples = s.tuples /\ quiet.learned = s.learned
         /\ quiet.windows = ws /\ quiet.demoted = ds
         /\ quiet.proposals = s.proposals
    BY <1>7, <1>8, <1>10 DEF State
  <1> HIDE DEF quiet
  <1>12. /\ asked \in State /\ asked.tuples = s.tuples /\ asked.learned = s.learned
         /\ asked.windows = ws /\ asked.demoted = ds
         /\ asked.proposals = Append(s.proposals, p)
    BY <1>9, <1>11 DEF State
  <1> HIDE DEF asked
  <1>13. /\ o \in State /\ o.tuples = s.tuples /\ o.learned = s.learned /\ o.windows = ws
         /\ \/ o.demoted = s.demoted
            \/ o.demoted = ds /\ Alerts(w) > NoisyPerDay
         /\ o.proposals = s.proposals \/ o.proposals = Append(s.proposals, p)
    BY <1>4, <1>10, <1>11, <1>12
  <1>14. Shown(o, v)
    <2> SUFFICES ASSUME NEW x \in Tuples, NEW h \in Hours
                 PROVE  ws[x][h] <= v[x][h] \/ v[x][h] = NoisyPerDay + 1
      BY <1>13 DEF Shown
    <2>1. CASE x = t
      BY <1>1, <1>6, <2>1
    <2>2. CASE x # t
      BY <1>3, <1>6, <2>2 DEF Sound, Shown
    <2> QED
      BY <2>1, <2>2
  <1>15. Earned(o, v)
    <2> SUFFICES ASSUME NEW x \in Tuples, o.demoted[x] # Nothing
                 PROVE  Alerts(DayOf(v[x], o.demoted[x].since)) > NoisyPerDay
      BY DEF Earned
    <2>1. CASE o.demoted[x] = s.demoted[x]
      BY <1>3, <2>1 DEF Sound, Earned
    <2>2. CASE o.demoted[x] # s.demoted[x]
      <3>1. x = t /\ o.demoted = ds /\ Alerts(w) > NoisyPerDay
        BY <1>7, <1>13, <2>2
      <3>2. o.demoted[x].since = hour
        BY <1>7, <3>1
      <3> QED
        BY <1>1, <3>1, <3>2
    <2> QED
      BY <2>1, <2>2
  <1>16. Sound(o, G, R, v)
    BY <1>3, <1>13, <1>14, <1>15, OtherFields
  <1> QED
    BY <1>16 DEF o, v

LEMMA NoteAlertAsks ==
  ASSUME NEW s \in State, NEW t \in Tuples
  PROVE  NoteAlert(s, t).proposals \in {s.proposals, Append(s.proposals, Redemotion(t))}
  <1> DEFINE w == [Rolled(s.windows[t]) EXCEPT ![hour] = @ + 1]
             times == Min({s.redemotions[t] + 1, RedemoteAt})
             c == [s EXCEPT !.windows[t] = w]
             q == [c EXCEPT !.demoted[t] = [since |-> hour], !.redemotions[t] = times]
             p == Redemotion(t)
             a == [q EXCEPT !.proposals = Append(@, p)]
  <1>1. NoteAlert(s, t) = IF s.demoted[t] # Nothing \/ Alerts(w) <= NoisyPerDay THEN c
                          ELSE IF times >= RedemoteAt THEN ProposeRedemoted(q, t)
                          ELSE q
    BY DEF NoteAlert
  <1>2. c.proposals = s.proposals /\ q.proposals = s.proposals
        /\ a.proposals = Append(s.proposals, p)
    <2> HIDE DEF w, times, p
    <2> QED
      BY DEF State
  <1>3. ProposeRedemoted(q, t) \in {q, a}
    BY DEF ProposeRedemoted, Redemotion
  <1> HIDE DEF w, times, c, q, a, p
  <1>4. NoteAlert(s, t) \in {c, q, a}
    BY <1>1, <1>3
  <1> QED
    BY <1>2, <1>4 DEF p

\* Rolling the windows and clearing demotions takes nothing from what was shown.
LEMMA FewerSound ==
  ASSUME NEW G, NEW R, NEW T \in Tallies, NEW s, Sound(s, G, R, T), NEW s2 \in State,
         s2.tuples = s.tuples, s2.learned = s.learned,
         \A t \in Tuples, h \in Hours : s2.windows[t][h] <= s.windows[t][h],
         \A t \in Tuples : s2.demoted[t] \in {s.demoted[t], Nothing}
  PROVE  Sound(s2, G, R, T)
  <1>1. Shown(s2, T)
    <2> SUFFICES ASSUME NEW t \in Tuples, NEW h \in Hours
                 PROVE  s2.windows[t][h] <= T[t][h] \/ T[t][h] = NoisyPerDay + 1
      BY DEF Shown
    <2>1. s.windows[t][h] \in Nat /\ s2.windows[t][h] \in Nat
      BY StateFacts DEF Sound
    <2>2. T[t][h] \in 0 .. NoisyPerDay + 1
      BY DEF Tallies
    <2>3. s.windows[t][h] <= T[t][h] \/ T[t][h] = NoisyPerDay + 1
      BY DEF Sound, Shown
    <2>4. s2.windows[t][h] <= s.windows[t][h]
      OBVIOUS
    <2> QED
      BY <2>1, <2>2, <2>3, <2>4, Numbers
  <1>2. Earned(s2, T)
    BY DEF Sound, Earned
  <1> QED
    BY <1>1, <1>2, OtherFields

LEMMA ClearStaleSound ==
  ASSUME NEW G, NEW R, NEW T \in Tallies, NEW s, Sound(s, G, R, T)
  PROVE  Sound(ClearStale(s), G, R, T) /\ ClearStale(s).proposals = s.proposals
  <1> DEFINE rolled == [t \in Tuples |-> Rolled(s.windows[t])]
             d == [t \in Tuples |->
                     IF /\ s.demoted[t] # Nothing
                        /\ Alerts(rolled[t]) <= NoisyPerDay
                        /\ hour - s.demoted[t].since >= HoursPerDay
                     THEN Nothing ELSE s.demoted[t]]
             o == ClearStale(s)
  <1>0. s \in State
    BY DEF Sound
  <1>1. /\ rolled \in [Tuples -> [Hours -> Nat]]
        /\ \A t \in Tuples, h \in Hours : rolled[t][h] <= s.windows[t][h]
    BY <1>0, StateFacts, RolledFacts
  <1>2. o = [s EXCEPT !.windows = rolled, !.demoted = d]
    BY <1>0 DEF ClearStale, State
  <1> HIDE DEF rolled, o
  <1>3. /\ d \in [Tuples -> [since : Hours] \cup {Nothing}]
        /\ \A t \in Tuples : d[t] \in {s.demoted[t], Nothing}
    BY <1>0, StateFacts
  <1> HIDE DEF d
  <1>4. /\ o \in State /\ o.tuples = s.tuples /\ o.learned = s.learned
        /\ o.windows = rolled /\ o.demoted = d /\ o.proposals = s.proposals
    BY <1>0, <1>1, <1>2, <1>3 DEF State
  <1> QED
    BY <1>1, <1>3, <1>4, FewerSound DEF o

\* What is asked to be seen again starts from nothing, in the windows and in the tally.
Forgiven(s, T) == [t \in Tuples |-> IF s.demoted[t] # Nothing THEN NoWindow ELSE T[t]]

LEMMA UndemotedSound ==
  ASSUME NEW G, NEW R, NEW T \in Tallies, NEW s, Sound(s, G, R, T)
  PROVE  /\ Forgiven(s, T) \in Tallies
         /\ Sound(Undemoted(s), G, R, Forgiven(s, T))
         /\ Undemoted(s).proposals = s.proposals
  <1> DEFINE d == [t \in Tuples |-> Nothing]
             w == [t \in Tuples |-> IF s.demoted[t] # Nothing THEN NoWindow ELSE s.windows[t]]
             o == Undemoted(s)
             F == Forgiven(s, T)
  <1>0. s \in State
    BY DEF Sound
  <1>1. NoWindow \in [Hours -> Nat] /\ NoWindow \in [Hours -> 0 .. NoisyPerDay + 1]
        /\ \A h \in Hours : NoWindow[h] = 0
    BY Numbers DEF NoWindow
  <1>2. F \in Tallies
    BY <1>1 DEF Tallies, Forgiven
  <1>3. w \in [Tuples -> [Hours -> Nat]]
    BY <1>0, <1>1, StateFacts
  <1>4. d \in [Tuples -> [since : Hours] \cup {Nothing}]
    OBVIOUS
  <1>5. o = [s EXCEPT !.demoted = d, !.windows = w]
    BY <1>0 DEF Undemoted, State
  <1>6. Shown([s EXCEPT !.windows = w], F)
    <2> SUFFICES ASSUME NEW t \in Tuples, NEW h \in Hours
                 PROVE  w[t][h] <= F[t][h] \/ F[t][h] = NoisyPerDay + 1
      BY <1>0 DEF Shown, State
    <2>1. CASE s.demoted[t] # Nothing
      <3>1. w[t][h] = 0 /\ F[t][h] = 0
        BY <1>1, <2>1 DEF Forgiven
      <3> QED
        BY <3>1
    <2>2. CASE s.demoted[t] = Nothing
      BY <2>2 DEF Sound, Shown, Forgiven
    <2> QED
      BY <2>1, <2>2
  <1> HIDE DEF o, w, F
  <1>7. /\ o \in State /\ o.tuples = s.tuples /\ o.learned = s.learned
        /\ o.windows = w /\ o.demoted = d /\ o.proposals = s.proposals
    BY <1>0, <1>3, <1>4, <1>5 DEF State
  <1>8. Shown(o, F) /\ Earned(o, F)
    BY <1>0, <1>6, <1>7 DEF Shown, Earned, State
  <1>9. Sound(o, G, R, F)
    BY <1>7, <1>8, OtherFields
  <1> QED
    BY <1>2, <1>7, <1>9 DEF o, F

\* A state that differs in the records of its patterns, its proposals, its window and
\* what it says of the entries alone.
LEMMA OtherRecords ==
  ASSUME NEW G, NEW R, NEW T, NEW G2, NEW R2, NEW s, Sound(s, G, R, T), NEW s2 \in State,
         s2.windows = s.windows, s2.demoted = s.demoted,
         Backed(s2), Marked(s2, G2), Remembered(s2, R2)
  PROVE  Sound(s2, G2, R2, T)
  BY DEF Sound, Shown, Earned

\* Patterns that are not known any more take nothing with them that was to be kept.
LEMMA CrowdSound ==
  ASSUME NEW G, NEW R, NEW T, Sound(b, G, R, T), NEW gone \in SUBSET Prunable(b)
  PROVE  Sound([b EXCEPT !.tuples = [t \in Known(b) \ gone |-> b.tuples[t]]], G \ gone, R, T)
  <1> DEFINE f == [t \in Known(b) \ gone |-> b.tuples[t]]
             o == [b EXCEPT !.tuples = f]
  <1>0. b \in State
    BY DEF Sound
  <1>1. f \in TupleMaps /\ DOMAIN f = Known(b) \ gone
    <2>1. Known(b) \ gone \in SUBSET Tuples /\ IsFiniteSet(Known(b) \ gone)
      BY <1>0, StateFacts, FS_Difference
    <2>2. f \in [Known(b) \ gone -> TupleStat]
      BY <1>0, StateFacts
    <2> QED
      BY <2>1, <2>2, MapMade
  <1>2. \A t \in Known(b) \ gone : f[t] = b.tuples[t]
    OBVIOUS
  <1> HIDE DEF f
  <1>3. /\ o \in State /\ o.tuples = f /\ o.learned = b.learned
        /\ o.windows = b.windows /\ o.demoted = b.demoted
    BY <1>0, <1>1 DEF State
  <1> HIDE DEF o
  <1>4. Backed(o)
    BY <1>1, <1>2, <1>3 DEF Sound, Backed, InForce, Known
  <1>5. Marked(o, G \ gone)
    BY <1>1, <1>2, <1>3 DEF Sound, Marked, Known
  <1>6. Remembered(o, R)
    BY <1>1, <1>2, <1>3 DEF Sound, Remembered, Known, Prunable
  <1>7. Sound(o, G \ gone, R, T)
    BY <1>3, <1>4, <1>5, <1>6, OtherRecords
  <1> QED
    BY <1>7 DEF o, f

\* A restarted window begins every record again.
Relearned(s, u) ==
  [s EXCEPT
     !.until = u,
     !.tuples = [t \in Known(s) |-> [@[t] EXCEPT
        !.proposed = FALSE, !.dismissed = FALSE, !.days = {},
        !.maxRank = 0, !.maxBaseRank = 0]],
     !.proposals = <<>>]

LEMMA RelearnedSound ==
  ASSUME NEW G, NEW R, NEW T, NEW s, Sound(s, G, R, T), NEW u \in Int
  PROVE  Sound(Relearned(s, u), {}, {}, T)
  <1> DEFINE e(t) == [s.tuples[t] EXCEPT
                        !.proposed = FALSE, !.dismissed = FALSE, !.days = {},
                        !.maxRank = 0, !.maxBaseRank = 0]
             f == [t \in Known(s) |-> e(t)]
             o == Relearned(s, u)
  <1>0. s \in State
    BY DEF Sound
  <1>1. ASSUME NEW t \in Known(s)
        PROVE  e(t) \in TupleStat /\ e(t).learned = s.tuples[t].learned
    <2> DEFINE p == s.tuples[t]
    <2>1. p \in TupleStat
      BY <1>0, StateFacts
    <2>2. e(t) = [p EXCEPT !.proposed = FALSE, !.dismissed = FALSE, !.days = {},
                           !.maxRank = 0, !.maxBaseRank = 0]
      OBVIOUS
    <2> HIDE DEF p, e
    <2>3. {} \in SUBSET Days /\ 0 \in 0 .. Critical
      BY Ranks
    <2>4. e(t) \in TupleStat /\ e(t).learned = p.learned
      BY <2>1, <2>2, <2>3 DEF TupleStat
    <2> QED
      BY <2>4 DEF p
  <1>2. f \in TupleMaps /\ DOMAIN f = Known(s) /\ \A t \in Known(s) : f[t].learned = s.tuples[t].learned
    <2>1. f \in [Known(s) -> TupleStat] /\ \A t \in Known(s) : f[t].learned = s.tuples[t].learned
      <3> HIDE DEF e
      <3> QED
        BY <1>1
    <2> QED
      BY <1>0, <2>1, MapMade, StateFacts
  <1>3. o = [s EXCEPT !.until = u, !.tuples = f, !.proposals = <<>>]
    BY DEF Relearned
  <1> HIDE DEF f, o
  <1> DEFINE q == <<>>
  <1>7. q \in Seq(Proposal)
    OBVIOUS
  <1>8. o = [s EXCEPT !.until = u, !.tuples = f, !.proposals = q]
    BY <1>3
  <1> HIDE DEF q
  <1>4. /\ o \in State /\ o.tuples = f /\ o.learned = s.learned
        /\ o.windows = s.windows /\ o.demoted = s.demoted
    BY <1>0, <1>2, <1>7, <1>8 DEF State
  <1>5. Backed(o)
    BY <1>2, <1>4 DEF Sound, Backed, InForce, Known
  <1>6. Marked(o, {}) /\ Remembered(o, {})
    BY DEF Marked, Remembered
  <1> QED
    BY <1>4, <1>5, <1>6, OtherRecords DEF o

-----------------------------------------------------------------------------
(* Proposals *)

LEMMA OrdinaryFinite ==
  ASSUME NEW s, s.proposals \in Seq(Proposal), NEW t
  PROVE  /\ Ordinary(s, t) \subseteq 1 .. Len(s.proposals)
         /\ IsFiniteSet(Ordinary(s, t)) /\ Cardinality(Ordinary(s, t)) \in Nat
  <1>1. Ordinary(s, t) \subseteq 1 .. Len(s.proposals) /\ Len(s.proposals) \in Nat
    BY DEF Ordinary, Open
  <1>2. IsFiniteSet(1 .. Len(s.proposals))
    BY <1>1, FS_Interval
  <1> QED
    BY <1>1, <1>2, FS_Subset, FS_CardinalityType

\* What is appended is about its own pattern, and not ordinary when it is a demotion.
LEMMA AppendedOrdinary ==
  ASSUME NEW s, NEW s2, s.proposals \in Seq(Proposal), NEW p \in Proposal,
         s2.proposals = Append(s.proposals, p), NEW t, p.key # t \/ p.redemoted
  PROVE  Ordinary(s2, t) = Ordinary(s, t)
  <1> DEFINE q == s.proposals
             n == Len(q)
  <1>1. /\ n \in Nat /\ DOMAIN q = 1 .. n /\ DOMAIN Append(q, p) = 1 .. n + 1
        /\ Append(q, p)[n + 1] = p /\ \A i \in 1 .. n : Append(q, p)[i] = q[i]
    OBVIOUS
  <1> HIDE DEF n
  <1>2. /\ Ordinary(s, t) = {i \in 1 .. n : q[i].key = t /\ ~q[i].redemoted}
        /\ Ordinary(s2, t) = {i \in 1 .. n + 1 : Append(q, p)[i].key = t /\ ~Append(q, p)[i].redemoted}
    BY <1>1 DEF Ordinary, Open
  <1>3. \A i \in 1 .. n + 1 : i \in 1 .. n \/ i = n + 1
    BY <1>1
  <1>4. 1 .. n \subseteq 1 .. n + 1
    BY <1>1
  <1> HIDE DEF q
  <1> QED
    BY <1>1, <1>2, <1>3, <1>4

\* A proposal taken off the list leaves no more than there were.
LEMMA RemovedOrdinary ==
  ASSUME NEW s, NEW s2, s.proposals \in Seq(Proposal), NEW i \in DOMAIN s.proposals,
         s2.proposals = RemoveAt(s.proposals, i), NEW t
  PROVE  /\ s2.proposals \in Seq(Proposal)
         /\ Cardinality(Ordinary(s2, t)) <= Cardinality(Ordinary(s, t))
  <1> DEFINE q == s.proposals
             r == s2.proposals
             A == Ordinary(s2, t)
             B == Ordinary(s, t)
             f == [j \in A |-> IF j < i THEN j ELSE j + 1]
  <1>1. /\ r \in Seq(Proposal) /\ Len(r) = Len(q) - 1 /\ i \in 1 .. Len(q) /\ Len(q) \in Nat
        /\ \A j \in 1 .. Len(q) - 1 : r[j] = IF j < i THEN q[j] ELSE q[j + 1]
    <2>1. q \in Seq(Proposal) /\ i \in DOMAIN q /\ r = RemoveAt(q, i)
      OBVIOUS
    <2> HIDE DEF q, r
    <2>2. i \in 1 .. Len(q) /\ Len(q) \in Nat
      BY <2>1
    <2>3. /\ RemoveAt(q, i) \in Seq(Proposal) /\ Len(RemoveAt(q, i)) = Len(q) - 1
          /\ \A j \in 1 .. Len(q) - 1 :
               RemoveAt(q, i)[j] = IF j < i THEN q[j] ELSE q[j + 1]
      BY <2>1, Removed
    <2> QED
      BY <2>1, <2>2, <2>3
  <1>2. /\ A = {j \in 1 .. Len(q) - 1 : r[j].key = t /\ ~r[j].redemoted}
        /\ B = {j \in 1 .. Len(q) : q[j].key = t /\ ~q[j].redemoted}
    BY <1>1 DEF Ordinary, Open
  <1> HIDE DEF q, r, A, B
  <1>3. ASSUME NEW j \in A
        PROVE  f[j] \in B
    <2>1. j \in 1 .. Len(q) - 1 /\ r[j].key = t /\ ~r[j].redemoted
          /\ r[j] = IF j < i THEN q[j] ELSE q[j + 1]
      BY <1>1, <1>2
    <2>2. CASE j < i
      <3>1. j \in 1 .. Len(q) /\ r[j] = q[j] /\ f[j] = j
        BY <1>1, <2>1, <2>2
      <3> QED
        BY <1>2, <2>1, <3>1
    <2>3. CASE ~(j < i)
      <3>1. j + 1 \in 1 .. Len(q) /\ r[j] = q[j + 1] /\ f[j] = j + 1
        BY <1>1, <2>1, <2>3
      <3> QED
        BY <1>2, <2>1, <3>1
    <2> QED
      BY <2>2, <2>3
  <1>4. ASSUME NEW j \in A, NEW k \in A, f[j] = f[k]
        PROVE  j = k
    <2>1. j \in Nat /\ k \in Nat /\ i \in Nat
      BY <1>1, <1>2
    <2> QED
      BY <1>4, <2>1
  <1>5. f \in Injection(A, B)
    <2>1. f \in [A -> B]
      BY <1>3
    <2>2. IsInjective(f)
      BY <1>4 DEF IsInjective
    <2> QED
      BY <2>1, <2>2 DEF Injection
  <1>6. IsFiniteSet(B)
    BY OrdinaryFinite DEF B
  <1>7. Cardinality(A) <= Cardinality(B)
    <2> HIDE DEF f
    <2> QED
      BY <1>5, <1>6, FS_Injection
  <1> QED
    BY <1>1, <1>7 DEF A, B, r

\* The record of a known pattern is replaced, its ranks kept, in a state that differs
\* otherwise in its proposals and in the pattern's entry.
LEMMA OneChanged ==
  ASSUME NEW G, NEW R, NEW T, NEW s, Sound(s, G, R, T),
         NEW n \in State, n.tuples = s.tuples, n.windows = s.windows, n.demoted = s.demoted,
         NEW t \in Known(s), NEW e \in TupleStat,
         e.maxBaseRank = s.tuples[t].maxBaseRank, e.maxRank = s.tuples[t].maxRank,
         s.tuples[t].dismissed => e.dismissed,
         \A x \in Tuples \ {t} : n.learned[x] = s.learned[x],
         e.learned => InForce(n, t)
  PROVE  LET o == [n EXCEPT !.tuples = [s.tuples EXCEPT ![t] = e]] IN
         /\ Sound(o, G, R, T)
         /\ o.tuples = [s.tuples EXCEPT ![t] = e]
         /\ Known(o) = Known(s) /\ o.tuples[t] = e
         /\ o.proposals = n.proposals
  <1> DEFINE f == [s.tuples EXCEPT ![t] = e]
             o == [n EXCEPT !.tuples = f]
  <1>0. s \in State
    BY DEF Sound
  <1>1. /\ s.tuples \in [Known(s) -> TupleStat]
        /\ Known(s) \in SUBSET Tuples /\ IsFiniteSet(Known(s))
    BY <1>0, StateFacts, MapFacts DEF Known
  <1>2. f \in [Known(s) -> TupleStat] /\ f[t] = e /\ \A x \in Known(s) \ {t} : f[x] = s.tuples[x]
    BY <1>1
  <1> HIDE DEF f
  <1>3. f \in TupleMaps /\ DOMAIN f = Known(s)
    BY <1>1, <1>2, MapMade
  <1>4. /\ o \in State /\ o.tuples = f /\ o.learned = n.learned /\ o.windows = n.windows
        /\ o.demoted = n.demoted /\ o.proposals = n.proposals
    BY <1>3 DEF State
  <1> HIDE DEF o
  <1>5. /\ Known(o) = Known(s) \cup {t} /\ o.tuples[t] = e
        /\ \A x \in Known(s) \ {t} : o.tuples[x] = s.tuples[x]
        /\ \A x \in Tuples \ {t} : o.learned[x] = s.learned[x]
        /\ o.windows = s.windows /\ o.demoted = s.demoted
    BY <1>2, <1>3, <1>4 DEF Known
  <1>6. e.learned => InForce(o, t)
    BY <1>4 DEF InForce
  <1>7. t \in G => e.maxBaseRank > Medium \/ e.maxRank >= Critical
    BY DEF Sound, Marked
  <1>8. t \in R => e.dismissed
    BY DEF Sound, Remembered
  <1>9. t \in Tuples /\ G \subseteq G \cup {t}
    BY <1>1
  <1>10. Sound(o, G, R, T)
    BY <1>4, <1>5, <1>6, <1>7, <1>8, <1>9, OneSet
  <1> QED
    BY <1>4, <1>5, <1>10 DEF o, f

LEMMA AcceptedSound ==
  ASSUME NEW G, NEW R, NEW T, Sound(b, G, R, T), NEW i \in DOMAIN b.proposals
  PROVE  /\ Sound(Accepted(i), G, R, T)
         /\ Accepted(i).proposals = RemoveAt(b.proposals, i)
         /\ b.proposals[i].key \in Tuples
  <1> DEFINE t == b.proposals[i].key
             x == [revoked |-> FALSE, accepted |-> TRUE]
             l == [b.learned EXCEPT ![t] = x]
             q == RemoveAt(b.proposals, i)
             n == [b EXCEPT !.proposals = q, !.learned = l]
             o == Accepted(i)
  <1>0. b \in State
    BY DEF Sound
  <1>1. t \in Tuples /\ b.proposals[i] \in Proposal
    <2>1. b.proposals \in Seq(Proposal)
      BY <1>0, StateFacts
    <2>2. b.proposals[i] \in Proposal
      BY <2>1
    <2> QED
      BY <2>2 DEF Proposal
  <1>2. x \in LearnedEntry /\ ~x.revoked /\ x # Nothing
    BY NothingElse DEF LearnedEntry
  <1>3. q \in Seq(Proposal)
    BY <1>0, StateFacts, Removed
  <1>4. o = LET m == [b EXCEPT !.proposals = q, !.learned[t] = x] IN
            IF t \in Known(b)
            THEN [m EXCEPT !.tuples[t].learned = TRUE, !.tuples[t].proposed = FALSE]
            ELSE m
    BY DEF Accepted
  <1>5. [b EXCEPT !.proposals = q, !.learned[t] = x] = n
    BY <1>0 DEF State
  <1> HIDE DEF x, q, o, t
  <1>6. l \in [Tuples -> LearnedEntry \cup {Nothing}] /\ l[t] = x
        /\ \A y \in Tuples \ {t} : l[y] = b.learned[y]
    BY <1>0, <1>1, <1>2, StateFacts
  <1>7. /\ n \in State /\ n.tuples = b.tuples /\ n.learned = l /\ n.proposals = q
        /\ n.windows = b.windows /\ n.demoted = b.demoted
    <2> HIDE DEF l
    <2> QED
      BY <1>0, <1>3, <1>6 DEF State
  <1>8. o = IF t \in Known(b)
            THEN [n EXCEPT !.tuples[t].learned = TRUE, !.tuples[t].proposed = FALSE]
            ELSE n
    BY <1>4, <1>5
  <1> HIDE DEF l, n
  <1>9. InForce(n, t) /\ \A y \in Tuples \ {t} : n.learned[y] = b.learned[y]
    BY <1>2, <1>6, <1>7 DEF InForce
  <1>10. CASE t \notin Known(b)
    <2>1. o = n
      BY <1>8, <1>10
    <2>2. Backed(n)
      BY <1>0, <1>7, <1>9, <1>10, StateFacts DEF Sound, Backed, InForce, Known
    <2>3. Marked(n, G) /\ Remembered(n, R)
      BY <1>7 DEF Sound, Marked, Remembered, Known
    <2>4. Sound(n, G, R, T)
      BY <1>7, <2>2, <2>3, OtherRecords
    <2> QED
      BY <1>1, <1>7, <2>1, <2>4 DEF o, q, t
  <1>11. CASE t \in Known(b)
    <2> DEFINE e == [b.tuples[t] EXCEPT !.learned = TRUE, !.proposed = FALSE]
               f == [b.tuples EXCEPT ![t] = e]
    <2>1. b.tuples[t] \in TupleStat /\ b.tuples \in [Known(b) -> TupleStat]
      BY <1>0, <1>11, StateFacts, MapFacts DEF Known
    <2>2. /\ e \in TupleStat /\ e.maxBaseRank = b.tuples[t].maxBaseRank
          /\ e.maxRank = b.tuples[t].maxRank /\ e.dismissed = b.tuples[t].dismissed
      BY <2>1 DEF TupleStat
    <2>3. o = [n EXCEPT !.tuples = f]
      <3>1. [n EXCEPT !.tuples[t].learned = TRUE, !.tuples[t].proposed = FALSE]
            = [n EXCEPT !.tuples = f]
        BY <1>7, <1>11, <2>1 DEF State, Known, TupleStat
      <3> QED
        BY <1>8, <1>11, <3>1
    <2> HIDE DEF e
    <2>4. /\ Sound([n EXCEPT !.tuples = f], G, R, T)
          /\ [n EXCEPT !.tuples = f].proposals = n.proposals
      BY <1>7, <1>9, <1>11, <2>2, OneChanged
    <2> QED
      BY <1>1, <1>7, <2>3, <2>4 DEF o, q, t
  <1> QED
    BY <1>10, <1>11

\* A refusal is in the record of its pattern.
LEMMA DismissedSound ==
  ASSUME NEW G, NEW R, NEW T, Sound(b, G, R, T), NEW i \in DOMAIN b.proposals
  PROVE  LET t == b.proposals[i].key IN
         /\ Sound(Dismissed(i), G, IF t \in Known(b) THEN R \cup {t} ELSE R, T)
         /\ Dismissed(i).proposals = RemoveAt(b.proposals, i)
         /\ t \in Tuples
  <1> DEFINE t == b.proposals[i].key
             q == RemoveAt(b.proposals, i)
             n == [b EXCEPT !.proposals = q]
             o == Dismissed(i)
  <1>0. b \in State
    BY DEF Sound
  <1>1. t \in Tuples /\ b.proposals[i] \in Proposal
    <2>1. b.proposals \in Seq(Proposal)
      BY <1>0, StateFacts
    <2>2. b.proposals[i] \in Proposal
      BY <2>1
    <2> QED
      BY <2>2 DEF Proposal
  <1>2. q \in Seq(Proposal)
    BY <1>0, StateFacts, Removed
  <1>3. o = IF t \in Known(b)
            THEN [n EXCEPT !.tuples[t].proposed = FALSE, !.tuples[t].dismissed = TRUE]
            ELSE n
    BY DEF Dismissed
  <1> HIDE DEF q, o, t
  <1>4. /\ n \in State /\ n.tuples = b.tuples /\ n.learned = b.learned /\ n.proposals = q
        /\ n.windows = b.windows /\ n.demoted = b.demoted
    BY <1>0, <1>2 DEF State
  <1> HIDE DEF n
  <1>5. CASE t \notin Known(b)
    <2>1. o = n
      BY <1>3, <1>5
    <2>2. Backed(n) /\ Marked(n, G) /\ Remembered(n, R)
      BY <1>4 DEF Sound, Backed, Marked, Remembered, Known, InForce
    <2>3. Sound(n, G, R, T)
      BY <1>4, <2>2, OtherRecords
    <2> QED
      BY <1>1, <1>4, <1>5, <2>1, <2>3 DEF o, q, t
  <1>6. CASE t \in Known(b)
    <2> DEFINE e == [b.tuples[t] EXCEPT !.proposed = FALSE, !.dismissed = TRUE]
               f == [b.tuples EXCEPT ![t] = e]
               m == [n EXCEPT !.tuples = f]
    <2>1. b.tuples[t] \in TupleStat /\ b.tuples \in [Known(b) -> TupleStat]
      BY <1>0, <1>6, StateFacts, MapFacts DEF Known
    <2>2. /\ e \in TupleStat /\ e.maxBaseRank = b.tuples[t].maxBaseRank
          /\ e.maxRank = b.tuples[t].maxRank /\ e.dismissed
          /\ e.learned = b.tuples[t].learned
      BY <2>1 DEF TupleStat
    <2>3. o = m
      <3>1. [n EXCEPT !.tuples[t].proposed = FALSE, !.tuples[t].dismissed = TRUE]
            = [n EXCEPT !.tuples = f]
        BY <1>4, <1>6, <2>1 DEF State, Known, TupleStat
      <3> QED
        BY <1>3, <1>6, <3>1
    <2> HIDE DEF e
    <2>4. e.learned => InForce(n, t)
      BY <1>4, <1>6, <2>2 DEF Sound, Backed, InForce
    <2>5. /\ Sound(m, G, R, T) /\ m.proposals = n.proposals
          /\ Known(m) = Known(b) /\ m.tuples[t] = e
      BY <1>4, <1>6, <2>2, <2>4, OneChanged
    <2> HIDE DEF m
    <2>6. Remembered(m, R \cup {t})
      BY <1>6, <2>2, <2>5 DEF Sound, Remembered
    <2>7. Sound(m, G, R \cup {t}, T)
      BY <2>5, <2>6 DEF Sound
    <2> QED
      BY <1>1, <1>4, <1>6, <2>3, <2>5, <2>7 DEF o, q, t
  <1> QED
    BY <1>5, <1>6

\* What propose_keys leaves.
Asked(s, top) == {t \in top : ~s.tuples[t].learned /\ ~s.tuples[t].proposed}
Proposed(s, asked) ==
  [s EXCEPT
     !.tuples = [t \in Known(s) |->
        IF t \in asked THEN [@[t] EXCEPT !.proposed = TRUE, !.dismissed = FALSE]
        ELSE @[t]],
     !.proposals = @ \o [i \in 1 .. Cardinality(asked) |->
                          [key |-> SetToSeq(asked)[i], redemoted |-> FALSE]]]

LEMMA ProposedSound ==
  ASSUME NEW G, NEW R, NEW T, NEW s, Sound(s, G, R, T), NEW asked \in SUBSET Known(s)
  PROVE  /\ Sound(Proposed(s, asked), G, R \ asked, T)
         /\ \A t : t \notin asked => Ordinary(Proposed(s, asked), t) = Ordinary(s, t)
  <1> DEFINE n == Cardinality(asked)
             k == Len(s.proposals)
             p(i) == [key |-> SetToSeq(asked)[i], redemoted |-> FALSE]
             more == [i \in 1 .. n |-> p(i)]
             q == s.proposals \o more
             e(t) == IF t \in asked THEN [s.tuples[t] EXCEPT !.proposed = TRUE, !.dismissed = FALSE]
                     ELSE s.tuples[t]
             f == [t \in Known(s) |-> e(t)]
             o == Proposed(s, asked)
  <1>0. s \in State
    BY DEF Sound
  <1>1. IsFiniteSet(asked) /\ asked \subseteq Tuples /\ Known(s) \subseteq Tuples
        /\ IsFiniteSet(Known(s))
    BY <1>0, StateFacts, FS_Subset
  <1>2. n \in Nat /\ \A i \in 1 .. n : SetToSeq(asked)[i] \in asked
    BY <1>1, Listed
  <1>3. \A i \in 1 .. n : p(i) \in Proposal /\ p(i).key \in asked
    BY <1>1, <1>2 DEF Proposal
  <1>4. o = [s EXCEPT !.tuples = f, !.proposals = q]
    BY DEF Proposed
  <1> HIDE DEF p
  <1>5. more \in Seq(Proposal) /\ Len(more) = n /\ \A i \in 1 .. n : more[i] = p(i)
    <2> HIDE DEF n
    <2> QED
      BY <1>2, <1>3
  <1> HIDE DEF more
  <1>6. s.proposals \in Seq(Proposal) /\ k \in Nat /\ DOMAIN s.proposals = 1 .. k
    BY <1>0, StateFacts
  <1>7. /\ q \in Seq(Proposal) /\ Len(q) = k + n
        /\ \A i \in 1 .. k + n : q[i] = IF i <= k THEN s.proposals[i] ELSE more[i - k]
    <2>1. /\ q \in Seq(Proposal) /\ Len(q) = Len(s.proposals) + Len(more)
          /\ \A i \in 1 .. Len(s.proposals) + Len(more) :
               q[i] = IF i <= Len(s.proposals) THEN s.proposals[i]
                      ELSE more[i - Len(s.proposals)]
      BY <1>5, <1>6, Joined, Zenon
    <2> QED
      BY <1>5, <2>1, Zenon
  <1>8. ASSUME NEW t \in Known(s)
        PROVE  /\ e(t) \in TupleStat /\ e(t).learned = s.tuples[t].learned
               /\ e(t).maxRank = s.tuples[t].maxRank
               /\ e(t).maxBaseRank = s.tuples[t].maxBaseRank
               /\ t \notin asked => e(t).dismissed = s.tuples[t].dismissed
    <2>1. s.tuples[t] \in TupleStat
      BY <1>0, StateFacts
    <2> QED
      BY <2>1 DEF TupleStat
  <1> HIDE DEF e, q
  <1>9. f \in TupleMaps /\ DOMAIN f = Known(s) /\ \A t \in Known(s) : f[t] = e(t)
    <2>1. f \in [Known(s) -> TupleStat]
      BY <1>8
    <2>2. f \in TupleMaps
      <3> HIDE DEF f
      <3> QED
        BY <1>1, <2>1, MapMade
    <2> QED
      BY <2>2
  <1> HIDE DEF f, o
  <1>10. /\ o \in State /\ o.tuples = f /\ o.learned = s.learned /\ o.proposals = q
         /\ o.windows = s.windows /\ o.demoted = s.demoted
    BY <1>0, <1>4, <1>7, <1>9 DEF State
  <1>11. Backed(o) /\ Marked(o, G)
    BY <1>8, <1>9, <1>10 DEF Sound, Backed, Marked, InForce, Known
  <1>12. Remembered(o, R \ asked)
    BY <1>8, <1>9, <1>10 DEF Sound, Remembered, Known
  <1>13. Sound(o, G, R \ asked, T)
    BY <1>10, <1>11, <1>12, OtherRecords
  <1>14. ASSUME NEW t, t \notin asked
         PROVE  Ordinary(o, t) = Ordinary(s, t)
    <2>1. /\ Ordinary(s, t) = {i \in 1 .. k : s.proposals[i].key = t /\ ~s.proposals[i].redemoted}
          /\ Ordinary(o, t) = {i \in 1 .. k + n : q[i].key = t /\ ~q[i].redemoted}
      BY <1>6, <1>7, <1>10 DEF Ordinary, Open
    <2> HIDE DEF k, n
    <2>2. ASSUME NEW i \in 1 .. k
          PROVE  i \in 1 .. k + n /\ q[i] = s.proposals[i]
      BY <1>2, <1>6, <1>7
    <2>3. ASSUME NEW i \in 1 .. k + n, i \notin 1 .. k
          PROVE  q[i].key \in asked
      <3>1. i - k \in 1 .. n /\ q[i] = more[i - k]
        BY <1>2, <1>6, <1>7, <2>3
      <3> QED
        BY <1>3, <1>5, <3>1
    <2> QED
      BY <1>14, <2>1, <2>2, <2>3
  <1> QED
    BY <1>13, <1>14 DEF o

-----------------------------------------------------------------------------
(* The re-check of the learned entries *)

\* What Rechecked revokes, and what it leaves of the state and of the file.
Gone(s, f, fails) == {t \in Tuples : Stale(s, f, t) /\ ~(fails /\ Granting(s, f, t))}
Kept(s, f, fails) ==
  [s EXCEPT
     !.learned = [t \in Tuples |->
        IF Backfilled(s, f, t) THEN [@[t] EXCEPT !.accepted = TRUE]
        ELSE IF t \in Gone(s, f, fails) THEN [@[t] EXCEPT !.revoked = TRUE] ELSE @[t]],
     !.tuples = [t \in Known(s) |->
        IF t \in Gone(s, f, fails) THEN [@[t] EXCEPT !.learned = FALSE] ELSE @[t]]]
Granted(s, f, fails) ==
  [t \in Tuples |->
     IF t \in Gone(s, f, fails) /\ Granting(s, f, t) THEN Tail(f[t]) ELSE f[t]]

LEMMA RecheckedIs ==
  ASSUME NEW s, NEW f, NEW fails, Rechecked(s, f, fails)
  PROVE  b' = Kept(s, f, fails) /\ blocks' = Granted(s, f, fails) /\ moved' = FALSE
  BY DEF Rechecked, Kept, Granted, Gone

LEMMA KeptSound ==
  ASSUME NEW G, NEW R, NEW T, NEW s, Sound(s, G, R, T), NEW f, NEW fails
  PROVE  Sound(Kept(s, f, fails), G, R, T)
  <1> DEFINE gone == Gone(s, f, fails)
             x(t) == IF Backfilled(s, f, t) THEN [s.learned[t] EXCEPT !.accepted = TRUE]
                     ELSE IF t \in gone THEN [s.learned[t] EXCEPT !.revoked = TRUE]
                     ELSE s.learned[t]
             e(t) == IF t \in gone THEN [s.tuples[t] EXCEPT !.learned = FALSE] ELSE s.tuples[t]
             l == [t \in Tuples |-> x(t)]
             g == [t \in Known(s) |-> e(t)]
             o == Kept(s, f, fails)
  <1>0. s \in State
    BY DEF Sound
  <1>1. ASSUME NEW t \in Tuples
        PROVE  /\ x(t) \in LearnedEntry \cup {Nothing}
               /\ t \notin gone /\ InForce(s, t) => x(t) # Nothing /\ ~x(t).revoked
    <2> DEFINE y == s.learned[t]
    <2>1. y \in LearnedEntry \cup {Nothing}
      BY <1>0, StateFacts
    <2>2. Backfilled(s, f, t) \/ t \in gone => y # Nothing
      BY DEF Gone, Backfilled, Stale, InForce
    <2>3. Backfilled(s, f, t) => ~y.revoked
      BY DEF Backfilled, InForce
    <2>4. InForce(s, t) => y # Nothing /\ ~y.revoked
      BY DEF InForce
    <2>5. x(t) = IF Backfilled(s, f, t) THEN [y EXCEPT !.accepted = TRUE]
                 ELSE IF t \in gone THEN [y EXCEPT !.revoked = TRUE] ELSE y
      OBVIOUS
    <2> HIDE DEF y, gone, x
    <2>6. y # Nothing => /\ [y EXCEPT !.accepted = TRUE] \in LearnedEntry
                         /\ [y EXCEPT !.accepted = TRUE].revoked = y.revoked
                         /\ [y EXCEPT !.revoked = TRUE] \in LearnedEntry
      BY <2>1 DEF LearnedEntry
    <2> DEFINE u == [y EXCEPT !.accepted = TRUE]
               v == [y EXCEPT !.revoked = TRUE]
    <2>7. y # Nothing => u \in LearnedEntry /\ u.revoked = y.revoked /\ v \in LearnedEntry /\ u # Nothing
      BY <2>6, NothingElse
    <2>8. x(t) = IF Backfilled(s, f, t) THEN u ELSE IF t \in gone THEN v ELSE y
      BY <2>5
    <2> HIDE DEF u, v
    <2> QED
      BY <2>1, <2>2, <2>3, <2>4, <2>7, <2>8
  <1>2. ASSUME NEW t \in Known(s)
        PROVE  /\ e(t) \in TupleStat /\ e(t).learned => t \notin gone /\ s.tuples[t].learned
               /\ e(t).maxRank = s.tuples[t].maxRank
               /\ e(t).maxBaseRank = s.tuples[t].maxBaseRank
               /\ e(t).dismissed = s.tuples[t].dismissed
               /\ e(t) \in TupleStat
    <2> DEFINE y == s.tuples[t]
               z == [y EXCEPT !.learned = FALSE]
    <2>1. y \in TupleStat
      BY <1>0, StateFacts
    <2>2. e(t) = IF t \in gone THEN z ELSE y
      OBVIOUS
    <2> HIDE DEF y, gone, e
    <2>3. /\ z \in TupleStat /\ ~z.learned /\ z.maxRank = y.maxRank
          /\ z.maxBaseRank = y.maxBaseRank /\ z.dismissed = y.dismissed
      BY <2>1 DEF TupleStat
    <2> HIDE DEF z
    <2> QED
      BY <2>1, <2>2, <2>3 DEF y
  <1>3. o = [s EXCEPT !.learned = l, !.tuples = g]
    BY DEF Kept
  <1> HIDE DEF x, e
  <1>4. l \in [Tuples -> LearnedEntry \cup {Nothing}] /\ \A t \in Tuples : l[t] = x(t)
    BY <1>1
  <1>5. g \in TupleMaps /\ DOMAIN g = Known(s) /\ \A t \in Known(s) : g[t] = e(t)
    <2>1. g \in [Known(s) -> TupleStat]
      BY <1>2
    <2>2. Known(s) \in SUBSET Tuples /\ IsFiniteSet(Known(s))
      BY <1>0, StateFacts
    <2>3. g \in TupleMaps
      <3> HIDE DEF g
      <3> QED
        BY <2>1, <2>2, MapMade
    <2> QED
      BY <2>3
  <1> HIDE DEF l, g, o, gone
  <1>6. /\ o \in State /\ o.tuples = g /\ o.learned = l
        /\ o.windows = s.windows /\ o.demoted = s.demoted
    BY <1>0, <1>3, <1>4, <1>5 DEF State
  <1>7. Backed(o)
    <2> SUFFICES ASSUME NEW t \in Known(o), o.tuples[t].learned PROVE InForce(o, t)
      BY DEF Backed
    <2>1. t \in Known(s) /\ e(t).learned /\ t \in Tuples
      BY <1>0, <1>5, <1>6, StateFacts DEF Known
    <2>2. t \notin gone /\ s.tuples[t].learned
      BY <1>2, <2>1
    <2>3. InForce(s, t)
      BY <2>1, <2>2 DEF Sound, Backed
    <2>4. o.learned[t] = x(t)
      BY <1>4, <1>6, <2>1
    <2> QED
      BY <1>1, <2>1, <2>2, <2>3, <2>4 DEF InForce
  <1>8. Marked(o, G) /\ Remembered(o, R)
    BY <1>2, <1>5, <1>6 DEF Sound, Marked, Remembered, Known
  <1>9. Sound(o, G, R, T)
    BY <1>6, <1>7, <1>8, OtherRecords
  <1> QED
    BY <1>9 DEF o

LEMMA GrantedFacts ==
  ASSUME NEW s, NEW f, NEW fails, f \in [Tuples -> Seq({"learned", "accepted"})]
  PROVE  /\ Granted(s, f, fails) \in [Tuples -> Seq({"learned", "accepted"})]
         /\ \A t \in Tuples : \/ Granted(s, f, fails)[t] = f[t]
                              \/ /\ f[t] # <<>>
                                 /\ Granted(s, f, fails)[t] = Tail(f[t])
  <1> SUFFICES ASSUME NEW t \in Tuples
               PROVE  f[t] # <<>> => Tail(f[t]) \in Seq({"learned", "accepted"})
    BY DEF Granted, Granting
  <1> DEFINE q == f[t]
  <1>1. q \in Seq({"learned", "accepted"})
    OBVIOUS
  <1> HIDE DEF q
  <1>2. q # <<>> => Tail(q) \in Seq({"learned", "accepted"})
    BY <1>1
  <1> QED
    BY <1>2 DEF q

LEMMA BlockListFacts ==
  ASSUME NEW f
  PROVE  f \in BlockLists <=> /\ f \in [Tuples -> Seq({"learned", "accepted"})]
                              /\ \A t \in Tuples : Len(f[t]) <= MaxBlocks
  <1>1. ASSUME NEW q
        PROVE  q \in BoundedSeq({"learned", "accepted"}, MaxBlocks)
               <=> q \in Seq({"learned", "accepted"}) /\ Len(q) <= MaxBlocks
    BY Blocks, Numbers
  <1> QED
    BY <1>1 DEF BlockLists

-----------------------------------------------------------------------------
(* The steps *)

GraveStep ==
  \A t \in Tuples :
    /\ Len(blocks'[t]) > Len(blocks[t])
    /\ Last(blocks'[t]) = "learned"
    => t \notin past'.grave

RefusalStep ==
  crashes' = crashes => \A t \in Tuples :
    Cardinality(Ordinary(b', t)) > Cardinality(Ordinary(b, t)) => t \notin past'.refused

LEMMA InvFacts ==
  ASSUME Inv
  PROVE  /\ hour \in Hours /\ past \in Past
         /\ past.grave \subseteq Tuples /\ past.graveSaved \subseteq Tuples
         /\ past.refused \subseteq Tuples /\ past.tally \in Tallies
         /\ b \in State /\ disk \in State
         /\ b.proposals \in Seq(Proposal)
         /\ blocks \in [Tuples -> Seq({"learned", "accepted"})]
         /\ \A t \in Tuples : /\ blocks[t] \in Seq({"learned", "accepted"})
                              /\ Len(blocks[t]) \in Nat /\ Len(blocks[t]) <= MaxBlocks
  <1>1. past \in Past /\ b \in State /\ disk \in State /\ hour \in Hours /\ blocks \in BlockLists
    BY DEF Inv, Sound
  <1>2. /\ past.grave \subseteq Tuples /\ past.graveSaved \subseteq Tuples
        /\ past.refused \subseteq Tuples /\ past.tally \in Tallies
    BY <1>1 DEF Past, Tallies
  <1>3. /\ blocks \in [Tuples -> Seq({"learned", "accepted"})]
        /\ \A t \in Tuples : Len(blocks[t]) <= MaxBlocks
    BY <1>1, BlockListFacts
  <1>4. \A t \in Tuples : blocks[t] \in Seq({"learned", "accepted"}) /\ Len(blocks[t]) \in Nat
    <2> SUFFICES ASSUME NEW t \in Tuples
                 PROVE  blocks[t] \in Seq({"learned", "accepted"}) /\ Len(blocks[t]) \in Nat
      OBVIOUS
    <2>1. blocks[t] \in Seq({"learned", "accepted"})
      BY <1>3
    <2> QED
      BY <2>1
  <1> QED
    BY <1>1, <1>2, <1>3, <1>4, StateFacts

\* No pattern has more ordinary proposals than before: none was proposed.
LEMMA NoneProposed ==
  ASSUME Inv, \A t \in Tuples : Ordinary(b', t) = Ordinary(b, t)
  PROVE  RefusalStep
  <1> SUFFICES ASSUME NEW t \in Tuples
               PROVE  ~(Cardinality(Ordinary(b', t)) > Cardinality(Ordinary(b, t)))
    BY DEF RefusalStep
  <1>1. Cardinality(Ordinary(b, t)) \in Nat
    BY InvFacts, OrdinaryFinite
  <1> QED
    BY <1>1

LEMMA NoneTaken ==
  ASSUME Inv, \A t \in Tuples : Cardinality(Ordinary(b', t)) <= Cardinality(Ordinary(b, t)),
         b'.proposals \in Seq(Proposal)
  PROVE  RefusalStep
  <1> SUFFICES ASSUME NEW t \in Tuples
               PROVE  ~(Cardinality(Ordinary(b', t)) > Cardinality(Ordinary(b, t)))
    BY DEF RefusalStep
  <1>1. Cardinality(Ordinary(b, t)) \in Nat /\ Cardinality(Ordinary(b', t)) \in Nat
    BY InvFacts, OrdinaryFinite
  <1> QED
    BY <1>1

\* No block is added.
LEMMA NoneGranted ==
  ASSUME Inv, \A t \in Tuples : \/ blocks'[t] = blocks[t]
                                \/ blocks[t] # <<>> /\ blocks'[t] = Tail(blocks[t])
  PROVE  GraveStep
  <1> SUFFICES ASSUME NEW t \in Tuples PROVE ~(Len(blocks'[t]) > Len(blocks[t]))
    BY DEF GraveStep
  <1> DEFINE q == blocks[t]
             r == blocks'[t]
  <1>1. q \in Seq({"learned", "accepted"}) /\ (r = q \/ (q # <<>> /\ r = Tail(q)))
    BY InvFacts
  <1> HIDE DEF q, r
  <1>2. Len(q) \in Nat /\ (r = Tail(q) /\ q # <<>> => Len(r) = Len(q) - 1)
    BY <1>1
  <1>3. ~(Len(r) > Len(q))
    BY <1>1, <1>2
  <1> QED
    BY <1>3 DEF q, r

LEMMA SameOrdinary ==
  ASSUME NEW s, NEW s2, s2.proposals = s.proposals, NEW t
  PROVE  Ordinary(s2, t) = Ordinary(s, t)
  BY DEF Ordinary, Open

LEMMA EmitPreserves ==
  ASSUME Inv, NEW t \in Tuples, NEW common, NEW quiet \in BOOLEAN, NEW g \in Grades[t],
         Emit(t, g, common, quiet)
  PROVE  Inv' /\ GraveStep /\ RefusalStep
  <1> DEFINE G == past.grave
             R == past.refused
             T == past.tally
             G2 == G \cup Fresh(t, g)
             d == Decision(t, Noted(b, t, g), common)
             counted == blocks[t] = <<>> /\ ~quiet /\ g.severity >= High
             T2 == IF counted THEN Counted(T, t) ELSE T
             seen == Observed(t, g, common)
             told(w) == IF w THEN seen ELSE MarkRevoked(seen, t)
             new == [past EXCEPT !.grave = G2, !.tally = T2]
  <1>0. /\ hour \in Hours /\ past \in Past /\ G \subseteq Tuples /\ T \in Tallies
        /\ b \in State /\ b.proposals \in Seq(Proposal)
        /\ Sound(b, G, R, T) /\ Sound(disk, past.graveSaved, R, T)
    BY InvFacts DEF Inv
  <1>1. PICK written \in BOOLEAN :
          /\ written \/ d = "entry"
          /\ b' = IF counted THEN NoteAlert(told(written), t) ELSE told(written)
          /\ blocks' = IF d = "entry" /\ written
                       THEN [blocks EXCEPT ![t] = Append(@, "learned")] ELSE blocks
    BY DEF Emit
  <1>2. /\ Len(blocks'[t]) <= MaxBlocks
        /\ UNCHANGED <<hour, disk, official, moved, crashes, commands>>
    BY DEF Emit
  <1>3. past' = new
    <2> DEFINE m == Min({T[t][hour] + 1, NoisyPerDay + 1})
    <2>1. past' = [past EXCEPT
            !.grave = @ \cup Fresh(t, g),
            !.tally[t][hour] = IF counted THEN Min({@ + 1, NoisyPerDay + 1}) ELSE @]
      BY DEF Emit, Fresh
    <2>2. /\ T \in [Tuples -> [Hours -> 0 .. NoisyPerDay + 1]]
          /\ [T EXCEPT ![t][hour] = T[t][hour]] = T
      <3>1. T \in [Tuples -> [Hours -> 0 .. NoisyPerDay + 1]]
        BY <1>0 DEF Tallies
      <3> DEFINE v == T[t]
      <3>2. v \in [Hours -> 0 .. NoisyPerDay + 1] /\ [v EXCEPT ![hour] = v[hour]] = v
        BY <1>0, <3>1
      <3>3. [T EXCEPT ![t][hour] = T[t][hour]] = [T EXCEPT ![t] = [v EXCEPT ![hour] = v[hour]]]
        OBVIOUS
      <3>4. [T EXCEPT ![t] = v] = T
        BY <3>1
      <3> QED
        BY <3>1, <3>2, <3>3, <3>4
    <2>3. CASE counted
      <3>1. past' = [past EXCEPT !.grave = @ \cup Fresh(t, g), !.tally[t][hour] = m]
        BY <2>1, <2>3
      <3>2. T2 = [T EXCEPT ![t][hour] = m]
        BY <2>3 DEF Counted
      <3> HIDE DEF m, counted, T2
      <3> QED
        BY <1>0, <3>1, <3>2 DEF Past
    <2>4. CASE ~counted
      <3>1. past' = [past EXCEPT !.grave = @ \cup Fresh(t, g), !.tally[t][hour] = T[t][hour]]
        BY <2>1, <2>4
      <3>2. T2 = [T EXCEPT ![t][hour] = T[t][hour]]
        BY <2>2, <2>4
      <3> HIDE DEF counted, T2
      <3> QED
        BY <1>0, <3>1, <3>2 DEF Past
    <2> QED
      BY <2>3, <2>4
  <1>4. /\ T2 \in Tallies
        /\ \A x \in Tuples, h \in Hours : T[x][h] <= T2[x][h]
    <2>1. \A x \in Tuples, h \in Hours : T[x][h] <= T[x][h]
      BY <1>0, Numbers DEF Tallies
    <2> QED
      BY <1>0, <2>1, CountedFacts
  <1>5. /\ Sound(seen, G2, R, T)
        /\ d # "proposed" => seen.proposals = b.proposals
        /\ d = "proposed" => seen.proposals = Append(b.proposals, [key |-> t, redemoted |-> FALSE])
    <2> HIDE DEF G, R, T
    <2>1. /\ Sound(Observed(t, g, common), G \cup Fresh(t, g), R, T)
          /\ Decision(t, Noted(b, t, g), common) # "proposed" =>
               Observed(t, g, common).proposals = b.proposals
          /\ Decision(t, Noted(b, t, g), common) = "proposed" =>
               Observed(t, g, common).proposals
                 = Append(b.proposals, [key |-> t, redemoted |-> FALSE])
      <3> HIDE DEF G2, d, counted, T2, seen, told, new
      <3> QED
        BY <1>0, ObservedSound
    <2> QED
      BY <2>1
  <1>6. d # "none" => t \notin G2 /\ t \notin R
    BY <1>0, EligibleFacts
  <1>7. G2 \subseteq Tuples
    BY <1>0 DEF Fresh
  <1>8. new \in Past /\ new.grave = G2 /\ new.graveSaved = past.graveSaved
        /\ new.refused = R /\ new.tally = T2
    <2> HIDE DEF G2, T2
    <2> QED
      BY <1>0, <1>4, <1>7 DEF Past, Tallies
  <1> HIDE DEF new, counted, T2, G2, d, seen
  <1> DEFINE s == told(written)
  <1>9. Sound(s, G2, R, T) /\ s.proposals = seen.proposals
    <2>1. Sound(MarkRevoked(seen, t), G2, R, T) /\ MarkRevoked(seen, t).proposals = seen.proposals
      BY <1>5, MarkRevokedSound
    <2> QED
      BY <1>5, <2>1
  <1>10. b' = IF counted THEN NoteAlert(s, t) ELSE s
    BY <1>1
  <1> HIDE DEF told
  <1> HIDE DEF s
  <1>11. /\ Sound(b', G2, R, T2)
         /\ \/ b'.proposals = s.proposals
            \/ b'.proposals = Append(s.proposals, Redemotion(t))
    <2>1. CASE counted
      <3>1. T2 = Counted(T, t) /\ b' = NoteAlert(s, t)
        BY <1>10, <2>1 DEF T2
      <3>2. /\ Sound(NoteAlert(s, t), G2, R, Counted(T, t))
            /\ \/ NoteAlert(s, t).proposals = s.proposals
               \/ NoteAlert(s, t).proposals = Append(s.proposals, Redemotion(t))
        <4> HIDE DEF G, R, T
        <4>1. T \in Tallies /\ Sound(s, G2, R, T) /\ hour \in Hours /\ t \in Tuples
          BY <1>0, <1>9
        <4>2. Sound(NoteAlert(s, t), G2, R, Counted(T, t))
          BY <4>1, NoteAlertSound
        <4>3. \/ NoteAlert(s, t).proposals = s.proposals
              \/ NoteAlert(s, t).proposals = Append(s.proposals, Redemotion(t))
          <5>1. s \in State
            BY <1>9 DEF Sound
          <5> QED
            BY <4>1, <5>1, NoteAlertAsks
        <4> QED
          BY <4>2, <4>3
      <3> QED
        BY <3>1, <3>2
    <2>2. CASE ~counted
      BY <1>9, <1>10, <2>2 DEF T2
    <2> QED
      BY <2>1, <2>2
  <1>12. Sound(disk, past.graveSaved, R, T2)
    BY <1>0, <1>4, TallyGrows
  <1>13. blocks' \in BlockLists
    <2> DEFINE q == blocks[t]
               L == Seq({"learned", "accepted"})
    <2>1. /\ q \in L /\ blocks \in [Tuples -> L]
          /\ \A x \in Tuples : Len(blocks[x]) <= MaxBlocks
      BY InvFacts
    <2>2. Append(q, "learned") \in L
      BY <2>1
    <2>3. blocks' \in [Tuples -> L] /\ \A x \in Tuples \ {t} : blocks'[x] = blocks[x]
      <3> HIDE DEF L
      <3> QED
        BY <1>1, <2>1, <2>2
    <2>4. \A x \in Tuples : Len(blocks'[x]) <= MaxBlocks
      BY <1>2, <2>1, <2>3
    <2> QED
      BY <2>3, <2>4, BlockListFacts
  <1>14. Inv'
    BY <1>2, <1>3, <1>8, <1>11, <1>12, <1>13 DEF Inv
  <1>15. GraveStep
    <2>1. CASE d = "entry" /\ written
      <3>1. t \notin past'.grave
        BY <1>3, <1>6, <1>8, <2>1
      <3>2. blocks' = [blocks EXCEPT ![t] = Append(@, "learned")]
        BY <1>1, <2>1
      <3>3. \A x \in Tuples \ {t} : blocks'[x] = blocks[x] /\ Len(blocks[x]) \in Nat
        BY <3>2, InvFacts
      <3>4. \A x \in Tuples \ {t} : ~(Len(blocks'[x]) > Len(blocks[x]))
        BY <3>3
      <3> QED
        BY <3>1, <3>4 DEF GraveStep
    <2>2. CASE ~(d = "entry" /\ written)
      BY <1>1, <2>2, NoneGranted
    <2> QED
      BY <2>1, <2>2
  <1>16. ASSUME NEW x \in Tuples
         PROVE  /\ Ordinary(b', x) = Ordinary(s, x)
                /\ x # t \/ d # "proposed" => Ordinary(s, x) = Ordinary(b, x)
    <2>1. s.proposals \in Seq(Proposal)
      BY <1>9, StateFacts DEF Sound
    <2> DEFINE p == Redemotion(t)
               o == [key |-> t, redemoted |-> FALSE]
    <2>2. p \in Proposal /\ o \in Proposal /\ p.redemoted /\ o.key = t
      BY DEF Proposal, Redemotion
    <2> HIDE DEF p, o
    <2>3. Ordinary(b', x) = Ordinary(s, x)
      <3>1. CASE b'.proposals = s.proposals
        BY <3>1, SameOrdinary
      <3>2. CASE b'.proposals = Append(s.proposals, p)
        <4>1. p \in Proposal /\ (p.key # x \/ p.redemoted)
          BY <2>2
        <4> QED
          BY <2>1, <3>2, <4>1, AppendedOrdinary
      <3> QED
        BY <1>11, <3>1, <3>2 DEF p
    <2>4. CASE d # "proposed"
      <3>1. s.proposals = b.proposals
        BY <1>5, <1>9, <2>4
      <3> QED
        BY <2>3, <3>1, SameOrdinary
    <2>5. CASE d = "proposed"
      <3>1. s.proposals = Append(b.proposals, o)
        BY <1>5, <1>9, <2>5 DEF o
      <3>2. x # t => Ordinary(s, x) = Ordinary(b, x)
        BY <1>0, <2>2, <3>1, AppendedOrdinary
      <3> QED
        BY <2>3, <2>5, <3>2
    <2> QED
      BY <2>4, <2>5
  <1>17. RefusalStep
    <2>1. CASE d # "proposed"
      BY <1>16, <2>1, NoneProposed
    <2>2. CASE d = "proposed"
      <3>1. t \notin past'.refused
        BY <1>3, <1>6, <1>8, <2>2
      <3> SUFFICES ASSUME NEW x \in Tuples, x # t
                   PROVE  ~(Cardinality(Ordinary(b', x)) > Cardinality(Ordinary(b, x)))
        BY <3>1 DEF RefusalStep
      <3>2. Ordinary(b', x) = Ordinary(b, x)
        BY <1>16
      <3>3. Cardinality(Ordinary(b, x)) \in Nat
        BY <1>0, OrdinaryFinite
      <3> QED
        BY <3>2, <3>3
    <2> QED
      BY <2>1, <2>2
  <1> QED
    BY <1>14, <1>15, <1>17

LEMMA CrowdPreserves ==
  ASSUME Inv, NEW gone, Crowd(gone)
  PROVE  Inv' /\ GraveStep /\ RefusalStep
  <1> DEFINE new == [past EXCEPT !.grave = @ \ gone]
             s == [b EXCEPT !.tuples = [t \in Known(b) \ gone |-> b.tuples[t]]]
  <1>1. /\ gone \in SUBSET Prunable(b) /\ b' = s /\ past' = new
        /\ UNCHANGED <<hour, disk, blocks, official, moved, crashes, commands>>
    BY DEF Crowd
  <1>2. Sound(s, past.grave \ gone, past.refused, past.tally)
    BY <1>1, CrowdSound DEF Inv
  <1>3. new \in Past /\ new.grave = past.grave \ gone /\ new.graveSaved = past.graveSaved
        /\ new.refused = past.refused /\ new.tally = past.tally
    BY InvFacts DEF Past
  <1>4. s.proposals = b.proposals
    BY InvFacts DEF State
  <1> HIDE DEF s, new
  <1>5. Inv'
    BY <1>1, <1>2, <1>3 DEF Inv
  <1>6. GraveStep
    BY <1>1, NoneGranted
  <1>7. \A t \in Tuples : Ordinary(b', t) = Ordinary(b, t)
    BY <1>1, <1>4, SameOrdinary
  <1> QED
    BY <1>5, <1>6, <1>7, NoneProposed

LEMMA AdvancePreserves ==
  ASSUME Inv, Advance
  PROVE  Inv' /\ GraveStep /\ RefusalStep
  <1>1. hour' \in Hours /\ UNCHANGED <<b, disk, blocks, official, moved, crashes, commands, past>>
    BY InvFacts, Numbers DEF Advance, Hours
  <1>2. Inv'
    BY <1>1 DEF Inv
  <1>3. GraveStep
    BY <1>1, NoneGranted
  <1>4. \A t \in Tuples : Ordinary(b', t) = Ordinary(b, t)
    BY <1>1, SameOrdinary
  <1> QED
    BY <1>2, <1>3, <1>4, NoneProposed

LEMMA TickPreserves ==
  ASSUME Inv, NEW due \in BOOLEAN, Tick(due)
  PROVE  Inv' /\ GraveStep /\ RefusalStep
  <1> DEFINE s == ClearStale(b)
             new == [past EXCEPT !.graveSaved = past.grave]
  <1>1. /\ b' = s /\ disk' = IF due THEN s ELSE disk
        /\ past' = IF due THEN new ELSE past
        /\ UNCHANGED <<hour, blocks, official, moved, crashes, commands>>
    BY DEF Tick
  <1>2. Sound(s, past.grave, past.refused, past.tally) /\ s.proposals = b.proposals
    BY InvFacts, ClearStaleSound DEF Inv
  <1>3. new \in Past /\ new.grave = past.grave /\ new.graveSaved = past.grave
        /\ new.refused = past.refused /\ new.tally = past.tally
    BY InvFacts DEF Past
  <1> HIDE DEF s, new
  <1>4. Inv'
    BY <1>1, <1>2, <1>3 DEF Inv
  <1>5. GraveStep
    BY <1>1, NoneGranted
  <1>6. \A t \in Tuples : Ordinary(b', t) = Ordinary(b, t)
    BY <1>1, <1>2, SameOrdinary
  <1> QED
    BY <1>4, <1>5, <1>6, NoneProposed

LEMMA CommandCounted ==
  ASSUME Inv, Command
  PROVE  commands' \in 0 .. MaxCommands
  BY Numbers DEF Inv, Command

LEMMA PackageChangePreserves ==
  ASSUME Inv, NEW t \in Tuples, PackageChange(t)
  PROVE  Inv' /\ GraveStep /\ RefusalStep
  <1>1. /\ official' \subseteq Tuples /\ moved' \in BOOLEAN /\ commands' \in 0 .. MaxCommands
        /\ UNCHANGED <<hour, b, disk, blocks, crashes, past>>
    BY CommandCounted DEF PackageChange, Inv
  <1>2. Inv'
    BY <1>1 DEF Inv
  <1>3. GraveStep
    BY <1>1, NoneGranted
  <1>4. \A x \in Tuples : Ordinary(b', x) = Ordinary(b, x)
    BY <1>1, SameOrdinary
  <1> QED
    BY <1>2, <1>3, <1>4, NoneProposed

LEMMA KeptProposals ==
  ASSUME NEW s \in State, NEW f, NEW fails
  PROVE  Kept(s, f, fails).proposals = s.proposals
  BY DEF Kept, State

LEMMA GrantedBlocks ==
  ASSUME NEW f \in BlockLists, NEW s, NEW fails
  PROVE  Granted(s, f, fails) \in BlockLists
  <1> DEFINE g == Granted(s, f, fails)
             L == Seq({"learned", "accepted"})
  <1>1. f \in [Tuples -> L] /\ \A t \in Tuples : Len(f[t]) <= MaxBlocks
    BY BlockListFacts
  <1>2. g \in [Tuples -> L] /\ \A t \in Tuples : g[t] = f[t] \/ (f[t] # <<>> /\ g[t] = Tail(f[t]))
    BY <1>1, GrantedFacts
  <1> HIDE DEF g
  <1>3. ASSUME NEW t \in Tuples
        PROVE  Len(g[t]) <= MaxBlocks
    <2> DEFINE q == f[t]
    <2>1. q \in L /\ Len(q) <= MaxBlocks /\ (g[t] = q \/ (q # <<>> /\ g[t] = Tail(q)))
      BY <1>1, <1>2
    <2> HIDE DEF q
    <2>2. Len(q) \in Nat /\ (q # <<>> => Len(Tail(q)) = Len(q) - 1)
      BY <2>1
    <2> QED
      BY <2>1, <2>2, Numbers
  <1>4. g \in BlockLists
    BY <1>2, <1>3, BlockListFacts
  <1> QED
    BY <1>4 DEF g

LEMMA OnPacmanChangePreserves ==
  ASSUME Inv, NEW fails \in BOOLEAN, OnPacmanChange(fails)
  PROVE  Inv' /\ GraveStep /\ RefusalStep
  <1> DEFINE s == Kept(b, blocks, fails)
             f == Granted(b, blocks, fails)
  <1>1. /\ b' = s /\ blocks' = f /\ moved' = FALSE
        /\ UNCHANGED <<hour, disk, official, crashes, commands, past>>
    BY RecheckedIs DEF OnPacmanChange
  <1>2. Sound(s, past.grave, past.refused, past.tally) /\ s.proposals = b.proposals
    BY InvFacts, KeptSound, KeptProposals DEF Inv
  <1>3. f \in BlockLists
    BY GrantedBlocks DEF Inv
  <1>4. \A t \in Tuples : f[t] = blocks[t] \/ (blocks[t] # <<>> /\ f[t] = Tail(blocks[t]))
    BY InvFacts, GrantedFacts
  <1> HIDE DEF s, f
  <1>5. Inv'
    BY <1>1, <1>2, <1>3 DEF Inv
  <1>6. GraveStep
    BY <1>1, <1>4, NoneGranted
  <1>7. \A t \in Tuples : Ordinary(b', t) = Ordinary(b, t)
    BY <1>1, <1>2, SameOrdinary
  <1> QED
    BY <1>5, <1>6, <1>7, NoneProposed

\* A crash puts the file in the place of the memory, and counts.
LEMMA RestartedPreserves ==
  ASSUME Inv, NEW f \in BlockLists, NEW fails \in BOOLEAN, Restarted(f, fails),
         commands' \in 0 .. MaxCommands
  PROVE  Inv' /\ RefusalStep /\ blocks' = Granted(disk, f, fails)
  <1> DEFINE w == [t \in Tuples |-> Rolled(disk.windows[t])]
             m == [disk EXCEPT !.windows = w]
             s == Kept(m, f, fails)
             new == [past EXCEPT !.grave = past.graveSaved]
  <1>1. /\ crashes < MaxCrashes /\ crashes' = crashes + 1 /\ past' = new
        /\ b' = s /\ blocks' = Granted(m, f, fails) /\ moved' = FALSE
        /\ UNCHANGED <<hour, disk, official>>
    <2>1. /\ crashes < MaxCrashes /\ crashes' = crashes + 1 /\ past' = new
          /\ Rechecked(m, f, fails)
          /\ UNCHANGED <<hour, disk, official>>
      BY DEF Restarted
    <2> HIDE DEF m
    <2> QED
      BY <2>1, RecheckedIs
  <1>2. w \in [Tuples -> [Hours -> Nat]] /\ \A t \in Tuples, h \in Hours : w[t][h] <= disk.windows[t][h]
    BY InvFacts, StateFacts, RolledFacts
  <1> HIDE DEF w
  <1>3. /\ m \in State /\ m.tuples = disk.tuples /\ m.learned = disk.learned
        /\ m.demoted = disk.demoted /\ m.windows = w
    BY <1>2, InvFacts DEF State
  <1>4. Granted(m, f, fails) = Granted(disk, f, fails)
    BY <1>3 DEF Granted, Gone, Granting, Stale, Backfilled, InForce, Known
  <1> HIDE DEF m
  <1>5. Sound(m, past.graveSaved, past.refused, past.tally)
    <2>1. \A t \in Tuples : m.demoted[t] \in {disk.demoted[t], Nothing}
      BY <1>3
    <2>2. Sound(disk, past.graveSaved, past.refused, past.tally) /\ past.tally \in Tallies
      BY InvFacts DEF Inv
    <2>3. \A t \in Tuples, h \in Hours : m.windows[t][h] <= disk.windows[t][h]
      BY <1>2, <1>3
    <2> QED
      BY <1>3, <2>1, <2>2, <2>3, FewerSound
  <1>6. Sound(s, past.graveSaved, past.refused, past.tally)
    BY <1>5, KeptSound
  <1>7. new \in Past /\ new.grave = past.graveSaved /\ new.graveSaved = past.graveSaved
        /\ new.refused = past.refused /\ new.tally = past.tally
    BY InvFacts DEF Past
  <1>8. Granted(m, f, fails) \in BlockLists
    BY GrantedBlocks
  <1>9. crashes' \in 0 .. MaxCrashes /\ crashes' # crashes
    BY <1>1, Numbers DEF Inv
  <1> HIDE DEF s, new
  <1>10. Inv'
    BY <1>1, <1>6, <1>7, <1>8, <1>9 DEF Inv
  <1>11. RefusalStep
    BY <1>9 DEF RefusalStep
  <1> QED
    BY <1>1, <1>4, <1>10, <1>11

LEMMA CrashPreserves ==
  ASSUME Inv, NEW fails \in BOOLEAN, Crash(fails)
  PROVE  Inv' /\ GraveStep /\ RefusalStep
  <1>1. Restarted(blocks, fails) /\ blocks \in BlockLists /\ commands' \in 0 .. MaxCommands
    BY DEF Crash, Inv
  <1>2. Inv' /\ RefusalStep /\ blocks' = Granted(disk, blocks, fails)
    BY <1>1, RestartedPreserves
  <1>3. \A t \in Tuples : \/ blocks'[t] = blocks[t]
                          \/ blocks[t] # <<>> /\ blocks'[t] = Tail(blocks[t])
    <2> DEFINE g == Granted(disk, blocks, fails)
    <2>1. \A t \in Tuples : \/ g[t] = blocks[t]
                            \/ blocks[t] # <<>> /\ g[t] = Tail(blocks[t])
      BY InvFacts, GrantedFacts
    <2> HIDE DEF g
    <2>2. blocks' = g
      BY <1>2 DEF g
    <2> QED
      BY <2>1, <2>2
  <1> QED
    BY <1>2, <1>3, NoneGranted

LEMMA RelearnPreserves ==
  ASSUME Inv, NEW days \in Nat, Relearn(days)
  PROVE  Inv' /\ GraveStep /\ RefusalStep
  <1> DEFINE u == hour + days * HoursPerDay
             s == Relearned(b, u)
             new == [past EXCEPT !.grave = {}, !.graveSaved = {}, !.refused = {}]
  <1>1. /\ b' = s /\ disk' = s /\ past' = new /\ commands' \in 0 .. MaxCommands
        /\ UNCHANGED <<hour, blocks, official, moved, crashes>>
    BY CommandCounted DEF Relearn, Relearned
  <1>2. u \in Int
    <2>1. days * HoursPerDay \in Nat
      BY Numbers
    <2> QED
      BY <2>1, InvFacts, Numbers DEF Hours
  <1>3. Sound(s, {}, {}, past.tally)
    <2> HIDE DEF u
    <2> QED
      BY <1>2, RelearnedSound DEF Inv
  <1>4. new \in Past /\ new.grave = {} /\ new.graveSaved = {}
        /\ new.refused = {} /\ new.tally = past.tally
    BY InvFacts DEF Past
  <1> HIDE DEF s, new
  <1>5. Inv'
    BY <1>1, <1>3, <1>4 DEF Inv
  <1>6. GraveStep
    BY <1>1, NoneGranted
  <1>7. RefusalStep
    BY <1>1, <1>4 DEF RefusalStep
  <1> QED
    BY <1>5, <1>6, <1>7

\* A block of an accepted proposal is added: within the bound, and not a learned one.
LEMMA BlockAdded ==
  ASSUME Inv, NEW t \in Tuples, Len(blocks[t]) < MaxBlocks
  PROVE  LET f == [blocks EXCEPT ![t] = Append(@, "accepted")] IN
         /\ f \in BlockLists
         /\ \A x \in Tuples : \/ f[x] = blocks[x]
                              \/ f[x] = Append(blocks[x], "accepted")
  <1> DEFINE q == blocks[t]
             r == Append(q, "accepted")
             f == [blocks EXCEPT ![t] = r]
             L == Seq({"learned", "accepted"})
  <1>1. q \in L /\ Len(q) \in Nat /\ Len(q) < MaxBlocks /\ blocks \in [Tuples -> L]
    BY InvFacts
  <1>2. r \in L /\ Len(r) = Len(q) + 1
    <2> HIDE DEF q
    <2> QED
      BY <1>1
  <1> HIDE DEF r, L
  <1>3. f \in [Tuples -> L] /\ f[t] = r /\ \A x \in Tuples \ {t} : f[x] = blocks[x]
    BY <1>1, <1>2
  <1>4. \A x \in Tuples : Len(f[x]) <= MaxBlocks
    <2>1. Len(r) <= MaxBlocks
      BY <1>1, <1>2, Numbers
    <2> QED
      BY <1>3, <2>1, InvFacts
  <1>5. f \in BlockLists
    BY <1>3, <1>4, BlockListFacts DEF L
  <1> QED
    BY <1>3, <1>5 DEF r

LEMMA AcceptedIsNotLearned ==
  ASSUME Inv, NEW f, \A x \in Tuples : \/ f[x] = blocks[x]
                                       \/ f[x] = Append(blocks[x], "accepted"),
         \A x \in Tuples : blocks'[x] = f[x] \/ (f[x] # <<>> /\ blocks'[x] = Tail(f[x]))
  PROVE  GraveStep
  <1> SUFFICES ASSUME NEW t \in Tuples, Len(blocks'[t]) > Len(blocks[t])
               PROVE  Last(blocks'[t]) # "learned"
    BY DEF GraveStep
  <1> DEFINE q == blocks[t]
             y == f[t]
             r == blocks'[t]
  <1>1. /\ q \in Seq({"learned", "accepted"}) /\ Len(q) \in Nat
        /\ y = q \/ y = Append(q, "accepted")
        /\ r = y \/ (y # <<>> /\ r = Tail(y))
        /\ Len(r) > Len(q)
    BY InvFacts
  <1> HIDE DEF q, r, y
  <1>2. /\ Append(q, "accepted") \in Seq({"learned", "accepted"})
        /\ Len(Append(q, "accepted")) = Len(q) + 1
        /\ Append(q, "accepted")[Len(q) + 1] = "accepted"
    BY <1>1
  <1>3. y \in Seq({"learned", "accepted"}) /\ Len(y) <= Len(q) + 1
    <2>1. CASE y = q
      BY <1>1, <2>1
    <2>2. CASE y = Append(q, "accepted")
      BY <1>1, <1>2, <2>2
    <2> QED
      BY <1>1, <2>1, <2>2
  <1>4. y # <<>> => Len(Tail(y)) = Len(y) - 1 /\ Len(y) \in Nat
    BY <1>3
  <1>5. r = y
    BY <1>1, <1>3, <1>4
  <1>6. r = Append(q, "accepted")
    BY <1>1, <1>5
  <1>7. Last(r) = "accepted"
    BY <1>2, <1>6 DEF Last
  <1> QED
    BY <1>7 DEF r

LEMMA AcceptPreserves ==
  ASSUME Inv, NEW i \in DOMAIN b.proposals, Accept(i)
  PROVE  Inv' /\ GraveStep /\ RefusalStep
  <1> DEFINE t == b.proposals[i].key
             s == Accepted(i)
             f == [blocks EXCEPT ![t] = Append(@, "accepted")]
             new == [past EXCEPT !.graveSaved = past.grave]
  <1>1. /\ Len(blocks[t]) < MaxBlocks /\ b' = s /\ commands' \in 0 .. MaxCommands
        /\ \/ blocks' = f /\ disk' = s /\ past' = new
           \/ UNCHANGED <<blocks, disk, past>>
        /\ UNCHANGED <<hour, official, moved, crashes>>
    BY CommandCounted DEF Accept
  <1>2. /\ Sound(s, past.grave, past.refused, past.tally) /\ t \in Tuples
        /\ s.proposals = RemoveAt(b.proposals, i)
    BY AcceptedSound DEF Inv
  <1>3. new \in Past /\ new.grave = past.grave /\ new.graveSaved = past.grave
        /\ new.refused = past.refused /\ new.tally = past.tally
    BY InvFacts DEF Past
  <1>4. /\ f \in BlockLists
        /\ \A x \in Tuples : f[x] = blocks[x] \/ f[x] = Append(blocks[x], "accepted")
    <2> HIDE DEF t
    <2> QED
      BY <1>1, <1>2, BlockAdded
  <1> HIDE DEF s, new, f
  <1>5. Inv'
    BY <1>1, <1>2, <1>3, <1>4 DEF Inv
  <1>6. GraveStep
    <2>1. CASE blocks' = f
      BY <1>4, <2>1, AcceptedIsNotLearned
    <2>2. CASE blocks' = blocks
      BY <2>2, NoneGranted
    <2> QED
      BY <1>1, <2>1, <2>2
  <1>7. \A x \in Tuples : Cardinality(Ordinary(b', x)) <= Cardinality(Ordinary(b, x))
    BY <1>1, <1>2, InvFacts, RemovedOrdinary
  <1>8. b'.proposals \in Seq(Proposal)
    BY <1>1, <1>2, InvFacts, Removed
  <1> QED
    BY <1>5, <1>6, <1>7, <1>8, NoneTaken

LEMMA AcceptCutPreserves ==
  ASSUME Inv, NEW i \in DOMAIN b.proposals, AcceptCut(i)
  PROVE  Inv' /\ GraveStep /\ RefusalStep
  <1> DEFINE t == b.proposals[i].key
             f == [blocks EXCEPT ![t] = Append(@, "accepted")]
             g == Granted(disk, f, FALSE)
  <1>1. Len(blocks[t]) < MaxBlocks /\ Restarted(f, FALSE) /\ commands' \in 0 .. MaxCommands
    BY CommandCounted DEF AcceptCut
  <1>2. t \in Tuples
    BY AcceptedSound DEF Inv
  <1>3. /\ f \in BlockLists
        /\ \A x \in Tuples : f[x] = blocks[x] \/ f[x] = Append(blocks[x], "accepted")
    <2> HIDE DEF t
    <2> QED
      BY <1>1, <1>2, BlockAdded
  <1> HIDE DEF f
  <1>4. Inv' /\ RefusalStep /\ blocks' = g
    BY <1>1, <1>3, RestartedPreserves
  <1>5. \A x \in Tuples : g[x] = f[x] \/ (f[x] # <<>> /\ g[x] = Tail(f[x]))
    BY <1>3, BlockListFacts, GrantedFacts
  <1> HIDE DEF g
  <1>6. GraveStep
    BY <1>3, <1>4, <1>5, AcceptedIsNotLearned
  <1> QED
    BY <1>4, <1>6

LEMMA DismissPreserves ==
  ASSUME Inv, NEW i \in DOMAIN b.proposals, Dismiss(i)
  PROVE  Inv' /\ GraveStep /\ RefusalStep
  <1> DEFINE t == b.proposals[i].key
             s == Dismissed(i)
             R == IF t \in Known(b) THEN past.refused \cup {t} ELSE past.refused
             new == [past EXCEPT !.graveSaved = past.grave, !.refused = R]
  <1>1. /\ b' = s /\ disk' = s /\ past' = new /\ commands' \in 0 .. MaxCommands
        /\ UNCHANGED <<hour, blocks, official, moved, crashes>>
    BY CommandCounted DEF Dismiss
  <1>2. /\ Sound(s, past.grave, R, past.tally) /\ t \in Tuples
        /\ s.proposals = RemoveAt(b.proposals, i)
    BY DismissedSound DEF Inv
  <1>3. R \subseteq Tuples
    BY <1>2, InvFacts
  <1> HIDE DEF R
  <1>4. new \in Past /\ new.grave = past.grave /\ new.graveSaved = past.grave
        /\ new.refused = R /\ new.tally = past.tally
    BY <1>3, InvFacts DEF Past
  <1> HIDE DEF s, new
  <1>5. Inv'
    BY <1>1, <1>2, <1>4 DEF Inv
  <1>6. GraveStep
    BY <1>1, NoneGranted
  <1>7. \A x \in Tuples : Cardinality(Ordinary(b', x)) <= Cardinality(Ordinary(b, x))
    BY <1>1, <1>2, InvFacts, RemovedOrdinary
  <1>8. b'.proposals \in Seq(Proposal)
    BY <1>1, <1>2, InvFacts, Removed
  <1> QED
    BY <1>5, <1>6, <1>7, <1>8, NoneTaken

LEMMA ProposePreserves ==
  ASSUME Inv, NEW top \in SUBSET Known(b), Propose(top)
  PROVE  Inv' /\ GraveStep /\ RefusalStep
  <1> DEFINE asked == Asked(b, top)
             s == Proposed(b, asked)
             new == [past EXCEPT !.graveSaved = past.grave, !.refused = @ \ asked]
  <1>1. /\ b' = s /\ disk' = s /\ past' = new /\ commands' \in 0 .. MaxCommands
        /\ UNCHANGED <<hour, blocks, official, moved, crashes>>
    BY CommandCounted DEF Propose, Proposed, Asked
  <1>2. asked \in SUBSET Known(b)
    BY DEF Asked
  <1> HIDE DEF asked
  <1>3. /\ Sound(s, past.grave, past.refused \ asked, past.tally)
        /\ \A t : t \notin asked => Ordinary(s, t) = Ordinary(b, t)
    BY <1>2, ProposedSound DEF Inv
  <1>4. new \in Past /\ new.grave = past.grave /\ new.graveSaved = past.grave
        /\ new.refused = past.refused \ asked /\ new.tally = past.tally
    BY InvFacts DEF Past
  <1> HIDE DEF s, new
  <1>5. Inv'
    BY <1>1, <1>3, <1>4 DEF Inv
  <1>6. GraveStep
    BY <1>1, NoneGranted
  <1>7. RefusalStep
    <2> SUFFICES ASSUME NEW t \in Tuples, t \in past'.refused
                 PROVE  ~(Cardinality(Ordinary(b', t)) > Cardinality(Ordinary(b, t)))
      BY DEF RefusalStep
    <2>1. Ordinary(b', t) = Ordinary(b, t)
      BY <1>1, <1>3, <1>4
    <2>2. Cardinality(Ordinary(b, t)) \in Nat
      BY InvFacts, OrdinaryFinite
    <2> QED
      BY <2>1, <2>2
  <1> QED
    BY <1>5, <1>6, <1>7

LEMMA UndemotePreserves ==
  ASSUME Inv, Undemote
  PROVE  Inv' /\ GraveStep /\ RefusalStep
  <1> DEFINE s == Undemoted(b)
             F == Forgiven(b, past.tally)
             new == [past EXCEPT !.graveSaved = past.grave, !.tally = F]
  <1>1. /\ b' = s /\ disk' = s /\ past' = new /\ commands' \in 0 .. MaxCommands
        /\ UNCHANGED <<hour, blocks, official, moved, crashes>>
    BY CommandCounted DEF Undemote, Forgiven
  <1>2. F \in Tallies /\ Sound(s, past.grave, past.refused, F) /\ s.proposals = b.proposals
    <2> DEFINE T == past.tally
    <2>1. T \in Tallies /\ Sound(b, past.grave, past.refused, T)
      BY InvFacts DEF Inv
    <2> HIDE DEF T
    <2>2. /\ Forgiven(b, T) \in Tallies
          /\ Sound(Undemoted(b), past.grave, past.refused, Forgiven(b, T))
          /\ Undemoted(b).proposals = b.proposals
      BY <2>1, UndemotedSound
    <2> QED
      BY <2>2 DEF T
  <1> HIDE DEF F
  <1>3. new \in Past /\ new.grave = past.grave /\ new.graveSaved = past.grave
        /\ new.refused = past.refused /\ new.tally = F
    BY <1>2, InvFacts DEF Past, Tallies
  <1> HIDE DEF s, new
  <1>4. Inv'
    BY <1>1, <1>2, <1>3 DEF Inv
  <1>5. GraveStep
    BY <1>1, NoneGranted
  <1>6. \A t \in Tuples : Ordinary(b', t) = Ordinary(b, t)
    BY <1>1, <1>2, SameOrdinary
  <1> QED
    BY <1>4, <1>5, <1>6, NoneProposed

-----------------------------------------------------------------------------
(* The theorems *)

LEMMA InvInit ==
  ASSUME Init
  PROVE  Inv
  <1> DEFINE T == [t \in Tuples |-> NoWindow]
             f == [t \in {} |-> Unseen]
             bs == [t \in Tuples |-> <<>>]
  <1>1. /\ hour = 0 /\ b = Empty /\ disk = Empty /\ blocks = bs
        /\ official \subseteq Tuples /\ moved = FALSE /\ crashes = 0 /\ commands = 0
        /\ past = [grave |-> {}, graveSaved |-> {}, refused |-> {}, tally |-> T]
    BY DEF Init
  <1>2. 0 \in Hours /\ 0 \in 0 .. MaxCrashes /\ 0 \in 0 .. MaxCommands /\ 0 \in 0 .. RedemoteAt
    BY Numbers DEF Hours
  <1>3. NoWindow \in [Hours -> Nat] /\ NoWindow \in [Hours -> 0 .. NoisyPerDay + 1]
        /\ \A h \in Hours : NoWindow[h] = 0
    BY Numbers DEF NoWindow
  <1>4. T \in Tallies /\ T \in [Tuples -> [Hours -> Nat]]
        /\ \A t \in Tuples, h \in Hours : T[t][h] = 0
    BY <1>3 DEF Tallies
  <1> HIDE DEF T
  <1>5. past \in Past /\ past.grave = {} /\ past.graveSaved = {} /\ past.refused = {}
        /\ past.tally = T
    BY <1>1, <1>4 DEF Past, Tallies
  <1>6. f \in TupleMaps /\ DOMAIN f = {}
    <2>1. {} \in SUBSET Tuples /\ IsFiniteSet({}) /\ f \in [{} -> TupleStat]
      BY FS_EmptySet
    <2> HIDE DEF f
    <2> QED
      BY <2>1, MapMade
  <1> HIDE DEF f
  <1>7. LearningDays * HoursPerDay \in Int
    BY Numbers
  <1> DEFINE u == LearningDays * HoursPerDay
             n == [t \in Tuples |-> Nothing]
             z == [t \in Tuples |-> 0]
             q == <<>>
  <1>8. /\ n \in [Tuples -> [since : Hours] \cup {Nothing}]
        /\ n \in [Tuples -> LearnedEntry \cup {Nothing}]
        /\ z \in [Tuples -> 0 .. RedemoteAt] /\ q \in Seq(Proposal)
        /\ \A t \in Tuples : n[t] = Nothing
    BY <1>2
  <1>9. Empty = [until |-> u, tuples |-> f, proposals |-> q, demoted |-> n,
                 redemotions |-> z, windows |-> T, learned |-> n]
    BY DEF Empty, T, f
  <1> HIDE DEF u, n, z, q
  <1>10. /\ Empty \in State /\ Empty.tuples = f /\ Empty.windows = T /\ Empty.demoted = n
         /\ u \in Int
    <2>1. u \in Int
      BY <1>7 DEF u
    <2> QED
      BY <1>4, <1>6, <1>8, <1>9, <2>1 DEF State
  <1>11. Sound(Empty, {}, {}, T)
    <2>1. Backed(Empty)
      BY <1>6, <1>10 DEF Backed, Known
    <2>2. Marked(Empty, {}) /\ Remembered(Empty, {})
      BY DEF Marked, Remembered
    <2>3. Shown(Empty, T)
      BY <1>4, <1>10 DEF Shown
    <2>4. Earned(Empty, T)
      BY <1>8, <1>10 DEF Earned
    <2> QED
      BY <1>10, <2>1, <2>2, <2>3, <2>4 DEF Sound
  <1>12. bs \in BlockLists
    <2>1. bs \in [Tuples -> Seq({"learned", "accepted"})] /\ \A t \in Tuples : Len(bs[t]) = 0
      OBVIOUS
    <2> HIDE DEF bs
    <2> QED
      BY <2>1, Numbers, BlockListFacts
  <1> QED
    BY <1>1, <1>2, <1>5, <1>11, <1>12 DEF Inv

LEMMA StepPreserves ==
  ASSUME Inv, [Next]_vars
  PROVE  Inv' /\ (GraveStep \/ UNCHANGED vars) /\ (RefusalStep \/ UNCHANGED vars)
  <1>1. CASE UNCHANGED vars
    BY <1>1 DEF vars, Inv
  <1>2. ASSUME NEW t \in Tuples, NEW common \in BOOLEAN, NEW quiet \in BOOLEAN,
               NEW g \in Grades[t], Emit(t, g, common, quiet)
        PROVE  Inv' /\ GraveStep /\ RefusalStep
    BY <1>2, EmitPreserves
  <1>3. ASSUME NEW gone \in SUBSET Known(b), Crowd(gone)
        PROVE  Inv' /\ GraveStep /\ RefusalStep
    BY <1>3, CrowdPreserves
  <1>4. CASE Advance
    BY <1>4, AdvancePreserves
  <1>5. ASSUME NEW due \in BOOLEAN, Tick(due)
        PROVE  Inv' /\ GraveStep /\ RefusalStep
    BY <1>5, TickPreserves
  <1>6. ASSUME NEW t \in Tuples, PackageChange(t)
        PROVE  Inv' /\ GraveStep /\ RefusalStep
    BY <1>6, PackageChangePreserves
  <1>7. ASSUME NEW fails \in BOOLEAN, OnPacmanChange(fails)
        PROVE  Inv' /\ GraveStep /\ RefusalStep
    BY <1>7, OnPacmanChangePreserves
  <1>8. ASSUME NEW fails \in BOOLEAN, Crash(fails)
        PROVE  Inv' /\ GraveStep /\ RefusalStep
    BY <1>8, CrashPreserves
  <1>9. ASSUME NEW days \in {0, LearningDays}, Relearn(days)
        PROVE  Inv' /\ GraveStep /\ RefusalStep
    BY <1>9, RelearnPreserves, Numbers
  <1>10. ASSUME NEW i \in DOMAIN b.proposals, Accept(i) \/ AcceptCut(i) \/ Dismiss(i)
         PROVE  Inv' /\ GraveStep /\ RefusalStep
    BY <1>10, AcceptPreserves, AcceptCutPreserves, DismissPreserves
  <1>11. ASSUME NEW top \in SUBSET Known(b), Propose(top)
         PROVE  Inv' /\ GraveStep /\ RefusalStep
    BY <1>11, ProposePreserves
  <1>12. CASE Undemote
    BY <1>12, UndemotePreserves
  <1> QED
    BY <1>1, <1>2, <1>3, <1>4, <1>5, <1>6, <1>7, <1>8, <1>9, <1>10, <1>11, <1>12 DEF Next

\* Every reachable state, and the file in it, is sound.
THEOREM Soundness == Spec => []Inv
  <1>1. Init => Inv
    BY InvInit
  <1>2. Inv /\ [Next]_vars => Inv'
    BY StepPreserves
  <1> QED
    BY <1>1, <1>2, PTL DEF Spec

\* The types hold, and a pattern marked learned has an entry in force (observe, accept,
\* mark_revoked, revoke_stale_learned_entries), crashes or not.
THEOREM TypeCorrectness == Spec => []TypeOK
  <1>1. Inv => TypeOK
    <2> SUFFICES ASSUME Inv PROVE TypeOK
      OBVIOUS
    <2>1. ASSUME NEW s \in {b, disk}
          PROVE  /\ Known(s) \subseteq Tuples
                 /\ \A t \in Known(s) : s.tuples[t] \in TupleStat
                 /\ \A i \in DOMAIN s.proposals : s.proposals[i] \in Proposal
                 /\ \A t \in Tuples : s.learned[t] \in LearnedEntry \cup {Nothing}
                 /\ \A t \in Tuples : s.redemotions[t] \in 0 .. RedemoteAt
      <3>1. s \in State
        BY InvFacts
      <3> QED
        BY <3>1, StateFacts
    <2>2. \A t \in Known(b) : b.tuples[t].learned => InForce(b, t)
      BY DEF Inv, Sound, Backed
    <2>3. \A t \in Tuples : blocks[t] \in BoundedSeq({"learned", "accepted"}, MaxBlocks)
      BY DEF Inv, BlockLists
    <2>4. /\ hour \in Hours /\ crashes \in 0 .. MaxCrashes
          /\ commands \in 0 .. MaxCommands /\ moved \in BOOLEAN
          /\ official \subseteq Tuples
          /\ past \in Past
      BY DEF Inv
    <2> QED
      BY <2>1, <2>2, <2>3, <2>4 DEF TypeOK
  <1> QED
    BY <1>1, Soundness, PTL

\* Whatever is demoted raised too many alerts on the badge within a day, all of them
\* after it was last asked to be seen (note_alert, undemote, load).
THEOREM DemotionEarnedAlways == Spec => []DemotionEarned
  <1>1. Inv => DemotionEarned
    BY DEF Inv, Sound, Earned, DayOf, DemotionEarned
  <1> QED
    BY <1>1, Soundness, PTL

\* The learner writes no block for a pattern that has scored high or critical (observe,
\* blocked_by), whatever was saved when.
THEOREM GraveNeverLearnedAlways == Spec => GraveNeverLearned
  <1> DEFINE A == \A t \in Tuples :
                    /\ Len(blocks'[t]) > Len(blocks[t])
                    /\ Last(blocks'[t]) = "learned"
                    => t \notin past'.grave
  <1>1. Inv /\ [Next]_vars => [A]_vars
    BY StepPreserves DEF GraveStep
  <1> QED
    BY <1>1, Soundness, PTL DEF Spec, GraveNeverLearned

\* The learner proposes no pattern that was refused, until it is asked to (dismiss,
\* observe, relearn, propose_keys).
THEOREM RefusalStandsAlways == Spec => RefusalStands
  <1> DEFINE A == crashes' = crashes => \A t \in Tuples :
                    Cardinality(Ordinary(b', t)) > Cardinality(Ordinary(b, t))
                      => t \notin past'.refused
  <1>1. Inv /\ [Next]_vars => [A]_vars
    BY StepPreserves DEF RefusalStep
  <1> QED
    BY <1>1, Soundness, PTL DEF Spec, RefusalStands

=============================================================================
