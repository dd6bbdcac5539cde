----------------------------- MODULE ShipProofs ------------------------------
(***************************************************************************)
(* Proofs about Ship: that the cursor skips nothing, that the shipper       *)
(* forgets nothing, that a line is sent again only for a reason, and that   *)
(* every step is one of Delivery.                                           *)
(***************************************************************************)
EXTENDS Ship, SequenceTheorems, FiniteSetTheorems, TLAPS

Records == Nat \ {Beat}

\* How many elements of a sequence are in a set.
Count(s, S) == Cardinality({i \in DOMAIN s : s[i] \in S})

\* What can still be read from p on when the live file is f and the rotated one o.
AheadIn(p, f, o) ==
  IF p.inode = f.inode THEN After(f.lines, p.offset)
  ELSE IF p.inode # 0 /\ p.inode = o.inode THEN After(o.lines, p.offset) \o f.lines
  ELSE f.lines

\* A file has each record once, and none that was not written.
FilesOK(f, o, w) ==
  /\ f = [inode |-> f.inode, lines |-> f.lines]
  /\ f.inode \in Nat \ {0} /\ o.inode = f.inode - 1
  /\ f.lines \in Seq(Nat) /\ o.lines \in Seq(Nat)
  /\ o.inode = 0 => o.lines = <<>>
  /\ \A r \in Nat :
       /\ Count(f.lines, {r}) <= 1 /\ Count(o.lines, {r}) <= 1
       /\ r \notin 1 .. w => Count(f.lines, {r}) = 0 /\ Count(o.lines, {r}) = 0

\* A position is in one of the two files, and not after its end.
PlacedIn(p, f, o) ==
  /\ p.inode \in {o.inode, f.inode} /\ p.offset \in Nat
  /\ p.offset <= Len(IF p.inode = f.inode THEN f.lines ELSE o.lines)

Placed(p) == PlacedIn(p, file, old)

\* One poll reads all that is left of the renamed file.
FitsIn(p, f, o) == p.inode # f.inode => Len(o.lines) - p.offset <= ReadMax

NotPast(p, q) == p.inode < q.inode \/ (p.inode = q.inode /\ p.offset <= q.offset)

CursorOK(c) ==
  /\ c = [inode |-> c.inode, offset |-> c.offset, recent |-> c.recent, dropped |-> c.dropped]
  /\ c.recent \in Seq(Nat) /\ IdsOf(c.recent) \subseteq Delivered
  /\ c.dropped \in 0 .. Last

\* Types, and what holds of the files, the positions in them and the counters.
Base ==
  /\ written \in 0 .. Last /\ faults \in Nat /\ up \in BOOLEAN /\ uncounted \in 0 .. Last
  /\ FilesOK(file, old, written)
  /\ copies \in [Ids -> Nat] /\ \A r \in Ids : r > written => copies[r] = 0
  /\ lost \subseteq 1 .. written
  /\ buffer \in Seq(Nat)
  /\ \A r \in Records : r > written => Count(buffer, {r}) = 0
  /\ pending = Count(buffer, Records)
  /\ ~up => buffer = <<>> /\ uncounted = 0
  /\ CursorOK(saved) /\ CursorOK(cursor)
  /\ Placed(saved)
  /\ up => /\ Placed(cursor) /\ Placed(frontier)
           /\ NotPast(saved, cursor) /\ NotPast(cursor, frontier)

\* A record has a line in each generation of the file at most, and what of them a run
\* of the shipper has not yet read or sent, it sends once.
Once ==
  /\ up => \A r \in Ids :
       LET waits == Count(buffer, {r}) + Count(Ahead(frontier), {r})
       IN  waits <= file.inode /\ copies[r] + waits <= (1 + faults) * file.inode
  /\ ~up => \A r \in Ids : copies[r] <= faults * file.inode

\* The records that a reader from p on does not see and the collector never took.
Missing(p) == (1 .. written) \ (Delivered \cup IdsOf(Ahead(p)))
Accounted(S, n) == S \subseteq lost /\ Cardinality(S) <= n

\* What the cursor has passed is accounted for in its drop count; what the frontier has
\* passed, and is not in the buffer, in that and the evictions not yet counted there.
Account ==
  /\ FitsIn(saved, file, old) /\ (up => FitsIn(cursor, file, old) /\ FitsIn(frontier, file, old))
  /\ Accounted(Missing(saved), saved.dropped)
  /\ up => Accounted(Missing(cursor), cursor.dropped)
  /\ up => Accounted(Missing(frontier) \ IdsOf(buffer), cursor.dropped + uncounted)

-----------------------------------------------------------------------------
(* Induction, from the least element of a set of numbers.                  *)

\* Every set of numbers that is not empty has a least element.  The initial segments
\* 0 .. n are finite sets, whose strict inclusion is well founded.
LEMMA LeastNat ==
  ASSUME NEW T, T \subseteq Nat, T # {}
  PROVE  \E x \in T : \A y \in T : x <= y
<1> DEFINE C == {0 .. n : n \in T}
<1>1. C \subseteq FiniteSubsetsOf(Nat)
  <2> SUFFICES ASSUME NEW n \in T PROVE IsFiniteSet(0 .. n) /\ 0 .. n \subseteq Nat
    BY DEF FiniteSubsetsOf
  <2> QED BY FS_Interval
<1>2. C # {}
  OBVIOUS
<1>3. IsWellFoundedOn(StrictSubsetOrdering(Nat), FiniteSubsetsOf(Nat))
  BY FS_StrictSubsetOrderingWellFounded
<1>4. PICK c \in C : \A d \in C : ~ (<<d, c>> \in StrictSubsetOrdering(Nat))
  <2> HIDE DEF C
  <2> QED BY <1>1, <1>2, <1>3, WFMin
<1>5. PICK x \in T : c = 0 .. x
  OBVIOUS
<1>6. ASSUME NEW y \in T, y < x PROVE FALSE
  <2>1. 0 .. y \subseteq 0 .. x /\ 0 .. x \subseteq Nat /\ x \in 0 .. x /\ x \notin 0 .. y
    BY <1>6
  <2>2. <<0 .. y, 0 .. x>> \in StrictSubsetOrdering(Nat)
    BY <2>1 DEF StrictSubsetOrdering
  <2> QED BY <2>2, <1>4, <1>5
<1> QED
  BY <1>6

\* A set that holds 0 and the successor of each of its numbers holds them all.
LEMMA NumbersByInduction ==
  ASSUME NEW T, 0 \in T, \A n \in Nat : n \in T => n + 1 \in T
  PROVE  Nat \subseteq T
<1> SUFFICES ASSUME ~(Nat \subseteq T) PROVE FALSE
  OBVIOUS
<1>1. PICK x \in Nat \ T : \A y \in Nat \ T : x <= y
  BY LeastNat
<1>2. x # 0 /\ x - 1 \in Nat /\ ~(x <= x - 1)
  BY <1>1
<1>3. x - 1 \in T
  BY <1>1, <1>2
<1> QED BY <1>1, <1>2, <1>3

\* A set that holds the empty sequence, and with a sequence all that are one longer,
\* holds all sequences of numbers.
LEMMA SequencesByInduction ==
  ASSUME NEW T, <<>> \in T,
         \A s \in Seq(Nat), x \in Nat : s \in T => Append(s, x) \in T
  PROVE  Seq(Nat) \subseteq T
<1> DEFINE L == {n \in Nat : \A s \in Seq(Nat) : Len(s) = n => s \in T}
<1>1. 0 \in L
  <2> SUFFICES ASSUME NEW s \in Seq(Nat), Len(s) = 0 PROVE s \in T
    OBVIOUS
  <2>1. s = <<>>
    BY EmptySeq
  <2> QED BY <2>1
<1>2. ASSUME NEW n \in Nat, n \in L PROVE n + 1 \in L
  <2> SUFFICES ASSUME NEW s \in Seq(Nat), Len(s) = n + 1 PROVE s \in T
    OBVIOUS
  <2>1. s # <<>>
    BY EmptySeq
  <2>2. PICK u \in Seq(Nat), x \in Nat : s = Append(u, x)
    BY <2>1, SequenceEmptyOrAppend
  <2>3. Len(u) = n
    BY <2>2, AppendProperties, LenProperties
  <2>4. u \in T
    BY <2>3, <1>2
  <2> QED BY <2>2, <2>4
<1>3. Nat \subseteq L
  <2> HIDE DEF L
  <2> QED BY <1>1, <1>2, NumbersByInduction
<1> QED
  BY <1>3, LenProperties

-----------------------------------------------------------------------------
(* Without, and how often a sequence has elements of a set.                *)

KeptBody(s, S, f) ==
  [n \in 0 .. Len(s) |->
     IF n = 0 THEN <<>>
     ELSE IF s[n] \in S THEN f[n - 1] ELSE Append(f[n - 1], s[n])]

\* The function that Without is defined by, named.
Kept(s, S) == CHOOSE f : f = KeptBody(s, S, f)

\* The recursive definition has a solution.
LEMMA KeptExists ==
  ASSUME NEW S
  PROVE  \A s \in Seq(Nat) : \E f : f = KeptBody(s, S, f)
<1> DEFINE T == {s \in Seq(Nat) : \E f : f = KeptBody(s, S, f)}
<1>1. <<>> \in T
  <2> DEFINE f == [n \in 0 .. 0 |-> <<>>]
  <2>1. f = KeptBody(<<>>, S, f)
    BY EmptySeq DEF KeptBody
  <2>2. <<>> \in Seq(Nat)
    BY EmptySeq
  <2> QED BY <2>1, <2>2
<1>2. ASSUME NEW s \in Seq(Nat), NEW x \in Nat, s \in T PROVE Append(s, x) \in T
  <2>1. PICK f : f = KeptBody(s, S, f)
    BY <1>2
  <2> DEFINE m == Len(s) + 1
  <2> DEFINE g == [n \in 0 .. m |->
                     IF n = m THEN IF x \in S THEN f[m - 1] ELSE Append(f[m - 1], x)
                     ELSE f[n]]
  <2>2. /\ Append(s, x) \in Seq(Nat) /\ Len(Append(s, x)) = m /\ m \in Nat
        /\ \A i \in 1 .. Len(s) : Append(s, x)[i] = s[i]
        /\ Append(s, x)[m] = x
    BY AppendProperties, LenProperties
  <2>3. g = KeptBody(Append(s, x), S, g)
    <3>1. ASSUME NEW n \in 0 .. m PROVE g[n] = KeptBody(Append(s, x), S, g)[n]
      <4>1. CASE n = m
        BY <4>1, <2>2 DEF KeptBody
      <4>2. CASE n # m
        <5>1. n \in 0 .. Len(s) /\ g[n] = f[n]
          BY <4>2, <2>2
        <5>2. n # 0 => n \in 1 .. Len(s) /\ g[n - 1] = f[n - 1] /\ Append(s, x)[n] = s[n]
          BY <4>2, <5>1, <2>2
        <5>3. f[n] = IF n = 0 THEN <<>>
                     ELSE IF s[n] \in S THEN f[n - 1] ELSE Append(f[n - 1], s[n])
          BY <2>1, <5>1 DEF KeptBody
        <5> QED BY <5>1, <5>2, <5>3, <2>2 DEF KeptBody
      <4> QED BY <4>1, <4>2
    <3> QED BY <3>1, <2>2 DEF KeptBody
  <2> QED BY <2>2, <2>3
<1>3. Seq(Nat) \subseteq T
  <2> HIDE DEF T
  <2> QED BY <1>1, <1>2, SequencesByInduction
<1> QED BY <1>3

\* Kept is its own equation: it exists, so CHOOSE has it.
LEMMA KeptDefined ==
  ASSUME NEW S, NEW s \in Seq(Nat)
  PROVE  Kept(s, S) = KeptBody(s, S, Kept(s, S))
BY KeptExists DEF Kept

\* Without takes the last turn of Kept.
LEMMA WithoutIsKept ==
  ASSUME NEW S, NEW s
  PROVE  Without(s, S) = Kept(s, S)[Len(s)]
BY DEF Without, Kept, KeptBody

\* One turn of the loop.
LEMMA KeptTurn ==
  ASSUME NEW S, NEW s, Len(s) \in Nat, NEW f, NEW g, f = KeptBody(s, S, g), NEW n \in Nat,
         n + 1 \in 0 .. Len(s)
  PROVE  f[n + 1] = IF s[n + 1] \in S THEN g[n] ELSE Append(g[n], s[n + 1])
<1>1. n + 1 # 0 /\ (n + 1) - 1 = n
  OBVIOUS
<1>2. f[n + 1] = IF n + 1 = 0 THEN <<>>
                 ELSE IF s[n + 1] \in S THEN g[(n + 1) - 1] ELSE Append(g[(n + 1) - 1], s[n + 1])
  BY DEF KeptBody
<1> QED
  BY <1>1, <1>2

\* One turn of the filter.
LEMMA KeptNext ==
  ASSUME NEW S, NEW s \in Seq(Nat), NEW n \in Nat, n + 1 \in 0 .. Len(s)
  PROVE  Kept(s, S)[n + 1] = IF s[n + 1] \in S THEN Kept(s, S)[n]
                             ELSE Append(Kept(s, S)[n], s[n + 1])
<1>1. Kept(s, S) = KeptBody(s, S, Kept(s, S)) /\ Len(s) \in Nat
  BY KeptDefined, LenProperties
<1> QED
  BY <1>1, KeptTurn

\* Every turn leaves a sequence.
LEMMA KeptType ==
  ASSUME NEW S, NEW s \in Seq(Nat)
  PROVE  \A n \in 0 .. Len(s) : Kept(s, S)[n] \in Seq(Nat)
<1> DEFINE f == Kept(s, S)
<1>1. /\ f = KeptBody(s, S, f)
      /\ Len(s) \in Nat /\ \A i \in 1 .. Len(s) : s[i] \in Nat
  BY KeptDefined, LenProperties, ElementOfSeq
<1> DEFINE T == {n \in Nat : n \in 0 .. Len(s) => f[n] \in Seq(Nat)}
<1> HIDE DEF f
<1>2. 0 \in T
  BY <1>1, EmptySeq DEF KeptBody
<1>3. ASSUME NEW n \in Nat, n \in T PROVE n + 1 \in T
  <2> SUFFICES ASSUME n + 1 \in 0 .. Len(s) PROVE f[n + 1] \in Seq(Nat)
    OBVIOUS
  <2>1. f[n] \in Seq(Nat) /\ n + 1 \in 1 .. Len(s)
    BY <1>3, <1>1
  <2>2. f[n + 1] = IF s[n + 1] \in S THEN f[n] ELSE Append(f[n], s[n + 1])
    BY <1>1, KeptTurn
  <2> QED BY <2>1, <2>2, <1>1, AppendProperties
<1>4. Nat \subseteq T
  <2> HIDE DEF T
  <2> QED BY <1>2, <1>3, NumbersByInduction
<1> QED
  BY <1>4, <1>1 DEF f

\* What is kept of a sequence is what is kept of any longer one up to there.
LEMMA KeptPrefix ==
  ASSUME NEW S, NEW s \in Seq(Nat), NEW x \in Nat
  PROVE  \A n \in 0 .. Len(s) : Kept(Append(s, x), S)[n] = Kept(s, S)[n]
<1> DEFINE a == Append(s, x)
           T == {n \in Nat : n \in 0 .. Len(s) => Kept(a, S)[n] = Kept(s, S)[n]}
<1>1. /\ a \in Seq(Nat) /\ Len(a) = Len(s) + 1 /\ Len(s) \in Nat
      /\ \A i \in 1 .. Len(s) : a[i] = s[i]
  BY AppendProperties, LenProperties
<1>2. Kept(s, S) = KeptBody(s, S, Kept(s, S)) /\ Kept(a, S) = KeptBody(a, S, Kept(a, S))
  BY <1>1, KeptDefined
<1> HIDE DEF a
<1>3. 0 \in T
  BY <1>1, <1>2 DEF KeptBody
<1>4. ASSUME NEW n \in Nat, n \in T PROVE n + 1 \in T
  <2> SUFFICES ASSUME n + 1 \in 0 .. Len(s) PROVE Kept(a, S)[n + 1] = Kept(s, S)[n + 1]
    OBVIOUS
  <2>1. /\ Kept(a, S)[n] = Kept(s, S)[n]
        /\ a[n + 1] = s[n + 1] /\ n + 1 \in 0 .. Len(a)
    BY <1>4, <1>1
  <2>2. Kept(s, S)[n + 1] = IF s[n + 1] \in S THEN Kept(s, S)[n]
                            ELSE Append(Kept(s, S)[n], s[n + 1])
    BY KeptNext
  <2>3. Kept(a, S)[n + 1] = IF a[n + 1] \in S THEN Kept(a, S)[n]
                            ELSE Append(Kept(a, S)[n], a[n + 1])
    <3>1. a \in Seq(Nat) /\ n + 1 \in 0 .. Len(a)
      BY <1>1, <2>1
    <3> QED BY <3>1, KeptNext
  <2> QED BY <2>1, <2>2, <2>3
<1>5. Nat \subseteq T
  <2> HIDE DEF T
  <2> QED BY <1>3, <1>4, NumbersByInduction
<1> QED
  BY <1>5, <1>1 DEF a

\* Without is what a loop over the sequence computes.
LEMMA WithoutAppend ==
  ASSUME NEW S, NEW s \in Seq(Nat), NEW x \in Nat
  PROVE  /\ Without(s, S) \in Seq(Nat)
         /\ Without(Append(s, x), S) =
              IF x \in S THEN Without(s, S) ELSE Append(Without(s, S), x)
<1> DEFINE a == Append(s, x)
<1>1. /\ a \in Seq(Nat) /\ Len(a) = Len(s) + 1 /\ Len(s) \in Nat /\ a[Len(a)] = x
  BY AppendProperties, LenProperties
<1>2. Kept(a, S) = KeptBody(a, S, Kept(a, S))
  BY <1>1, KeptDefined
<1>3. Kept(a, S)[Len(s)] = Kept(s, S)[Len(s)]
  BY <1>1, KeptPrefix
<1> HIDE DEF a
<1>4. Kept(a, S)[Len(a)] = IF x \in S THEN Kept(a, S)[Len(s)]
                           ELSE Append(Kept(a, S)[Len(s)], x)
  BY <1>1, <1>2, KeptTurn
<1>5. Without(s, S) \in Seq(Nat)
  BY <1>1, KeptType, WithoutIsKept
<1>6. Without(a, S) = Kept(a, S)[Len(a)] /\ Without(s, S) = Kept(s, S)[Len(s)]
  BY WithoutIsKept
<1> QED
  BY <1>3, <1>4, <1>5, <1>6 DEF a

\* Nothing is left of nothing.
LEMMA WithoutEmpty ==
  ASSUME NEW S
  PROVE  Without(<<>>, S) = <<>>
<1>1. Kept(<<>>, S) = KeptBody(<<>>, S, Kept(<<>>, S))
  BY KeptDefined, EmptySeq
<1>2. Kept(<<>>, S)[0] = <<>>
  BY <1>1, EmptySeq DEF KeptBody
<1> QED
  BY <1>2, WithoutIsKept, EmptySeq

-----------------------------------------------------------------------------
(* How many elements of a sequence are in a set, and which.                *)

\* The empty sequence has no element in any set.
LEMMA CountEmpty ==
  ASSUME NEW S
  PROVE  Count(<<>>, S) = 0
<1>1. {i \in DOMAIN <<>> : <<>>[i] \in S} = {}
  OBVIOUS
<1> QED BY <1>1, FS_EmptySet DEF Count

\* A count is a number, and at most the length.
LEMMA CountType ==
  ASSUME NEW S, NEW s \in Seq(Nat)
  PROVE  Count(s, S) \in Nat /\ Count(s, S) <= Len(s)
<1> DEFINE D == {i \in DOMAIN s : s[i] \in S}
<1>1. DOMAIN s = 1 .. Len(s) /\ Len(s) \in Nat
  BY LenProperties
<1>2. IsFiniteSet(1 .. Len(s)) /\ Cardinality(1 .. Len(s)) = Len(s)
  BY <1>1, FS_Interval
<1>3. D \in SUBSET (1 .. Len(s))
  BY <1>1
<1>4. IsFiniteSet(D) /\ Cardinality(D) <= Len(s)
  <2> HIDE DEF D
  <2> QED BY <1>2, <1>3, FS_Subset
<1> QED
  BY <1>4, FS_CardinalityType DEF Count

\* An appended element counts if it is in the set.
LEMMA CountAppend ==
  ASSUME NEW S, NEW s \in Seq(Nat), NEW x \in Nat
  PROVE  Count(Append(s, x), S) = Count(s, S) + (IF x \in S THEN 1 ELSE 0)
<1> DEFINE a == Append(s, x)
           D == {i \in DOMAIN s : s[i] \in S}
           E == {i \in DOMAIN a : a[i] \in S}
           n == Len(s) + 1
<1>1. /\ DOMAIN s = 1 .. Len(s) /\ Len(s) \in Nat
      /\ DOMAIN a = 1 .. n /\ a[n] = x
      /\ \A i \in 1 .. Len(s) : a[i] = s[i]
  BY AppendProperties, LenProperties
<1>2. IsFiniteSet(D)
  <2>1. IsFiniteSet(1 .. Len(s)) /\ D \in SUBSET (1 .. Len(s))
    BY <1>1, FS_Interval
  <2> HIDE DEF D
  <2> QED BY <2>1, FS_Subset
<1>3. E = IF x \in S THEN D \cup {n} ELSE D
  <2> HIDE DEF a
  <2> QED BY <1>1
<1>4. n \notin D
  BY <1>1
<1>5. Cardinality(D) \in Nat
  <2> HIDE DEF D
  <2> QED BY <1>2, FS_CardinalityType
<1>6. Cardinality(D \cup {n}) = Cardinality(D) + 1
  <2> HIDE DEF D, n
  <2> QED BY <1>2, <1>4, FS_AddElement
<1>7. Cardinality(E) = Cardinality(D) + (IF x \in S THEN 1 ELSE 0)
  <2> HIDE DEF D, E, n
  <2> QED BY <1>3, <1>5, <1>6
<1> QED
  BY <1>7 DEF Count

\* Counts of a concatenation add up.
LEMMA CountConcat ==
  ASSUME NEW S, NEW s \in Seq(Nat)
  PROVE  \A t \in Seq(Nat) : s \o t \in Seq(Nat) /\ Count(s \o t, S) = Count(s, S) + Count(t, S)
<1> DEFINE T == {t \in Seq(Nat) : Count(s \o t, S) = Count(s, S) + Count(t, S)}
<1>1. <<>> \in T
  BY CountEmpty, CountType, ConcatEmptySeq, EmptySeq
<1>2. ASSUME NEW t \in Seq(Nat), NEW x \in Nat, t \in T PROVE Append(t, x) \in T
  <2>1. s \o t \in Seq(Nat) /\ Append(t, x) \in Seq(Nat)
    BY ConcatProperties, AppendProperties
  <2>2. s \o Append(t, x) = Append(s \o t, x)
    <3>1. <<x>> \in Seq(Nat)
      OBVIOUS
    <3>2. Append(t, x) = t \o <<x>>
      BY AppendIsConcat
    <3>3. Append(s \o t, x) = (s \o t) \o <<x>>
      BY <2>1, AppendIsConcat
    <3> QED BY <3>1, <3>2, <3>3, ConcatAssociative
  <2>3. Count(s \o t, S) \in Nat /\ Count(t, S) \in Nat /\ Count(s, S) \in Nat
    BY <2>1, CountType
  <2>4. Count(s \o t, S) = Count(s, S) + Count(t, S)
    BY <1>2
  <2>5. Count(Append(s \o t, x), S) = Count(s \o t, S) + (IF x \in S THEN 1 ELSE 0)
    BY <2>1, CountAppend
  <2>6. Count(Append(t, x), S) = Count(t, S) + (IF x \in S THEN 1 ELSE 0)
    BY CountAppend
  <2>7. Count(s \o Append(t, x), S) = Count(s, S) + Count(Append(t, x), S)
    BY <2>2, <2>3, <2>4, <2>5, <2>6
  <2> QED BY <2>1, <2>7
<1>3. Seq(Nat) \subseteq T
  <2> HIDE DEF T
  <2> QED BY <1>1, <1>2, SequencesByInduction
<1> QED
  BY <1>3, ConcatProperties

\* Of what Without leaves, as much is in a set as of the whole is in it and not left out.
LEMMA CountWithout ==
  ASSUME NEW S, NEW W
  PROVE  \A s \in Seq(Nat) : /\ Without(s, W) \in Seq(Nat)
                            /\ Count(Without(s, W), S) = Count(s, S \ W)
<1> DEFINE T == {s \in Seq(Nat) : /\ Without(s, W) \in Seq(Nat)
                                 /\ Count(Without(s, W), S) = Count(s, S \ W)}
<1>1. <<>> \in T
  BY CountEmpty, WithoutEmpty, EmptySeq
<1>2. ASSUME NEW s \in Seq(Nat), NEW x \in Nat, s \in T PROVE Append(s, x) \in T
  <2>1. Without(s, W) \in Seq(Nat) /\ Count(Without(s, W), S) = Count(s, S \ W)
    BY <1>2
  <2>2. Append(s, x) \in Seq(Nat) /\ Append(Without(s, W), x) \in Seq(Nat)
    BY <2>1, AppendProperties
  <2>3. Without(Append(s, x), W) = IF x \in W THEN Without(s, W) ELSE Append(Without(s, W), x)
    BY WithoutAppend
  <2>4. Count(Append(s, x), S \ W) = Count(s, S \ W) + (IF x \in S \ W THEN 1 ELSE 0)
    BY CountAppend
  <2>5. Count(Append(Without(s, W), x), S) = Count(Without(s, W), S) + (IF x \in S THEN 1 ELSE 0)
    BY <2>1, CountAppend
  <2>6. Count(s, S \ W) \in Nat
    BY CountType
  <2>7. CASE x \in W
    BY <2>7, <2>1, <2>2, <2>3, <2>4, <2>6
  <2>8. CASE x \notin W
    BY <2>8, <2>1, <2>2, <2>3, <2>4, <2>5, <2>6
  <2> QED BY <2>7, <2>8
<1>3. Seq(Nat) \subseteq T
  <2> HIDE DEF T
  <2> QED BY <1>1, <1>2, SequencesByInduction
<1> QED
  BY <1>3

\* All elements of a sequence of numbers are counted by Nat.
LEMMA CountAll ==
  \A s \in Seq(Nat) : Count(s, Nat) = Len(s)
<1> SUFFICES ASSUME NEW s \in Seq(Nat) PROVE Count(s, Nat) = Len(s)
  OBVIOUS
<1>1. DOMAIN s = 1 .. Len(s) /\ Len(s) \in Nat /\ \A i \in 1 .. Len(s) : s[i] \in Nat
  BY LenProperties, ElementOfSeq
<1>2. {i \in DOMAIN s : s[i] \in Nat} = 1 .. Len(s)
  BY <1>1
<1>3. Cardinality(1 .. Len(s)) = Len(s)
  BY <1>1, FS_Interval
<1> QED
  BY <1>2, <1>3 DEF Count

\* A sequence has as many elements of two disjoint sets as of each.
LEMMA CountUnion ==
  ASSUME NEW S, NEW W, S \cap W = {}, NEW s \in Seq(Nat)
  PROVE  Count(s, S \cup W) = Count(s, S) + Count(s, W)
<1> DEFINE D(X) == {i \in DOMAIN s : s[i] \in X}
<1>1. DOMAIN s = 1 .. Len(s) /\ Len(s) \in Nat
  BY LenProperties
<1>2. IsFiniteSet(1 .. Len(s)) /\ D(S) \in SUBSET (1 .. Len(s)) /\ D(W) \in SUBSET (1 .. Len(s))
  BY <1>1, FS_Interval
<1>3. D(S \cup W) = D(S) \cup D(W) /\ D(S) \cap D(W) = {}
  OBVIOUS
<1>4. IsFiniteSet(D(S)) /\ IsFiniteSet(D(W))
  <2> HIDE DEF D
  <2> QED BY <1>2, FS_Subset
<1>5. Cardinality(D(S) \cup D(W)) = Cardinality(D(S)) + Cardinality(D(W)) - Cardinality(D(S) \cap D(W))
  <2> HIDE DEF D
  <2> QED BY <1>4, FS_Union
<1>6. /\ Cardinality(D(S)) \in Nat /\ Cardinality(D(W)) \in Nat
      /\ Cardinality({}) = 0
  <2> HIDE DEF D
  <2> QED BY <1>4, FS_CardinalityType, FS_EmptySet
<1>7. Cardinality(D(S \cup W)) = Cardinality(D(S)) + Cardinality(D(W))
  <2>1. Cardinality(D(S \cup W)) = Cardinality(D(S)) + Cardinality(D(W)) - 0
    BY <1>3, <1>5, <1>6
  <2> HIDE DEF D
  <2> QED BY <2>1, <1>6
<1> QED
  BY <1>7 DEF Count

-----------------------------------------------------------------------------
(* The beginning and the rest of a sequence, and which records it has.     *)

\* The beginning of a sequence, element by element.
LEMMA FirstType ==
  ASSUME NEW s \in Seq(Nat), NEW n \in Nat
  PROVE  /\ First(s, n) \in Seq(Nat)
         /\ Len(First(s, n)) = Least(n, Len(s))
         /\ \A i \in 1 .. Least(n, Len(s)) : First(s, n)[i] = s[i]
<1> DEFINE m == Least(n, Len(s))
<1>1. Len(s) \in Nat /\ m \in Nat /\ m <= Len(s) /\ \A i \in 1 .. m : s[i] \in Nat
  BY LenProperties, ElementOfSeq DEF Least
<1>2. First(s, n) = SubSeq(s, 1, m)
  BY DEF First
<1> HIDE DEF m
<1>3. /\ SubSeq(s, 1, m) \in Seq(Nat)
      /\ Len(SubSeq(s, 1, m)) = IF 1 <= m THEN m - 1 + 1 ELSE 0
      /\ \A i \in 1 .. m - 1 + 1 : SubSeq(s, 1, m)[i] = s[1 + i - 1]
  BY <1>1, SubSeqProperties
<1> QED
  BY <1>1, <1>2, <1>3 DEF m

\* The rest of a sequence, element by element.
LEMMA AfterType ==
  ASSUME NEW s \in Seq(Nat), NEW n \in Nat
  PROVE  /\ After(s, n) \in Seq(Nat)
         /\ Len(After(s, n)) = IF n < Len(s) THEN Len(s) - n ELSE 0
         /\ \A i \in 1 .. Len(s) - n : After(s, n)[i] = s[n + i]
<1>1. Len(s) \in Nat /\ n + 1 \in Int /\ \A i \in n + 1 .. Len(s) : s[i] \in Nat
  BY LenProperties, ElementOfSeq
<1>2. /\ SubSeq(s, n + 1, Len(s)) \in Seq(Nat)
      /\ Len(SubSeq(s, n + 1, Len(s))) = IF n + 1 <= Len(s) THEN Len(s) - (n + 1) + 1 ELSE 0
      /\ \A i \in 1 .. Len(s) - (n + 1) + 1 : SubSeq(s, n + 1, Len(s))[i] = s[(n + 1) + i - 1]
  BY <1>1, SubSeqProperties
<1> QED
  BY <1>1, <1>2 DEF After

\* A sequence is what is at its beginning and what comes after.
LEMMA SplitAt ==
  ASSUME NEW s \in Seq(Nat), NEW n \in Nat
  PROVE  s = First(s, n) \o After(s, Len(First(s, n)))
<1> DEFINE m == Least(n, Len(s))
           u == First(s, n)
           v == After(s, m)
<1>1. Len(s) \in Nat /\ m \in Nat /\ m <= Len(s)
  BY LenProperties DEF Least
<1>2. /\ u \in Seq(Nat) /\ Len(u) = m /\ \A i \in 1 .. m : u[i] = s[i]
  BY FirstType
<1>3. /\ v \in Seq(Nat) /\ Len(v) = Len(s) - m /\ \A i \in 1 .. Len(s) - m : v[i] = s[m + i]
  <2> HIDE DEF m
  <2>1. /\ After(s, m) \in Seq(Nat)
        /\ Len(After(s, m)) = IF m < Len(s) THEN Len(s) - m ELSE 0
        /\ \A i \in 1 .. Len(s) - m : After(s, m)[i] = s[m + i]
    BY <1>1, AfterType
  <2>2. (IF m < Len(s) THEN Len(s) - m ELSE 0) = Len(s) - m
    BY <1>1
  <2> QED BY <2>1, <2>2
<1> HIDE DEF m, u, v
<1>4. /\ u \o v \in Seq(Nat) /\ Len(u \o v) = m + (Len(s) - m)
      /\ \A i \in 1 .. m + (Len(s) - m) : (u \o v)[i] = IF i <= m THEN u[i] ELSE v[i - m]
  <2>1. u \in Seq(Nat) /\ v \in Seq(Nat) /\ Len(u) = m /\ Len(v) = Len(s) - m
    BY <1>2, <1>3
  <2>2. /\ u \o v \in Seq(Nat) /\ Len(u \o v) = Len(u) + Len(v)
        /\ \A i \in 1 .. Len(u) + Len(v) : (u \o v)[i] = IF i <= Len(u) THEN u[i] ELSE v[i - Len(u)]
    BY <2>1, ConcatProperties
  <2> QED BY <2>1, <2>2
<1>5. ASSUME NEW i \in 1 .. Len(s) PROVE (u \o v)[i] = s[i]
  <2>1. i \in 1 .. m + (Len(s) - m)
    BY <1>1
  <2>2. CASE i <= m
    BY <2>1, <2>2, <1>1, <1>2, <1>4
  <2>3. CASE ~(i <= m)
    <3>1. i - m \in 1 .. Len(s) - m /\ m + (i - m) = i
      BY <2>3, <1>1
    <3> QED BY <2>1, <2>3, <3>1, <1>3, <1>4
  <2> QED BY <2>2, <2>3
<1>6. Len(u \o v) = Len(s)
  BY <1>1, <1>4
<1>7. u \o v = s
  BY <1>4, <1>5, <1>6, SeqEqual
<1> QED
  BY <1>2, <1>7 DEF u, v

\* What is after m elements begins with the next k, and goes on after those.
LEMMA AfterAfter ==
  ASSUME NEW s \in Seq(Nat), NEW m \in Nat, NEW k \in Nat
  PROVE  After(After(s, m), k) = After(s, m + k)
<1> DEFINE v == After(s, m)
           a == After(v, k)
           b == After(s, m + k)
<1>1. /\ Len(s) \in Nat /\ m + k \in Nat
      /\ v \in Seq(Nat) /\ Len(v) = (IF m < Len(s) THEN Len(s) - m ELSE 0) /\ Len(v) \in Nat
      /\ \A i \in 1 .. Len(s) - m : v[i] = s[m + i]
  <2>1. Len(s) \in Nat /\ m + k \in Nat
    BY LenProperties
  <2>2. /\ v \in Seq(Nat) /\ Len(v) = (IF m < Len(s) THEN Len(s) - m ELSE 0)
        /\ \A i \in 1 .. Len(s) - m : v[i] = s[m + i]
    BY AfterType
  <2>3. Len(v) \in Nat
    <3> HIDE DEF v
    <3> QED BY <2>2, LenProperties
  <2> QED BY <2>1, <2>2, <2>3
<1> HIDE DEF v
<1>2. /\ a \in Seq(Nat) /\ Len(a) = (IF k < Len(v) THEN Len(v) - k ELSE 0)
      /\ \A i \in 1 .. Len(v) - k : a[i] = v[k + i]
  BY <1>1, AfterType
<1>3. /\ b \in Seq(Nat) /\ Len(b) = (IF m + k < Len(s) THEN Len(s) - (m + k) ELSE 0)
      /\ \A i \in 1 .. Len(s) - (m + k) : b[i] = s[(m + k) + i]
  BY <1>1, AfterType
<1> HIDE DEF a, b
<1>4. Len(a) = Len(b)
  BY <1>1, <1>2, <1>3
<1>5. ASSUME NEW i \in 1 .. Len(a) PROVE a[i] = b[i]
  <2>1. i \in 1 .. Len(v) - k /\ i \in 1 .. Len(s) - (m + k) /\ k + i \in 1 .. Len(s) - m
    BY <1>1, <1>2, <1>3
  <2>2. a[i] = v[k + i] /\ v[k + i] = s[m + (k + i)] /\ b[i] = s[(m + k) + i]
    BY <2>1, <1>1, <1>2, <1>3
  <2> QED BY <2>1, <2>2
<1>6. a = b
  BY <1>2, <1>3, <1>4, <1>5, SeqEqual
<1> QED
  BY <1>6 DEF a, b, v

\* Which records a sequence has is told by the counts of the single ones.
LEMMA IdsByCount ==
  ASSUME NEW s \in Seq(Nat)
  PROVE  /\ IdsOf(s) \subseteq Records
         /\ \A r \in Records : r \in IdsOf(s) <=> Count(s, {r}) > 0
<1>1. DOMAIN s = 1 .. Len(s) /\ Len(s) \in Nat /\ \A i \in 1 .. Len(s) : s[i] \in Nat
  BY LenProperties, ElementOfSeq
<1>2. IdsOf(s) \subseteq Records
  BY <1>1 DEF IdsOf, Records, Beat
<1>3. ASSUME NEW r \in Records PROVE r \in IdsOf(s) <=> Count(s, {r}) > 0
  <2> DEFINE D == {i \in DOMAIN s : s[i] \in {r}}
  <2>1. IsFiniteSet(D)
    <3>1. IsFiniteSet(1 .. Len(s)) /\ D \in SUBSET (1 .. Len(s))
      BY <1>1, FS_Interval
    <3> HIDE DEF D
    <3> QED BY <3>1, FS_Subset
  <2>2. Cardinality(D) \in Nat /\ (Cardinality(D) = 0 <=> D = {})
    <3> HIDE DEF D
    <3> QED BY <2>1, FS_CardinalityType, FS_EmptySet
  <2>3. r \in IdsOf(s) <=> D # {}
    <3>1. r # Beat /\ r \in IdsOf(s) <=> \E i \in DOMAIN s : s[i] = r
      BY DEF IdsOf, Records, Beat
    <3> QED BY <3>1 DEF Records
  <2> QED BY <2>2, <2>3 DEF Count
<1> QED
  BY <1>2, <1>3

\* No more records than elements.
LEMMA IdsFinite ==
  ASSUME NEW s \in Seq(Nat)
  PROVE  IsFiniteSet(IdsOf(s)) /\ Cardinality(IdsOf(s)) <= Len(s)
<1> DEFINE T == {s[i] : i \in 1 .. Len(s)}
<1>1. DOMAIN s = 1 .. Len(s) /\ Len(s) \in Nat /\ s \in [1 .. Len(s) -> T]
  BY LenProperties
<1>2. s \in Surjection(1 .. Len(s), T)
  BY <1>1 DEF Surjection
<1>3. IsFiniteSet(1 .. Len(s)) /\ Cardinality(1 .. Len(s)) = Len(s)
  BY <1>1, FS_Interval
<1>4. IsFiniteSet(T) /\ Cardinality(T) <= Len(s) /\ Cardinality(T) \in Nat
  <2> HIDE DEF T
  <2> QED BY <1>2, <1>3, FS_Surjection, FS_CardinalityType
<1>5. IdsOf(s) \in SUBSET T
  BY <1>1 DEF IdsOf
<1>6. IsFiniteSet(IdsOf(s)) /\ Cardinality(IdsOf(s)) <= Cardinality(T)
  <2> HIDE DEF T
  <2> QED BY <1>4, <1>5, FS_Subset
<1>7. Cardinality(IdsOf(s)) \in Nat
  BY <1>6, FS_CardinalityType
<1> QED
  BY <1>1, <1>4, <1>6, <1>7

\* The rest from 0 is the whole, and from the end on nothing.
LEMMA AfterEnds ==
  ASSUME NEW s \in Seq(Nat)
  PROVE  /\ After(s, 0) = s
         /\ \A n \in Nat : Len(s) <= n => After(s, n) = <<>>
<1>1. Len(s) \in Nat
  BY LenProperties
<1>2. After(s, 0) = s
  <2>1. SubSeq(s, 1, Len(s)) = s
    BY SubSeqFull
  <2>2. 0 + 1 = 1
    OBVIOUS
  <2> QED BY <2>1, <2>2 DEF After
<1>3. ASSUME NEW n \in Nat, Len(s) <= n PROVE After(s, n) = <<>>
  <2>1. n + 1 \in Int /\ Len(s) \in Int /\ Len(s) < n + 1
    BY <1>1, <1>3
  <2> QED BY <2>1, SubSeqEmpty DEF After
<1> QED
  BY <1>2, <1>3

\* The counts of the two parts of a sequence.
LEMMA CountParts ==
  ASSUME NEW s \in Seq(Nat), NEW n \in Nat
  PROVE  LET u == First(s, n)
             v == After(s, Len(u))
         IN  /\ u \in Seq(Nat) /\ v \in Seq(Nat) /\ Len(u) \in Nat
             /\ \A S : Count(s, S) = Count(u, S) + Count(v, S)
<1> DEFINE u == First(s, n)
           v == After(s, Len(u))
<1>1. u \in Seq(Nat)
  BY FirstType
<1>2. Len(u) \in Nat
  BY <1>1, LenProperties
<1>3. v \in Seq(Nat)
  <2> HIDE DEF u
  <2> QED BY <1>2, AfterType
<1>4. s = u \o v
  BY SplitAt
<1>5. ASSUME NEW S PROVE Count(u \o v, S) = Count(u, S) + Count(v, S)
  <2> HIDE DEF u, v
  <2> QED BY <1>1, <1>3, CountConcat
<1> HIDE DEF u, v
<1>6. \A S : Count(s, S) = Count(u, S) + Count(v, S)
  BY <1>4, <1>5
<1> QED
  BY <1>1, <1>2, <1>3, <1>6 DEF u, v

\* The rest has no more of anything than the whole.
LEMMA CountAfter ==
  ASSUME NEW s \in Seq(Nat), NEW n \in Nat, NEW S
  PROVE  After(s, n) \in Seq(Nat) /\ Count(After(s, n), S) <= Count(s, S)
<1>1. Count(s, S) \in Nat /\ After(s, n) \in Seq(Nat) /\ Len(s) \in Nat
  BY CountType, AfterType, LenProperties
<1>2. CASE Len(s) <= n
  BY <1>1, <1>2, AfterEnds, CountEmpty
<1>3. CASE ~(Len(s) <= n)
  <2> DEFINE u == First(s, n)
             v == After(s, Len(u))
  <2>1. u \in Seq(Nat) /\ v \in Seq(Nat) /\ Count(s, S) = Count(u, S) + Count(v, S)
    BY CountParts
  <2>2. Len(u) = n
    BY <1>1, <1>3, FirstType DEF Least
  <2>3. Count(u, S) \in Nat /\ Count(v, S) \in Nat
    <3> HIDE DEF u, v
    <3> QED BY <2>1, CountType
  <2>4. Count(v, S) <= Count(s, S)
    <3> HIDE DEF u, v
    <3> QED BY <2>1, <2>3
  <2> QED BY <1>1, <2>2, <2>4
<1> QED
  BY <1>2, <1>3

\* The records of a concatenation are those of its parts.
LEMMA IdsOfConcat ==
  ASSUME NEW s \in Seq(Nat), NEW t \in Seq(Nat)
  PROVE  s \o t \in Seq(Nat) /\ IdsOf(s \o t) = IdsOf(s) \cup IdsOf(t)
<1>1. s \o t \in Seq(Nat)
  BY ConcatProperties
<1>2. ASSUME NEW r \in Records PROVE r \in IdsOf(s \o t) <=> r \in IdsOf(s) \/ r \in IdsOf(t)
  <2>1. Count(s \o t, {r}) = Count(s, {r}) + Count(t, {r})
    BY CountConcat
  <2>2. Count(s, {r}) \in Nat /\ Count(t, {r}) \in Nat
    BY CountType
  <2>3. /\ r \in IdsOf(s \o t) <=> Count(s \o t, {r}) > 0
        /\ r \in IdsOf(s) <=> Count(s, {r}) > 0
        /\ r \in IdsOf(t) <=> Count(t, {r}) > 0
    BY <1>1, IdsByCount
  <2> QED BY <2>1, <2>2, <2>3
<1>3. IdsOf(s \o t) \subseteq Records /\ IdsOf(s) \subseteq Records /\ IdsOf(t) \subseteq Records
  BY <1>1, IdsByCount
<1> QED
  BY <1>1, <1>2, <1>3

-----------------------------------------------------------------------------
(* What a reader has ahead.                                                *)

\* Ahead is AheadIn, for the files as they are.
LEMMA AheadIs == \A p : Ahead(p) = AheadIn(p, file, old)
  BY DEF Ahead, AheadIn

\* Nothing is ahead that is not in a file, and nothing more than once in each.
LEMMA AheadCounts ==
  ASSUME NEW f, NEW o, NEW w, FilesOK(f, o, w), NEW p, PlacedIn(p, f, o)
  PROVE  /\ AheadIn(p, f, o) \in Seq(Nat)
         /\ \A r \in Nat : /\ Count(AheadIn(p, f, o), {r}) \in Nat
                           /\ Count(AheadIn(p, f, o), {r}) <= f.inode
                           /\ r \notin 1 .. w => Count(AheadIn(p, f, o), {r}) = 0
<1>1. /\ f.inode \in Nat \ {0} /\ o.inode = f.inode - 1 /\ p.offset \in Nat
      /\ f.lines \in Seq(Nat) /\ o.lines \in Seq(Nat)
      /\ p.inode \in {o.inode, f.inode}
  BY DEF FilesOK, PlacedIn
<1>2. /\ After(f.lines, p.offset) \in Seq(Nat) /\ After(o.lines, p.offset) \in Seq(Nat)
      /\ After(o.lines, p.offset) \o f.lines \in Seq(Nat)
  BY <1>1, AfterType, ConcatProperties
<1>3. AheadIn(p, f, o) \in Seq(Nat)
  BY <1>1, <1>2 DEF AheadIn
<1>4. ASSUME NEW r \in Nat
      PROVE  /\ Count(AheadIn(p, f, o), {r}) \in Nat
             /\ Count(AheadIn(p, f, o), {r}) <= f.inode
             /\ r \notin 1 .. w => Count(AheadIn(p, f, o), {r}) = 0
  <2>1. /\ Count(f.lines, {r}) <= 1 /\ Count(o.lines, {r}) <= 1
        /\ r \notin 1 .. w => Count(f.lines, {r}) = 0 /\ Count(o.lines, {r}) = 0
    BY DEF FilesOK
  <2>2. /\ Count(f.lines, {r}) \in Nat /\ Count(o.lines, {r}) \in Nat
        /\ Count(After(f.lines, p.offset), {r}) \in Nat
        /\ Count(After(o.lines, p.offset), {r}) \in Nat
        /\ Count(AheadIn(p, f, o), {r}) \in Nat
    BY <1>1, <1>2, <1>3, CountType
  <2>3. /\ Count(After(f.lines, p.offset), {r}) <= Count(f.lines, {r})
        /\ Count(After(o.lines, p.offset), {r}) <= Count(o.lines, {r})
    BY <1>1, CountAfter
  <2>4. CASE p.inode = f.inode
    <3>1. AheadIn(p, f, o) = After(f.lines, p.offset)
      BY <2>4 DEF AheadIn
    <3> QED BY <3>1, <1>1, <2>1, <2>2, <2>3
  <2>5. CASE p.inode # f.inode /\ p.inode = 0
    <3>1. AheadIn(p, f, o) = f.lines
      BY <2>5 DEF AheadIn
    <3> QED BY <3>1, <1>1, <2>1, <2>2
  <2>6. CASE p.inode # f.inode /\ p.inode # 0
    <3>1. AheadIn(p, f, o) = After(o.lines, p.offset) \o f.lines
      BY <2>6, <1>1 DEF AheadIn
    <3>2. Count(AheadIn(p, f, o), {r}) = Count(After(o.lines, p.offset), {r}) + Count(f.lines, {r})
      BY <3>1, <1>1, <1>2, CountConcat
    <3>3. f.inode >= 2
      BY <1>1, <2>6
    <3> QED BY <3>2, <3>3, <1>1, <2>1, <2>2, <2>3
  <2> QED BY <2>4, <2>5, <2>6
<1> QED
  BY <1>3, <1>4

\* How the files are read: the tail of the renamed one, or as much as one poll may read.
LEMMA TailFacts ==
  ASSUME FilesOK(file, old, written), NEW p, Placed(p), ShipAssumption
  PROVE  LET left == IF p.inode = file.inode THEN <<>> ELSE After(old.lines, p.offset)
         IN  /\ TailOf(p) \in Seq(Nat) /\ Len(TailOf(p)) \in 0 .. ReadMax
             /\ left \in Seq(Nat)
             /\ \A S : Count(TailOf(p), S) \in Nat /\ Count(TailOf(p), S) <= Count(left, S)
             /\ FitsIn(p, file, old) => TailOf(p) = left
<1> DEFINE rest == After(old.lines, p.offset)
<1>1. /\ file.inode \in Nat \ {0} /\ old.inode = file.inode - 1 /\ p.offset \in Nat
      /\ old.lines \in Seq(Nat) /\ p.inode \in {old.inode, file.inode}
      /\ old.inode = 0 => old.lines = <<>>
      /\ ReadMax \in Nat
  BY DEF FilesOK, Placed, PlacedIn, ShipAssumption
<1>2. rest \in Seq(Nat) /\ Len(rest) = (IF p.offset < Len(old.lines) THEN Len(old.lines) - p.offset ELSE 0)
  BY <1>1, AfterType
<1>3. <<>> \in Seq(Nat) /\ Len(<<>>) = 0 /\ \A S : Count(<<>>, S) = 0
  BY EmptySeq, CountEmpty
<1>4. CASE p.inode = file.inode
  <2>1. TailOf(p) = <<>>
    BY <1>4 DEF TailOf
  <2> QED BY <1>1, <1>3, <1>4, <2>1
<1>5. CASE p.inode # file.inode /\ p.inode = 0
  <2>1. TailOf(p) = <<>> /\ old.lines = <<>>
    BY <1>1, <1>5 DEF TailOf
  <2>2. rest = <<>>
    <3>1. Len(old.lines) <= p.offset
      BY <1>1, <1>3, <2>1
    <3> QED BY <1>1, <3>1, AfterEnds
  <2>3. Len(<<>>) \in 0 .. ReadMax
    BY <1>1, <1>3
  <2>4. \A S : Count(<<>>, S) \in Nat /\ Count(<<>>, S) <= Count(<<>>, S)
    BY <1>3
  <2> HIDE DEF rest
  <2> QED BY <1>3, <1>5, <2>1, <2>2, <2>3, <2>4 DEF rest
<1>6. CASE p.inode # file.inode /\ p.inode # 0
  <2>1. TailOf(p) = First(rest, ReadMax)
    BY <1>1, <1>6 DEF TailOf
  <2> DEFINE u == First(rest, ReadMax)
             v == After(rest, Len(u))
  <2> HIDE DEF rest
  <2>2. u \in Seq(Nat) /\ v \in Seq(Nat) /\ \A S : Count(rest, S) = Count(u, S) + Count(v, S)
    BY <1>1, <1>2, CountParts
  <2>3. Len(u) = Least(ReadMax, Len(rest)) /\ Len(rest) \in Nat
    BY <1>1, <1>2, FirstType, LenProperties
  <2>4. Len(u) \in 0 .. ReadMax
    BY <1>1, <2>3 DEF Least
  <2>5. ASSUME NEW S PROVE Count(u, S) \in Nat /\ Count(u, S) <= Count(rest, S)
    <3>1. Count(u, S) \in Nat /\ Count(v, S) \in Nat
      <4> HIDE DEF u, v
      <4> QED BY <2>2, CountType
    <3> HIDE DEF u, v
    <3> QED BY <2>2, <3>1
  <2>6. FitsIn(p, file, old) => u = rest
    <3> SUFFICES ASSUME FitsIn(p, file, old) PROVE u = rest
      OBVIOUS
    <3>0. Len(old.lines) \in Nat
      BY <1>1, LenProperties
    <3>1. Len(rest) <= ReadMax
      BY <1>1, <1>2, <1>6, <3>0 DEF FitsIn
    <3>2. Len(u) = Len(rest)
      BY <1>1, <2>3, <3>1 DEF Least
    <3>3. v = <<>>
      BY <1>2, <2>3, <3>2, AfterEnds
    <3>4. rest = u \o v
      BY <1>1, <1>2, SplitAt
    <3> HIDE DEF u, v
    <3> QED BY <2>2, <3>3, <3>4, ConcatEmptySeq
  <2> QED BY <1>6, <1>2, <2>1, <2>2, <2>4, <2>5, <2>6 DEF rest
<1> QED
  BY <1>1, <1>4, <1>5, <1>6

\* One poll: it ends where what is ahead begins, and what it returns was ahead before.
LEMMA ReadFacts ==
  ASSUME FilesOK(file, old, written), NEW p, Placed(p), ShipAssumption
  PROVE  LET read == TailOf(p) \o Fresh(p)
             q == Reached(p)
         IN  /\ read \in Seq(Nat) /\ Placed(q) /\ q.inode = file.inode /\ NotPast(p, q)
             /\ Ahead(q) \in Seq(Nat)
             /\ \A S : Count(read, S) + Count(Ahead(q), S) <= Count(Ahead(p), S)
             /\ FitsIn(p, file, old) =>
                  \A S : Count(read, S) + Count(Ahead(q), S) = Count(Ahead(p), S)
<1> DEFINE tail == TailOf(p)
           left == IF p.inode = file.inode THEN <<>> ELSE After(old.lines, p.offset)
           start == After(file.lines, Start(p))
           n == ReadMax - Len(tail)
           u == First(start, n)
           v == After(start, Len(u))
           q == Reached(p)
<1>1. /\ file.inode \in Nat \ {0} /\ old.inode = file.inode - 1 /\ p.offset \in Nat
      /\ file.lines \in Seq(Nat) /\ old.lines \in Seq(Nat) /\ p.inode \in {old.inode, file.inode}
      /\ p.inode = file.inode => p.offset <= Len(file.lines)
      /\ p.inode # file.inode => p.offset <= Len(old.lines)
      /\ old.inode = 0 => old.lines = <<>>
      /\ ReadMax \in Nat
  BY DEF FilesOK, Placed, PlacedIn, ShipAssumption
<1>2. /\ tail \in Seq(Nat) /\ Len(tail) \in 0 .. ReadMax
      /\ left \in Seq(Nat)
      /\ \A S : Count(tail, S) \in Nat /\ Count(tail, S) <= Count(left, S)
      /\ FitsIn(p, file, old) => tail = left
  BY TailFacts
<1>3. Start(p) \in Nat /\ Start(p) <= Len(file.lines) /\ Len(file.lines) \in Nat
      /\ Start(p) = (IF p.inode = file.inode THEN p.offset ELSE 0)
  <2>1. Len(file.lines) \in Nat /\ Len(<<>>) = 0
    BY <1>1, LenProperties
  <2>2. p.inode # file.inode /\ p.inode = 0 => p.offset = 0
    BY <1>1, <2>1
  <2> QED BY <1>1, <2>1, <2>2 DEF Start
<1>4. start \in Seq(Nat) /\ Len(start) = Len(file.lines) - Start(p) /\ Len(start) \in Nat
  <2>1. start \in Seq(Nat) /\ Len(start) = IF Start(p) < Len(file.lines)
                                          THEN Len(file.lines) - Start(p) ELSE 0
    BY <1>1, <1>3, AfterType
  <2> HIDE DEF start
  <2> QED BY <1>3, <2>1
<1>5. n \in Nat
  BY <1>1, <1>2
<1>6. /\ u \in Seq(Nat) /\ v \in Seq(Nat) /\ Len(u) \in Nat /\ Len(u) <= Len(start)
      /\ \A S : Count(start, S) = Count(u, S) + Count(v, S)
  <2> HIDE DEF start, n
  <2>1. /\ u \in Seq(Nat) /\ v \in Seq(Nat) /\ Len(u) \in Nat
        /\ \A S : Count(start, S) = Count(u, S) + Count(v, S)
    BY <1>4, <1>5, CountParts
  <2>2. Len(u) = Least(n, Len(start))
    BY <1>4, <1>5, FirstType
  <2> QED BY <2>1, <2>2, <1>4, <1>5 DEF Least
<1>7. Fresh(p) = u /\ q = [inode |-> file.inode, offset |-> Start(p) + Len(u)]
  BY DEF Fresh, Reached
<1>8. Ahead(q) = v
  <2>1. Ahead(q) = After(file.lines, Start(p) + Len(u))
    BY <1>7 DEF Ahead
  <2>2. After(start, Len(u)) = After(file.lines, Start(p) + Len(u))
    <3>1. file.lines \in Seq(Nat) /\ Start(p) \in Nat /\ Len(u) \in Nat
      BY <1>1, <1>3, <1>6
    <3> HIDE DEF u
    <3> QED BY <3>1, AfterAfter
  <2> QED BY <2>1, <2>2
<1>9. Placed(q) /\ q.inode = file.inode /\ NotPast(p, q)
  <2> HIDE DEF u, start
  <2>1. q.inode = file.inode /\ q.offset = Start(p) + Len(u) /\ q.offset \in Nat
        /\ q.offset <= Len(file.lines)
    BY <1>3, <1>4, <1>6, <1>7
  <2>2. Placed(q)
    BY <2>1 DEF Placed, PlacedIn
  <2>3. NotPast(p, q)
    BY <1>1, <1>3, <1>6, <2>1 DEF NotPast
  <2> QED BY <2>1, <2>2, <2>3
<1>10. \A S : Count(Ahead(p), S) = Count(left, S) + Count(start, S)
  <2> SUFFICES ASSUME NEW S PROVE Count(Ahead(p), S) = Count(left, S) + Count(start, S)
    OBVIOUS
  <2>0. Count(<<>>, S) = 0 /\ Count(start, S) \in Nat /\ Count(file.lines, S) \in Nat
    BY <1>1, <1>4, CountEmpty, CountType
  <2>1. CASE p.inode = file.inode
    <3>1. Ahead(p) = start
      BY <1>3, <2>1 DEF Ahead
    <3> QED BY <2>0, <2>1, <3>1
  <2>2. CASE p.inode # file.inode
    <3>1. start = file.lines
      BY <1>1, <1>3, <2>2, AfterEnds
    <3>2. CASE p.inode = 0
      <4>1. Ahead(p) = file.lines
        BY <2>2, <3>2 DEF Ahead
      <4>2. Len(old.lines) <= p.offset
        <5>1. old.lines = <<>>
          BY <1>1, <2>2, <3>2
        <5> QED BY <1>1, <5>1
      <4>3. After(old.lines, p.offset) = <<>>
        BY <1>1, <4>2, AfterEnds
      <4>4. left = <<>>
        BY <2>2, <4>3
      <4> QED BY <2>0, <3>1, <4>1, <4>4
    <3>3. CASE p.inode # 0
      <4>1. Ahead(p) = left \o file.lines
        BY <1>1, <2>2, <3>3 DEF Ahead
      <4> QED BY <1>1, <1>2, <3>1, <4>1, CountConcat
    <3> QED BY <3>2, <3>3
  <2> QED BY <2>1, <2>2
<1>11. ASSUME NEW S
       PROVE  /\ Count(tail \o u, S) = Count(tail, S) + Count(u, S)
              /\ Count(u, S) \in Nat /\ Count(v, S) \in Nat /\ Count(left, S) \in Nat
  <2> HIDE DEF tail, u, v, left
  <2> QED BY <1>2, <1>6, CountConcat, CountType
<1>12. tail \o u \in Seq(Nat)
  <2> HIDE DEF tail, u
  <2> QED BY <1>2, <1>6, ConcatProperties
<1> HIDE DEF tail, left, start, n, u, v, q
<1>13. \A S : Count(tail \o u, S) + Count(v, S) <= Count(Ahead(p), S)
  <2> SUFFICES ASSUME NEW S PROVE Count(tail \o u, S) + Count(v, S) <= Count(Ahead(p), S)
    OBVIOUS
  <2>1. Count(tail, S) \in Nat /\ Count(tail, S) <= Count(left, S)
    BY <1>2
  <2>2. Count(start, S) = Count(u, S) + Count(v, S) /\ Count(Ahead(p), S) = Count(left, S) + Count(start, S)
    BY <1>6, <1>10
  <2> QED BY <1>11, <2>1, <2>2
<1>14. FitsIn(p, file, old) => \A S : Count(tail \o u, S) + Count(v, S) = Count(Ahead(p), S)
  <2> SUFFICES ASSUME FitsIn(p, file, old), NEW S
               PROVE Count(tail \o u, S) + Count(v, S) = Count(Ahead(p), S)
    OBVIOUS
  <2>1. tail = left
    BY <1>2
  <2>2. Count(start, S) = Count(u, S) + Count(v, S) /\ Count(Ahead(p), S) = Count(left, S) + Count(start, S)
    BY <1>6, <1>10
  <2> QED BY <1>11, <2>1, <2>2
<1> QED
  BY <1>6, <1>7, <1>8, <1>9, <1>12, <1>13, <1>14 DEF tail, q

-----------------------------------------------------------------------------
(* What a write does to a reader.                                          *)

\* What is appended is at the end of every rest.
LEMMA AfterAppend ==
  ASSUME NEW s \in Seq(Nat), NEW x \in Nat, NEW n \in 0 .. Len(s)
  PROVE  After(Append(s, x), n) = Append(After(s, n), x)
<1> DEFINE a == Append(s, x)
           u == After(a, n)
           v == After(s, n)
           w == Append(v, x)
<1>1. /\ Len(s) \in Nat /\ n \in Nat /\ a \in Seq(Nat) /\ Len(a) = Len(s) + 1
      /\ \A i \in 1 .. Len(s) : a[i] = s[i]
      /\ a[Len(s) + 1] = x
  BY LenProperties, AppendProperties
<1> HIDE DEF a
<1>2. /\ u \in Seq(Nat) /\ Len(u) = (IF n < Len(a) THEN Len(a) - n ELSE 0)
      /\ \A i \in 1 .. Len(a) - n : u[i] = a[n + i]
  BY <1>1, AfterType
<1>3. /\ v \in Seq(Nat) /\ Len(v) = (IF n < Len(s) THEN Len(s) - n ELSE 0)
      /\ \A i \in 1 .. Len(s) - n : v[i] = s[n + i]
  BY <1>1, AfterType
<1>4. Len(v) = Len(s) - n /\ Len(v) \in Nat /\ Len(u) = Len(s) + 1 - n
  <2> HIDE DEF u, v
  <2> QED BY <1>1, <1>2, <1>3
<1>5. /\ w \in Seq(Nat) /\ Len(w) = Len(v) + 1
      /\ \A i \in 1 .. Len(v) : w[i] = v[i]
      /\ w[Len(v) + 1] = x
  <2> HIDE DEF v
  <2> QED BY <1>3, AppendProperties
<1> HIDE DEF u, v, w
<1>6. ASSUME NEW i \in 1 .. Len(u) PROVE u[i] = w[i]
  <2>1. u[i] = a[n + i]
    BY <1>1, <1>2, <1>4
  <2>2. CASE i <= Len(v)
    <3>1. i \in 1 .. Len(v) /\ i \in 1 .. Len(s) - n /\ n + i \in 1 .. Len(s)
      BY <2>2, <1>1, <1>4
    <3> QED BY <2>1, <3>1, <1>1, <1>3, <1>5
  <2>3. CASE ~(i <= Len(v))
    <3>1. i = Len(v) + 1 /\ n + i = Len(s) + 1
      BY <2>3, <1>1, <1>4
    <3> QED BY <2>1, <3>1, <1>1, <1>5
  <2> QED BY <2>2, <2>3
<1>7. Len(u) = Len(w)
  BY <1>1, <1>4, <1>5
<1>8. u = w
  BY <1>2, <1>5, <1>6, <1>7, SeqEqual
<1> QED
  BY <1>8 DEF u, v, w, a

\* The lines a rotation carries forward: each of the records once, and no others.
LEMMA CarriedLines ==
  ASSUME NEW carried \in SUBSET Ids, ShipAssumption
  PROVE  LET lines == Without([i \in Ids |-> i], Ids \ carried)
         IN  /\ lines \in Seq(Nat)
             /\ \A r \in Nat : /\ Count(lines, {r}) \in Nat /\ Count(lines, {r}) <= 1
                               /\ r \notin carried => Count(lines, {r}) = 0
<1> DEFINE all == [i \in Ids |-> i]
           lines == Without(all, Ids \ carried)
<1>1. Last \in Nat /\ Ids = 1 .. Last
  BY DEF ShipAssumption, Ids
<1>2. all \in [1 .. Last -> Nat]
  BY <1>1
<1>3. all \in Seq(Nat) /\ DOMAIN all = 1 .. Last
  BY <1>1, <1>2, SeqDef
<1>4. \A i \in 1 .. Last : all[i] = i
  BY <1>1
<1> HIDE DEF all
<1>5. lines \in Seq(Nat) /\ \A S : Count(lines, S) = Count(all, S \ (Ids \ carried))
  BY <1>3, CountWithout
<1>6. ASSUME NEW r \in Nat
      PROVE  /\ Count(lines, {r}) \in Nat /\ Count(lines, {r}) <= 1
             /\ r \notin carried => Count(lines, {r}) = 0
  <2> DEFINE D == {i \in DOMAIN all : all[i] \in {r} \ (Ids \ carried)}
  <2>1. Count(lines, {r}) = Cardinality(D)
    BY <1>5 DEF Count
  <2>2. D = IF r \in carried THEN {r} ELSE {}
    BY <1>1, <1>3, <1>4
  <2>3. Cardinality({}) = 0 /\ Cardinality({r}) = 1
    BY FS_EmptySet, FS_Singleton
  <2> HIDE DEF D
  <2> QED BY <2>1, <2>2, <2>3
<1> QED
  BY <1>5, <1>6 DEF all

\* After an append alone.
LEMMA AppendAhead ==
  ASSUME FilesOK(file, old, written), written \in Nat, NEW p, Placed(p), NEW f,
         f = [inode |-> file.inode, lines |-> Append(file.lines, written + 1)]
  PROVE  /\ PlacedIn(p, f, old)
         /\ \A r \in Nat : Count(AheadIn(p, f, old), {r}) =
                              Count(Ahead(p), {r}) + (IF r = written + 1 THEN 1 ELSE 0)
<1>1. /\ file.inode \in Nat \ {0} /\ old.inode = file.inode - 1 /\ p.offset \in Nat
      /\ file.lines \in Seq(Nat) /\ old.lines \in Seq(Nat) /\ p.inode \in {old.inode, file.inode}
      /\ p.inode = file.inode => p.offset <= Len(file.lines)
      /\ p.inode # file.inode => p.offset <= Len(old.lines)
  BY DEF FilesOK, Placed, PlacedIn
<1>2. /\ Append(file.lines, written + 1) \in Seq(Nat)
      /\ Len(Append(file.lines, written + 1)) = Len(file.lines) + 1
      /\ Len(file.lines) \in Nat /\ written + 1 \in Nat
  BY <1>1, AppendProperties, LenProperties
<1>3. f.inode = file.inode /\ f.lines = Append(file.lines, written + 1)
  OBVIOUS
<1>4. PlacedIn(p, f, old)
  BY <1>1, <1>2, <1>3 DEF PlacedIn
<1>5. ASSUME NEW r \in Nat
      PROVE  Count(AheadIn(p, f, old), {r}) =
               Count(Ahead(p), {r}) + (IF r = written + 1 THEN 1 ELSE 0)
  <2> DEFINE one == IF r = written + 1 THEN 1 ELSE 0
  <2>1. \A s \in Seq(Nat) : Count(Append(s, written + 1), {r}) = Count(s, {r}) + one
    <3>1. one = IF written + 1 \in {r} THEN 1 ELSE 0
      OBVIOUS
    <3> HIDE DEF one
    <3> QED BY <1>2, <3>1, CountAppend
  <2>2. one \in Nat /\ (one = IF r = written + 1 THEN 1 ELSE 0)
    OBVIOUS
  <2> HIDE DEF one
  <2>3. CASE p.inode = file.inode
    <3>1. AheadIn(p, f, old) = After(Append(file.lines, written + 1), p.offset)
      BY <1>3, <2>3 DEF AheadIn
    <3>2. Ahead(p) = After(file.lines, p.offset)
      BY <2>3 DEF Ahead
    <3>3. p.offset \in 0 .. Len(file.lines)
      BY <1>1, <1>2, <2>3
    <3>4. AheadIn(p, f, old) = Append(Ahead(p), written + 1)
      <4>1. After(Append(file.lines, written + 1), p.offset) = Append(After(file.lines, p.offset), written + 1)
        BY <1>1, <1>2, <3>3, AfterAppend
      <4> QED BY <3>1, <3>2, <4>1
    <3>5. Ahead(p) \in Seq(Nat)
      BY <1>1, <3>2, AfterType
    <3> QED BY <2>1, <2>2, <3>4, <3>5
  <2>4. CASE p.inode # file.inode /\ p.inode = 0
    <3>1. AheadIn(p, f, old) = Append(file.lines, written + 1) /\ Ahead(p) = file.lines
      BY <1>3, <2>4 DEF AheadIn, Ahead
    <3> QED BY <1>1, <2>1, <2>2, <3>1
  <2>5. CASE p.inode # file.inode /\ p.inode # 0
    <3> DEFINE tail == After(old.lines, p.offset)
    <3>1. AheadIn(p, f, old) = tail \o Append(file.lines, written + 1) /\ Ahead(p) = tail \o file.lines
      BY <1>1, <1>3, <2>5 DEF AheadIn, Ahead
    <3>2. tail \in Seq(Nat)
      BY <1>1, AfterType
    <3> HIDE DEF tail
    <3>3. /\ Count(AheadIn(p, f, old), {r}) = Count(tail, {r}) + Count(Append(file.lines, written + 1), {r})
          /\ Count(Ahead(p), {r}) = Count(tail, {r}) + Count(file.lines, {r})
      <4>1. file.lines \in Seq(Nat) /\ Append(file.lines, written + 1) \in Seq(Nat)
        BY <1>1, <1>2
      <4>2. \A t \in Seq(Nat) : Count(tail \o t, {r}) = Count(tail, {r}) + Count(t, {r})
        BY <3>2, CountConcat
      <4> QED BY <3>1, <4>1, <4>2
    <3>4. Count(tail, {r}) \in Nat /\ Count(file.lines, {r}) \in Nat
      BY <1>1, <3>2, CountType
    <3>5. Count(Append(file.lines, written + 1), {r}) = Count(file.lines, {r}) + one
      BY <1>1, <2>1
    <3> QED BY <2>2, <3>3, <3>4, <3>5
  <2> QED BY <2>3, <2>4, <2>5
<1> QED
  BY <1>4, <1>5

\* After a rotation, for a reader that is in the file which is renamed.
LEMMA RotateAhead ==
  ASSUME FilesOK(file, old, written), written \in Nat, NEW p, Placed(p), p.inode = file.inode,
         NEW f, NEW o, f.inode = file.inode + 1, f.lines \in Seq(Nat),
         o.inode = file.inode, o.lines = Append(file.lines, written + 1)
  PROVE  /\ PlacedIn(p, f, o)
         /\ \A r \in Nat : Count(AheadIn(p, f, o), {r}) =
              Count(Ahead(p), {r}) + (IF r = written + 1 THEN 1 ELSE 0) + Count(f.lines, {r})
<1>1. /\ file.inode \in Nat \ {0} /\ p.offset \in Nat /\ file.lines \in Seq(Nat)
      /\ p.offset <= Len(file.lines)
      /\ o.inode = file.inode /\ o.lines = Append(file.lines, written + 1)
  BY DEF FilesOK, Placed, PlacedIn
<1>2. /\ o.lines \in Seq(Nat) /\ Len(o.lines) = Len(file.lines) + 1 /\ Len(file.lines) \in Nat
      /\ written + 1 \in Nat
  BY <1>1, AppendProperties, LenProperties
<1>3. PlacedIn(p, f, o)
  BY <1>1, <1>2 DEF PlacedIn
<1> DEFINE tail == After(file.lines, p.offset)
<1>4. Ahead(p) = tail
  BY DEF Ahead
<1>5. tail \in Seq(Nat)
  BY <1>1, AfterType
<1>6. AheadIn(p, f, o) = Append(tail, written + 1) \o f.lines
  <2>1. p.inode # f.inode /\ p.inode # 0 /\ p.inode = o.inode
    BY <1>1
  <2>2. AheadIn(p, f, o) = After(Append(file.lines, written + 1), p.offset) \o f.lines
    BY <1>1, <2>1 DEF AheadIn
  <2>3. p.offset \in 0 .. Len(file.lines)
    BY <1>1, <1>2
  <2>4. After(Append(file.lines, written + 1), p.offset) = Append(tail, written + 1)
    BY <1>1, <1>2, <2>3, AfterAppend
  <2> QED BY <2>2, <2>4
<1> HIDE DEF tail
<1>7. Append(tail, written + 1) \in Seq(Nat)
  BY <1>2, <1>5, AppendProperties
<1>8. ASSUME NEW r \in Nat
      PROVE  Count(AheadIn(p, f, o), {r}) =
              Count(Ahead(p), {r}) + (IF r = written + 1 THEN 1 ELSE 0) + Count(f.lines, {r})
  <2> DEFINE longer == Append(tail, written + 1)
  <2>1. Count(longer, {r}) = Count(tail, {r}) + (IF r = written + 1 THEN 1 ELSE 0)
    <3>1. Count(longer, {r}) = Count(tail, {r}) + (IF written + 1 \in {r} THEN 1 ELSE 0)
      BY <1>2, <1>5, CountAppend
    <3> QED BY <3>1
  <2>2. Count(longer \o f.lines, {r}) = Count(longer, {r}) + Count(f.lines, {r})
    <3> HIDE DEF longer
    <3> QED BY <1>7, CountConcat DEF longer
  <2> QED BY <1>4, <1>6, <2>1, <2>2
<1> QED
  BY <1>3, <1>8

\* A write, for the files and for every reader that is not behind the cursor file: what
\* it had ahead it has still, and the new record, and at most one line more of a record
\* for a new generation of the file.
LEMMA WriteFacts ==
  ASSUME FilesOK(file, old, written), written \in Nat, Write, ShipAssumption, Placed(saved)
  PROVE  /\ written' = written + 1 /\ written' <= Last
         /\ FilesOK(file', old', written')
         /\ file'.inode \in {file.inode, file.inode + 1}
         /\ \A p : Placed(p) /\ NotPast(saved, p) =>
              /\ PlacedIn(p, file', old')
              /\ TailFits /\ FitsIn(p, file, old) => FitsIn(p, file', old')
              /\ \A r \in Nat :
                   LET was == Count(Ahead(p), {r}) + (IF r = written' THEN 1 ELSE 0)
                       now == Count(AheadIn(p, file', old'), {r})
                   IN  now - was \in 0 .. file'.inode - file.inode
<1> DEFINE lines == Append(file.lines, written + 1)
<1>1. /\ file.inode \in Nat \ {0} /\ old.inode = file.inode - 1
      /\ file.lines \in Seq(Nat) /\ old.lines \in Seq(Nat)
  BY DEF FilesOK
<1>2. written' = written + 1 /\ written' <= Last /\ written' \in Nat
  <2>1. Last \in Nat
    BY DEF ShipAssumption
  <2> QED BY <2>1 DEF Write
<1>3. /\ lines \in Seq(Nat) /\ Len(lines) = Len(file.lines) + 1 /\ Len(file.lines) \in Nat
      /\ \A r \in Nat : /\ Count(lines, {r}) \in Nat /\ Count(lines, {r}) <= 1
                        /\ r \notin 1 .. written' => Count(lines, {r}) = 0
  <2>1. lines \in Seq(Nat) /\ Len(lines) = Len(file.lines) + 1 /\ Len(file.lines) \in Nat
    BY <1>1, <1>2, AppendProperties, LenProperties
  <2>2. ASSUME NEW r \in Nat
        PROVE  /\ Count(lines, {r}) \in Nat /\ Count(lines, {r}) <= 1
               /\ r \notin 1 .. written' => Count(lines, {r}) = 0
    <3>1. Count(lines, {r}) = Count(file.lines, {r}) + (IF written + 1 \in {r} THEN 1 ELSE 0)
      BY <1>1, <1>2, CountAppend
    <3>2. /\ Count(file.lines, {r}) \in Nat /\ Count(file.lines, {r}) <= 1
          /\ r \notin 1 .. written => Count(file.lines, {r}) = 0
      BY <1>1, CountType DEF FilesOK
    <3>3. r = written + 1 => r \notin 1 .. written /\ r \in 1 .. written'
      BY <1>2
    <3>4. r \notin 1 .. written' => r \notin 1 .. written
      BY <1>2
    <3> QED BY <3>1, <3>2, <3>3, <3>4
  <2> QED BY <2>1, <2>2
<1>4. ASSUME NEW r \in Nat PROVE /\ Count(old.lines, {r}) <= 1
                                 /\ r \notin 1 .. written' => Count(old.lines, {r}) = 0
  <2>1. r \notin 1 .. written' => r \notin 1 .. written
    BY <1>2
  <2> QED BY <2>1 DEF FilesOK
<1>5. CASE file' = [file EXCEPT !.lines = lines] /\ UNCHANGED old
  <2>1. /\ file' = [inode |-> file.inode, lines |-> lines] /\ old' = old
        /\ file'.inode = file.inode /\ file'.lines = lines
    BY <1>5 DEF FilesOK
  <2>2. FilesOK(file', old', written')
    BY <1>1, <1>3, <1>4, <2>1 DEF FilesOK
  <2>3. ASSUME NEW p, Placed(p)
        PROVE  /\ PlacedIn(p, file', old')
               /\ FitsIn(p, file, old) => FitsIn(p, file', old')
               /\ \A r \in Nat : Count(AheadIn(p, file', old'), {r}) =
                                  Count(Ahead(p), {r}) + (IF r = written + 1 THEN 1 ELSE 0)
    <3>1. FitsIn(p, file, old) => FitsIn(p, file', old')
      BY <2>1 DEF FitsIn
    <3>2. \A f : f = [inode |-> file.inode, lines |-> Append(file.lines, written + 1)] =>
            /\ PlacedIn(p, f, old)
            /\ \A r \in Nat : Count(AheadIn(p, f, old), {r}) =
                               Count(Ahead(p), {r}) + (IF r = written + 1 THEN 1 ELSE 0)
      BY <2>3, AppendAhead
    <3> QED BY <2>1, <3>1, <3>2
  <2>4. ASSUME NEW p, Placed(p), NEW r \in Nat
        PROVE  LET was == Count(Ahead(p), {r}) + (IF r = written' THEN 1 ELSE 0)
                   now == Count(AheadIn(p, file', old'), {r})
               IN  now - was \in 0 .. file'.inode - file.inode
    <3>1. Count(Ahead(p), {r}) \in Nat
      BY <2>4, AheadCounts, AheadIs DEF Placed
    <3>2. Count(AheadIn(p, file', old'), {r}) = Count(Ahead(p), {r}) + (IF r = written + 1 THEN 1 ELSE 0)
      BY <2>3, <2>4
    <3> QED BY <1>1, <1>2, <2>1, <3>1, <3>2
  <2> QED BY <1>1, <1>2, <2>1, <2>2, <2>3, <2>4
<1>6. CASE /\ MayTurn(lines)
           /\ old' = [inode |-> file.inode, lines |-> lines]
           /\ \E carried \in SUBSET (Protected \cap (IdsOf(old.lines) \cup IdsOf(lines))) :
                file' = [inode |-> file.inode + 1,
                         lines |-> Without([i \in Ids |-> i], Ids \ carried)]
  <2> HIDE DEF lines
  <2>1. PICK carried \in SUBSET (Protected \cap (IdsOf(old.lines) \cup IdsOf(lines))) :
                file' = [inode |-> file.inode + 1,
                         lines |-> Without([i \in Ids |-> i], Ids \ carried)]
    BY <1>6
  <2>2. /\ old'.inode = file.inode /\ old'.lines = lines /\ saved.inode = file.inode
        /\ TailFits => Len(lines) - saved.offset <= ReadMax
    BY <1>6 DEF MayTurn
  <2>3. carried \in SUBSET Ids /\ carried \subseteq 1 .. written'
    <3>1. carried \subseteq Ids
      BY DEF ShipAssumption, Ids
    <3>2. ASSUME NEW r \in carried PROVE r \in 1 .. written'
      <4>1. r \in Nat /\ (r \in IdsOf(old.lines) \/ r \in IdsOf(lines)) /\ r \in Records
        BY <3>1, <1>1, <1>3, IdsByCount DEF Ids, Records
      <4>2. Count(old.lines, {r}) > 0 \/ Count(lines, {r}) > 0
        <5>1. r \in IdsOf(old.lines) <=> Count(old.lines, {r}) > 0
          BY <1>1, <4>1, IdsByCount
        <5>2. r \in IdsOf(lines) <=> Count(lines, {r}) > 0
          BY <1>3, <4>1, IdsByCount
        <5> QED BY <4>1, <5>1, <5>2
      <4>3. r \notin 1 .. written' => Count(old.lines, {r}) = 0
        BY <1>4, <4>1
      <4>4. r \notin 1 .. written' => Count(lines, {r}) = 0
        BY <1>3, <4>1
      <4> QED BY <4>2, <4>3, <4>4
    <3> QED BY <3>1, <3>2
  <2> DEFINE fresh == Without([i \in Ids |-> i], Ids \ carried)
  <2>4. /\ fresh \in Seq(Nat)
        /\ \A r \in Nat : /\ Count(fresh, {r}) \in Nat /\ Count(fresh, {r}) <= 1
                          /\ r \notin carried => Count(fresh, {r}) = 0
    BY <2>3, CarriedLines
  <2>5. file'.inode = file.inode + 1 /\ file'.lines = fresh
        /\ file' = [inode |-> file'.inode, lines |-> file'.lines]
    BY <2>1
  <2> HIDE DEF fresh
  <2>6. FilesOK(file', old', written')
    <3>1. \A r \in Nat : r \notin 1 .. written' => r \notin carried
      BY <2>3
    <3>2. /\ file'.inode \in Nat \ {0} /\ old'.inode = file'.inode - 1 /\ old'.inode # 0
          /\ file'.lines \in Seq(Nat) /\ old'.lines \in Seq(Nat)
      <4>1. file'.inode \in Nat \ {0} /\ old'.inode = file'.inode - 1 /\ old'.inode # 0
        BY <1>1, <2>2, <2>5
      <4>2. file'.lines \in Seq(Nat) /\ old'.lines \in Seq(Nat)
        BY <1>3, <2>2, <2>4, <2>5
      <4> QED BY <4>1, <4>2
    <3>3. ASSUME NEW r \in Nat
          PROVE  /\ Count(file'.lines, {r}) <= 1 /\ Count(old'.lines, {r}) <= 1
                 /\ r \notin 1 .. written' => /\ Count(file'.lines, {r}) = 0
                                              /\ Count(old'.lines, {r}) = 0
      BY <1>3, <2>2, <2>4, <2>5, <3>1
    <3> QED BY <2>5, <3>2, <3>3 DEF FilesOK
  <2>7. ASSUME NEW p, Placed(p), NotPast(saved, p)
        PROVE  /\ PlacedIn(p, file', old')
               /\ TailFits => FitsIn(p, file', old')
               /\ \A r \in Nat : Count(AheadIn(p, file', old'), {r}) =
                    Count(Ahead(p), {r}) + (IF r = written + 1 THEN 1 ELSE 0) + Count(fresh, {r})
    <3>1. p.inode = file.inode /\ saved.offset <= p.offset /\ p.offset \in Nat /\ saved.offset \in Nat
      BY <1>1, <2>2, <2>7 DEF NotPast, Placed, PlacedIn
    <3>2. TailFits => FitsIn(p, file', old')
      <4>1. ReadMax \in Nat /\ Len(lines) \in Nat
        BY <1>3 DEF ShipAssumption
      <4> QED BY <2>2, <3>1, <4>1 DEF FitsIn
    <3>3. old'.inode = file.inode /\ old'.lines = Append(file.lines, written + 1)
      BY <2>2 DEF lines
    <3>4. ASSUME NEW f, NEW o, f.inode = file.inode + 1, f.lines \in Seq(Nat),
                 o.inode = file.inode, o.lines = Append(file.lines, written + 1)
          PROVE  /\ PlacedIn(p, f, o)
                 /\ \A r \in Nat : Count(AheadIn(p, f, o), {r}) =
                      Count(Ahead(p), {r}) + (IF r = written + 1 THEN 1 ELSE 0) + Count(f.lines, {r})
      <4>1. FilesOK(file, old, written) /\ written \in Nat /\ Placed(p) /\ p.inode = file.inode
        BY <2>7, <3>1
      <4> HIDE DEF FilesOK, Placed
      <4> QED BY <3>4, <4>1, RotateAhead
    <3>5. file'.inode = file.inode + 1 /\ file'.lines \in Seq(Nat) /\ file'.lines = fresh
      BY <2>4, <2>5
    <3>6. /\ PlacedIn(p, file', old')
          /\ \A r \in Nat : Count(AheadIn(p, file', old'), {r}) =
               Count(Ahead(p), {r}) + (IF r = written + 1 THEN 1 ELSE 0) + Count(file'.lines, {r})
      BY <3>3, <3>4, <3>5
    <3> QED BY <3>2, <3>5, <3>6
  <2>8. ASSUME NEW p, Placed(p), NotPast(saved, p), NEW r \in Nat
        PROVE  LET was == Count(Ahead(p), {r}) + (IF r = written' THEN 1 ELSE 0)
                   now == Count(AheadIn(p, file', old'), {r})
               IN  now - was \in 0 .. file'.inode - file.inode
    <3>1. Count(Ahead(p), {r}) \in Nat /\ Count(fresh, {r}) \in {0, 1}
      <4>1. Count(Ahead(p), {r}) \in Nat
        BY <2>8, AheadCounts, AheadIs DEF Placed
      <4>2. Count(fresh, {r}) \in Nat /\ Count(fresh, {r}) <= 1
        BY <2>4
      <4> QED BY <4>1, <4>2
    <3>2. Count(AheadIn(p, file', old'), {r}) =
            Count(Ahead(p), {r}) + (IF r = written + 1 THEN 1 ELSE 0) + Count(fresh, {r})
      BY <2>7, <2>8
    <3>3. file'.inode - file.inode = 1
      BY <1>1, <2>5
    <3> QED BY <1>2, <3>1, <3>2, <3>3
  <2> QED BY <1>2, <2>5, <2>6, <2>7, <2>8
<1> QED
  <2>1. written + 1 = written'
    BY <1>2
  <2> HIDE DEF lines
  <2> QED BY <1>5, <1>6, <2>1 DEF Write, lines

-----------------------------------------------------------------------------
(* What the steps of a pass do to the buffer.                              *)

\* A sequence is its records and its heartbeats.
LEMMA RecordsLen ==
  ASSUME NEW s \in Seq(Nat)
  PROVE  /\ Len(RecordsIn(s)) = Count(s, Records)
         /\ Len(s) = Count(s, Records) + Count(s, {Beat})
         /\ Count(s, Records) \in Nat
<1>1. Without(s, {Beat}) \in Seq(Nat) /\ Count(Without(s, {Beat}), Nat) = Count(s, Nat \ {Beat})
  BY CountWithout
<1>2. Len(Without(s, {Beat})) = Count(Without(s, {Beat}), Nat)
  BY <1>1, CountAll
<1>3. Len(RecordsIn(s)) = Count(s, Records)
  BY <1>1, <1>2 DEF RecordsIn, Records
<1>4. Records \cap {Beat} = {} /\ Records \cup {Beat} = Nat
  BY DEF Records, Beat
<1>5. Count(s, Records \cup {Beat}) = Count(s, Records) + Count(s, {Beat})
  BY <1>4, CountUnion
<1>6. Count(s, Nat) = Len(s) /\ Count(s, Records) \in Nat
  BY CountAll, CountType
<1> QED
  BY <1>3, <1>4, <1>5, <1>6

\* What Collect buffers, and what falls off the front.
LEMMA CollectFacts ==
  ASSUME ShipAssumption, Base, Collect
  PROVE  \E evicted \in Seq(Nat) :
           LET read == TailOf(frontier) \o Fresh(frontier)
               new == Without(read, IdsOf(cursor.recent))
           IN  /\ read \in Seq(Nat) /\ new \in Seq(Nat) /\ buffer' \in Seq(Nat)
               /\ \A S : S \subseteq Records =>
                    Count(buffer', S) + Count(evicted, S) = Count(buffer, S) + Count(new, S)
               /\ pending' = pending + Len(new) - Len(RecordsIn(evicted))
               /\ uncounted' = Add(uncounted, Len(evicted))
               /\ lost' = lost \cup IdsOf(evicted)
<1> DEFINE read == TailOf(frontier) \o Fresh(frontier)
           new == Without(read, IdsOf(cursor.recent))
<1>1. /\ FilesOK(file, old, written) /\ Placed(frontier) /\ buffer \in Seq(Nat)
      /\ BufferMax \in Nat
  BY DEF Base, Collect, ShipAssumption
<1>2. read \in Seq(Nat)
  BY <1>1, ReadFacts
<1>3. new \in Seq(Nat)
  <2> HIDE DEF read
  <2> QED BY <1>2, CountWithout
<1>4. PICK beat \in {<<>>, <<Beat>>} :
        LET all == buffer \o new \o beat
            over == Len(all) - Least(BufferMax, Len(all))
            evicted == First(all, over)
        IN  /\ buffer' = After(all, over)
            /\ pending' = pending + Len(new) - Len(RecordsIn(evicted))
            /\ uncounted' = Add(uncounted, over)
            /\ lost' = lost \cup IdsOf(evicted)
  BY DEF Collect
<1> HIDE DEF new, read
<1> DEFINE all == buffer \o new \o beat
           over == Len(all) - Least(BufferMax, Len(all))
           evicted == First(all, over)
<1>5. beat \in Seq(Nat) /\ \A S : S \subseteq Records => Count(beat, S) = 0
  <2>1. <<>> \in Seq(Nat) /\ <<Beat>> \in Seq(Nat)
    BY EmptySeq DEF Beat
  <2>2. ASSUME NEW S, S \subseteq Records PROVE Count(beat, S) = 0
    <3>1. CASE beat = <<>>
      BY <3>1, CountEmpty
    <3>2. CASE beat = <<Beat>>
      <4>1. {i \in DOMAIN beat : beat[i] \in S} = {}
        BY <2>2, <3>2 DEF Beat, Records
      <4> QED BY <4>1, FS_EmptySet DEF Count
    <3> QED BY <3>1, <3>2
  <2> QED BY <2>1, <2>2
<1>6. /\ all \in Seq(Nat)
      /\ \A S : Count(all, S) = Count(buffer, S) + Count(new, S) + Count(beat, S)
  <2>1. buffer \o new \in Seq(Nat) /\ \A S : Count(buffer \o new, S) = Count(buffer, S) + Count(new, S)
    BY <1>1, <1>3, CountConcat
  <2> DEFINE some == buffer \o new
  <2> HIDE DEF some
  <2>2. some \in Seq(Nat)
    BY <2>1 DEF some
  <2>3. some \o beat \in Seq(Nat) /\ \A S : Count(some \o beat, S) = Count(some, S) + Count(beat, S)
    BY <1>5, <2>2, CountConcat
  <2> QED BY <2>1, <2>3 DEF some
<1>7. over \in Nat /\ over <= Len(all)
  <2> HIDE DEF all
  <2>1. Len(all) \in Nat
    BY <1>6, LenProperties
  <2> QED BY <1>1, <2>1 DEF Least
<1>8. evicted \in Seq(Nat) /\ Len(evicted) = over
  <2> HIDE DEF all, over
  <2>1. Len(all) \in Nat
    BY <1>6, LenProperties
  <2>2. evicted \in Seq(Nat) /\ Len(evicted) = Least(over, Len(all))
    BY <1>6, <1>7, FirstType
  <2> QED BY <1>7, <2>1, <2>2 DEF Least
<1>9. /\ After(all, over) \in Seq(Nat)
      /\ \A S : Count(all, S) = Count(evicted, S) + Count(After(all, over), S)
  <2> HIDE DEF all, over
  <2>1. /\ After(all, Len(evicted)) \in Seq(Nat)
        /\ \A S : Count(all, S) = Count(evicted, S) + Count(After(all, Len(evicted)), S)
    BY <1>6, <1>7, CountParts
  <2> QED BY <1>8, <2>1
<1>10. /\ buffer' = After(all, over)
       /\ pending' = pending + Len(new) - Len(RecordsIn(evicted))
       /\ uncounted' = Add(uncounted, Len(evicted))
       /\ lost' = lost \cup IdsOf(evicted)
  BY <1>4, <1>8
<1> HIDE DEF all, over, evicted
<1>11. \A S : S \subseteq Records =>
                    Count(buffer', S) + Count(evicted, S) = Count(buffer, S) + Count(new, S)
  <2> SUFFICES ASSUME NEW S, S \subseteq Records
               PROVE  Count(buffer', S) + Count(evicted, S) = Count(buffer, S) + Count(new, S)
    OBVIOUS
  <2>1. /\ Count(buffer', S) \in Nat /\ Count(evicted, S) \in Nat
        /\ Count(buffer, S) \in Nat /\ Count(new, S) \in Nat
    BY <1>1, <1>3, <1>8, <1>9, <1>10, CountType
  <2>2. Count(buffer, S) + Count(new, S) + 0 = Count(evicted, S) + Count(buffer', S)
    BY <1>5, <1>6, <1>9, <1>10
  <2> QED BY <2>1, <2>2
<1> QED
  BY <1>2, <1>3, <1>8, <1>9, <1>10, <1>11 DEF new, read

\* What leaves the buffer in one batch.
LEMMA BatchFacts ==
  ASSUME ShipAssumption, buffer \in Seq(Nat), pending = Count(buffer, Records)
  PROVE  /\ Batch \in Seq(Nat)
         /\ \A n \in Nat : /\ First(Batch, n) \in Seq(Nat)
                           /\ \A S : Count(First(Batch, n), S) <= Count(buffer, S)
         /\ After(buffer, Len(Batch)) \in Seq(Nat)
         /\ \A S : Count(buffer, S) = Count(Batch, S) + Count(After(buffer, Len(Batch)), S)
         /\ pending - Len(RecordsIn(Batch)) = Count(After(buffer, Len(Batch)), Records)
<1>1. BatchMax \in Nat
  BY DEF ShipAssumption
<1>2. /\ Batch \in Seq(Nat) /\ After(buffer, Len(Batch)) \in Seq(Nat)
      /\ \A S : Count(buffer, S) = Count(Batch, S) + Count(After(buffer, Len(Batch)), S)
  BY <1>1, CountParts DEF Batch
<1> HIDE DEF Batch
<1> DEFINE rest == After(buffer, Len(Batch))
<1> HIDE DEF rest
<1>3. rest \in Seq(Nat) /\ \A S : Count(buffer, S) = Count(Batch, S) + Count(rest, S)
  BY <1>2 DEF rest
<1>4. \A S : Count(Batch, S) \in Nat /\ Count(rest, S) \in Nat
  BY <1>2, <1>3, CountType
<1>5. ASSUME NEW n \in Nat
      PROVE  /\ First(Batch, n) \in Seq(Nat)
             /\ \A S : Count(First(Batch, n), S) <= Count(buffer, S)
  <2> DEFINE u == First(Batch, n)
             v == After(Batch, Len(u))
  <2>1. u \in Seq(Nat) /\ v \in Seq(Nat) /\ \A S : Count(Batch, S) = Count(u, S) + Count(v, S)
    BY <1>2, CountParts
  <2> HIDE DEF u, v
  <2>2. \A S : Count(u, S) \in Nat /\ Count(v, S) \in Nat
    BY <2>1, CountType
  <2>3. ASSUME NEW S PROVE Count(u, S) <= Count(buffer, S)
    <3>1. /\ Count(buffer, S) = Count(Batch, S) + Count(rest, S)
          /\ Count(Batch, S) = Count(u, S) + Count(v, S)
      BY <1>3, <2>1
    <3>2. /\ Count(Batch, S) \in Nat /\ Count(rest, S) \in Nat
          /\ Count(u, S) \in Nat /\ Count(v, S) \in Nat
      BY <1>4, <2>2
    <3> QED BY <3>1, <3>2
  <2> QED BY <2>1, <2>3 DEF u
<1>6. pending - Len(RecordsIn(Batch)) = Count(rest, Records)
  <2>1. Len(RecordsIn(Batch)) = Count(Batch, Records)
    BY <1>2, RecordsLen
  <2>2. pending = Count(Batch, Records) + Count(rest, Records)
    BY <1>3
  <2>3. Count(Batch, Records) \in Nat /\ Count(rest, Records) \in Nat
    BY <1>4
  <2> QED BY <2>1, <2>2, <2>3
<1> QED
  BY <1>2, <1>5, <1>6 DEF rest

\* What the collector has taken after a batch.
LEMMA TakenFacts ==
  ASSUME copies \in [Ids -> Nat], NEW batch \in Seq(Nat), Taken(batch)
  PROVE  /\ copies' \in [Ids -> Nat]
         /\ \A r \in Ids : copies'[r] = copies[r] + Count(batch, {r})
<1>1. \A r \in Ids : Count(batch, {r}) \in Nat
  BY CountType
<1>2. ASSUME NEW r \in Ids
      PROVE  Cardinality({i \in DOMAIN batch : batch[i] = r}) = Count(batch, {r})
  <2>1. {i \in DOMAIN batch : batch[i] = r} = {i \in DOMAIN batch : batch[i] \in {r}}
    OBVIOUS
  <2> QED BY <2>1 DEF Count
<1>3. copies' = [r \in Ids |-> copies[r] + Count(batch, {r})]
  BY <1>2 DEF Taken
<1> QED
  BY <1>1, <1>3

\* What of the lines read is new: all but the records remembered as taken, and none
\* that was not written.
LEMMA NewFacts ==
  ASSUME ShipAssumption, Base, up
  PROVE  LET read == TailOf(frontier) \o Fresh(frontier)
             new == Without(read, IdsOf(cursor.recent))
         IN  /\ new \in Seq(Nat) /\ Len(new) = Count(new, Records)
             /\ \A r \in Nat :
                  /\ Count(new, {r}) \in Nat /\ Count(read, {r}) \in Nat
                  /\ Count(new, {r}) <= Count(read, {r})
                  /\ r \notin IdsOf(cursor.recent) => Count(new, {r}) = Count(read, {r})
                  /\ r \notin 1 .. written => Count(read, {r}) = 0
<1> DEFINE read == TailOf(frontier) \o Fresh(frontier)
           new == Without(read, IdsOf(cursor.recent))
<1>1. FilesOK(file, old, written) /\ Placed(frontier)
  BY DEF Base
<1>2. /\ read \in Seq(Nat) /\ Ahead(Reached(frontier)) \in Seq(Nat)
      /\ \A S : Count(read, S) + Count(Ahead(Reached(frontier)), S) <= Count(Ahead(frontier), S)
  BY <1>1, ReadFacts
<1> DEFINE behind == Ahead(Reached(frontier))
           before == Ahead(frontier)
<1>3. /\ before \in Seq(Nat)
      /\ \A r \in Nat : r \notin 1 .. written => Count(before, {r}) = 0
  BY <1>1, AheadCounts, AheadIs DEF Placed
<1> HIDE DEF read, behind, before
<1>4. ASSUME NEW r \in Nat, r \notin 1 .. written PROVE Count(read, {r}) = 0
  <2>1. /\ Count(read, {r}) \in Nat /\ Count(behind, {r}) \in Nat
    BY <1>2, CountType DEF behind
  <2>2. Count(before, {r}) = 0
    BY <1>3, <1>4
  <2>3. Count(read, {r}) + Count(behind, {r}) <= Count(before, {r})
    BY <1>2 DEF behind, before
  <2> QED BY <2>1, <2>2, <2>3
<1>5. /\ new \in Seq(Nat)
      /\ \A S : Count(new, S) = Count(read, S \ IdsOf(cursor.recent))
  BY <1>2, CountWithout
<1> HIDE DEF new
<1>6. ASSUME NEW r \in Nat
      PROVE  /\ Count(new, {r}) \in Nat /\ Count(read, {r}) \in Nat
             /\ Count(new, {r}) <= Count(read, {r})
             /\ r \notin IdsOf(cursor.recent) => Count(new, {r}) = Count(read, {r})
  <2>1. Count(new, {r}) \in Nat /\ Count(read, {r}) \in Nat
    BY <1>2, <1>5, CountType
  <2>2. CASE r \in IdsOf(cursor.recent)
    <3>1. {r} \ IdsOf(cursor.recent) = {}
      BY <2>2
    <3>2. Count(new, {r}) = Count(read, {})
      BY <1>5, <3>1
    <3>3. Count(read, {}) = 0
      BY FS_EmptySet DEF Count
    <3> QED BY <2>1, <2>2, <3>2, <3>3
  <2>3. CASE r \notin IdsOf(cursor.recent)
    <3>1. {r} \ IdsOf(cursor.recent) = {r}
      BY <2>3
    <3>2. Count(new, {r}) = Count(read, {r})
      BY <1>5, <3>1
    <3> QED BY <2>1, <3>2
  <2> QED BY <2>2, <2>3
<1>7. Len(new) = Count(new, Records)
  <2>1. 0 \in Nat /\ 0 \notin 1 .. written
    BY DEF Base
  <2>2. Count(read, {0}) = 0
    BY <1>4, <2>1
  <2>3. Count(new, {0}) = 0
    BY <1>6, <2>1, <2>2
  <2>4. Len(new) = Count(new, Records) + Count(new, {0}) /\ Count(new, Records) \in Nat
    BY <1>5, RecordsLen DEF Beat
  <2> QED BY <2>3, <2>4
<1> QED
  BY <1>4, <1>5, <1>6, <1>7 DEF new, read

-----------------------------------------------------------------------------
(* Base is an invariant.                                                   *)

\* A position is a pair of numbers.
LEMMA PlacedNat ==
  ASSUME FilesOK(file, old, written), NEW p, Placed(p)
  PROVE  p.inode \in Nat /\ p.offset \in Nat
<1>1. file.inode \in Nat \ {0} /\ old.inode = file.inode - 1
  BY DEF FilesOK
<1>2. p.inode \in {old.inode, file.inode} /\ p.offset \in Nat
  BY DEF Placed, PlacedIn
<1> QED
  BY <1>1, <1>2

\* Positions are ordered.
LEMMA NotPastTrans ==
  ASSUME FilesOK(file, old, written), NEW p, NEW q, NEW s, Placed(p), Placed(q), Placed(s),
         NotPast(p, q), NotPast(q, s)
  PROVE  NotPast(p, s)
<1>1. /\ p.inode \in Nat /\ p.offset \in Nat /\ q.inode \in Nat /\ q.offset \in Nat
      /\ s.inode \in Nat /\ s.offset \in Nat
  BY PlacedNat
<1>2. /\ p.inode < q.inode \/ (p.inode = q.inode /\ p.offset <= q.offset)
      /\ q.inode < s.inode \/ (q.inode = s.inode /\ q.offset <= s.offset)
  BY DEF NotPast
<1> QED
  BY <1>1, <1>2 DEF NotPast

\* Nothing is written, read or counted at first.
LEMMA InitBase ==
  ASSUME ShipAssumption, Init PROVE Base
<1>1. <<>> \in Seq(Nat) /\ DOMAIN <<>> = {} /\ Len(<<>>) = 0 /\ IdsOf(<<>>) = {}
  BY EmptySeq DEF IdsOf
<1>2. \A S : Count(<<>>, S) = 0
  BY CountEmpty
<1>3. FilesOK(file, old, written)
  BY <1>1, <1>2 DEF Init, FilesOK
<1>4. Last \in Nat
  BY DEF ShipAssumption
<1>5. CursorOK(NoCursor)
  BY <1>1, <1>4 DEF CursorOK, NoCursor
<1>6. Placed(NoCursor) /\ Placed(frontier)
  BY <1>1 DEF Init, Placed, PlacedIn, NoCursor
<1>7. NotPast(NoCursor, NoCursor) /\ NotPast(NoCursor, frontier)
  BY DEF NotPast, NoCursor, Init
<1>8. /\ copies \in [Ids -> Nat] /\ \A r \in Ids : r > written => copies[r] = 0
  BY DEF Init
<1> QED
  BY <1>1, <1>2, <1>3, <1>4, <1>5, <1>6, <1>7, <1>8 DEF Base, Init

\* Positions stay where they are, or follow a rotation, when moatd writes.
LEMMA WriteBase ==
  ASSUME ShipAssumption, Base, Write PROVE Base'
<1>1. FilesOK(file, old, written) /\ Placed(saved) /\ written \in 0 .. Last
  BY DEF Base
<1>2. /\ written' = written + 1 /\ written' <= Last
      /\ FilesOK(file', old', written')
      /\ \A p : Placed(p) /\ NotPast(saved, p) => PlacedIn(p, file', old')
  BY <1>1, WriteFacts
<1>3. UNCHANGED <<saved, up, pc, cursor, frontier, buffer, pending, uncounted, waiting,
                  copies, lost, faults>>
  BY DEF Write, shipper
<1>4. Placed(saved)'
  BY <1>1, <1>2, <1>3 DEF NotPast, Placed, PlacedIn
<1>5. ASSUME up PROVE Placed(cursor)' /\ Placed(frontier)'
  <2>1. NotPast(saved, cursor) /\ NotPast(cursor, frontier) /\ Placed(cursor) /\ Placed(frontier)
    BY <1>5 DEF Base
  <2>2. NotPast(saved, frontier)
    BY <1>1, <2>1, NotPastTrans
  <2>3. PlacedIn(cursor, file', old') /\ PlacedIn(frontier, file', old')
    BY <1>2, <2>1, <2>2
  <2> QED BY <1>3, <2>3 DEF Placed
<1>6. CursorOK(saved)' /\ CursorOK(cursor)'
  BY <1>3 DEF Base, CursorOK, Delivered
<1>7. written' \in 0 .. Last /\ \A r \in Nat : r > written' => r > written
  BY <1>1, <1>2
<1>8. /\ \A r \in Ids : r > written' => copies'[r] = 0
      /\ \A r \in Records : r > written' => Count(buffer', {r}) = 0
      /\ lost' \subseteq 1 .. written'
  <2>1. \A r \in Ids : r > written' => copies'[r] = 0
    BY <1>3, <1>7 DEF Base, Ids
  <2>2. \A r \in Records : r > written' => Count(buffer', {r}) = 0
    BY <1>3, <1>7 DEF Base, Records
  <2>3. lost' \subseteq 1 .. written'
    BY <1>1, <1>2, <1>3 DEF Base
  <2> QED BY <2>1, <2>2, <2>3
<1> QED
  BY <1>2, <1>3, <1>4, <1>5, <1>6, <1>7, <1>8 DEF Base, NotPast

\* What is read is buffered or evicted, once, and the frontier moves to its end.
LEMMA CollectBase ==
  ASSUME ShipAssumption, Base, Collect PROVE Base'
<1> DEFINE read == TailOf(frontier) \o Fresh(frontier)
           new == Without(read, IdsOf(cursor.recent))
<1>1. /\ FilesOK(file, old, written) /\ Placed(frontier) /\ up /\ written \in 0 .. Last
      /\ NotPast(cursor, frontier) /\ Placed(cursor)
      /\ buffer \in Seq(Nat) /\ pending = Count(buffer, Records)
  BY DEF Base, Collect
<1>2. PICK evicted \in Seq(Nat) :
        /\ buffer' \in Seq(Nat)
        /\ \A S : S \subseteq Records =>
             Count(buffer', S) + Count(evicted, S) = Count(buffer, S) + Count(new, S)
        /\ pending' = pending + Len(new) - Len(RecordsIn(evicted))
        /\ uncounted' = Add(uncounted, Len(evicted))
        /\ lost' = lost \cup IdsOf(evicted)
  BY CollectFacts
<1>3. /\ new \in Seq(Nat) /\ Len(new) = Count(new, Records)
      /\ \A r \in Nat : r \notin 1 .. written => Count(new, {r}) = 0
  <2>1. /\ new \in Seq(Nat) /\ Len(new) = Count(new, Records)
        /\ \A r \in Nat :
             /\ Count(new, {r}) \in Nat /\ Count(read, {r}) \in Nat
             /\ Count(new, {r}) <= Count(read, {r})
             /\ r \notin 1 .. written => Count(read, {r}) = 0
    BY <1>1, NewFacts
  <2> HIDE DEF new, read
  <2>2. ASSUME NEW r \in Nat, r \notin 1 .. written PROVE Count(new, {r}) = 0
    <3>1. /\ Count(new, {r}) \in Nat /\ Count(new, {r}) <= Count(read, {r})
          /\ Count(read, {r}) = 0
      BY <2>1, <2>2
    <3> QED BY <3>1
  <2> QED BY <2>1, <2>2
<1> HIDE DEF new
<1>4. frontier' = Reached(frontier)
      /\ UNCHANGED <<written, file, old, saved, up, cursor, waiting, copies, faults>>
  BY DEF Collect
<1>5. Placed(frontier)' /\ NotPast(cursor, frontier)'
  <2>1. Placed(Reached(frontier)) /\ NotPast(frontier, Reached(frontier))
    BY <1>1, ReadFacts
  <2>2. NotPast(cursor, Reached(frontier))
    BY <1>1, <2>1, NotPastTrans
  <2> QED BY <1>4, <2>1, <2>2 DEF Placed, NotPast
<1>6. ASSUME NEW r \in Records, r > written
      PROVE  Count(buffer', {r}) = 0 /\ Count(evicted, {r}) = 0
  <2>1. r \in Nat /\ r \notin 1 .. written /\ {r} \subseteq Records
    BY <1>1, <1>6 DEF Records
  <2>2. Count(buffer, {r}) = 0 /\ Count(new, {r}) = 0
    BY <1>3, <1>6, <2>1 DEF Base
  <2>3. Count(buffer', {r}) + Count(evicted, {r}) = Count(buffer, {r}) + Count(new, {r})
    BY <1>2, <2>1
  <2>4. Count(buffer', {r}) \in Nat /\ Count(evicted, {r}) \in Nat
    BY <1>2, CountType
  <2> QED BY <2>2, <2>3, <2>4
<1>7. lost' \subseteq 1 .. written
  <2>1. lost \subseteq 1 .. written
    BY DEF Base
  <2>2. IdsOf(evicted) \subseteq Records /\ \A r \in IdsOf(evicted) : ~(Count(evicted, {r}) = 0)
    BY IdsByCount
  <2>3. IdsOf(evicted) \subseteq 1 .. written
    <3> SUFFICES ASSUME NEW r \in IdsOf(evicted) PROVE r \in 1 .. written
      OBVIOUS
    <3>1. r \in Records /\ ~(Count(evicted, {r}) = 0)
      BY <2>2
    <3>2. ~(r > written)
      BY <1>6, <3>1
    <3> QED BY <1>1, <3>1, <3>2 DEF Records, Beat
  <2> QED BY <1>2, <2>1, <2>3
<1>8. pending' = Count(buffer', Records)
  <2>1. Count(buffer', Records) + Count(evicted, Records) = Count(buffer, Records) + Count(new, Records)
    BY <1>2
  <2>2. Len(RecordsIn(evicted)) = Count(evicted, Records)
    BY RecordsLen
  <2>3. /\ Count(buffer', Records) \in Nat /\ Count(evicted, Records) \in Nat
        /\ Count(buffer, Records) \in Nat /\ Count(new, Records) \in Nat
    BY <1>1, <1>2, <1>3, CountType
  <2>4. pending' = Count(buffer, Records) + Count(new, Records) - Count(evicted, Records)
    BY <1>1, <1>2, <1>3, <2>2
  <2> QED BY <2>1, <2>3, <2>4
<1>9. uncounted' \in 0 .. Last
  <2>1. uncounted \in Nat /\ Len(evicted) \in Nat /\ Last \in Nat
    BY LenProperties DEF Base, ShipAssumption
  <2> QED BY <1>2, <2>1 DEF Add, Least
<1>10. CursorOK(saved)' /\ CursorOK(cursor)' /\ Placed(saved)' /\ Placed(cursor)'
  BY <1>4 DEF Base, CursorOK, Delivered, Placed, Collect
<1> QED
  BY <1>1, <1>2, <1>4, <1>5, <1>6, <1>7, <1>8, <1>9, <1>10 DEF Base, NotPast

\* What the cursor remembers after a batch is from what it remembered and the batch.
LEMMA NotedFacts ==
  ASSUME ShipAssumption, NEW recent \in Seq(Nat), NEW batch \in Seq(Nat)
  PROVE  /\ Noted(recent, batch) \in Seq(Nat)
         /\ IdsOf(Noted(recent, batch)) \subseteq IdsOf(recent) \cup IdsOf(batch)
<1> DEFINE sent == RecordsIn(batch)
           all == recent \o sent
           n == Len(all) - Least(RecentMax, Len(all))
<1>1. sent \in Seq(Nat) /\ \A S : Count(sent, S) = Count(batch, S \ {Beat})
  BY CountWithout DEF RecordsIn
<1>2. IdsOf(sent) \subseteq IdsOf(batch)
  <2> HIDE DEF sent
  <2> SUFFICES ASSUME NEW r \in IdsOf(sent) PROVE r \in IdsOf(batch)
    OBVIOUS
  <2>1. r \in Records /\ Count(sent, {r}) > 0
    BY <1>1, IdsByCount
  <2>2. {r} \ {Beat} = {r}
    BY <2>1 DEF Records
  <2>3. Count(batch, {r}) > 0
    BY <1>1, <2>1, <2>2
  <2> QED BY <2>1, <2>3, IdsByCount
<1>3. all \in Seq(Nat) /\ IdsOf(all) = IdsOf(recent) \cup IdsOf(sent)
  <2> HIDE DEF sent
  <2> QED BY <1>1, IdsOfConcat
<1> HIDE DEF sent, all
<1>4. n \in Nat
  BY <1>3, LenProperties DEF ShipAssumption, Least
<1> HIDE DEF n
<1>5. After(all, n) \in Seq(Nat) /\ \A S : Count(After(all, n), S) <= Count(all, S)
  BY <1>3, <1>4, CountAfter
<1>6. IdsOf(After(all, n)) \subseteq IdsOf(all)
  <2> SUFFICES ASSUME NEW r \in IdsOf(After(all, n)) PROVE r \in IdsOf(all)
    OBVIOUS
  <2>1. r \in Records /\ Count(After(all, n), {r}) > 0
    BY <1>5, IdsByCount
  <2>2. Count(all, {r}) \in Nat /\ Count(After(all, n), {r}) \in Nat
    BY <1>3, <1>5, CountType
  <2>3. Count(all, {r}) > 0
    BY <1>5, <2>1, <2>2
  <2> QED BY <1>3, <2>1, <2>3, IdsByCount
<1> QED
  BY <1>2, <1>3, <1>5, <1>6 DEF Noted, all, n, sent

\* What is counted as taken is a record that was written, and stays taken.
LEMMA TakenBase ==
  ASSUME ShipAssumption, Base, NEW batch \in Seq(Nat), Taken(batch),
         \A r \in Records : Count(batch, {r}) <= Count(buffer, {r})
  PROVE  /\ copies' \in [Ids -> Nat] /\ \A r \in Ids : r > written => copies'[r] = 0
         /\ Delivered \subseteq Delivered'
         /\ \A r \in IdsOf(batch) : r \in Ids /\ r <= written /\ copies'[r] > 0
<1>1. /\ copies \in [Ids -> Nat] /\ written \in 0 .. Last /\ buffer \in Seq(Nat)
      /\ \A r \in Ids : r > written => copies[r] = 0
      /\ \A r \in Records : r > written => Count(buffer, {r}) = 0
  BY DEF Base
<1>2. copies' \in [Ids -> Nat] /\ \A r \in Ids : copies'[r] = copies[r] + Count(batch, {r})
  BY <1>1, TakenFacts
<1>3. \A r \in Nat : Count(batch, {r}) \in Nat /\ Count(buffer, {r}) \in Nat
  BY <1>1, CountType
<1>4. ASSUME NEW r \in Records, r > written PROVE Count(batch, {r}) = 0
  <2>1. Count(batch, {r}) <= Count(buffer, {r}) /\ Count(buffer, {r}) = 0
    BY <1>1, <1>4
  <2> QED BY <1>3, <2>1 DEF Records
<1>5. \A r \in Ids : r \in Records
  BY DEF Ids, Records, Beat
<1>6. ASSUME NEW r \in Ids, r > written PROVE copies'[r] = 0
  <2>1. copies[r] = 0 /\ Count(batch, {r}) = 0
    BY <1>1, <1>4, <1>5, <1>6
  <2>2. copies'[r] = copies[r] + Count(batch, {r})
    BY <1>2
  <2> QED BY <2>1, <2>2
<1>7. ASSUME NEW r \in Delivered PROVE r \in Delivered'
  <2>1. r \in Ids /\ copies[r] > 0 /\ copies[r] \in Nat /\ r \in Nat
    <3>1. r \in Ids /\ copies[r] > 0
      BY <1>7 DEF Delivered
    <3>2. r \in Nat
      BY <1>5, <3>1 DEF Records
    <3> QED BY <1>1, <3>1, <3>2
  <2>2. copies'[r] = copies[r] + Count(batch, {r}) /\ Count(batch, {r}) \in Nat
    BY <1>2, <1>3, <2>1
  <2> QED BY <2>1, <2>2 DEF Delivered
<1>8. ASSUME NEW r \in IdsOf(batch) PROVE r \in Ids /\ r <= written /\ copies'[r] > 0
  <2>1. r \in Records /\ Count(batch, {r}) > 0
    BY <1>8, IdsByCount
  <2>2. ~(r > written)
    BY <1>4, <2>1
  <2>3. r \in Ids /\ r <= written
    <3>1. r \in Nat /\ r # 0 /\ Last \in Nat /\ written \in Nat /\ written <= Last
      BY <1>1, <2>1 DEF Records, Beat, ShipAssumption
    <3> QED BY <2>2, <3>1 DEF Ids
  <2>4. copies'[r] = copies[r] + Count(batch, {r}) /\ copies[r] \in Nat
    BY <1>1, <1>2, <2>3
  <2>5. Count(batch, {r}) \in Nat
    BY <1>3, <2>1 DEF Records
  <2> QED BY <2>1, <2>3, <2>4, <2>5
<1> QED
  BY <1>2, <1>6, <1>7, <1>8

\* The buffer after the batch at its front has gone.
LEMMA ConsumeFacts ==
  ASSUME ShipAssumption, Base, Consume
  PROVE  /\ Batch \in Seq(Nat)
         /\ \A r \in Records : Count(Batch, {r}) <= Count(buffer, {r})
         /\ \A S : Count(buffer, S) = Count(Batch, S) + Count(buffer', S)
         /\ buffer' \in Seq(Nat) /\ pending' = Count(buffer', Records)
         /\ \A r \in Records : r > written => Count(buffer', {r}) = 0
<1>1. buffer \in Seq(Nat) /\ pending = Count(buffer, Records)
  BY DEF Base
<1>2. /\ Batch \in Seq(Nat) /\ After(buffer, Len(Batch)) \in Seq(Nat)
      /\ \A S : Count(buffer, S) = Count(Batch, S) + Count(After(buffer, Len(Batch)), S)
      /\ pending - Len(RecordsIn(Batch)) = Count(After(buffer, Len(Batch)), Records)
  BY <1>1, BatchFacts
<1>3. /\ Batch \in Seq(Nat) /\ buffer' \in Seq(Nat)
      /\ \A S : Count(buffer, S) = Count(Batch, S) + Count(buffer', S)
      /\ pending' = Count(buffer', Records)
  BY <1>2 DEF Consume
<1> HIDE DEF Batch
<1>4. ASSUME NEW r \in Records
      PROVE  /\ Count(Batch, {r}) <= Count(buffer, {r})
             /\ r > written => Count(buffer', {r}) = 0
  <2>1. /\ Count(buffer, {r}) \in Nat /\ Count(Batch, {r}) \in Nat /\ Count(buffer', {r}) \in Nat
    BY <1>1, <1>3, CountType
  <2>2. Count(buffer, {r}) = Count(Batch, {r}) + Count(buffer', {r})
    BY <1>3
  <2>3. r > written => Count(buffer, {r}) = 0
    BY DEF Base
  <2> QED BY <2>1, <2>2, <2>3
<1> QED
  BY <1>3, <1>4

\* What the collector takes was in the buffer, so it was written.
LEMMA SendOkBase ==
  ASSUME ShipAssumption, Base, SendOk PROVE Base'
<1>1. /\ Sending /\ Taken(Batch) /\ Consume
      /\ cursor' = [cursor EXCEPT !.recent = Noted(@, Batch)]
      /\ UNCHANGED <<written, file, old, saved, up, pc, frontier, uncounted, waiting, lost, faults>>
  BY DEF SendOk
<1>2. /\ Batch \in Seq(Nat)
      /\ \A r \in Records : Count(Batch, {r}) <= Count(buffer, {r})
      /\ buffer' \in Seq(Nat) /\ pending' = Count(buffer', Records)
      /\ \A r \in Records : r > written => Count(buffer', {r}) = 0
  BY <1>1, ConsumeFacts
<1>3. /\ copies' \in [Ids -> Nat] /\ \A r \in Ids : r > written => copies'[r] = 0
      /\ Delivered \subseteq Delivered'
      /\ \A r \in IdsOf(Batch) : r \in Ids /\ copies'[r] > 0
  BY <1>1, <1>2, TakenBase
<1>4. CursorOK(saved)'
  BY <1>1, <1>3 DEF Base, CursorOK
<1>5. CursorOK(cursor)' /\ cursor'.inode = cursor.inode /\ cursor'.offset = cursor.offset
  <2>1. /\ cursor.recent \in Seq(Nat) /\ IdsOf(cursor.recent) \subseteq Delivered
        /\ cursor = [inode |-> cursor.inode, offset |-> cursor.offset,
                     recent |-> cursor.recent, dropped |-> cursor.dropped]
        /\ cursor.dropped \in 0 .. Last
    BY DEF Base, CursorOK
  <2>2. /\ Noted(cursor.recent, Batch) \in Seq(Nat)
        /\ IdsOf(Noted(cursor.recent, Batch)) \subseteq IdsOf(cursor.recent) \cup IdsOf(Batch)
    BY <1>2, <2>1, NotedFacts
  <2>3. IdsOf(Batch) \subseteq Delivered'
    BY <1>3 DEF Delivered
  <2>4. /\ cursor' = [inode |-> cursor.inode, offset |-> cursor.offset,
                      recent |-> Noted(cursor.recent, Batch), dropped |-> cursor.dropped]
    BY <1>1, <2>1
  <2> HIDE DEF Batch
  <2>5. IdsOf(Noted(cursor.recent, Batch)) \subseteq Delivered'
    BY <1>3, <2>1, <2>2, <2>3
  <2> QED BY <2>1, <2>2, <2>4, <2>5 DEF CursorOK
<1>6. /\ Placed(saved)' /\ (up => /\ Placed(cursor)' /\ Placed(frontier)'
                                  /\ NotPast(saved, cursor)' /\ NotPast(cursor, frontier)')
  BY <1>1, <1>5 DEF Base, Placed, PlacedIn, NotPast
<1>7. up
  BY <1>1 DEF Sending
<1> QED
  BY <1>1, <1>2, <1>3, <1>4, <1>5, <1>6, <1>7 DEF Base

\* What a failed answer leaves with the collector was in the buffer too.
LEMMA SendFailsBase ==
  ASSUME ShipAssumption, Base, SendFails PROVE Base'
<1>1. /\ UNCHANGED <<written, file, old, saved, up, cursor, frontier, buffer, pending,
                     uncounted, lost>>
      /\ up
  BY DEF SendFails, Sending
<1>2. PICK n \in 0 .. Len(Batch) : /\ faults' = IF n > 0 THEN faults + 1 ELSE faults
                                   /\ Taken(First(Batch, n))
  BY DEF SendFails
<1>3. n \in Nat /\ First(Batch, n) \in Seq(Nat)
      /\ \A S : Count(First(Batch, n), S) <= Count(buffer, S)
  <2>1. buffer \in Seq(Nat) /\ pending = Count(buffer, Records)
    BY DEF Base
  <2>2. Batch \in Seq(Nat)
        /\ \A m \in Nat : First(Batch, m) \in Seq(Nat)
                          /\ \A S : Count(First(Batch, m), S) <= Count(buffer, S)
    BY <2>1, BatchFacts
  <2>3. n \in Nat
    BY <2>2, LenProperties
  <2> QED BY <2>2, <2>3
<1>4. /\ copies' \in [Ids -> Nat] /\ \A r \in Ids : r > written => copies'[r] = 0
      /\ Delivered \subseteq Delivered'
  BY <1>2, <1>3, TakenBase
<1>5. CursorOK(saved)' /\ CursorOK(cursor)'
  BY <1>1, <1>4 DEF Base, CursorOK
<1>6. /\ Placed(saved)' /\ (up => /\ Placed(cursor)' /\ Placed(frontier)'
                                  /\ NotPast(saved, cursor)' /\ NotPast(cursor, frontier)')
  BY <1>1 DEF Base, Placed, PlacedIn, NotPast
<1>7. faults' \in Nat
  BY <1>2, <1>3 DEF Base
<1> QED
  BY <1>1, <1>4, <1>5, <1>6, <1>7 DEF Base

\* What is refused leaves the buffer and enters lost, and was written.
LEMMA SendRefusedBase ==
  ASSUME ShipAssumption, Base, SendRefused PROVE Base'
<1>1. /\ Sending /\ Consume
      /\ cursor' = [cursor EXCEPT !.dropped = Add(@, Len(Batch))]
      /\ lost' = lost \cup IdsOf(Batch)
      /\ UNCHANGED <<written, file, old, saved, up, frontier, uncounted, waiting, copies, faults>>
  BY DEF SendRefused
<1>2. /\ Batch \in Seq(Nat)
      /\ \A r \in Records : Count(Batch, {r}) <= Count(buffer, {r})
      /\ buffer' \in Seq(Nat) /\ pending' = Count(buffer', Records)
      /\ \A r \in Records : r > written => Count(buffer', {r}) = 0
  BY <1>1, ConsumeFacts
<1>3. IdsOf(Batch) \subseteq 1 .. written
  <2> SUFFICES ASSUME NEW r \in IdsOf(Batch) PROVE r \in 1 .. written
    OBVIOUS
  <2>1. r \in Records /\ Count(Batch, {r}) > 0
    BY <1>2, IdsByCount
  <2>2. Count(Batch, {r}) \in Nat /\ Count(buffer, {r}) \in Nat
    BY <1>2, CountType DEF Base
  <2>3. ~(Count(buffer, {r}) = 0)
    BY <1>2, <2>1, <2>2
  <2>4. ~(r > written) /\ written \in Nat
    BY <2>1, <2>3 DEF Base
  <2>5. r \in Nat /\ r # 0
    BY <2>1 DEF Records, Beat
  <2> QED BY <2>4, <2>5
<1>4. Len(Batch) \in Nat
  BY <1>2, LenProperties
<1> HIDE DEF Batch
<1>5. CursorOK(saved)' /\ CursorOK(cursor)'
      /\ cursor'.inode = cursor.inode /\ cursor'.offset = cursor.offset
  <2>1. /\ cursor = [inode |-> cursor.inode, offset |-> cursor.offset,
                     recent |-> cursor.recent, dropped |-> cursor.dropped]
        /\ cursor.dropped \in 0 .. Last /\ Last \in Nat
    BY DEF Base, CursorOK, ShipAssumption
  <2>2. cursor' = [inode |-> cursor.inode, offset |-> cursor.offset,
                   recent |-> cursor.recent, dropped |-> Add(cursor.dropped, Len(Batch))]
    BY <1>1, <2>1
  <2>3. Add(cursor.dropped, Len(Batch)) \in 0 .. Last
    BY <1>4, <2>1 DEF Add, Least
  <2> QED BY <1>1, <2>2, <2>3 DEF Base, CursorOK, Delivered
<1>6. /\ Placed(saved)' /\ (up => /\ Placed(cursor)' /\ Placed(frontier)'
                                  /\ NotPast(saved, cursor)' /\ NotPast(cursor, frontier)')
  BY <1>1, <1>5 DEF Base, Placed, PlacedIn, NotPast
<1>7. up
  BY <1>1 DEF Sending
<1> QED
  BY <1>1, <1>2, <1>3, <1>5, <1>6, <1>7 DEF Base

\* The cursor stays, or goes to the frontier; the file stays, or becomes the cursor.
LEMMA SaveBase ==
  ASSUME ShipAssumption, Base, Save PROVE Base'
<1>1. /\ up /\ cursor' = Counted(Settle(cursor)) /\ saved' \in {cursor', saved} /\ uncounted' = 0
      /\ UNCHANGED <<written, file, old, up, frontier, buffer, pending, waiting, copies, lost, faults>>
  BY DEF Save
<1>2. /\ cursor = [inode |-> cursor.inode, offset |-> cursor.offset,
                   recent |-> cursor.recent, dropped |-> cursor.dropped]
      /\ cursor.dropped \in 0 .. Last /\ Last \in Nat /\ uncounted \in 0 .. Last
      /\ CursorOK(cursor) /\ CursorOK(saved)
  BY DEF Base, CursorOK, ShipAssumption
<1>3. /\ cursor'.recent = cursor.recent /\ cursor'.dropped = Add(cursor.dropped, uncounted)
      /\ cursor' = [inode |-> cursor'.inode, offset |-> cursor'.offset,
                    recent |-> cursor'.recent, dropped |-> cursor'.dropped]
      /\ \/ cursor'.inode = cursor.inode /\ cursor'.offset = cursor.offset
         \/ cursor'.inode = frontier.inode /\ cursor'.offset = frontier.offset
  BY <1>1, <1>2 DEF Counted, Settle
<1>4. CursorOK(cursor)' /\ CursorOK(saved)'
  <2>1. Add(cursor.dropped, uncounted) \in 0 .. Last
    BY <1>2 DEF Add, Least
  <2>2. Delivered' = Delivered
    BY <1>1 DEF Delivered
  <2> QED BY <1>1, <1>2, <1>3, <2>1, <2>2 DEF CursorOK
<1>5. /\ FilesOK(file, old, written) /\ Placed(saved) /\ Placed(cursor) /\ Placed(frontier)
      /\ NotPast(saved, cursor) /\ NotPast(cursor, frontier)
  BY <1>1 DEF Base
<1>6. /\ saved.offset \in Nat /\ cursor.offset \in Nat /\ frontier.offset \in Nat
  BY <1>5, PlacedNat
<1>7. NotPast(saved, frontier)
  BY <1>5, NotPastTrans
<1>8. Placed(cursor)' /\ Placed(saved)' /\ Placed(frontier)'
  BY <1>1, <1>3, <1>5 DEF Placed, PlacedIn
<1>9. NotPast(cursor, frontier)' /\ NotPast(saved, cursor)'
  BY <1>1, <1>3, <1>5, <1>6, <1>7 DEF NotPast
<1> QED
  BY <1>1, <1>2, <1>4, <1>8, <1>9 DEF Base

\* The clock changes none of it.
LEMMA BackoffOverBase ==
  ASSUME ShipAssumption, Base, BackoffOver PROVE Base'
BY DEF BackoffOver, Base, CursorOK, Delivered, Placed, NotPast

\* A stop empties the buffer and leaves the files and the cursor file.
LEMMA StopBase ==
  ASSUME ShipAssumption, Base, Stop PROVE Base'
<1>1. <<>> \in Seq(Nat) /\ \A S : Count(<<>>, S) = 0
  BY EmptySeq, CountEmpty
<1>2. CursorOK(NoCursor)
  <2>1. IdsOf(<<>>) = {} /\ 0 \in 0 .. Last
    BY DEF ShipAssumption, IdsOf
  <2> QED BY <1>1, <2>1 DEF CursorOK, NoCursor
<1>3. CursorOK(saved)' /\ CursorOK(cursor)'
  BY <1>2 DEF Stop, Base, CursorOK, Delivered
<1>4. Placed(saved)'
  BY DEF Stop, Base, Placed
<1>5. faults' \in Nat /\ uncounted' \in 0 .. Last
  BY DEF Stop, Base, ShipAssumption
<1> QED
  BY <1>1, <1>3, <1>4, <1>5 DEF Base, Stop

\* A restart puts the cursor and the frontier where the cursor file is.
LEMMA RestartBase ==
  ASSUME ShipAssumption, Base, Restart PROVE Base'
<1>1. CursorOK(saved)' /\ CursorOK(cursor)'
  BY DEF Restart, Base, CursorOK, Delivered
<1>2. Placed(saved)' /\ Placed(cursor)' /\ Placed(frontier)'
  BY DEF Restart, Base, Placed, PlacedIn
<1>3. NotPast(saved, cursor)' /\ NotPast(cursor, frontier)'
  <2>1. saved.offset \in Nat
    BY PlacedNat DEF Base
  <2> QED BY <2>1 DEF Restart, NotPast
<1> QED
  BY <1>1, <1>2, <1>3 DEF Base, Restart

\* Base holds in every state.
LEMMA BaseStep ==
  ASSUME ShipAssumption, Base, [Next]_vars PROVE Base'
<1>1. CASE UNCHANGED vars
  BY <1>1 DEF vars, shipper, Base, CursorOK, Delivered, Placed, NotPast
<1> QED
  BY <1>1, WriteBase, CollectBase, SendOkBase, SendFailsBase, SendRefusedBase, SaveBase,
     BackoffOverBase, StopBase, RestartBase DEF Next

\* The types, the places of the positions and the counters, in every reachable state
\* (Shipper::pass with SourceCursor, store.rs rotate).
THEOREM BaseInvariant == Spec => []Base
BY ShipAssumption, InitBase, BaseStep, PTL DEF Spec

\* The count that holds the cursor back is the number of records in the buffer, after any
\* mixture of polls, evictions, acknowledgements, refusals, crashes and restarts
\* (Shipper::forget subtracts with saturation, and a miscount would not show).
THEOREM PendingIsExact == Spec => []PendingExact
<1>1. ASSUME Base PROVE PendingExact
  BY <1>1, RecordsLen DEF Base, PendingExact
<1> QED
  BY <1>1, BaseInvariant, PTL

-----------------------------------------------------------------------------
(* A line is sent again only for a fault.                                  *)

\* What can still be read from a position, line by line.
LEMMA AheadFacts ==
  ASSUME Base, NEW p, Placed(p)
  PROVE  /\ Ahead(p) \in Seq(Nat)
         /\ \A r \in Nat : /\ Count(Ahead(p), {r}) \in Nat
                           /\ Count(Ahead(p), {r}) <= file.inode
                           /\ r \notin 1 .. written => Count(Ahead(p), {r}) = 0
<1>1. FilesOK(file, old, written) /\ PlacedIn(p, file, old)
  BY DEF Base, Placed
<1> QED
  BY <1>1, AheadCounts, AheadIs

\* The bound, in numbers: c copies and w lines waiting, k faults, generation i.
Bounded(c, w, k, i) == w <= i /\ c + w <= (1 + k) * i

\* Another generation gives a record at most one line more.
LEMMA BoundGrows ==
  ASSUME NEW c \in Nat, NEW w \in Nat, NEW k \in Nat, NEW i \in Nat, Bounded(c, w, k, i),
         NEW d \in {0, 1}, NEW v \in Nat, v <= w + d
  PROVE  Bounded(c, v, k, i + d)
<1>1. (1 + k) * (i + d) = (1 + k) * i + (1 + k) * d
  OBVIOUS
<1>2. CASE d = 0
  BY <1>2 DEF Bounded
<1>3. CASE d = 1
  <2>1. (1 + k) * (i + d) = (1 + k) * i + 1 + k
    BY <1>1, <1>3
  <2> DEFINE m == (1 + k) * i
  <2>2. m \in Nat /\ c + w <= m /\ w <= i
    BY DEF Bounded
  <2>3. (1 + k) * (i + d) = m + 1 + k
    BY <2>1
  <2> HIDE DEF m
  <2>4. c + v <= m + 1 + k /\ v <= i + d
    BY <1>3, <2>2
  <2> QED BY <2>3, <2>4 DEF Bounded
<1> QED
  BY <1>2, <1>3

\* A record written just now waits once, in either generation, and was never sent.
LEMMA BoundStarts ==
  ASSUME NEW k \in Nat, NEW i \in Nat \ {0}, NEW v \in Nat, v <= i
  PROVE  Bounded(0, v, k, i)
<1>1. (1 + k) * i = i + k * i /\ k * i \in Nat
  OBVIOUS
<1> QED
  BY <1>1 DEF Bounded

\* One fault pays for sending again what waits.
LEMMA BoundFaults ==
  ASSUME NEW c \in Nat, NEW w \in Nat, NEW k \in Nat, NEW i \in Nat, Bounded(c, w, k, i)
  PROVE  /\ \A n \in 0 .. w : Bounded(c + n, w, k + 1, i)
         /\ c <= (k + 1) * i
<1> DEFINE m == (1 + k) * i
<1>1. m \in Nat /\ c + w <= m /\ w <= i
  BY DEF Bounded
<1>2. (1 + (k + 1)) * i = m + i /\ (k + 1) * i = m
  OBVIOUS
<1> HIDE DEF m
<1>3. ASSUME NEW n \in 0 .. w PROVE Bounded(c + n, w, k + 1, i)
  <2>1. c + n + w <= m + i
    BY <1>1
  <2> QED BY <1>1, <1>2, <2>1 DEF Bounded
<1>4. c <= m
  BY <1>1
<1> QED
  BY <1>2, <1>3, <1>4

\* A run starts with what the faults before it have paid for.
LEMMA BoundRestarts ==
  ASSUME NEW c \in Nat, NEW w \in Nat, NEW k \in Nat, NEW i \in Nat, c <= k * i, w <= i
  PROVE  Bounded(c, w, k, i)
<1>1. (1 + k) * i = k * i + i /\ k * i \in Nat
  OBVIOUS
<1> DEFINE m == k * i
<1>2. m \in Nat /\ (1 + k) * i = m + i /\ c <= m
  BY <1>1
<1> HIDE DEF m
<1>3. c + w <= m + i
  BY <1>2
<1> QED
  BY <1>2, <1>3 DEF Bounded

\* Fewer waiting lines, and no more copies than lines that have gone, keep the bound.
LEMMA BoundShrinks ==
  ASSUME NEW c \in Nat, NEW w \in Nat, NEW k \in Nat, NEW i \in Nat, Bounded(c, w, k, i),
         NEW b \in Nat, NEW v \in Nat, v <= w, b + v <= c + w
  PROVE  Bounded(b, v, k, i)
<1> DEFINE m == (1 + k) * i
<1>1. m \in Nat /\ c + w <= m /\ w <= i
  BY DEF Bounded
<1> HIDE DEF m
<1>2. b + v <= m /\ v <= i
  BY <1>1
<1> QED
  BY <1>2 DEF Bounded, m

\* What waits for a record: its lines in the buffer, and those ahead of the frontier.
Waits(r) == Count(buffer, {r}) + Count(Ahead(frontier), {r})

\* The numbers of the bound, and that nothing waits or was sent before it was written.
LEMMA WaitsType ==
  ASSUME ShipAssumption, Base, up, NEW r \in Ids
  PROVE  /\ r \in Records /\ r \in Nat
         /\ Count(buffer, {r}) \in Nat /\ Count(Ahead(frontier), {r}) \in Nat
         /\ Waits(r) \in Nat /\ Count(Ahead(frontier), {r}) <= file.inode
         /\ r > written => Waits(r) = 0 /\ copies[r] = 0
         /\ copies[r] \in Nat /\ faults \in Nat /\ file.inode \in Nat \ {0}
<1>1. r \in Records /\ r \in Nat
  BY DEF Ids, Records, Beat
<1>2. buffer \in Seq(Nat) /\ Placed(frontier) /\ written \in Nat /\ faults \in Nat /\ copies[r] \in Nat
  BY DEF Base
<1>3. file.inode \in Nat \ {0}
  BY DEF Base, FilesOK
<1>4. Count(buffer, {r}) \in Nat
  BY <1>2, CountType
<1>5. /\ Count(Ahead(frontier), {r}) \in Nat /\ Count(Ahead(frontier), {r}) <= file.inode
      /\ r \notin 1 .. written => Count(Ahead(frontier), {r}) = 0
  BY <1>1, <1>2, AheadFacts
<1>6. ASSUME r > written PROVE Waits(r) = 0 /\ copies[r] = 0
  <2>1. Count(buffer, {r}) = 0 /\ copies[r] = 0
    BY <1>1, <1>6 DEF Base
  <2>2. r \notin 1 .. written
    BY <1>1, <1>2, <1>6
  <2> QED BY <1>5, <2>1, <2>2 DEF Waits
<1> QED
  BY <1>1, <1>2, <1>3, <1>4, <1>5, <1>6 DEF Waits

\* Once, in terms of the bound.
LEMMA OnceIs ==
  Once <=> /\ up => \A r \in Ids : Bounded(copies[r], Waits(r), faults, file.inode)
           /\ ~up => \A r \in Ids : copies[r] <= faults * file.inode
BY DEF Once, Bounded, Waits

\* Nothing was sent, and nothing waits, at first.
LEMMA InitOnce ==
  ASSUME ShipAssumption, Init PROVE Once
<1>1. Base /\ up
  BY InitBase DEF Init
<1>2. ASSUME NEW r \in Ids PROVE Bounded(copies[r], Waits(r), faults, file.inode)
  <2>1. Count(buffer, {r}) = 0 /\ copies[r] = 0
    BY CountEmpty DEF Init
  <2>2. /\ Count(Ahead(frontier), {r}) \in Nat /\ Count(Ahead(frontier), {r}) <= file.inode
        /\ faults \in Nat /\ file.inode \in Nat \ {0}
    BY <1>1, WaitsType
  <2>3. Waits(r) \in Nat /\ Waits(r) <= file.inode
    BY <2>1, <2>2 DEF Waits
  <2> QED BY <2>1, <2>2, <2>3, BoundStarts
<1> QED
  BY <1>1, <1>2, OnceIs

\* A record is written once, and a rotation gives it one line more at most.
LEMMA WriteOnce ==
  ASSUME ShipAssumption, Base, Once, Write PROVE Once'
<1>1. FilesOK(file, old, written) /\ Placed(saved) /\ written \in 0 .. Last /\ faults \in Nat
      /\ copies \in [Ids -> Nat] /\ written \in Nat
  BY DEF Base, ShipAssumption
<1>2. /\ written' = written + 1 /\ file'.inode \in {file.inode, file.inode + 1}
      /\ \A p : Placed(p) /\ NotPast(saved, p) =>
           \A r \in Nat :
             LET was == Count(Ahead(p), {r}) + (IF r = written' THEN 1 ELSE 0)
                 now == Count(AheadIn(p, file', old'), {r})
             IN  now - was \in 0 .. file'.inode - file.inode
  BY <1>1, WriteFacts
<1>3. UNCHANGED <<up, frontier, buffer, copies, faults>>
  BY DEF Write, shipper
<1>4. file.inode \in Nat \ {0}
  BY <1>1 DEF FilesOK
<1>5. Base'
  BY WriteBase
<1>6. PICK d \in {0, 1} : file'.inode = file.inode + d
  BY <1>2, <1>4
<1>7. ASSUME up, NEW r \in Ids PROVE Bounded(copies'[r], Waits(r)', faults', file'.inode)
  <2>1. /\ r \in Nat /\ Count(buffer, {r}) \in Nat /\ Count(Ahead(frontier), {r}) \in Nat
        /\ Waits(r) \in Nat /\ copies[r] \in Nat
        /\ r > written => Waits(r) = 0 /\ copies[r] = 0
    BY <1>7, WaitsType
  <2>2. Placed(frontier) /\ NotPast(saved, frontier)
    <3>1. Placed(cursor) /\ Placed(frontier) /\ NotPast(saved, cursor) /\ NotPast(cursor, frontier)
      BY <1>7 DEF Base
    <3> QED BY <1>1, <3>1, NotPastTrans
  <2> DEFINE one == IF r = written + 1 THEN 1 ELSE 0
  <2>3. Count(AheadIn(frontier, file', old'), {r}) - (Count(Ahead(frontier), {r}) + one) \in 0 .. d
    BY <1>2, <1>4, <1>6, <2>1, <2>2
  <2>4. Ahead(frontier)' = AheadIn(frontier, file', old')
    BY <1>3, AheadIs DEF Ahead, AheadIn
  <2>5. up' /\ Count(Ahead(frontier)', {r}) \in Nat
    <3>1. up'
      BY <1>3, <1>7
    <3>2. FilesOK(file', old', written') /\ PlacedIn(frontier', file', old')
      BY <1>5, <3>1 DEF Base, Placed
    <3>3. Count(AheadIn(frontier', file', old'), {r}) \in Nat
      BY <2>1, <3>2, AheadCounts
    <3> QED BY <1>3, <2>4, <3>1, <3>3
  <2> DEFINE now == Count(Ahead(frontier)', {r})
             was == Count(Ahead(frontier), {r})
             held == Count(buffer, {r})
  <2>6. now \in Nat /\ was \in Nat /\ held \in Nat /\ now - (was + one) \in 0 .. d
    BY <2>1, <2>3, <2>4, <2>5
  <2>7. Waits(r)' = held + now /\ Waits(r) = held + was
    BY <1>3 DEF Waits
  <2> HIDE DEF now, was, held
  <2>8. CASE r = written + 1
    <3>1. copies[r] = 0 /\ held + was = 0
      BY <1>1, <2>1, <2>7, <2>8
    <3>2. held + now <= file.inode + d /\ file.inode + d \in Nat \ {0} /\ held + now \in Nat
      BY <1>4, <2>6, <2>8, <3>1
    <3>3. Bounded(0, held + now, faults, file.inode + d)
      BY <1>1, <3>2, BoundStarts
    <3> QED BY <1>3, <1>6, <2>7, <3>1, <3>3
  <2>9. CASE r # written + 1
    <3>1. Bounded(copies[r], Waits(r), faults, file.inode)
      BY <1>7, OnceIs
    <3>2. held + now \in Nat /\ held + now <= held + was + d
      BY <2>6, <2>9
    <3>3. Bounded(copies[r], held + now, faults, file.inode + d)
      BY <1>1, <1>4, <2>1, <2>7, <3>1, <3>2, BoundGrows
    <3> QED BY <1>3, <1>6, <2>7, <3>3
  <2> QED BY <2>8, <2>9
<1>8. ASSUME ~up, NEW r \in Ids PROVE copies'[r] <= faults' * file'.inode
  <2>1. copies[r] <= faults * file.inode /\ copies[r] \in Nat
    BY <1>1, <1>8, OnceIs
  <2>2. /\ faults * (file.inode + d) = faults * file.inode + faults * d
        /\ faults * d \in Nat /\ faults * file.inode \in Nat
    BY <1>1, <1>4, <1>6
  <2>3. copies[r] <= faults * (file.inode + d)
    BY <2>1, <2>2
  <2> QED BY <1>3, <1>6, <2>3
<1>9. /\ up' => \A r \in Ids : Bounded(copies'[r], Waits(r)', faults', file'.inode)
      /\ ~up' => \A r \in Ids : copies'[r] <= faults' * file'.inode
  BY <1>3, <1>7, <1>8
<1> QED
  BY <1>9 DEF Once, Bounded, Waits

\* A step of a pass that keeps the faults: fewer lines wait, and what goes is one copy.
LEMMA PassOnce ==
  ASSUME ShipAssumption, Base, Once, up, up', UNCHANGED <<file, faults>>,
         \A r \in Ids : /\ Waits(r)' \in Nat /\ copies'[r] \in Nat
                        /\ Waits(r)' <= Waits(r)
                        /\ copies'[r] + Waits(r)' <= copies[r] + Waits(r)
  PROVE  Once'
<1>1. ASSUME NEW r \in Ids PROVE Bounded(copies'[r], Waits(r)', faults', file'.inode)
  <2>1. Waits(r) \in Nat /\ copies[r] \in Nat /\ faults \in Nat /\ file.inode \in Nat
    BY WaitsType
  <2>2. Bounded(copies[r], Waits(r), faults, file.inode)
    BY OnceIs
  <2>3. Bounded(copies'[r], Waits(r)', faults, file.inode)
    BY <2>1, <2>2, BoundShrinks
  <2> QED BY <2>3
<1> QED
  BY <1>1 DEF Once, Bounded, Waits

\* What comes in is no more than what was taken from the rest.
LEMMA MovedFits ==
  ASSUME NEW b \in Nat, NEW c \in Nat, NEW n \in Nat, NEW e \in Nat, NEW d \in Nat,
         NEW s \in Nat, NEW a \in Nat,
         c + e = b + n, n <= d, d + s <= a
  PROVE  c + s <= b + a
<1>1. c <= b + n
  OBVIOUS
<1>2. n + s <= a
  OBVIOUS
<1> QED BY <1>1, <1>2

\* Reading moves waiting lines from the file to the buffer, or drops them.
LEMMA CollectOnce ==
  ASSUME ShipAssumption, Base, Once, Collect PROVE Once'
<1> DEFINE read == TailOf(frontier) \o Fresh(frontier)
           new == Without(read, IdsOf(cursor.recent))
           rest == Ahead(Reached(frontier))
<1>1. up /\ frontier' = Reached(frontier)
      /\ UNCHANGED <<written, file, old, saved, up, cursor, waiting, copies, faults>>
  BY DEF Collect
<1>2. PICK evicted \in Seq(Nat) :
        /\ buffer' \in Seq(Nat)
        /\ \A S : S \subseteq Records =>
             Count(buffer', S) + Count(evicted, S) = Count(buffer, S) + Count(new, S)
  BY CollectFacts
<1>3. /\ rest \in Seq(Nat)
      /\ \A S : Count(read, S) + Count(rest, S) <= Count(Ahead(frontier), S)
  <2>1. FilesOK(file, old, written) /\ Placed(frontier)
    BY <1>1 DEF Base
  <2> QED BY <2>1, ReadFacts
<1>4. \A r \in Nat : /\ Count(new, {r}) \in Nat /\ Count(read, {r}) \in Nat
                     /\ Count(new, {r}) <= Count(read, {r})
  BY <1>1, NewFacts
<1> HIDE DEF new, read
<1>5. rest = Ahead(frontier)'
  BY <1>1 DEF Ahead
<1> HIDE DEF rest
<1>6. ASSUME NEW r \in Ids
      PROVE  Waits(r)' \in Nat /\ Waits(r)' <= Waits(r) /\ copies'[r] = copies[r]
             /\ copies[r] \in Nat /\ Waits(r) \in Nat
  <2>1. /\ r \in Records /\ r \in Nat /\ copies[r] \in Nat
        /\ Count(buffer, {r}) \in Nat /\ Count(Ahead(frontier), {r}) \in Nat
        /\ Waits(r) \in Nat
    BY <1>1, WaitsType
  <2>2. Count(buffer', {r}) + Count(evicted, {r}) = Count(buffer, {r}) + Count(new, {r})
    BY <1>2, <2>1
  <2>3. /\ Count(buffer', {r}) \in Nat /\ Count(evicted, {r}) \in Nat /\ Count(rest, {r}) \in Nat
    BY <1>2, <1>3, CountType
  <2>4. /\ Count(read, {r}) + Count(rest, {r}) <= Count(Ahead(frontier), {r})
        /\ Count(new, {r}) \in Nat /\ Count(read, {r}) \in Nat
        /\ Count(new, {r}) <= Count(read, {r})
    BY <1>3, <1>4, <2>1
  <2>5. Waits(r)' = Count(buffer', {r}) + Count(rest, {r})
    BY <1>5 DEF Waits
  <2>6. Count(buffer', {r}) + Count(rest, {r}) <= Count(buffer, {r}) + Count(Ahead(frontier), {r})
    <3> DEFINE ahead == Count(Ahead(frontier), {r})
    <3>1. /\ Count(buffer, {r}) \in Nat /\ Count(buffer', {r}) \in Nat /\ Count(new, {r}) \in Nat
          /\ Count(evicted, {r}) \in Nat /\ Count(read, {r}) \in Nat /\ Count(rest, {r}) \in Nat
          /\ ahead \in Nat
      BY <2>1, <2>3, <2>4
    <3>2. /\ Count(new, {r}) <= Count(read, {r}) /\ Count(read, {r}) + Count(rest, {r}) <= ahead
      BY <2>4
    <3> HIDE DEF ahead
    <3>3. Count(buffer', {r}) + Count(rest, {r}) <= Count(buffer, {r}) + ahead
      BY <2>2, <3>1, <3>2, MovedFits
    <3> QED BY <3>3 DEF ahead
  <2>7. copies' = copies
    BY <1>1
  <2> QED BY <2>1, <2>3, <2>5, <2>6, <2>7 DEF Waits
<1>7. \A r \in Ids : copies'[r] + Waits(r)' <= copies[r] + Waits(r)
  BY <1>6
<1> QED
  BY <1>1, <1>6, <1>7, PassOnce

\* A batch that is taken or refused waits no longer.
LEMMA ConsumeOnce ==
  ASSUME ShipAssumption, Base, Once, SendOk \/ SendRefused PROVE Once'
<1>1. /\ up /\ up' /\ Consume /\ UNCHANGED <<file, old, faults, frontier>>
  BY DEF SendOk, SendRefused, Sending
<1>2. /\ Batch \in Seq(Nat)
      /\ \A S : Count(buffer, S) = Count(Batch, S) + Count(buffer', S)
      /\ buffer' \in Seq(Nat)
  BY <1>1, ConsumeFacts
<1>3. copies \in [Ids -> Nat]
  BY DEF Base
<1>4. \A r \in Ids : copies'[r] \in {copies[r], copies[r] + Count(Batch, {r})}
  <2>1. CASE SendOk
    <3>1. Taken(Batch)
      BY <2>1 DEF SendOk
    <3> QED BY <1>2, <1>3, <3>1, TakenFacts
  <2>2. CASE SendRefused
    BY <2>2 DEF SendRefused
  <2> QED BY <2>1, <2>2
<1> HIDE DEF Batch
<1>5. Ahead(frontier)' = Ahead(frontier)
  BY <1>1 DEF Ahead
<1>6. ASSUME NEW r \in Ids
      PROVE  /\ Waits(r)' \in Nat /\ copies'[r] \in Nat
             /\ Waits(r)' <= Waits(r)
             /\ copies'[r] + Waits(r)' <= copies[r] + Waits(r)
  <2>1. /\ copies[r] \in Nat
        /\ Count(buffer, {r}) \in Nat /\ Count(Ahead(frontier), {r}) \in Nat
    BY <1>1, WaitsType
  <2>2. /\ Count(Batch, {r}) \in Nat /\ Count(buffer', {r}) \in Nat
    BY <1>2, CountType
  <2>3. Count(buffer, {r}) = Count(Batch, {r}) + Count(buffer', {r})
    BY <1>2
  <2>4. Waits(r)' = Count(buffer', {r}) + Count(Ahead(frontier), {r})
    BY <1>5 DEF Waits
  <2>5. copies'[r] \in {copies[r], copies[r] + Count(Batch, {r})}
    BY <1>4
  <2> QED BY <2>1, <2>2, <2>3, <2>4, <2>5 DEF Waits
<1> QED
  BY <1>1, <1>6, PassOnce

\* A lost answer leaves lines waiting that were taken, and is a fault.
LEMMA SendFailsOnce ==
  ASSUME ShipAssumption, Base, Once, SendFails PROVE Once'
<1>1. /\ UNCHANGED <<file, old, up, frontier, buffer>>
      /\ up
  BY DEF SendFails, Sending
<1>2. PICK n \in 0 .. Len(Batch) : /\ faults' = IF n > 0 THEN faults + 1 ELSE faults
                                   /\ Taken(First(Batch, n))
  BY DEF SendFails
<1>3. Batch \in Seq(Nat)
      /\ \A m \in Nat : First(Batch, m) \in Seq(Nat)
                        /\ \A S : Count(First(Batch, m), S) <= Count(buffer, S)
  <2>1. buffer \in Seq(Nat) /\ pending = Count(buffer, Records)
    BY DEF Base
  <2> QED BY <2>1, BatchFacts
<1> DEFINE sent == First(Batch, n)
<1>4. n \in Nat /\ sent \in Seq(Nat) /\ \A S : Count(sent, S) <= Count(buffer, S)
  <2>1. n \in Nat
    BY <1>3, LenProperties
  <2> QED BY <1>3, <2>1
<1>5. n = 0 => \A S : Count(sent, S) = 0
  <2> SUFFICES ASSUME n = 0 PROVE \A S : Count(sent, S) = 0
    OBVIOUS
  <2>1. Len(sent) = Least(0, Len(Batch)) /\ Len(Batch) \in Nat
    BY <1>3, FirstType, LenProperties
  <2>2. Len(sent) = 0
    BY <2>1 DEF Least
  <2> HIDE DEF sent
  <2>3. sent = <<>>
    BY <1>4, <2>2, EmptySeq
  <2> QED BY <2>3, CountEmpty
<1>6. copies \in [Ids -> Nat] /\ Taken(sent)
  BY <1>2 DEF Base
<1> HIDE DEF sent
<1>7. copies' \in [Ids -> Nat] /\ \A r \in Ids : copies'[r] = copies[r] + Count(sent, {r})
  BY <1>4, <1>6, TakenFacts
<1>8. ASSUME NEW r \in Ids PROVE Bounded(copies'[r], Waits(r)', faults', file'.inode)
  <2>1. /\ copies[r] \in Nat /\ faults \in Nat /\ file.inode \in Nat
        /\ Count(buffer, {r}) \in Nat /\ Count(Ahead(frontier), {r}) \in Nat
        /\ Waits(r) \in Nat
    BY <1>1, WaitsType
  <2>2. Count(sent, {r}) \in Nat /\ Count(sent, {r}) <= Count(buffer, {r})
    BY <1>4, CountType
  <2>3. Bounded(copies[r], Waits(r), faults, file.inode)
    BY <1>1, OnceIs
  <2>4. Waits(r)' = Waits(r) /\ file'.inode = file.inode
    BY <1>1 DEF Waits, Ahead
  <2>5. copies'[r] = copies[r] + Count(sent, {r})
    BY <1>7
  <2>6. CASE n = 0
    <3>1. copies'[r] = copies[r] /\ faults' = faults
      BY <1>2, <1>5, <2>1, <2>5, <2>6
    <3> QED BY <2>3, <2>4, <3>1
  <2>7. CASE n # 0
    <3>1. faults' = faults + 1
      BY <1>2, <1>4, <2>7
    <3>2. Count(sent, {r}) \in 0 .. Waits(r)
      BY <2>1, <2>2 DEF Waits
    <3>3. Bounded(copies[r] + Count(sent, {r}), Waits(r), faults + 1, file.inode)
      BY <2>1, <2>3, <3>2, BoundFaults
    <3> QED BY <2>4, <2>5, <3>1, <3>3
  <2> QED BY <2>6, <2>7
<1> QED
  BY <1>1, <1>8 DEF Once, Bounded, Waits

\* A stop is a fault, which pays for all that waited.
LEMMA StopOnce ==
  ASSUME ShipAssumption, Base, Once, Stop PROVE Once'
<1>1. up /\ ~up' /\ faults' = faults + 1 /\ UNCHANGED <<file, copies>>
  BY DEF Stop
<1>2. ASSUME NEW r \in Ids PROVE copies'[r] <= faults' * file'.inode
  <2>1. /\ copies[r] \in Nat /\ faults \in Nat /\ file.inode \in Nat /\ Waits(r) \in Nat
        /\ Bounded(copies[r], Waits(r), faults, file.inode)
    BY <1>1, WaitsType, OnceIs
  <2>2. copies[r] <= (faults + 1) * file.inode
    BY <2>1, BoundFaults
  <2> QED BY <1>1, <2>2
<1> QED
  BY <1>1, <1>2 DEF Once

\* A restart has to send what is ahead of the cursor file, once for each generation.
LEMMA RestartOnce ==
  ASSUME ShipAssumption, Base, Once, Restart PROVE Once'
<1>1. /\ ~up /\ up' /\ UNCHANGED <<file, old, buffer, copies, faults>>
      /\ frontier' = [inode |-> saved.inode, offset |-> saved.offset]
  BY DEF Restart
<1>2. buffer = <<>> /\ Placed(saved) /\ copies \in [Ids -> Nat] /\ faults \in Nat
      /\ file.inode \in Nat \ {0}
  BY <1>1 DEF Base, FilesOK
<1>3. Ahead(frontier)' = Ahead(saved)
  BY <1>1 DEF Ahead
<1>4. ASSUME NEW r \in Ids PROVE Bounded(copies'[r], Waits(r)', faults', file'.inode)
  <2>1. r \in Nat
    BY DEF Ids
  <2>2. Count(Ahead(saved), {r}) \in Nat /\ Count(Ahead(saved), {r}) <= file.inode
    BY <1>2, <2>1, AheadFacts
  <2>3. Count(buffer, {r}) = 0
    BY <1>2, CountEmpty
  <2>4. Waits(r)' = Count(Ahead(saved), {r})
    BY <1>1, <1>3, <2>2, <2>3 DEF Waits
  <2>5. copies[r] <= faults * file.inode /\ copies[r] \in Nat
    BY <1>1, <1>2, OnceIs
  <2>6. Bounded(copies[r], Count(Ahead(saved), {r}), faults, file.inode)
    BY <1>2, <2>2, <2>5, BoundRestarts
  <2> QED BY <1>1, <2>4, <2>6
<1> QED
  BY <1>1, <1>4 DEF Once, Bounded, Waits

\* Once is kept by every step.
LEMMA OnceStep ==
  ASSUME ShipAssumption, Base, Once, [Next]_vars PROVE Once'
<1>1. CASE UNCHANGED vars
  BY <1>1 DEF vars, shipper, Once, Ahead
<1>2. CASE Save
  BY <1>2 DEF Save, Once, Ahead
<1>3. CASE BackoffOver
  BY <1>3 DEF BackoffOver, Once, Ahead
<1> QED
  BY <1>1, <1>2, <1>3, WriteOnce, CollectOnce, ConsumeOnce, SendFailsOnce, StopOnce, RestartOnce
  DEF Next

\* A line is sent once, and once more for each crash and each answer that was lost: never
\* again because of a poll, a rotation, a refusal or a cursor file that was not written
\* (Shipper::collect with SourceCursor::recent, Shipper.frontier).
THEOREM SentOncePerFault == Spec => []OncePerFault
<1>1. ASSUME ShipAssumption, Base, Once PROVE OncePerFault
  <2> SUFFICES ASSUME NEW r \in Ids PROVE copies[r] <= (1 + faults) * file.inode
    BY DEF OncePerFault
  <2>1. copies[r] \in Nat /\ faults \in Nat /\ file.inode \in Nat /\ up \in BOOLEAN
    BY <1>1 DEF Base, FilesOK
  <2>2. CASE up
    <3>1. Waits(r) \in Nat /\ Bounded(copies[r], Waits(r), faults, file.inode)
      BY <1>1, <2>2, WaitsType, OnceIs
    <3>2. copies[r] <= (faults + 1) * file.inode
      BY <2>1, <3>1, BoundFaults
    <3> QED BY <2>1, <3>2
  <2>3. CASE ~up
    <3>1. copies[r] <= faults * file.inode
      BY <1>1, <2>3, OnceIs
    <3>2. (1 + faults) * file.inode = faults * file.inode + file.inode
          /\ faults * file.inode \in Nat
      BY <2>1
    <3> QED BY <2>1, <3>1, <3>2
  <2> QED BY <2>1, <2>2, <2>3
<1>2. Spec => []Once
  <2>1. Init => Once
    BY ShipAssumption, InitOnce
  <2>2. Base /\ Once /\ [Next]_vars => Once'
    BY ShipAssumption, OnceStep
  <2> QED BY <2>1, <2>2, BaseInvariant, PTL DEF Spec
<1>3. Base /\ Once => OncePerFault
  BY <1>1, ShipAssumption
<1> QED
  BY <1>2, <1>3, BaseInvariant, PTL

-----------------------------------------------------------------------------
(* What has been passed is accounted for.                                  *)

\* An interval from 1 has as many numbers as its end says.
LEMMA IntervalSize ==
  ASSUME NEW n \in Nat
  PROVE  IsFiniteSet(1 .. n) /\ Cardinality(1 .. n) = n
BY FS_Interval

\* Records that were written are finitely many, and no more than the counters reach.
LEMMA WrittenSets ==
  ASSUME ShipAssumption, written \in 0 .. Last, NEW S, S \subseteq 1 .. written
  PROVE  IsFiniteSet(S) /\ Cardinality(S) \in Nat /\ Cardinality(S) <= Last
<1>1. written \in Nat /\ Last \in Nat /\ written <= Last
  BY DEF ShipAssumption
<1>2. IsFiniteSet(1 .. written) /\ Cardinality(1 .. written) = written
  BY <1>1, IntervalSize
<1>3. IsFiniteSet(S) /\ Cardinality(S) <= Cardinality(1 .. written)
  BY <1>2, FS_Subset
<1>4. Cardinality(S) \in Nat
  BY <1>3, FS_CardinalityType
<1> QED
  BY <1>1, <1>2, <1>3, <1>4

\* Some more records, and a drop count that has grown by as many or is at its end.
LEMMA MoreAccounted ==
  ASSUME ShipAssumption, written \in 0 .. Last, NEW S, S \subseteq 1 .. written,
         NEW T, T \subseteq 1 .. written, NEW n \in Nat, Cardinality(T) <= n,
         NEW U, IsFiniteSet(U), NEW k \in Nat, Cardinality(U) <= k,
         S \subseteq T \cup U
  PROVE  Cardinality(S) <= n + k /\ Cardinality(S) <= Add(n, k)
<1>1. /\ IsFiniteSet(S) /\ Cardinality(S) \in Nat /\ Cardinality(S) <= Last
      /\ IsFiniteSet(T) /\ Cardinality(T) \in Nat /\ Cardinality(U) \in Nat /\ Last \in Nat
  BY WrittenSets, FS_CardinalityType DEF ShipAssumption
<1>2. IsFiniteSet(T \cup U) /\ Cardinality(T \cup U) <= Cardinality(T) + Cardinality(U)
      /\ Cardinality(T \cup U) \in Nat
  <2>1. /\ IsFiniteSet(T \cup U)
        /\ Cardinality(T \cup U) = Cardinality(T) + Cardinality(U) - Cardinality(T \cap U)
    BY <1>1, FS_Union
  <2>2. Cardinality(T \cap U) \in Nat
    BY <1>1, FS_Intersection, FS_CardinalityType
  <2>3. Cardinality(T \cup U) \in Nat
    BY <2>1, FS_CardinalityType
  <2> QED BY <1>1, <2>1, <2>2, <2>3
<1>3. Cardinality(S) <= Cardinality(T \cup U)
  BY <1>2, FS_Subset
<1>4. Cardinality(S) <= n + k
  BY <1>1, <1>2, <1>3
<1> QED
  BY <1>1, <1>4 DEF Add, Least

\* A record is missing when it is not taken and has no line ahead.
LEMMA MissingIs ==
  ASSUME Base, NEW p, Placed(p)
  PROVE  /\ Missing(p) \subseteq 1 .. written
         /\ \A r \in 1 .. written :
              r \in Missing(p) <=> r \notin Delivered /\ Count(Ahead(p), {r}) = 0
<1>1. Ahead(p) \in Seq(Nat) /\ \A r \in Nat : Count(Ahead(p), {r}) \in Nat
  BY AheadFacts
<1>2. ASSUME NEW r \in 1 .. written
      PROVE  r \in IdsOf(Ahead(p)) <=> ~(Count(Ahead(p), {r}) = 0)
  <2>1. written \in Nat
    BY DEF Base
  <2>2. r \in Records /\ r \in Nat
    BY <2>1 DEF Records, Beat
  <2>3. r \in IdsOf(Ahead(p)) <=> Count(Ahead(p), {r}) > 0
    BY <1>1, <2>2, IdsByCount
  <2>4. Count(Ahead(p), {r}) \in Nat
    BY <1>1, <2>2
  <2> QED BY <2>3, <2>4
<1> QED
  BY <1>2 DEF Missing

\* When moatd writes, nothing more goes missing for a position not before the cursor file.
LEMMA WriteMissing ==
  ASSUME ShipAssumption, TailFits, Base, Write, NEW p, Placed(p), NotPast(saved, p),
         FitsIn(p, file, old)
  PROVE  /\ FitsIn(p, file', old')
         /\ (1 .. written') \ (Delivered \cup IdsOf(AheadIn(p, file', old'))) \subseteq Missing(p)
<1>1. FilesOK(file, old, written) /\ Placed(saved) /\ written \in Nat
  BY DEF Base, ShipAssumption
<1>2. /\ written' = written + 1
      /\ FilesOK(file', old', written')
      /\ PlacedIn(p, file', old')
      /\ FitsIn(p, file', old')
      /\ \A r \in Nat :
           LET was == Count(Ahead(p), {r}) + (IF r = written' THEN 1 ELSE 0)
               now == Count(AheadIn(p, file', old'), {r})
           IN  now - was \in 0 .. file'.inode - file.inode
  BY <1>1, WriteFacts
<1>3. AheadIn(p, file', old') \in Seq(Nat)
      /\ \A r \in Nat : Count(AheadIn(p, file', old'), {r}) \in Nat
  BY <1>2, AheadCounts
<1>4. ASSUME NEW r \in 1 .. written', r \notin Delivered, r \notin IdsOf(AheadIn(p, file', old'))
      PROVE  r \in Missing(p)
  <2>1. r \in Nat /\ r \in Records
    BY <1>1, <1>2, <1>4 DEF Records, Beat
  <2>2. Count(AheadIn(p, file', old'), {r}) = 0
    <3>1. ~(Count(AheadIn(p, file', old'), {r}) > 0)
      BY <1>3, <1>4, <2>1, IdsByCount
    <3>2. Count(AheadIn(p, file', old'), {r}) \in Nat
      BY <1>3, <2>1
    <3> QED BY <3>1, <3>2
  <2> DEFINE one == IF r = written' THEN 1 ELSE 0
             was == Count(Ahead(p), {r})
             more == file'.inode - file.inode
  <2>3. 0 - (was + one) \in 0 .. more
    BY <1>2, <2>1, <2>2
  <2>4. was \in Nat
    BY <2>1, AheadFacts
  <2>5. was = 0 /\ r # written'
    <3>1. one \in {0, 1} /\ (r = written' => one = 1)
      OBVIOUS
    <3> HIDE DEF one, was, more
    <3>2. 0 - (was + one) >= 0
      BY <2>3
    <3> QED BY <2>4, <3>1, <3>2
  <2>6. r \in 1 .. written
    BY <1>1, <1>2, <1>4, <2>5
  <2> QED BY <1>4, <2>5, <2>6, MissingIs
<1> QED
  BY <1>2, <1>4

\* What of the records is missing and not in the buffer either.
Gone == Missing(frontier) \ IdsOf(buffer)

\* Account, in its parts.
LEMMA AccountIs ==
  ASSUME ShipAssumption, Base, Account
  PROVE  /\ written \in 0 .. Last /\ Last \in Nat
         /\ FitsIn(saved, file, old) /\ Placed(saved) /\ NotPast(saved, saved)
         /\ Missing(saved) \subseteq 1 .. written /\ Missing(saved) \subseteq lost
         /\ saved.dropped \in 0 .. Last /\ Cardinality(Missing(saved)) <= saved.dropped
         /\ up => /\ FitsIn(cursor, file, old) /\ Placed(cursor) /\ NotPast(saved, cursor)
                  /\ FitsIn(frontier, file, old) /\ Placed(frontier) /\ NotPast(saved, frontier)
                  /\ Missing(cursor) \subseteq 1 .. written /\ Missing(cursor) \subseteq lost
                  /\ Cardinality(Missing(cursor)) <= cursor.dropped
                  /\ Gone \subseteq 1 .. written /\ Gone \subseteq lost
                  /\ Cardinality(Gone) <= cursor.dropped + uncounted
         /\ cursor.dropped \in 0 .. Last /\ uncounted \in 0 .. Last
<1>1. /\ written \in 0 .. Last /\ Last \in Nat /\ FilesOK(file, old, written)
      /\ Placed(saved) /\ saved.dropped \in 0 .. Last
      /\ cursor.dropped \in 0 .. Last /\ uncounted \in 0 .. Last
  BY DEF Base, CursorOK, ShipAssumption
<1>2. NotPast(saved, saved)
  BY <1>1, PlacedNat DEF NotPast
<1>3. /\ FitsIn(saved, file, old)
      /\ Missing(saved) \subseteq 1 .. written /\ Missing(saved) \subseteq lost
      /\ Cardinality(Missing(saved)) <= saved.dropped
  BY DEF Account, Accounted, Missing
<1>4. ASSUME up
      PROVE  /\ Placed(cursor) /\ NotPast(saved, cursor)
             /\ Placed(frontier) /\ NotPast(saved, frontier)
  <2>1. Placed(cursor) /\ Placed(frontier) /\ NotPast(saved, cursor) /\ NotPast(cursor, frontier)
    BY <1>4 DEF Base
  <2> QED BY <1>1, <2>1, NotPastTrans
<1>5. ASSUME up
      PROVE  /\ FitsIn(cursor, file, old) /\ FitsIn(frontier, file, old)
             /\ Missing(cursor) \subseteq 1 .. written /\ Missing(cursor) \subseteq lost
             /\ Cardinality(Missing(cursor)) <= cursor.dropped
             /\ Gone \subseteq 1 .. written /\ Gone \subseteq lost
             /\ Cardinality(Gone) <= cursor.dropped + uncounted
  BY <1>5 DEF Account, Accounted, Missing, Gone
<1> QED
  BY <1>1, <1>2, <1>3, <1>4, <1>5

\* A part of what was accounted for is accounted for by as large a count.
LEMMA LessAccounted ==
  ASSUME ShipAssumption, written \in 0 .. Last, NEW S, NEW T, S \subseteq T, T \subseteq 1 .. written,
         NEW n \in Nat, Cardinality(T) <= n, NEW m \in Nat, n <= m
  PROVE  Cardinality(S) <= m
<1>1. IsFiniteSet(T) /\ Cardinality(T) \in Nat /\ S \subseteq 1 .. written
  BY WrittenSets
<1>2. Cardinality(S) \in Nat
  BY <1>1, WrittenSets
<1>3. Cardinality(S) <= Cardinality(T)
  BY <1>1, FS_Subset
<1> QED
  BY <1>1, <1>2, <1>3

\* Nothing is missing at first.
LEMMA InitAccount ==
  ASSUME ShipAssumption, Init PROVE Account
<1>1. written = 0 /\ saved.inode = 0 /\ cursor.inode = 0 /\ frontier.inode = 0 /\ old.inode = 0
      /\ saved.offset = 0 /\ cursor.offset = 0 /\ frontier.offset = 0
      /\ old.lines = <<>> /\ saved.dropped = 0 /\ cursor.dropped = 0 /\ uncounted = 0
  BY DEF Init, NoCursor
<1>2. 1 .. written = {}
  BY <1>1
<1>3. Cardinality({}) = 0
  BY FS_EmptySet
<1>4. \A p : Missing(p) = {}
  BY <1>2 DEF Missing
<1>5. FitsIn(saved, file, old) /\ FitsIn(cursor, file, old) /\ FitsIn(frontier, file, old)
  BY <1>1 DEF FitsIn, ShipAssumption
<1>6. Missing(saved) = {} /\ Missing(cursor) = {} /\ Missing(frontier) \ IdsOf(buffer) = {}
  BY <1>4
<1>7. Accounted(Missing(saved), saved.dropped) /\ Accounted(Missing(cursor), cursor.dropped)
  BY <1>1, <1>3, <1>6 DEF Accounted
<1>8. cursor.dropped + uncounted = 0
  BY <1>1
<1>9. Accounted(Missing(frontier) \ IdsOf(buffer), cursor.dropped + uncounted)
  <2>1. Missing(frontier) \ IdsOf(buffer) \subseteq lost
    BY <1>6
  <2>2. Cardinality(Missing(frontier) \ IdsOf(buffer)) <= cursor.dropped + uncounted
    BY <1>3, <1>6, <1>8
  <2> QED BY <2>1, <2>2 DEF Accounted
<1> QED
  BY <1>5, <1>7, <1>9 DEF Account

\* A write or a rotation makes nothing missing.
LEMMA WriteAccount ==
  ASSUME ShipAssumption, TailFits, Base, Account, Write PROVE Account'
<1>1. UNCHANGED <<saved, up, cursor, frontier, buffer, uncounted, copies, lost>>
  BY DEF Write, shipper
<1>2. Delivered' = Delivered
  BY <1>1 DEF Delivered
<1>3. ASSUME NEW p, Placed(p), NotPast(saved, p), FitsIn(p, file, old)
      PROVE  /\ FitsIn(p, file', old')
             /\ (1 .. written') \ (Delivered \cup IdsOf(AheadIn(p, file', old'))) \subseteq Missing(p)
  BY <1>3, WriteMissing
<1>4. /\ FitsIn(saved', file', old') /\ Missing(saved)' \subseteq Missing(saved)
  <2>1. Ahead(saved)' = AheadIn(saved, file', old')
    BY <1>1 DEF Ahead, AheadIn
  <2> QED BY <1>1, <1>2, <1>3, <2>1, AccountIs DEF Missing
<1>5. ASSUME up
      PROVE  /\ FitsIn(cursor', file', old') /\ Missing(cursor)' \subseteq Missing(cursor)
             /\ FitsIn(frontier', file', old') /\ Missing(frontier)' \subseteq Missing(frontier)
  <2>1. /\ Ahead(cursor)' = AheadIn(cursor, file', old')
        /\ Ahead(frontier)' = AheadIn(frontier, file', old')
    BY <1>1 DEF Ahead, AheadIn
  <2>2. /\ Placed(cursor) /\ NotPast(saved, cursor) /\ FitsIn(cursor, file, old)
        /\ Placed(frontier) /\ NotPast(saved, frontier) /\ FitsIn(frontier, file, old)
    BY <1>5, AccountIs
  <2>3. /\ FitsIn(cursor, file', old')
        /\ (1 .. written') \ (Delivered \cup IdsOf(AheadIn(cursor, file', old'))) \subseteq Missing(cursor)
    BY <1>3, <2>2
  <2>4. /\ FitsIn(frontier, file', old')
        /\ (1 .. written') \ (Delivered \cup IdsOf(AheadIn(frontier, file', old'))) \subseteq Missing(frontier)
    BY <1>3, <2>2
  <2> QED BY <1>1, <1>2, <2>1, <2>3, <2>4 DEF Missing
<1>6. Missing(saved)' \subseteq lost' /\ Cardinality(Missing(saved)') <= saved'.dropped
  <2>1. /\ written \in 0 .. Last /\ Missing(saved) \subseteq 1 .. written
        /\ saved.dropped \in Nat /\ Cardinality(Missing(saved)) <= saved.dropped
        /\ Missing(saved) \subseteq lost
    BY AccountIs
  <2>2. Cardinality(Missing(saved)') <= saved.dropped
    BY <1>4, <2>1, LessAccounted
  <2> QED BY <1>1, <1>4, <2>1, <2>2
<1>7. ASSUME up
      PROVE  /\ Missing(cursor)' \subseteq lost' /\ Cardinality(Missing(cursor)') <= cursor'.dropped
             /\ Gone' \subseteq lost' /\ Cardinality(Gone') <= cursor'.dropped + uncounted'
  <2>1. /\ written \in 0 .. Last /\ Missing(cursor) \subseteq 1 .. written
        /\ cursor.dropped \in Nat /\ Cardinality(Missing(cursor)) <= cursor.dropped
        /\ Missing(cursor) \subseteq lost /\ cursor.dropped + uncounted \in Nat
        /\ Gone \subseteq 1 .. written /\ Gone \subseteq lost
        /\ Cardinality(Gone) <= cursor.dropped + uncounted
    BY <1>7, AccountIs
  <2>2. Gone' \subseteq Gone
    BY <1>1, <1>5, <1>7 DEF Gone
  <2>3. Cardinality(Missing(cursor)') <= cursor.dropped
    BY <1>5, <1>7, <2>1, LessAccounted
  <2>4. Cardinality(Gone') <= cursor.dropped + uncounted
    <3> DEFINE n == cursor.dropped + uncounted
    <3>1. n \in Nat /\ Cardinality(Gone) <= n /\ n <= n
      BY <2>1
    <3> HIDE DEF n
    <3>2. Cardinality(Gone') <= n
      BY <2>1, <2>2, <3>1, LessAccounted
    <3> QED BY <3>2 DEF n
  <2> QED BY <1>1, <1>5, <1>7, <2>1, <2>2, <2>3, <2>4
<1> QED
  BY <1>1, <1>4, <1>5, <1>6, <1>7 DEF Account, Accounted, Gone

\* A step of a pass that leaves the position of the cursor, and takes or gives up more.
LEMMA PassAccount ==
  ASSUME ShipAssumption, Base, Account, up, UNCHANGED <<written, file, old, saved, up>>,
         Delivered \subseteq Delivered', lost \subseteq lost',
         cursor'.inode = cursor.inode, cursor'.offset = cursor.offset,
         cursor'.dropped \in Nat, cursor.dropped <= cursor'.dropped,
         FitsIn(frontier', file, old), Gone' \subseteq lost',
         Cardinality(Gone') <= cursor'.dropped + uncounted'
  PROVE  Account'
<1>1. /\ written \in 0 .. Last /\ FitsIn(saved, file, old) /\ FitsIn(cursor, file, old)
      /\ Missing(saved) \subseteq 1 .. written /\ Missing(saved) \subseteq lost
      /\ saved.dropped \in Nat /\ Cardinality(Missing(saved)) <= saved.dropped
      /\ Missing(cursor) \subseteq 1 .. written /\ Missing(cursor) \subseteq lost
      /\ cursor.dropped \in Nat /\ Cardinality(Missing(cursor)) <= cursor.dropped
  BY AccountIs
<1>2. Ahead(saved)' = Ahead(saved) /\ Ahead(cursor)' = Ahead(cursor)
  BY DEF Ahead
<1>3. Missing(saved)' \subseteq Missing(saved) /\ Missing(cursor)' \subseteq Missing(cursor)
  BY <1>2 DEF Missing
<1>4. Cardinality(Missing(saved)') <= saved.dropped
  BY <1>1, <1>3, LessAccounted
<1>5. Cardinality(Missing(cursor)') <= cursor'.dropped
  BY <1>1, <1>3, LessAccounted
<1>6. FitsIn(saved', file', old') /\ FitsIn(cursor', file', old') /\ FitsIn(frontier', file', old')
  BY <1>1 DEF FitsIn
<1>7. Missing(saved)' \subseteq lost' /\ Missing(cursor)' \subseteq lost'
  BY <1>1, <1>3
<1> QED
  BY <1>4, <1>5, <1>6, <1>7 DEF Account, Accounted, Gone

\* A count that stops at its end is as good as the sum, for what does not exceed the end.
LEMMA Saturation ==
  \A g, d, u, k, l \in Nat :
    g <= d + u + k /\ g <= l => g <= d + (IF l < u + k THEN l ELSE u + k)
OBVIOUS

\* What is read and not buffered was evicted, and is in uncounted.
LEMMA CollectAccount ==
  ASSUME ShipAssumption, Base, Account, Collect PROVE Account'
<1> DEFINE read == TailOf(frontier) \o Fresh(frontier)
           new == Without(read, IdsOf(cursor.recent))
           rest == Ahead(Reached(frontier))
<1>1. /\ up /\ frontier' = Reached(frontier)
      /\ UNCHANGED <<written, file, old, saved, up, cursor, waiting, copies, faults>>
  BY DEF Collect
<1>2. PICK evicted \in Seq(Nat) :
        /\ buffer' \in Seq(Nat)
        /\ \A S : S \subseteq Records =>
             Count(buffer', S) + Count(evicted, S) = Count(buffer, S) + Count(new, S)
        /\ uncounted' = Add(uncounted, Len(evicted))
        /\ lost' = lost \cup IdsOf(evicted)
  BY CollectFacts
<1>3. /\ FilesOK(file, old, written) /\ Placed(frontier) /\ FitsIn(frontier, file, old)
      /\ written \in 0 .. Last /\ written \in Nat
      /\ Gone \subseteq 1 .. written /\ Gone \subseteq lost
      /\ Cardinality(Gone) <= cursor.dropped + uncounted
      /\ cursor.dropped \in 0 .. Last /\ uncounted \in 0 .. Last /\ Last \in Nat
  BY <1>1, AccountIs DEF Base
<1>4. /\ Reached(frontier).inode = file.inode /\ Placed(Reached(frontier)) /\ rest \in Seq(Nat)
      /\ \A S : Count(read, S) + Count(rest, S) = Count(Ahead(frontier), S)
  BY <1>3, ReadFacts
<1>5. \A r \in Nat : /\ Count(new, {r}) \in Nat /\ Count(read, {r}) \in Nat
                     /\ r \notin IdsOf(cursor.recent) => Count(new, {r}) = Count(read, {r})
  BY <1>1, NewFacts
<1> HIDE DEF new, read
<1>6. IdsOf(cursor.recent) \subseteq Delivered
  BY DEF Base, CursorOK
<1>7. Delivered' = Delivered
  BY <1>1 DEF Delivered
<1>8. Missing(frontier)' = Missing(Reached(frontier))
  BY <1>1, <1>7 DEF Missing, Ahead
<1>9. Gone' \subseteq Gone \cup IdsOf(evicted)
  <2> SUFFICES ASSUME NEW r \in Gone', r \notin IdsOf(evicted) PROVE r \in Gone
    OBVIOUS
  <2>1. r \in Missing(Reached(frontier)) /\ r \notin IdsOf(buffer')
    BY <1>8 DEF Gone
  <2>2. r \in 1 .. written /\ r \in Nat /\ r \in Records /\ {r} \subseteq Records
    BY <1>3, <2>1 DEF Missing, Records, Beat
  <2>3. r \notin Delivered /\ Count(rest, {r}) = 0
    BY <1>4, <2>1, <2>2, MissingIs
  <2>4. Count(buffer', {r}) = 0 /\ Count(evicted, {r}) = 0
    <3>1. ~(Count(buffer', {r}) > 0) /\ ~(Count(evicted, {r}) > 0)
      BY <1>2, <2>1, <2>2, IdsByCount
    <3>2. Count(buffer', {r}) \in Nat /\ Count(evicted, {r}) \in Nat
      BY <1>2, CountType
    <3> QED BY <3>1, <3>2
  <2>5. Count(buffer, {r}) = 0 /\ Count(new, {r}) = 0
    <3>1. 0 + 0 = Count(buffer, {r}) + Count(new, {r})
      BY <1>2, <2>2, <2>4
    <3>2. Count(buffer, {r}) \in Nat /\ Count(new, {r}) \in Nat
      BY <1>5, <2>2, CountType DEF Base
    <3> QED BY <3>1, <3>2
  <2>6. Count(Ahead(frontier), {r}) = 0
    <3>1. Count(read, {r}) = 0
      BY <1>5, <1>6, <2>2, <2>3, <2>5
    <3>2. Count(read, {r}) + Count(rest, {r}) = Count(Ahead(frontier), {r})
      BY <1>4
    <3> QED BY <2>3, <3>1, <3>2
  <2>7. r \in Missing(frontier)
    BY <1>3, <2>2, <2>3, <2>6, MissingIs
  <2>8. r \notin IdsOf(buffer)
    BY <2>2, <2>5, IdsByCount DEF Base
  <2> QED BY <2>7, <2>8 DEF Gone
<1>10. Gone' \subseteq lost' /\ Gone' \subseteq 1 .. written
  <2>1. Missing(Reached(frontier)) \subseteq 1 .. written
    BY DEF Missing
  <2> QED BY <1>2, <1>3, <1>8, <1>9, <2>1 DEF Gone
<1>11. IsFiniteSet(IdsOf(evicted)) /\ Cardinality(IdsOf(evicted)) <= Len(evicted)
       /\ Len(evicted) \in Nat
  BY IdsFinite, LenProperties
<1>12. Cardinality(Gone') <= cursor.dropped + uncounted'
  <2> DEFINE n == cursor.dropped + uncounted
             k == Len(evicted)
  <2>1. n \in Nat /\ k \in Nat /\ Cardinality(Gone) <= n /\ Cardinality(IdsOf(evicted)) <= k
    BY <1>3, <1>11
  <2> HIDE DEF n, k
  <2>2. Cardinality(Gone') <= n + k /\ Cardinality(Gone') <= Add(n, k)
    BY <1>3, <1>9, <1>10, <1>11, <2>1, MoreAccounted
  <2>3. Cardinality(Gone') \in Nat /\ Cardinality(Gone') <= Last
    BY <1>3, <1>10, WrittenSets
  <2>4. uncounted' = IF Last < uncounted + k THEN Last ELSE uncounted + k
    BY <1>2 DEF Add, Least, k
  <2>5. n = cursor.dropped + uncounted /\ cursor.dropped \in Nat /\ uncounted \in Nat
    BY <1>3 DEF n
  <2>6. Cardinality(Gone') <= cursor.dropped + uncounted + k
    BY <2>2, <2>5
  <2> QED BY <1>3, <2>1, <2>3, <2>4, <2>5, <2>6, Saturation
<1>13. FitsIn(frontier', file, old)
  BY <1>1, <1>4 DEF FitsIn
<1>14. lost \subseteq lost' /\ cursor' = cursor /\ cursor.dropped \in Nat
  BY <1>1, <1>2, <1>3
<1> QED
  BY <1>1, <1>7, <1>10, <1>12, <1>13, <1>14, PassAccount

\* What leaves the buffer was taken.
LEMMA SendOkAccount ==
  ASSUME ShipAssumption, Base, Account, SendOk PROVE Account'
<1>1. /\ Sending /\ Taken(Batch) /\ Consume /\ up
      /\ cursor' = [cursor EXCEPT !.recent = Noted(@, Batch)]
      /\ UNCHANGED <<written, file, old, saved, up, frontier, uncounted, lost>>
  BY DEF SendOk, Sending
<1>2. /\ Batch \in Seq(Nat)
      /\ \A r \in Records : Count(Batch, {r}) <= Count(buffer, {r})
      /\ \A S : Count(buffer, S) = Count(Batch, S) + Count(buffer', S)
      /\ buffer' \in Seq(Nat)
  BY <1>1, ConsumeFacts
<1>3. /\ Delivered \subseteq Delivered'
      /\ \A r \in IdsOf(Batch) : r \in Ids /\ copies'[r] > 0
  BY <1>1, <1>2, TakenBase
<1> HIDE DEF Batch
<1>4. IdsOf(Batch) \subseteq Delivered'
  BY <1>3 DEF Delivered
<1>5. /\ written \in 0 .. Last /\ written \in Nat
      /\ Gone \subseteq 1 .. written /\ Gone \subseteq lost
      /\ Cardinality(Gone) <= cursor.dropped + uncounted
      /\ cursor.dropped \in 0 .. Last /\ uncounted \in 0 .. Last /\ Last \in Nat
      /\ FitsIn(frontier, file, old) /\ buffer \in Seq(Nat)
  BY <1>1, AccountIs DEF Base
<1>6. cursor'.inode = cursor.inode /\ cursor'.offset = cursor.offset
      /\ cursor'.dropped = cursor.dropped
  BY <1>1 DEF Base, CursorOK
<1>7. Gone' \subseteq Gone
  <2> SUFFICES ASSUME NEW r \in Gone' PROVE r \in Gone
    OBVIOUS
  <2>1. r \in Missing(frontier) /\ r \notin Delivered' /\ r \notin IdsOf(buffer')
    BY <1>1, <1>3 DEF Gone, Missing, Ahead
  <2>2. r \in Records
    BY <1>5, <2>1 DEF Missing, Records, Beat
  <2>3. ~(Count(Batch, {r}) > 0) /\ ~(Count(buffer', {r}) > 0)
    BY <1>2, <1>4, <2>1, <2>2, IdsByCount
  <2>4. Count(Batch, {r}) \in Nat /\ Count(buffer', {r}) \in Nat
    BY <1>2, CountType
  <2>5. Count(buffer, {r}) = 0
    BY <1>2, <2>3, <2>4
  <2>6. r \notin IdsOf(buffer)
    BY <1>5, <2>2, <2>5, IdsByCount
  <2> QED BY <2>1, <2>6 DEF Gone
<1>8. Cardinality(Gone') <= cursor'.dropped + uncounted'
  <2> DEFINE n == cursor.dropped + uncounted
  <2>1. n \in Nat /\ Cardinality(Gone) <= n /\ n <= n
    BY <1>5
  <2> HIDE DEF n
  <2>2. Cardinality(Gone') <= n
    BY <1>5, <1>7, <2>1, LessAccounted
  <2> QED BY <1>1, <1>6, <2>2 DEF n
<1>9. cursor'.dropped \in Nat /\ cursor.dropped <= cursor'.dropped
  BY <1>5, <1>6
<1>10. Gone' \subseteq lost' /\ lost \subseteq lost' /\ FitsIn(frontier', file, old)
  BY <1>1, <1>5, <1>7
<1> QED
  BY <1>1, <1>3, <1>6, <1>8, <1>9, <1>10, PassAccount

\* Nothing leaves the buffer, and more may have been taken.
LEMMA SendFailsAccount ==
  ASSUME ShipAssumption, Base, Account, SendFails PROVE Account'
<1>1. /\ UNCHANGED <<written, file, old, saved, up, cursor, frontier, buffer, pending,
                     uncounted, lost>>
      /\ up
  BY DEF SendFails, Sending
<1>2. PICK n \in 0 .. Len(Batch) : Taken(First(Batch, n))
  BY DEF SendFails
<1>3. n \in Nat /\ First(Batch, n) \in Seq(Nat)
      /\ \A S : Count(First(Batch, n), S) <= Count(buffer, S)
  <2>1. buffer \in Seq(Nat) /\ pending = Count(buffer, Records)
    BY DEF Base
  <2>2. Batch \in Seq(Nat)
        /\ \A m \in Nat : First(Batch, m) \in Seq(Nat)
                          /\ \A S : Count(First(Batch, m), S) <= Count(buffer, S)
    BY <2>1, BatchFacts
  <2>3. n \in Nat
    BY <2>2, LenProperties
  <2> QED BY <2>2, <2>3
<1>4. Delivered \subseteq Delivered'
  BY <1>2, <1>3, TakenBase
<1>5. /\ written \in 0 .. Last
      /\ Gone \subseteq 1 .. written /\ Gone \subseteq lost
      /\ Cardinality(Gone) <= cursor.dropped + uncounted
      /\ cursor.dropped \in 0 .. Last /\ uncounted \in 0 .. Last /\ Last \in Nat
      /\ FitsIn(frontier, file, old)
  BY <1>1, AccountIs
<1>6. Gone' \subseteq Gone
  BY <1>1, <1>4 DEF Gone, Missing, Ahead
<1>7. Cardinality(Gone') <= cursor'.dropped + uncounted'
  <2> DEFINE k == cursor.dropped + uncounted
  <2>1. k \in Nat /\ Cardinality(Gone) <= k /\ k <= k
    BY <1>5
  <2> HIDE DEF k
  <2>2. Cardinality(Gone') <= k
    BY <1>5, <1>6, <2>1, LessAccounted
  <2> QED BY <1>1, <2>2 DEF k
<1>8. /\ cursor'.dropped \in Nat /\ cursor.dropped <= cursor'.dropped
      /\ Gone' \subseteq lost' /\ lost \subseteq lost' /\ FitsIn(frontier', file, old)
  BY <1>1, <1>5, <1>6
<1> QED
  BY <1>1, <1>4, <1>7, <1>8, PassAccount

\* What leaves the buffer is counted in the cursor at once.
LEMMA SendRefusedAccount ==
  ASSUME ShipAssumption, Base, Account, SendRefused PROVE Account'
<1>1. /\ Sending /\ Consume /\ up
      /\ cursor' = [cursor EXCEPT !.dropped = Add(@, Len(Batch))]
      /\ lost' = lost \cup IdsOf(Batch)
      /\ UNCHANGED <<written, file, old, saved, up, frontier, uncounted, waiting, copies, faults>>
  BY DEF SendRefused, Sending
<1>2. /\ Batch \in Seq(Nat)
      /\ \A S : Count(buffer, S) = Count(Batch, S) + Count(buffer', S)
      /\ buffer' \in Seq(Nat)
  BY <1>1, ConsumeFacts
<1> HIDE DEF Batch
<1>3. /\ written \in 0 .. Last /\ written \in Nat
      /\ Gone \subseteq 1 .. written /\ Gone \subseteq lost
      /\ Cardinality(Gone) <= cursor.dropped + uncounted
      /\ cursor.dropped \in 0 .. Last /\ uncounted \in 0 .. Last /\ Last \in Nat
      /\ FitsIn(frontier, file, old) /\ buffer \in Seq(Nat)
  BY <1>1, AccountIs DEF Base
<1>4. Delivered' = Delivered
  BY <1>1 DEF Delivered
<1>5. Gone' \subseteq Gone \cup IdsOf(Batch)
  <2> SUFFICES ASSUME NEW r \in Gone', r \notin IdsOf(Batch) PROVE r \in Gone
    OBVIOUS
  <2>1. r \in Missing(frontier) /\ r \notin IdsOf(buffer')
    BY <1>1, <1>4 DEF Gone, Missing, Ahead
  <2>2. r \in Records
    BY <1>3, <2>1 DEF Missing, Records, Beat
  <2>3. ~(Count(Batch, {r}) > 0) /\ ~(Count(buffer', {r}) > 0)
    BY <1>2, <2>1, <2>2, IdsByCount
  <2>4. Count(Batch, {r}) \in Nat /\ Count(buffer', {r}) \in Nat
    BY <1>2, CountType
  <2>5. Count(buffer, {r}) = 0
    BY <1>2, <2>3, <2>4
  <2>6. r \notin IdsOf(buffer)
    BY <1>3, <2>2, <2>5, IdsByCount
  <2> QED BY <2>1, <2>6 DEF Gone
<1>6. Gone' \subseteq lost' /\ Gone' \subseteq 1 .. written
  BY <1>1, <1>3, <1>4, <1>5 DEF Gone, Missing, Ahead
<1>7. IsFiniteSet(IdsOf(Batch)) /\ Cardinality(IdsOf(Batch)) <= Len(Batch) /\ Len(Batch) \in Nat
  BY <1>2, IdsFinite, LenProperties
<1>8. cursor'.inode = cursor.inode /\ cursor'.offset = cursor.offset
      /\ cursor'.dropped = Add(cursor.dropped, Len(Batch))
  BY <1>1 DEF Base, CursorOK
<1>9. cursor'.dropped = IF Last < cursor.dropped + Len(Batch) THEN Last ELSE cursor.dropped + Len(Batch)
  BY <1>8 DEF Add, Least
<1>10. cursor'.dropped \in Nat /\ cursor.dropped <= cursor'.dropped
  BY <1>3, <1>7, <1>9
<1>11. Cardinality(Gone') <= cursor'.dropped + uncounted'
  <2> DEFINE n == cursor.dropped + uncounted
             k == Len(Batch)
  <2>1. n \in Nat /\ k \in Nat /\ Cardinality(Gone) <= n /\ Cardinality(IdsOf(Batch)) <= k
    BY <1>3, <1>7
  <2> HIDE DEF n, k
  <2>2. Cardinality(Gone') <= n + k
    BY <1>3, <1>5, <1>6, <1>7, <2>1, MoreAccounted
  <2>3. Cardinality(Gone') \in Nat /\ Cardinality(Gone') <= Last
    BY <1>3, <1>6, WrittenSets
  <2>4. cursor'.dropped = IF Last < cursor.dropped + k THEN Last ELSE cursor.dropped + k
    BY <1>9 DEF k
  <2>5. n = cursor.dropped + uncounted /\ cursor.dropped \in Nat /\ uncounted \in Nat
        /\ uncounted' = uncounted
    BY <1>1, <1>3 DEF n
  <2>6. Cardinality(Gone') <= uncounted + cursor.dropped + k
    BY <2>1, <2>2, <2>3, <2>5
  <2>7. Cardinality(Gone') <= uncounted + cursor'.dropped
    BY <1>3, <2>1, <2>3, <2>4, <2>5, <2>6, Saturation
  <2> QED BY <1>10, <2>5, <2>7
<1>12. FitsIn(frontier', file, old) /\ lost \subseteq lost'
  BY <1>1, <1>3
<1> QED
  BY <1>1, <1>4, <1>6, <1>8, <1>10, <1>11, <1>12, PassAccount

\* With nothing pending the cursor goes to the frontier, whose losses are then all counted;
\* otherwise it stays, and only its drop count grows.
LEMMA SaveAccount ==
  ASSUME ShipAssumption, Base, Account, Save PROVE Account'
<1>1. /\ up /\ up' /\ cursor' = Counted(Settle(cursor)) /\ saved' \in {cursor', saved} /\ uncounted' = 0
      /\ UNCHANGED <<written, file, old, frontier, buffer, copies, lost>>
  BY DEF Save
<1>2. /\ written \in 0 .. Last /\ Last \in Nat /\ written \in Nat
      /\ FitsIn(saved, file, old) /\ FitsIn(cursor, file, old) /\ FitsIn(frontier, file, old)
      /\ Missing(saved) \subseteq 1 .. written /\ Missing(saved) \subseteq lost
      /\ saved.dropped \in Nat /\ Cardinality(Missing(saved)) <= saved.dropped
      /\ Missing(cursor) \subseteq 1 .. written /\ Missing(cursor) \subseteq lost
      /\ Cardinality(Missing(cursor)) <= cursor.dropped
      /\ Gone \subseteq 1 .. written /\ Gone \subseteq lost
      /\ Cardinality(Gone) <= cursor.dropped + uncounted
      /\ cursor.dropped \in Nat /\ uncounted \in Nat
  BY <1>1, AccountIs
<1>3. Delivered' = Delivered /\ Gone' = Gone
  BY <1>1 DEF Delivered, Gone, Missing, Ahead
<1>4. cursor'.dropped = Add(cursor.dropped, uncounted)
      /\ \/ cursor'.inode = cursor.inode /\ cursor'.offset = cursor.offset
         \/ /\ cursor'.inode = frontier.inode /\ cursor'.offset = frontier.offset
            /\ pending = 0
  <2>1. cursor = [inode |-> cursor.inode, offset |-> cursor.offset,
                  recent |-> cursor.recent, dropped |-> cursor.dropped]
    BY DEF Base, CursorOK
  <2> QED BY <1>1, <2>1 DEF Counted, Settle
<1>5. Cardinality(Gone) <= Add(cursor.dropped, uncounted)
      /\ Cardinality(Missing(cursor)) <= Add(cursor.dropped, uncounted)
      /\ Add(cursor.dropped, uncounted) \in Nat
  <2>1. Cardinality(Gone) <= Last /\ Cardinality(Gone) \in Nat
        /\ Cardinality(Missing(cursor)) <= Last /\ Cardinality(Missing(cursor)) \in Nat
    BY <1>2, WrittenSets
  <2> QED BY <1>2, <2>1 DEF Add, Least
<1>6. /\ Missing(cursor)' \subseteq lost' /\ FitsIn(cursor', file', old')
      /\ Cardinality(Missing(cursor)') <= cursor'.dropped
  <2>1. CASE cursor'.inode = cursor.inode /\ cursor'.offset = cursor.offset
    <3>1. Missing(cursor)' = Missing(cursor)
      BY <1>1, <1>3, <2>1 DEF Missing, Ahead
    <3>2. FitsIn(cursor', file', old')
      BY <1>1, <1>2, <2>1 DEF FitsIn
    <3> QED BY <1>1, <1>2, <1>4, <1>5, <3>1, <3>2
  <2>2. CASE cursor'.inode = frontier.inode /\ cursor'.offset = frontier.offset /\ pending = 0
    <3>1. Missing(cursor)' = Missing(frontier)
      BY <1>1, <1>3, <2>2 DEF Missing, Ahead
    <3>2. FitsIn(cursor', file', old')
      BY <1>1, <1>2, <2>2 DEF FitsIn
    <3>3. IdsOf(buffer) = {}
      <4>1. buffer \in Seq(Nat) /\ Count(buffer, Records) = 0
        BY <2>2 DEF Base
      <4>2. ASSUME NEW r \in IdsOf(buffer) PROVE FALSE
        <5>1. r \in Records /\ Count(buffer, {r}) > 0
          BY <4>1, <4>2, IdsByCount
        <5>2. {r} \cap (Records \ {r}) = {} /\ {r} \cup (Records \ {r}) = Records
          BY <5>1
        <5>3. Count(buffer, Records) = Count(buffer, {r}) + Count(buffer, Records \ {r})
          BY <4>1, <5>2, CountUnion
        <5>4. Count(buffer, {r}) \in Nat /\ Count(buffer, Records \ {r}) \in Nat
          BY <4>1, CountType
        <5> QED BY <4>1, <5>1, <5>3, <5>4
      <4> QED BY <4>2
    <3>4. Missing(cursor)' = Gone
      BY <3>1, <3>3 DEF Gone
    <3> QED BY <1>1, <1>2, <1>4, <1>5, <3>2, <3>4
  <2> QED BY <1>4, <2>1, <2>2
<1>7. /\ Missing(saved)' \subseteq lost' /\ FitsIn(saved', file', old')
      /\ Cardinality(Missing(saved)') <= saved'.dropped
  <2>1. CASE saved' = saved
    <3>1. Missing(saved)' = Missing(saved)
      BY <1>1, <1>3, <2>1 DEF Missing, Ahead
    <3> QED BY <1>1, <1>2, <2>1, <3>1
  <2>2. CASE saved' = cursor'
    <3>1. Missing(saved)' = Missing(cursor)'
      BY <2>2 DEF Missing, Ahead
    <3> QED BY <1>6, <2>2, <3>1
  <2> QED BY <1>1, <2>1, <2>2
<1>8. /\ FitsIn(frontier', file', old') /\ Gone' \subseteq lost'
      /\ Cardinality(Gone') <= cursor'.dropped + uncounted'
  <2>1. cursor'.dropped + uncounted' = Add(cursor.dropped, uncounted)
    BY <1>1, <1>4, <1>5
  <2> QED BY <1>1, <1>2, <1>3, <1>5, <2>1
<1> QED
  BY <1>6, <1>7, <1>8 DEF Account, Accounted, Gone

\* The cursor file is what is left, and it was accounted for.
LEMMA StopAccount ==
  ASSUME ShipAssumption, Base, Account, Stop PROVE Account'
<1>1. UNCHANGED <<written, file, old, saved, copies, lost>> /\ ~up'
  BY DEF Stop
<1>2. Missing(saved)' = Missing(saved)
  BY <1>1 DEF Missing, Ahead, Delivered
<1> QED
  BY <1>1, <1>2 DEF Account, Accounted

\* A restart goes on from the cursor file with an empty buffer.
LEMMA RestartAccount ==
  ASSUME ShipAssumption, Base, Account, Restart PROVE Account'
<1>1. /\ ~up /\ up' /\ cursor' = saved
      /\ frontier' = [inode |-> saved.inode, offset |-> saved.offset]
      /\ UNCHANGED <<written, file, old, saved, buffer, uncounted, copies, lost>>
  BY DEF Restart
<1>2. buffer = <<>> /\ uncounted = 0
  BY <1>1 DEF Base
<1>3. /\ Missing(saved)' = Missing(saved) /\ Missing(cursor)' = Missing(saved)
      /\ Missing(frontier)' = Missing(saved)
  BY <1>1 DEF Missing, Ahead, Delivered
<1>4. Missing(frontier)' \ IdsOf(buffer)' = Missing(saved)
  <2>1. IdsOf(buffer)' = {}
    BY <1>1, <1>2 DEF IdsOf
  <2> QED BY <1>3, <2>1
<1>5. /\ FitsIn(saved, file, old) /\ Missing(saved) \subseteq lost
      /\ saved.dropped \in Nat /\ Cardinality(Missing(saved)) <= saved.dropped
  BY AccountIs
<1>6. FitsIn(saved', file', old') /\ FitsIn(cursor', file', old') /\ FitsIn(frontier', file', old')
  BY <1>1, <1>5 DEF FitsIn
<1>7. cursor'.dropped + uncounted' = saved.dropped
  BY <1>1, <1>2, <1>5
<1> QED
  BY <1>1, <1>3, <1>4, <1>5, <1>6, <1>7 DEF Account, Accounted

\* Account is kept by every step, where one poll reads the rest of a rotated file.
LEMMA AccountStep ==
  ASSUME ShipAssumption, TailFits, Base, Account, [Next]_vars PROVE Account'
<1>1. CASE UNCHANGED vars
  BY <1>1 DEF vars, shipper, Account, Accounted, Missing, Ahead, Delivered
<1>2. CASE BackoffOver
  BY <1>2 DEF BackoffOver, Account, Accounted, Missing, Ahead, Delivered
<1> QED
  BY <1>1, <1>2, WriteAccount, CollectAccount, SendOkAccount, SendFailsAccount,
     SendRefusedAccount, SaveAccount, StopAccount, RestartAccount DEF Next

\* Every loss is in the count of each of the three positions that has passed it, in every
\* reachable state (Shipper.cursor, Shipper.frontier and the cursor file).
THEOREM AccountInvariant == TailFits => (Spec => []Account)
<1> SUFFICES ASSUME TailFits PROVE Spec => []Account
  OBVIOUS
<1>1. Init => Account
  BY ShipAssumption, InitAccount
<1>2. Base /\ Account /\ [Next]_vars => Account'
  BY ShipAssumption, AccountStep
<1> QED
  BY <1>1, <1>2, BaseInvariant, PTL DEF Spec

\* The cursor file skips nothing: of the records before its position, those the collector
\* never took are no more than its drop count says, wherever a crash or a save that failed
\* left it (Shipper::settle, Shipper::pass).
THEOREM CursorSkipsNothing == TailFits => (Spec => []NothingSkipped)
<1> SUFFICES ASSUME TailFits PROVE Spec => []NothingSkipped
  OBVIOUS
<1>1. Account => NothingSkipped
  BY DEF Account, Accounted, Missing, NothingSkipped
<1> QED
  BY <1>1, AccountInvariant, PTL

\* A running shipper forgets nothing: what was written is still to be read, in the buffer,
\* taken by the collector, or given up and counted (Shipper::collect, Shipper::forget).
THEOREM ShipperForgetsNothing == TailFits => (Spec => []NothingForgotten)
<1> SUFFICES ASSUME TailFits PROVE Spec => []NothingForgotten
  OBVIOUS
<1>1. Account => NothingForgotten
  <2> SUFFICES ASSUME Account, up, NEW r \in 1 .. written,
                      r \notin Delivered, r \notin IdsOf(buffer), r \notin IdsOf(Ahead(frontier))
               PROVE  r \in lost
    BY DEF NothingForgotten
  <2>1. r \in Missing(frontier) \ IdsOf(buffer)
    BY DEF Missing
  <2>2. Missing(frontier) \ IdsOf(buffer) \subseteq lost
    BY DEF Account, Accounted
  <2> QED BY <2>1, <2>2
<1> QED
  BY <1>1, AccountInvariant, PTL

-----------------------------------------------------------------------------
(* The shipper implements Delivery.                                        *)

\* A batch that is sent, or part of one, takes nothing back.
LEMMA SendsDeliver ==
  ASSUME ShipAssumption, Base, SendOk \/ SendFails PROVE Delivered \subseteq Delivered'
<1>1. CASE SendOk
  <2>1. Taken(Batch) /\ Consume
    BY <1>1 DEF SendOk
  <2>2. Batch \in Seq(Nat) /\ \A r \in Records : Count(Batch, {r}) <= Count(buffer, {r})
    BY <2>1, ConsumeFacts
  <2> QED BY <2>1, <2>2, TakenBase
<1>2. CASE SendFails
  <2>1. PICK n \in 0 .. Len(Batch) : Taken(First(Batch, n))
    BY <1>2 DEF SendFails
  <2>2. buffer \in Seq(Nat) /\ pending = Count(buffer, Records)
    BY DEF Base
  <2>3. /\ Batch \in Seq(Nat)
        /\ \A m \in Nat : First(Batch, m) \in Seq(Nat)
                          /\ \A S : Count(First(Batch, m), S) <= Count(buffer, S)
    BY <2>2, BatchFacts
  <2>4. n \in Nat
    BY <2>3, LenProperties
  <2>5. First(Batch, n) \in Seq(Nat) /\ \A S : Count(First(Batch, n), S) <= Count(buffer, S)
    BY <2>3, <2>4
  <2> QED BY <2>1, <2>5, TakenBase
<1> QED
  BY <1>1, <1>2

\* A step of the shipper is a step of Delivery, or changes nothing there.
LEMMA StepDelivers ==
  ASSUME ShipAssumption, Base, Base', [Next]_vars
  PROVE  [Promised!Next]_Promised!vars
<1>1. /\ Delivered' \subseteq 1 .. written' /\ lost' \subseteq 1 .. written'
      /\ written \in Nat /\ Last \in Nat
  <2>1. Delivered' \subseteq 1 .. written'
    <3> SUFFICES ASSUME NEW r \in Delivered' PROVE r \in 1 .. written'
      OBVIOUS
    <3>1. r \in Ids /\ copies'[r] > 0
      BY DEF Delivered
    <3>2. ~(r > written')
      BY <3>1 DEF Base
    <3>3. written' \in Nat /\ Last \in Nat
      BY DEF Base, ShipAssumption
    <3> QED BY <3>1, <3>2, <3>3 DEF Ids
  <2> QED BY <2>1 DEF Base, ShipAssumption
<1>2. CASE Write
  <2>1. /\ written' = written + 1 /\ written' \in Ids /\ UNCHANGED <<copies, lost>>
    BY <1>1, <1>2 DEF Write, Ids
  <2>2. written' \in Ids \ (1 .. written) /\ 1 .. written' = (1 .. written) \cup {written'}
    BY <1>1, <2>1
  <2>3. Delivered' = Delivered
    BY <2>1 DEF Delivered
  <2> QED BY <2>1, <2>2, <2>3 DEF Promised!Next, Promised!Write
<1>3. CASE SendOk \/ SendFails
  <2>1. UNCHANGED <<written, lost>>
    BY <1>3 DEF SendOk, SendFails
  <2>2. Delivered \subseteq Delivered'
    BY <1>3, SendsDeliver
  <2>3. Delivered' \in SUBSET (1 .. written) /\ Delivered' = Delivered \cup Delivered'
    BY <1>1, <2>1, <2>2
  <2> QED BY <2>1, <2>3 DEF Promised!Next, Promised!Deliver
<1>4. CASE Collect \/ SendRefused
  <2>1. UNCHANGED <<written, copies>> /\ lost \subseteq lost'
    BY <1>4 DEF Collect, SendRefused
  <2>2. lost' \in SUBSET (1 .. written) /\ lost' = lost \cup lost'
    BY <1>1, <2>1
  <2>3. Delivered' = Delivered
    BY <2>1 DEF Delivered
  <2> QED BY <2>1, <2>2, <2>3 DEF Promised!Next, Promised!GiveUp
<1>5. CASE Save \/ BackoffOver \/ Stop \/ Restart \/ UNCHANGED vars
  <2>1. UNCHANGED <<written, copies, lost>>
    BY <1>5 DEF Save, BackoffOver, Stop, Restart, vars
  <2>2. Delivered' = Delivered
    BY <2>1 DEF Delivered
  <2> QED BY <2>1, <2>2 DEF Promised!vars
<1> QED
  BY <1>2, <1>3, <1>4, <1>5 DEF Next

\* The shipper implements the safety part of Delivery: what is delivered or given up was
\* written, is never taken back, and no step does two of the three at once (ship.rs as a
\* whole).  That what is written is settled in the end is Promise, and needs the fairness.
THEOREM ShipImplementsDelivery ==
  Spec => Promised!Init /\ [][Promised!Next]_Promised!vars
<1>1. Init => Promised!Init
  BY DEF Init, Promised!Init, Delivered
<1>2. Base /\ Base' /\ [Next]_vars => [Promised!Next]_Promised!vars
  BY ShipAssumption, StepDelivers
<1> QED
  BY <1>1, <1>2, BaseInvariant, PTL DEF Spec

=============================================================================
