---------------------------- MODULE ChainProofs ----------------------------
(***************************************************************************)
(* Machine-checked proofs about Chain, for any trees, kinds and limits.    *)
(*                                                                         *)
(* The first sections say what the operators on sequences compute: Those,  *)
(* ById, Folded and IsPowerOfTwo are recursive functions or count places,  *)
(* and induction over numbers gives what they return for every input.      *)
(*                                                                         *)
(* Two invariants follow.  Store: a chain remembers, in a record of fixed  *)
(* size, what its verdict needs of all it has heard (Summary), and a slot  *)
(* is marked as taken only when its alert has been in a chain.  Ledger: a  *)
(* tree has one open chain, and the anchor's row, the ChainStamp and the   *)
(* members' rows of it agree; a stamp of a chain that is gone is one that  *)
(* no chain will meet again.                                               *)
(***************************************************************************)
EXTENDS Chain, FiniteSetTheorems, WellFoundedInduction, TLAPS

-----------------------------------------------------------------------------
(* Induction and recursion over numbers *)

\* Every set of numbers that is not empty has a least element.  The initial segments
\* 0 .. n are finite sets, whose strict inclusion is well founded.
LEMMA LeastNat ==
  ASSUME NEW T, T \subseteq Nat, T # {}
  PROVE  \E x \in T : \A y \in T : x <= y
<1> DEFINE C == {0 .. n : n \in T}
<1>1. C \subseteq FiniteSubsetsOf(Nat)
  <2> SUFFICES ASSUME NEW n \in T PROVE IsFiniteSet(0 .. n) /\ 0 .. n \subseteq Nat
    BY DEF FiniteSubsetsOf
  <2> QED BY FS_Interval
<1>2. C # {}
  OBVIOUS
<1>3. IsWellFoundedOn(StrictSubsetOrdering(Nat), FiniteSubsetsOf(Nat))
  BY FS_StrictSubsetOrderingWellFounded
<1>4. PICK c \in C : \A d \in C : ~ (<<d, c>> \in StrictSubsetOrdering(Nat))
  <2> HIDE DEF C
  <2> QED BY <1>1, <1>2, <1>3, WFMin
<1>5. PICK x \in T : c = 0 .. x
  OBVIOUS
<1>6. ASSUME NEW y \in T, y < x PROVE FALSE
  <2>1. 0 .. y \subseteq 0 .. x /\ 0 .. x \subseteq Nat /\ x \in 0 .. x /\ x \notin 0 .. y
    BY <1>6
  <2>2. <<0 .. y, 0 .. x>> \in StrictSubsetOrdering(Nat)
    BY <2>1 DEF StrictSubsetOrdering
  <2> QED BY <2>2, <1>4, <1>5
<1> QED
  BY <1>6

\* A set that holds 0 and the successor of each of its numbers holds them all.
LEMMA NumbersByInduction ==
  ASSUME NEW T, 0 \in T, \A n \in Nat : n \in T => n + 1 \in T
  PROVE  Nat \subseteq T
<1> SUFFICES ASSUME ~(Nat \subseteq T) PROVE FALSE
  OBVIOUS
<1>1. PICK x \in Nat \ T : \A y \in Nat \ T : x <= y
  BY LeastNat
<1>2. x # 0 /\ x - 1 \in Nat /\ ~(x <= x - 1)
  BY <1>1
<1>3. x - 1 \in T
  BY <1>1, <1>2
<1> QED BY <1>1, <1>2, <1>3

\* Recursion up to n: there is a function that starts with b and goes on by `step`.
Recursive(f, b, step, n) == f[0] = b /\ \A m \in 1 .. n : f[m] = step[<<m, f[m - 1]>>]

LEMMA Recursion ==
  ASSUME NEW V, NEW b \in V, NEW n \in Nat, NEW step \in [(1 .. n) \X V -> V]
  PROVE  \E f \in [0 .. n -> V] : Recursive(f, b, step, n)
<1> DEFINE T == {l \in Nat : l <= n => \E f \in [0 .. l -> V] : Recursive(f, b, step, l)}
<1>1. 0 \in T
  <2>1. PICK f : f = [m \in 0 .. 0 |-> b]
    OBVIOUS
  <2>2. f \in [0 .. 0 -> V] /\ f[0] = b
    BY <2>1
  <2>3. Recursive(f, b, step, 0)
    BY <2>2 DEF Recursive
  <2> QED BY <2>2, <2>3
<1>2. ASSUME NEW l \in Nat, l \in T
      PROVE  l + 1 \in T
  <2> SUFFICES ASSUME l + 1 <= n
               PROVE  \E f \in [0 .. l + 1 -> V] : Recursive(f, b, step, l + 1)
    OBVIOUS
  <2>1. PICK f \in [0 .. l -> V] : Recursive(f, b, step, l)
    BY <1>2
  <2>2. PICK v : v = step[<<l + 1, f[l]>>]
    OBVIOUS
  <2>3. v \in V
    <3>1. <<l + 1, f[l]>> \in (1 .. n) \X V
      OBVIOUS
    <3> QED BY <2>2, <3>1
  <2>4. PICK g : g = [m \in 0 .. l + 1 |-> IF m = l + 1 THEN v ELSE f[m]]
    OBVIOUS
  <2>5. g \in [0 .. l + 1 -> V] /\ g[l + 1] = v /\ \A m \in 0 .. l : g[m] = f[m]
    BY <2>3, <2>4
  <2>6. ASSUME NEW m \in 1 .. l + 1
        PROVE  g[m] = step[<<m, g[m - 1]>>]
    <3>1. m - 1 \in 0 .. l /\ (m = l + 1 \/ m \in 1 .. l)
      OBVIOUS
    <3>2. CASE m = l + 1
      <4>1. m - 1 = l
        BY <3>2
      <4> QED BY <2>2, <2>5, <3>1, <3>2, <4>1
    <3>3. CASE m \in 1 .. l
      BY <2>1, <2>5, <3>1, <3>3 DEF Recursive
    <3> QED BY <3>1, <3>2, <3>3
  <2>7. Recursive(g, b, step, l + 1)
    <3>1. g[0] = b
      BY <2>1, <2>5 DEF Recursive
    <3> QED BY <2>6, <3>1 DEF Recursive
  <2> QED BY <2>5, <2>7
<1>3. Nat \subseteq T
  <2> HIDE DEF T
  <2> QED BY <1>1, <1>2, NumbersByInduction
<1> QED
  BY <1>3

-----------------------------------------------------------------------------
(* The elements at some places *)

Picked(f, q, I) ==
  f = [m \in 0 .. Len(q) |-> IF m = 0 THEN <<>>
                             ELSE IF m \in I THEN Append(f[m - 1], q[m]) ELSE f[m - 1]]

LEMMA PickedExists ==
  ASSUME NEW S, NEW q \in Seq(S), NEW I
  PROVE  \E f : Picked(f, q, I)
<1>1. PICK n \in Nat : n = Len(q)
  OBVIOUS
<1>2. PICK step : step = [p \in (1 .. n) \X Seq(S) |->
                           IF p[1] \in I THEN Append(p[2], q[p[1]]) ELSE p[2]]
  OBVIOUS
<1>3. step \in [(1 .. n) \X Seq(S) -> Seq(S)]
  <2>1. \A m \in 1 .. n : q[m] \in S
    BY <1>1
  <2>2. \A m \in 1 .. n, s \in Seq(S) : Append(s, q[m]) \in Seq(S)
    BY <2>1
  <2> QED BY <1>2, <2>2
<1>4. <<>> \in Seq(S)
  OBVIOUS
<1>5. PICK f \in [0 .. n -> Seq(S)] : Recursive(f, <<>>, step, n)
  BY <1>3, <1>4, Recursion
<1>6. ASSUME NEW m \in 0 .. n
      PROVE  f[m] = IF m = 0 THEN <<>>
                    ELSE IF m \in I THEN Append(f[m - 1], q[m]) ELSE f[m - 1]
  <2>1. CASE m = 0
    BY <1>5, <2>1 DEF Recursive
  <2>2. CASE m # 0
    <3>1. m \in 1 .. n /\ m - 1 \in 0 .. n
      BY <2>2
    <3>2. f[m] = step[<<m, f[m - 1]>>] /\ f[m - 1] \in Seq(S)
      BY <1>5, <3>1 DEF Recursive
    <3>3. <<m, f[m - 1]>> \in (1 .. n) \X Seq(S)
      BY <3>1, <3>2
    <3>4. step[<<m, f[m - 1]>>] = IF m \in I THEN Append(f[m - 1], q[m]) ELSE f[m - 1]
      BY <1>2, <3>3
    <3> QED BY <2>2, <3>2, <3>4
  <2> QED BY <2>1, <2>2
<1>7. Picked(f, q, I)
  BY <1>1, <1>5, <1>6 DEF Picked
<1> QED
  BY <1>7

LEMMA RangeIn ==
  ASSUME NEW S, NEW q \in Seq(S)
  PROVE  Range(q) \subseteq S
BY DEF Range

LEMMA AppendRange ==
  ASSUME NEW S, NEW q \in Seq(S), NEW e \in S
  PROVE  Append(q, e) \in Seq(S) /\ Range(Append(q, e)) = Range(q) \cup {e}
<1>1. /\ Append(q, e) \in Seq(S) /\ DOMAIN Append(q, e) = 1 .. Len(q) + 1
      /\ \A i \in 1 .. Len(q) : Append(q, e)[i] = q[i]
      /\ Append(q, e)[Len(q) + 1] = e /\ DOMAIN q = 1 .. Len(q) /\ Len(q) \in Nat
  OBVIOUS
<1>2. ASSUME NEW x \in Range(Append(q, e))
      PROVE  x \in Range(q) \cup {e}
  <2>1. PICK i \in 1 .. Len(q) + 1 : x = Append(q, e)[i]
    BY <1>1 DEF Range
  <2>2. i \in 1 .. Len(q) \/ i = Len(q) + 1
    BY <1>1
  <2> QED BY <1>1, <2>1, <2>2 DEF Range
<1>3. ASSUME NEW x \in Range(q) \cup {e}
      PROVE  x \in Range(Append(q, e))
  <2>1. CASE x \in Range(q)
    <3>1. PICK i \in 1 .. Len(q) : x = q[i]
      BY <1>1, <2>1 DEF Range
    <3>2. i \in 1 .. Len(q) + 1
      BY <1>1
    <3> QED BY <1>1, <3>1, <3>2 DEF Range
  <2>2. CASE x = e
    <3>1. Len(q) + 1 \in 1 .. Len(q) + 1
      BY <1>1
    <3> QED BY <1>1, <2>2, <3>1 DEF Range
  <2> QED BY <2>1, <2>2
<1> QED
  BY <1>1, <1>2, <1>3

LEMMA ThoseFacts ==
  ASSUME NEW S, NEW q \in Seq(S), NEW I
  PROVE  Those(q, I) \in Seq(S) /\ Range(Those(q, I)) = {q[i] : i \in I \cap DOMAIN q}
<1>1. PICK f : Picked(f, q, I) /\ Those(q, I) = f[Len(q)]
  <2> DEFINE f == CHOOSE f : f = [m \in 0 .. Len(q) |->
                     IF m = 0 THEN <<>>
                     ELSE IF m \in I THEN Append(f[m - 1], q[m]) ELSE f[m - 1]]
  <2>1. Picked(f, q, I)
    <3>1. \E g : Picked(g, q, I)
      BY PickedExists
    <3>2. \E g : g = [m \in 0 .. Len(q) |->
                     IF m = 0 THEN <<>>
                     ELSE IF m \in I THEN Append(g[m - 1], q[m]) ELSE g[m - 1]]
      BY <3>1 DEF Picked
    <3>3. f = [m \in 0 .. Len(q) |->
                 IF m = 0 THEN <<>>
                 ELSE IF m \in I THEN Append(f[m - 1], q[m]) ELSE f[m - 1]]
      BY <3>2
    <3> HIDE DEF f
    <3> QED BY <3>3 DEF Picked
  <2>2. Those(q, I) = f[Len(q)]
    BY DEF Those
  <2> HIDE DEF f
  <2> QED BY <2>1, <2>2
<1>2. PICK n \in Nat : n = Len(q) /\ DOMAIN q = 1 .. n /\ \A i \in 1 .. n : q[i] \in S
  OBVIOUS
<1> DEFINE T == {l \in Nat : l <= n => /\ f[l] \in Seq(S)
                                       /\ Range(f[l]) = {q[i] : i \in I \cap (1 .. l)}}
<1>3. 0 \in T
  <2>1. f[0] = <<>>
    BY <1>1, <1>2 DEF Picked
  <2>2. Range(<<>>) = {} /\ <<>> \in Seq(S)
    BY DEF Range
  <2>3. {q[i] : i \in I \cap (1 .. 0)} = {}
    OBVIOUS
  <2> QED BY <2>1, <2>2, <2>3
<1>4. ASSUME NEW l \in Nat, l \in T
      PROVE  l + 1 \in T
  <2> SUFFICES ASSUME l + 1 <= n
               PROVE  /\ f[l + 1] \in Seq(S)
                      /\ Range(f[l + 1]) = {q[i] : i \in I \cap (1 .. l + 1)}
    OBVIOUS
  <2>1. f[l] \in Seq(S) /\ Range(f[l]) = {q[i] : i \in I \cap (1 .. l)}
    BY <1>4
  <2>2. f[l + 1] = IF l + 1 \in I THEN Append(f[l], q[l + 1]) ELSE f[l]
    <3>1. l + 1 \in 0 .. n /\ l + 1 # 0 /\ (l + 1) - 1 = l
      OBVIOUS
    <3> QED BY <1>1, <1>2, <3>1 DEF Picked
  <2>3. q[l + 1] \in S
    BY <1>2
  <2>4. 1 .. l + 1 = (1 .. l) \cup {l + 1}
    OBVIOUS
  <2>5. CASE l + 1 \in I
    <3>1. Append(f[l], q[l + 1]) \in Seq(S)
          /\ Range(Append(f[l], q[l + 1])) = Range(f[l]) \cup {q[l + 1]}
      BY <2>1, <2>3, AppendRange
    <3>2. {q[i] : i \in I \cap (1 .. l + 1)} = {q[i] : i \in I \cap (1 .. l)} \cup {q[l + 1]}
      BY <2>4, <2>5
    <3> QED BY <2>1, <2>2, <2>5, <3>1, <3>2
  <2>6. CASE l + 1 \notin I
    <3>1. I \cap (1 .. l + 1) = I \cap (1 .. l)
      BY <2>4, <2>6
    <3> QED BY <2>1, <2>2, <2>6, <3>1
  <2> QED BY <2>5, <2>6
<1>5. Nat \subseteq T
  <2> HIDE DEF T
  <2> QED BY <1>3, <1>4, NumbersByInduction
<1> QED
  BY <1>1, <1>2, <1>5

-----------------------------------------------------------------------------
(* The order of the ids *)

\* Where the sets B[i] of what precedes each place i grow strictly, counting them
\* numbers the places.
LEMMA Places ==
  ASSUME NEW n \in Nat, NEW B \in [1 .. n -> SUBSET (1 .. n)],
         \A i \in 1 .. n : i \notin B[i],
         \A i, k \in 1 .. n : i # k => B[i] \cup {i} \subseteq B[k] \/ B[k] \cup {k} \subseteq B[i]
  PROVE  \A m \in 1 .. n : \E i \in 1 .. n : /\ 1 + Cardinality(B[i]) = m
                                             /\ \A k \in 1 .. n : 1 + Cardinality(B[k]) = m => k = i
<1>1. IsFiniteSet(1 .. n) /\ Cardinality(1 .. n) = n
  <2>1. 1 \in Int /\ n \in Int
    OBVIOUS
  <2> QED BY <2>1, FS_Interval
<1>2. ASSUME NEW i \in 1 .. n
      PROVE  IsFiniteSet(B[i]) /\ Cardinality(B[i]) \in Nat /\ 1 + Cardinality(B[i]) \in 1 .. n
  <2>1. PICK b, R : b = B[i] /\ R = (1 .. n) \ {i}
    OBVIOUS
  <2>2. b \subseteq R
    BY <2>1
  <2>3. IsFiniteSet(R) /\ Cardinality(R) = n - 1
    BY <1>1, <2>1, FS_RemoveElement
  <2>4. IsFiniteSet(b) /\ Cardinality(b) <= Cardinality(R)
    BY <2>2, <2>3, FS_Subset
  <2>5. Cardinality(b) \in Nat
    BY <2>4, FS_CardinalityType
  <2> QED BY <2>1, <2>3, <2>4, <2>5
<1>3. ASSUME NEW i \in 1 .. n, NEW k \in 1 .. n, B[i] \cup {i} \subseteq B[k]
      PROVE  Cardinality(B[i]) < Cardinality(B[k])
  <2>1. PICK b, c, e : b = B[i] /\ c = B[k] /\ e = b \cup {i}
    OBVIOUS
  <2>2. IsFiniteSet(b) /\ i \notin b /\ Cardinality(b) \in Nat /\ IsFiniteSet(c)
        /\ Cardinality(c) \in Nat
    BY <1>2, <2>1
  <2>3. Cardinality(e) = Cardinality(b) + 1
    BY <2>1, <2>2, FS_AddElement
  <2>4. e \subseteq c
    BY <1>3, <2>1
  <2>5. Cardinality(e) <= Cardinality(c)
    BY <2>2, <2>4, FS_Subset
  <2> QED BY <2>1, <2>2, <2>3, <2>5
<1>4. \A i, k \in 1 .. n : Cardinality(B[i]) = Cardinality(B[k]) => i = k
  <2> SUFFICES ASSUME NEW i \in 1 .. n, NEW k \in 1 .. n,
                      Cardinality(B[i]) = Cardinality(B[k]), i # k
               PROVE  FALSE
    OBVIOUS
  <2>1. Cardinality(B[i]) < Cardinality(B[k]) \/ Cardinality(B[k]) < Cardinality(B[i])
    BY <1>3
  <2> QED BY <1>2, <2>1
<1>5. PICK place : place = [i \in 1 .. n |-> 1 + Cardinality(B[i])]
  OBVIOUS
<1>6. place \in Injection(1 .. n, 1 .. n)
  <2>1. place \in [1 .. n -> 1 .. n]
    BY <1>2, <1>5
  <2>2. \A i, k \in 1 .. n : place[i] = place[k] => i = k
    <3> SUFFICES ASSUME NEW i \in 1 .. n, NEW k \in 1 .. n, place[i] = place[k]
                 PROVE  i = k
      OBVIOUS
    <3>1. Cardinality(B[i]) \in Nat /\ Cardinality(B[k]) \in Nat
      BY <1>2
    <3>2. 1 + Cardinality(B[i]) = 1 + Cardinality(B[k])
      BY <1>5
    <3>3. Cardinality(B[i]) = Cardinality(B[k])
      BY <3>1, <3>2
    <3> QED BY <1>4, <3>3
  <2> QED BY <2>1, <2>2 DEF Injection, IsInjective
<1>7. place \in Surjection(1 .. n, 1 .. n)
  BY <1>1, <1>6, FS_Injection
<1>8. ASSUME NEW m \in 1 .. n
      PROVE  \E i \in 1 .. n : /\ 1 + Cardinality(B[i]) = m
                               /\ \A k \in 1 .. n : 1 + Cardinality(B[k]) = m => k = i
  <2>1. PICK i \in 1 .. n : place[i] = m
    BY <1>7 DEF Surjection
  <2>2. ASSUME NEW k \in 1 .. n, 1 + Cardinality(B[k]) = m
        PROVE  k = i
    <3>1. Cardinality(B[i]) \in Nat /\ Cardinality(B[k]) \in Nat /\ 1 + Cardinality(B[i]) = m
      BY <1>2, <1>5, <2>1
    <3>2. Cardinality(B[i]) = Cardinality(B[k])
      BY <2>2, <3>1
    <3> QED BY <1>4, <3>2
  <2>3. 1 + Cardinality(B[i]) = m
    BY <1>5, <2>1
  <2> QED BY <2>2, <2>3
<1> QED
  BY <1>8

\* A function on 1 .. n is a sequence of length n.
LEMMA SeqOfFcn ==
  ASSUME NEW S, NEW n \in Nat, NEW z \in [1 .. n -> S]
  PROVE  z \in Seq(S) /\ Len(z) = n /\ DOMAIN z = 1 .. n
OBVIOUS

\* Sorting loses nothing and invents nothing.
LEMMA ByIdFacts ==
  ASSUME NEW S, NEW q \in Seq(S), \A s \in S : s.alert \in Int
  PROVE  ById(q) \in Seq(S) /\ Len(ById(q)) = Len(q) /\ Range(ById(q)) = Range(q)
<1> DEFINE Precedes(j, i) == \/ q[j].alert < q[i].alert
                             \/ q[j].alert = q[i].alert /\ j < i
<1>1. PICK n \in Nat : n = Len(q) /\ DOMAIN q = 1 .. n /\ \A i \in 1 .. n : q[i] \in S
  OBVIOUS
<1>2. PICK B : B = [i \in 1 .. n |-> {j \in 1 .. n : Precedes(j, i)}]
  OBVIOUS
<1>3. B \in [1 .. n -> SUBSET (1 .. n)] /\ \A i \in 1 .. n : i \notin B[i]
  <2>1. \A i \in 1 .. n : q[i].alert \in Int
    BY <1>1
  <2> QED BY <1>2, <2>1
<1>4. ASSUME NEW i \in 1 .. n, NEW k \in 1 .. n, i # k
      PROVE  B[i] \cup {i} \subseteq B[k] \/ B[k] \cup {k} \subseteq B[i]
  <2>1. \A j \in 1 .. n : q[j].alert \in Int
    BY <1>1
  <2>2. CASE Precedes(i, k)
    <3>1. ASSUME NEW j \in 1 .. n, Precedes(j, i) PROVE Precedes(j, k)
      BY <2>1, <2>2, <3>1
    <3> QED BY <1>2, <2>2, <3>1
  <2>3. CASE Precedes(k, i)
    <3>1. ASSUME NEW j \in 1 .. n, Precedes(j, k) PROVE Precedes(j, i)
      BY <2>1, <2>3, <3>1
    <3> QED BY <1>2, <2>3, <3>1
  <2>4. Precedes(i, k) \/ Precedes(k, i)
    BY <1>4, <2>1
  <2> QED BY <2>2, <2>3, <2>4
<1>5. \A m \in 1 .. n : \E i \in 1 .. n :
         /\ 1 + Cardinality(B[i]) = m
         /\ \A k \in 1 .. n : 1 + Cardinality(B[k]) = m => k = i
  BY <1>3, <1>4, Places
<1> DEFINE place(i) == 1 + Cardinality({j \in DOMAIN q : Precedes(j, i)})
<1>6. /\ ById(q) = [m \in DOMAIN q |-> q[CHOOSE i \in DOMAIN q : place(i) = m]]
      /\ \A i \in 1 .. n : place(i) = 1 + Cardinality(B[i])
  <2>1. \A i \in 1 .. n : B[i] = {j \in DOMAIN q : Precedes(j, i)}
    BY <1>1, <1>2
  <2>2. ById(q) = [m \in DOMAIN q |-> q[CHOOSE i \in DOMAIN q : place(i) = m]]
    BY DEF ById
  <2> QED BY <2>1, <2>2
<1> HIDE DEF place
<1>7. ASSUME NEW m \in 1 .. n, NEW i \in 1 .. n, 1 + Cardinality(B[i]) = m
      PROVE  ById(q)[m] = q[i]
  <2>1. \A k \in 1 .. n : 1 + Cardinality(B[k]) = m => k = i
    BY <1>5, <1>7
  <2>2. (CHOOSE k \in DOMAIN q : place(k) = m) = i
    BY <1>1, <1>6, <1>7, <2>1
  <2> QED BY <1>1, <1>6, <2>2
<1>8. \A m \in 1 .. n : \E i \in 1 .. n : ById(q)[m] = q[i]
  BY <1>5, <1>7
<1>9. \A i \in 1 .. n : \E m \in 1 .. n : ById(q)[m] = q[i]
  <2> SUFFICES ASSUME NEW i \in 1 .. n PROVE \E m \in 1 .. n : ById(q)[m] = q[i]
    OBVIOUS
  <2>1. 1 + Cardinality(B[i]) \in 1 .. n
    <3>1. B[i] \subseteq (1 .. n) \ {i}
      BY <1>3
    <3>2. IsFiniteSet(1 .. n) /\ Cardinality(1 .. n) = n
      <4>1. 1 \in Int /\ n \in Int
        OBVIOUS
      <4> QED BY <4>1, FS_Interval
    <3>3. PICK b, R : b = B[i] /\ R = (1 .. n) \ {i}
      OBVIOUS
    <3>4. IsFiniteSet(R) /\ Cardinality(R) = n - 1
      BY <3>2, <3>3, FS_RemoveElement
    <3>5. IsFiniteSet(b) /\ Cardinality(b) <= Cardinality(R)
      BY <3>1, <3>3, <3>4, FS_Subset
    <3>6. Cardinality(b) \in Nat
      BY <3>5, FS_CardinalityType
    <3> QED BY <3>3, <3>4, <3>5, <3>6
  <2> QED BY <1>7, <2>1
<1>10. ById(q) \in [1 .. n -> S]
  <2>1. \A m \in 1 .. n : ById(q)[m] \in S
    BY <1>1, <1>8
  <2>2. PICK F : F = [m \in DOMAIN q |-> CHOOSE i \in DOMAIN q : place(i) = m]
    OBVIOUS
  <2>3. ById(q) = [m \in 1 .. n |-> q[F[m]]]
    BY <1>1, <1>6, <2>2
  <2>4. DOMAIN ById(q) = 1 .. n /\ ById(q) = [m \in 1 .. n |-> ById(q)[m]]
    BY <2>3
  <2> QED BY <2>1, <2>4
<1> HIDE DEF Precedes
<1>11. PICK z : z = ById(q)
  OBVIOUS
<1>12. z \in [1 .. n -> S]
  BY <1>10, <1>11
<1>13. z \in Seq(S) /\ Len(z) = n /\ DOMAIN z = 1 .. n
  BY <1>1, <1>12, SeqOfFcn
<1>14. Range(z) = Range(q)
  <2>1. /\ Range(z) = {z[m] : m \in 1 .. n}
        /\ Range(q) = {q[i] : i \in 1 .. n}
    BY <1>1, <1>13 DEF Range
  <2>2. /\ \A m \in 1 .. n : \E i \in 1 .. n : z[m] = q[i]
        /\ \A i \in 1 .. n : \E m \in 1 .. n : z[m] = q[i]
    BY <1>8, <1>9, <1>11
  <2> QED BY <2>1, <2>2
<1>15. Len(q) = n
  BY <1>1
<1> QED
  BY <1>11, <1>13, <1>14, <1>15

-----------------------------------------------------------------------------
(* The ring *)

Slots == [tree : Trees, alert : Alerts, kind : Kinds, at : Nat, chained : BOOLEAN]

\* What is pushed is in the ring, and nothing else comes in.
LEMMA PushFacts ==
  ASSUME NEW S, NEW ring \in Seq(S), NEW slot \in S
  PROVE  Push(ring, slot) \in Seq(S) /\ Range(Push(ring, slot)) \subseteq Range(ring) \cup {slot}
<1>1. PICK n \in Nat : n = Len(ring) /\ DOMAIN ring = 1 .. n /\ \A i \in 1 .. n : ring[i] \in S
  OBVIOUS
<1>2. CASE \E i \in DOMAIN ring : ring[i].alert = slot.alert
  <2>1. PICK z : z = [i \in 1 .. n |-> IF ring[i].alert = slot.alert THEN slot ELSE ring[i]]
    OBVIOUS
  <2>2. Push(ring, slot) = z
    BY <1>1, <1>2, <2>1 DEF Push
  <2>3. z \in [1 .. n -> S]
    BY <1>1, <2>1
  <2>4. z \in Seq(S) /\ DOMAIN z = 1 .. n
    BY <2>3, SeqOfFcn
  <2>5. \A i \in 1 .. n : z[i] = slot \/ z[i] = ring[i]
    BY <2>1
  <2>6. Range(z) \subseteq Range(ring) \cup {slot}
    BY <1>1, <2>4, <2>5 DEF Range
  <2> QED BY <2>2, <2>4, <2>6
<1>3. CASE ~\E i \in DOMAIN ring : ring[i].alert = slot.alert
  <2>1. PICK z : z = IF Len(ring) >= MaxRecent THEN Tail(ring) ELSE ring
    OBVIOUS
  <2>2. Push(ring, slot) = Append(z, slot)
    BY <1>3, <2>1 DEF Push
  <2>3. z \in Seq(S) /\ Range(z) \subseteq Range(ring)
    <3>1. CASE Len(ring) >= MaxRecent
      <4>1. ring # <<>> /\ z = Tail(ring)
        BY <2>1, <3>1, ChainAssumption
      <4>2. z \in Seq(S) /\ DOMAIN z = 1 .. n - 1 /\ \A i \in 1 .. n - 1 : z[i] = ring[i + 1]
        BY <1>1, <4>1
      <4>3. \A i \in 1 .. n - 1 : i + 1 \in 1 .. n
        OBVIOUS
      <4> QED BY <1>1, <4>2, <4>3 DEF Range
    <3>2. CASE ~(Len(ring) >= MaxRecent)
      BY <2>1, <3>2
    <3> QED BY <3>1, <3>2
  <2> QED BY <2>2, <2>3, AppendRange
<1> QED
  BY <1>2, <1>3

\* A chain marks the slots of its tree, and only those.
Marked(r, tree) == IF r.tree = tree THEN [r EXCEPT !.chained = TRUE] ELSE r

LEMMA MarkFacts ==
  ASSUME NEW ring \in Seq(Slots), NEW tree
  PROVE  /\ Mark(ring, tree) \in Seq(Slots)
         /\ \A s \in Range(Mark(ring, tree)) : \E r \in Range(ring) : s = Marked(r, tree)
<1>1. PICK n \in Nat : n = Len(ring) /\ DOMAIN ring = 1 .. n /\ \A i \in 1 .. n : ring[i] \in Slots
  OBVIOUS
<1>2. PICK z : z = [i \in 1 .. n |-> Marked(ring[i], tree)]
  OBVIOUS
<1>3. Mark(ring, tree) = z
  BY <1>1, <1>2 DEF Mark, Marked
<1>4. z \in [1 .. n -> Slots]
  BY <1>1, <1>2 DEF Slots, Marked
<1>5. z \in Seq(Slots) /\ DOMAIN z = 1 .. n
  BY <1>4, SeqOfFcn
<1>6. \A i \in 1 .. n : z[i] = Marked(ring[i], tree) /\ ring[i] \in Range(ring)
  BY <1>1, <1>2 DEF Range
<1>7. \A s \in Range(z) : \E r \in Range(ring) : s = Marked(r, tree)
  BY <1>5, <1>6 DEF Range
<1> QED
  BY <1>3, <1>5, <1>7

\* Pruning the ring by age keeps some of its slots.
LEMMA PruneFacts ==
  ASSUME NEW ring \in Seq(Slots), NEW I
  PROVE  Those(ring, I) \in Seq(Slots) /\ Range(Those(ring, I)) \subseteq Range(ring)
<1>1. Those(ring, I) \in Seq(Slots) /\ Range(Those(ring, I)) = {ring[i] : i \in I \cap DOMAIN ring}
  BY ThoseFacts
<1>2. {ring[i] : i \in I \cap DOMAIN ring} \subseteq Range(ring)
  BY DEF Range
<1> QED
  BY <1>1, <1>2

\* What waits in a tree: its slots that no chain has taken.
LEMMA WaitingFacts ==
  ASSUME NEW ring \in Seq(Slots), NEW tree
  PROVE  /\ Waiting(ring, tree) \in Seq(Slots)
         /\ Range(Waiting(ring, tree)) = {r \in Range(ring) : r.tree = tree /\ ~r.chained}
<1>1. PICK I : I = {i \in DOMAIN ring : ring[i].tree = tree /\ ~ring[i].chained}
  OBVIOUS
<1>2. PICK w : w = Waiting(ring, tree) /\ w = Those(ring, I)
  BY <1>1 DEF Waiting
<1>3. w \in Seq(Slots) /\ Range(w) = {ring[i] : i \in I \cap DOMAIN ring}
  BY <1>2, ThoseFacts
<1>4. {ring[i] : i \in I \cap DOMAIN ring} = {r \in Range(ring) : r.tree = tree /\ ~r.chained}
  BY <1>1 DEF Range
<1> QED
  BY <1>2, <1>3, <1>4

\* The slots a chain would be formed of: those that wait, and the new one, by id.
Candidates(fresh, tree, slot) == ById(Append(Waiting(fresh, tree), slot))

LEMMA CandidatesFacts ==
  ASSUME NEW fresh \in Seq(Slots), NEW tree, NEW slot \in Slots
  PROVE  /\ Candidates(fresh, tree, slot) \in Seq(Slots)
         /\ Len(Candidates(fresh, tree, slot)) \in Nat \ {0}
         /\ Range(Candidates(fresh, tree, slot)) =
              {r \in Range(fresh) : r.tree = tree /\ ~r.chained} \cup {slot}
<1>1. PICK w : w = Waiting(fresh, tree)
  OBVIOUS
<1>2. w \in Seq(Slots) /\ Range(w) = {r \in Range(fresh) : r.tree = tree /\ ~r.chained}
  BY <1>1, WaitingFacts
<1>3. PICK p : p = Append(w, slot)
  OBVIOUS
<1>4. p \in Seq(Slots) /\ Range(p) = Range(w) \cup {slot} /\ Len(p) \in Nat \ {0}
  <2>1. p \in Seq(Slots) /\ Range(p) = Range(w) \cup {slot}
    BY <1>2, <1>3, AppendRange
  <2>2. Len(p) = Len(w) + 1 /\ Len(w) \in Nat
    BY <1>2, <1>3
  <2> QED BY <2>1, <2>2
<1>5. \A s \in Slots : s.alert \in Int
  BY ChainAssumption DEF Slots, Alerts
<1>6. ById(p) \in Seq(Slots) /\ Len(ById(p)) = Len(p) /\ Range(ById(p)) = Range(p)
  BY <1>4, <1>5, ByIdFacts
<1> QED
  BY <1>1, <1>2, <1>3, <1>4, <1>6 DEF Candidates

-----------------------------------------------------------------------------
(* What an escalation remembers *)

Escalations ==
  [rank : [Families -> Ranks \cup {Unseen}], maxRank : Ranks, triggers : Nat,
   last : Families \cup {"none"}, cred : BOOLEAN, credNet : BOOLEAN,
   credNetPersist : BOOLEAN]

\* The triggers of ks that take a credential, those that use the network after one, and
\* those that persist after that: what `Verdict` counts.
Creds(ks) == {i \in DOMAIN ks : ks[i].family = "cred" /\ ks[i].rank >= Medium}
Nets(ks) == {j \in DOMAIN ks : ks[j].family = "net" /\ \E i \in Creds(ks) : i < j}
Persists(ks) == {j \in DOMAIN ks : /\ ks[j].family = "persist" /\ ks[j].rank >= Medium
                                   /\ \E i \in Nets(ks) : i < j}

\* e is what is remembered of the triggers ks.
Summary(e, ks) ==
  /\ e \in Escalations
  /\ e.triggers = Len(ks)
  /\ ks # <<>> => e.last = ks[Len(ks)].family
  /\ \A i \in DOMAIN ks : ks[i].rank <= e.maxRank
  /\ IF ks = <<>> THEN e.maxRank = 0 ELSE \E i \in DOMAIN ks : ks[i].rank = e.maxRank
  /\ \A f \in Families :
       /\ e.rank[f] # Unseen <=> \E i \in DOMAIN ks : ks[i].family = f
       /\ e.rank[f] >= Medium <=> \E i \in DOMAIN ks : ks[i].family = f /\ ks[i].rank >= Medium
  /\ e.cred <=> Creds(ks) # {}
  /\ e.credNet <=> Nets(ks) # {}
  /\ e.credNetPersist <=> Persists(ks) # {}

LEMMA NothingHeard == Summary(NoEscalation, <<>>)
<1>1. DOMAIN <<>> = {} /\ Len(<<>>) = 0
  OBVIOUS
<1>2. Creds(<<>>) = {} /\ Nets(<<>>) = {} /\ Persists(<<>>) = {}
  BY <1>1 DEF Creds, Nets, Persists
<1>3. NoEscalation \in Escalations
  BY DEF NoEscalation, Escalations, Ranks, Critical, Unseen, Families
<1>4. \A f \in Families : NoEscalation.rank[f] = Unseen /\ ~(Unseen >= Medium)
  BY DEF NoEscalation, Unseen, Medium
<1> QED
  BY <1>1, <1>2, <1>3, <1>4 DEF Summary, NoEscalation

\* Remembering one trigger more.
LEMMA OneMore ==
  ASSUME NEW e, NEW ks \in Seq(Kind), NEW k \in Kind, Summary(e, ks)
  PROVE  Summary(Observe(e, k), Append(ks, k))
<1>1. PICK n \in Nat : n = Len(ks) /\ DOMAIN ks = 1 .. n /\ \A i \in 1 .. n : ks[i] \in Kind
  OBVIOUS
<1>2. PICK z : z = Append(ks, k)
  OBVIOUS
<1>3. /\ DOMAIN z = 1 .. n + 1 /\ Len(z) = n + 1 /\ z # <<>> /\ z[n + 1] = k
      /\ \A i \in 1 .. n : z[i] = ks[i]
  BY <1>1, <1>2
<1>4. PICK o : o = Observe(e, k)
  OBVIOUS
<1>5. e \in Escalations
  BY DEF Summary
<1>6. /\ k.family \in Families /\ k.rank \in Ranks
      /\ \A i \in 1 .. n : ks[i].family \in Families /\ ks[i].rank \in Ranks
  BY <1>1 DEF Kind
<1>7. \A f \in Families : o.rank[f] = IF f = k.family THEN Greater(e.rank[f], k.rank) ELSE e.rank[f]
  BY <1>4, <1>5, <1>6 DEF Observe, Escalations
<1>8. o \in Escalations
  <2>1. o.rank \in [Families -> Ranks \cup {Unseen}]
    <3>1. \A r \in Ranks \cup {Unseen}, s \in Ranks : Greater(r, s) \in Ranks
      BY DEF Ranks, Unseen, Greater, Critical
    <3> QED BY <1>4, <1>5, <1>6, <3>1 DEF Observe, Escalations
  <2>2. o.maxRank \in Ranks
    BY <1>4, <1>5, <1>6 DEF Observe, Escalations, Greater
  <2>3. o.triggers \in Nat /\ o.last \in Families
    BY <1>4, <1>5, <1>6 DEF Observe, Escalations
  <2>4. o.cred \in BOOLEAN /\ o.credNet \in BOOLEAN /\ o.credNetPersist \in BOOLEAN
    BY <1>4, <1>5 DEF Observe, Escalations
  <2> QED BY <1>4, <2>1, <2>2, <2>3, <2>4 DEF Observe, Escalations
<1>9. o.triggers = Len(z) /\ o.last = z[Len(z)].family
  BY <1>1, <1>3, <1>4, <1>5 DEF Summary, Observe, Escalations
<1>10. /\ \A i \in DOMAIN z : z[i].rank <= o.maxRank
       /\ \E i \in DOMAIN z : z[i].rank = o.maxRank
  <2>1. o.maxRank = Greater(e.maxRank, k.rank) /\ e.maxRank \in 0 .. 3 /\ k.rank \in 0 .. 3
    BY <1>4, <1>5, <1>6 DEF Observe, Escalations, Ranks, Critical
  <2>2. o.maxRank >= k.rank /\ o.maxRank >= e.maxRank /\ o.maxRank \in 0 .. 3
    BY <2>1 DEF Greater
  <2>3. \A i \in 1 .. n : ks[i].rank <= e.maxRank /\ ks[i].rank \in 0 .. 3
    BY <1>1, <1>6 DEF Summary, Ranks, Critical
  <2>4. \A i \in 1 .. n + 1 : i \in 1 .. n \/ i = n + 1
    OBVIOUS
  <2>5. \A i \in DOMAIN z : z[i].rank <= o.maxRank
    <3>1. ASSUME NEW i \in 1 .. n PROVE z[i].rank <= o.maxRank
      BY <1>3, <2>1, <2>2, <2>3
    <3> QED BY <1>3, <2>1, <2>2, <2>4, <3>1
  <2>6. CASE o.maxRank = k.rank
    <3>1. n + 1 \in DOMAIN z
      BY <1>3
    <3> QED BY <1>3, <2>5, <2>6, <3>1
  <2>7. CASE o.maxRank # k.rank
    <3>1. o.maxRank = e.maxRank /\ e.maxRank > 0
      BY <2>1, <2>7 DEF Greater
    <3>2. PICK i \in 1 .. n : ks[i].rank = e.maxRank
      BY <1>1, <3>1 DEF Summary
    <3>3. i \in DOMAIN z
      BY <1>3
    <3> QED BY <1>3, <2>5, <3>1, <3>2, <3>3
  <2> QED BY <2>6, <2>7
<1>11. ASSUME NEW f \in Families
       PROVE  /\ o.rank[f] # Unseen <=> \E i \in DOMAIN z : z[i].family = f
              /\ o.rank[f] >= Medium <=> \E i \in DOMAIN z : z[i].family = f /\ z[i].rank >= Medium
  <2>1. e.rank[f] \in -1 .. 3 /\ k.rank \in 0 .. 3
    BY <1>5, <1>6 DEF Escalations, Ranks, Critical, Unseen
  <2>2. /\ e.rank[f] # -1 <=> \E i \in 1 .. n : ks[i].family = f
        /\ e.rank[f] >= 1 <=> \E i \in 1 .. n : ks[i].family = f /\ ks[i].rank >= 1
    BY <1>1 DEF Summary, Unseen, Medium
  <2>3. /\ (\E i \in DOMAIN z : z[i].family = f) <=>
             (k.family = f \/ \E i \in 1 .. n : ks[i].family = f)
        /\ (\E i \in DOMAIN z : z[i].family = f /\ z[i].rank >= 1) <=>
             ((k.family = f /\ k.rank >= 1) \/ \E i \in 1 .. n : ks[i].family = f /\ ks[i].rank >= 1)
    <3>1. \A i \in 1 .. n + 1 : i \in 1 .. n \/ i = n + 1
      OBVIOUS
    <3>2. n + 1 \in 1 .. n + 1 /\ \A i \in 1 .. n : i \in 1 .. n + 1
      OBVIOUS
    <3> QED BY <1>3, <3>1, <3>2
  <2>4. CASE f = k.family
    <3>1. o.rank[f] = Greater(e.rank[f], k.rank)
      BY <1>7, <2>4
    <3>2. o.rank[f] # -1 /\ (o.rank[f] >= 1 <=> k.rank >= 1 \/ e.rank[f] >= 1)
      BY <2>1, <3>1 DEF Greater
    <3> QED BY <2>2, <2>3, <2>4, <3>2 DEF Unseen, Medium
  <2>5. CASE f # k.family
    <3>1. o.rank[f] = e.rank[f]
      BY <1>7, <2>5
    <3> QED BY <2>2, <2>3, <2>5, <3>1 DEF Unseen, Medium
  <2> QED BY <2>4, <2>5
<1>12. Creds(z) = Creds(ks) \cup (IF k.family = "cred" /\ k.rank >= Medium THEN {n + 1} ELSE {})
  <2>1. \A i \in 1 .. n + 1 : i \in 1 .. n \/ i = n + 1
    OBVIOUS
  <2>2. n + 1 \in 1 .. n + 1 /\ \A i \in 1 .. n : i \in 1 .. n + 1
    OBVIOUS
  <2> QED BY <1>1, <1>3, <2>1, <2>2 DEF Creds
<1>13. Nets(z) = Nets(ks) \cup (IF k.family = "net" /\ Creds(ks) # {} THEN {n + 1} ELSE {})
  <2>1. \A i \in 1 .. n + 1 : i \in 1 .. n \/ i = n + 1
    OBVIOUS
  <2>2. n + 1 \in 1 .. n + 1 /\ \A i \in 1 .. n : i \in 1 .. n + 1 /\ i < n + 1 /\ ~(n + 1 < i)
    OBVIOUS
  <2>3. Creds(ks) \subseteq 1 .. n
    BY <1>1 DEF Creds
  <2>4. \A j \in 1 .. n : (\E i \in Creds(z) : i < j) <=> \E i \in Creds(ks) : i < j
    BY <1>12, <2>2
  <2>5. (\E i \in Creds(z) : i < n + 1) <=> Creds(ks) # {}
    BY <1>12, <2>2, <2>3
  <2> QED BY <1>1, <1>3, <2>1, <2>2, <2>4, <2>5 DEF Nets
<1>14. Persists(z) = Persists(ks) \cup
         (IF k.family = "persist" /\ k.rank >= Medium /\ Nets(ks) # {} THEN {n + 1} ELSE {})
  <2>1. \A i \in 1 .. n + 1 : i \in 1 .. n \/ i = n + 1
    OBVIOUS
  <2>2. n + 1 \in 1 .. n + 1 /\ \A i \in 1 .. n : i \in 1 .. n + 1 /\ i < n + 1 /\ ~(n + 1 < i)
    OBVIOUS
  <2>3. Nets(ks) \subseteq 1 .. n
    BY <1>1 DEF Nets
  <2>4. \A j \in 1 .. n : (\E i \in Nets(z) : i < j) <=> \E i \in Nets(ks) : i < j
    BY <1>13, <2>2
  <2>5. (\E i \in Nets(z) : i < n + 1) <=> Nets(ks) # {}
    BY <1>13, <2>2, <2>3
  <2> QED BY <1>1, <1>3, <2>1, <2>2, <2>4, <2>5 DEF Persists
<1>15. /\ o.cred <=> Creds(z) # {}
       /\ o.credNet <=> Nets(z) # {}
       /\ o.credNetPersist <=> Persists(z) # {}
  <2>1. /\ o.cred <=> (e.cred \/ (k.family = "cred" /\ k.rank >= Medium))
        /\ o.credNet <=> (e.credNet \/ (k.family = "net" /\ e.cred))
        /\ o.credNetPersist <=>
             (e.credNetPersist \/ (k.family = "persist" /\ k.rank >= Medium /\ e.credNet))
    BY <1>4, Zenon DEF Observe
  <2>2. /\ e.cred <=> Creds(ks) # {}
        /\ e.credNet <=> Nets(ks) # {}
        /\ e.credNetPersist <=> Persists(ks) # {}
    BY Zenon DEF Summary
  <2> QED BY <1>12, <1>13, <1>14, <2>1, <2>2
<1>16. Summary(o, z)
  BY <1>3, <1>8, <1>9, <1>10, <1>11, <1>15 DEF Summary
<1> QED
  BY <1>2, <1>4, <1>16

\* Observing triggers one after the other remembers them all.
Observed(f, ks) ==
  f = [n \in 0 .. Len(ks) |-> IF n = 0 THEN NoEscalation ELSE Observe(f[n - 1], ks[n])]

LEMMA ObserveType ==
  ASSUME NEW e \in Escalations, NEW k \in Kind
  PROVE  Observe(e, k) \in Escalations
<1>1. PICK o : o = Observe(e, k)
  OBVIOUS
<1>2. k.family \in Families /\ k.rank \in Ranks
  BY DEF Kind
<1>3. o.rank \in [Families -> Ranks \cup {Unseen}]
  <2>1. \A r \in Ranks \cup {Unseen}, s \in Ranks : Greater(r, s) \in Ranks
    BY DEF Ranks, Unseen, Greater, Critical
  <2> QED BY <1>1, <1>2, <2>1 DEF Observe, Escalations
<1>4. o.maxRank \in Ranks
  BY <1>1, <1>2 DEF Observe, Escalations, Greater
<1>5. o.triggers \in Nat /\ o.last \in Families
  BY <1>1, <1>2 DEF Observe, Escalations
<1>6. o.cred \in BOOLEAN /\ o.credNet \in BOOLEAN /\ o.credNetPersist \in BOOLEAN
  BY <1>1 DEF Observe, Escalations
<1> QED BY <1>1, <1>3, <1>4, <1>5, <1>6 DEF Observe, Escalations

LEMMA ObservedExists ==
  ASSUME NEW ks \in Seq(Kind)
  PROVE  \E f : Observed(f, ks)
<1>1. PICK n \in Nat : n = Len(ks) /\ \A i \in 1 .. n : ks[i] \in Kind
  OBVIOUS
<1>2. PICK step : step = [p \in (1 .. n) \X Escalations |-> Observe(p[2], ks[p[1]])]
  OBVIOUS
<1>3. step \in [(1 .. n) \X Escalations -> Escalations]
  <2>1. \A m \in 1 .. n, e \in Escalations : Observe(e, ks[m]) \in Escalations
    BY <1>1, ObserveType
  <2> QED BY <1>2, <2>1
<1>4. NoEscalation \in Escalations
  BY NothingHeard DEF Summary
<1>5. PICK f \in [0 .. n -> Escalations] : Recursive(f, NoEscalation, step, n)
  BY <1>3, <1>4, Recursion
<1>6. ASSUME NEW m \in 0 .. n
      PROVE  f[m] = IF m = 0 THEN NoEscalation ELSE Observe(f[m - 1], ks[m])
  <2>1. CASE m = 0
    BY <1>5, <2>1 DEF Recursive
  <2>2. CASE m # 0
    <3>1. m \in 1 .. n /\ m - 1 \in 0 .. n
      BY <2>2
    <3>2. f[m] = step[<<m, f[m - 1]>>] /\ f[m - 1] \in Escalations
      BY <1>5, <3>1 DEF Recursive
    <3>3. <<m, f[m - 1]>> \in (1 .. n) \X Escalations
      BY <3>1, <3>2
    <3>4. step[<<m, f[m - 1]>>] = Observe(f[m - 1], ks[m])
      BY <1>2, <3>3
    <3> QED BY <2>2, <3>2, <3>4
  <2> QED BY <2>1, <2>2
<1>7. Observed(f, ks)
  BY <1>1, <1>5, <1>6 DEF Observed
<1> QED
  BY <1>7

\* A chain formed of several alerts remembers what one that grew by them would.
LEMMA FoldedFacts ==
  ASSUME NEW ks \in Seq(Kind)
  PROVE  Summary(Folded(ks), ks)
<1>1. PICK f : Observed(f, ks) /\ Folded(ks) = f[Len(ks)]
  <2> DEFINE f == CHOOSE f : f = [n \in 0 .. Len(ks) |->
                     IF n = 0 THEN NoEscalation ELSE Observe(f[n - 1], ks[n])]
  <2>1. Observed(f, ks)
    <3>1. \E g : Observed(g, ks)
      BY ObservedExists
    <3>2. \E g : g = [n \in 0 .. Len(ks) |->
                     IF n = 0 THEN NoEscalation ELSE Observe(g[n - 1], ks[n])]
      BY <3>1 DEF Observed
    <3>3. f = [n \in 0 .. Len(ks) |->
                 IF n = 0 THEN NoEscalation ELSE Observe(f[n - 1], ks[n])]
      BY <3>2
    <3> HIDE DEF f
    <3> QED BY <3>3 DEF Observed
  <2>2. Folded(ks) = f[Len(ks)]
    BY DEF Folded
  <2> HIDE DEF f
  <2> QED BY <2>1, <2>2
<1>2. PICK n \in Nat : n = Len(ks) /\ \A i \in 1 .. n : ks[i] \in Kind
  OBVIOUS
<1> DEFINE T == {l \in Nat : l <= n => Summary(f[l], SubSeq(ks, 1, l))}
<1>3. 0 \in T
  <2>1. f[0] = NoEscalation
    BY <1>1, <1>2 DEF Observed
  <2>2. SubSeq(ks, 1, 0) = <<>>
    OBVIOUS
  <2>3. Summary(f[0], SubSeq(ks, 1, 0))
    BY <2>1, <2>2, NothingHeard
  <2> QED BY <2>3
<1>4. ASSUME NEW l \in Nat, l \in T
      PROVE  l + 1 \in T
  <2> SUFFICES ASSUME l + 1 <= n
               PROVE  Summary(f[l + 1], SubSeq(ks, 1, l + 1))
    OBVIOUS
  <2>1. PICK p : p = SubSeq(ks, 1, l)
    OBVIOUS
  <2>2. Summary(f[l], p)
    BY <1>4, <2>1
  <2>3. p \in Seq(Kind) /\ ks[l + 1] \in Kind
    BY <1>2, <2>1
  <2>4. f[l + 1] = Observe(f[l], ks[l + 1])
    <3>1. l + 1 \in 0 .. n /\ l + 1 # 0 /\ (l + 1) - 1 = l
      OBVIOUS
    <3> QED BY <1>1, <1>2, <3>1 DEF Observed
  <2>5. SubSeq(ks, 1, l + 1) = Append(p, ks[l + 1])
    <3>1. PICK z, y : z = SubSeq(ks, 1, l + 1) /\ y = Append(p, ks[l + 1])
      OBVIOUS
    <3>2. z \in Seq(Kind) /\ y \in Seq(Kind)
      BY <1>2, <2>1, <2>3, <3>1
    <3>3. Len(p) = l /\ \A i \in 1 .. l : p[i] = ks[i]
      BY <1>2, <2>1
    <3>4. Len(z) = l + 1 /\ \A i \in 1 .. l + 1 : z[i] = ks[i]
      BY <1>2, <3>1
    <3>5. Len(y) = l + 1 /\ y[l + 1] = ks[l + 1] /\ \A i \in 1 .. l : y[i] = p[i]
      BY <2>3, <3>1, <3>3
    <3>6. \A i \in 1 .. l + 1 : z[i] = y[i]
      BY <3>3, <3>4, <3>5
    <3>7. z = y
      BY <3>2, <3>4, <3>5, <3>6
    <3> QED BY <3>1, <3>7
  <2> QED BY <2>2, <2>3, <2>4, <2>5, OneMore
<1>5. Nat \subseteq T
  <2> HIDE DEF T
  <2> QED BY <1>3, <1>4, NumbersByInduction
<1>6. SubSeq(ks, 1, n) = ks
  <2>1. PICK z : z = SubSeq(ks, 1, n)
    OBVIOUS
  <2>2. z \in Seq(Kind) /\ Len(z) = n
    BY <1>2, <2>1
  <2>3. \A i \in 1 .. n : z[i] = ks[i]
    BY <1>2, <2>1
  <2>4. Len(ks) = n
    BY <1>2
  <2>5. z = ks
    BY <2>2, <2>3, <2>4
  <2> QED BY <2>1, <2>5
<1>7. Nat \subseteq T /\ n \in Nat => Summary(f[n], SubSeq(ks, 1, n))
  OBVIOUS
<1> HIDE DEF T
<1> QED
  BY <1>1, <1>2, <1>5, <1>6, <1>7

\* What is remembered is enough: it gives the verdict over all the triggers.
LEMMA Remembers ==
  ASSUME NEW e, NEW ks \in Seq(Kind), Summary(e, ks)
  PROVE  /\ Severity(e) = Verdict(ks)
         /\ Crossed(e) = {ks[i].family : i \in DOMAIN ks}
<1>1. PICK n \in Nat : n = Len(ks) /\ DOMAIN ks = 1 .. n /\ \A i \in 1 .. n : ks[i] \in Kind
  OBVIOUS
<1>2. \A i \in 1 .. n : ks[i].family \in Families /\ ks[i].rank \in Ranks
  BY <1>1 DEF Kind
<1>3. e \in Escalations
  BY DEF Summary
<1>4. PICK C : C = {ks[i].family : i \in DOMAIN ks}
  OBVIOUS
<1>5. Crossed(e) = C
  <2>1. \A f \in Families : e.rank[f] # Unseen <=> \E i \in DOMAIN ks : ks[i].family = f
    BY DEF Summary
  <2>2. C \subseteq Families
    BY <1>1, <1>2, <1>4
  <2> QED BY <1>4, <2>1, <2>2 DEF Crossed
<1> DEFINE base == IF ks = <<>> THEN 0
                   ELSE CHOOSE r \in Ranks : /\ \E i \in DOMAIN ks : ks[i].rank = r
                                             /\ \A i \in DOMAIN ks : ks[i].rank <= r
           After(i, f) == {j \in DOMAIN ks : j > i /\ ks[j].family = f}
           creds == {i \in DOMAIN ks : ks[i].family = "cred" /\ ks[i].rank >= Medium}
           nets == UNION {After(i, "net") : i \in creds}
           persists == {j \in UNION {After(i, "persist") : i \in nets} : ks[j].rank >= Medium}
           crossed == {ks[i].family : i \in DOMAIN ks}
           Real(fs) == \E i \in DOMAIN ks : ks[i].family \in fs /\ ks[i].rank >= Medium
           up == \/ Cardinality(crossed) >= 2 /\ Real({"rootkit", "priv"})
                 \/ Len(ks) >= 2 /\ ks[Len(ks)].family = "persist" /\ Real({"persist"})
<1>6. Verdict(ks) = CASE persists # {} -> Critical
                      [] persists = {} /\ nets # {} -> Ceiling(Greater(base + 1, High))
                      [] persists = {} /\ nets = {} /\ up -> Ceiling(base + 1)
                      [] OTHER -> base
  BY DEF Verdict
<1>7. base = e.maxRank /\ base \in Ranks
  <2>1. CASE ks = <<>>
    BY <1>3, <2>1 DEF Summary, Escalations
  <2>2. CASE ks # <<>>
    <3>1. /\ e.maxRank \in Ranks
          /\ \E i \in DOMAIN ks : ks[i].rank = e.maxRank
          /\ \A i \in DOMAIN ks : ks[i].rank <= e.maxRank
      BY <1>3, <2>2 DEF Summary, Escalations
    <3>2. ASSUME NEW r \in Ranks, \E i \in DOMAIN ks : ks[i].rank = r,
                 \A i \in DOMAIN ks : ks[i].rank <= r
          PROVE  r = e.maxRank
      <4>1. r <= e.maxRank /\ e.maxRank <= r
        BY <3>1, <3>2
      <4> QED BY <3>1, <4>1 DEF Ranks, Critical
    <3>3. base = CHOOSE r \in Ranks : /\ \E i \in DOMAIN ks : ks[i].rank = r
                                      /\ \A i \in DOMAIN ks : ks[i].rank <= r
      BY <2>2
    <3> HIDE DEF base
    <3> QED BY <3>1, <3>2, <3>3
  <2> QED BY <2>1, <2>2
<1>8. creds = Creds(ks) /\ nets = Nets(ks) /\ persists = Persists(ks)
  <2>1. creds = Creds(ks)
    BY DEF Creds
  <2>2. nets = Nets(ks)
    <3>1. \A j : j \in nets <=> \E i \in creds : j \in After(i, "net")
      OBVIOUS
    <3>2. \A i \in creds : \A j : j \in After(i, "net") <=> /\ j \in DOMAIN ks /\ i < j
                                                            /\ ks[j].family = "net"
      BY <1>1
    <3> HIDE DEF nets, creds, After
    <3> QED BY <2>1, <3>1, <3>2 DEF Nets
  <2>3. persists = Persists(ks)
    <3>1. \A j : j \in persists <=> /\ \E i \in nets : j \in After(i, "persist")
                                    /\ ks[j].rank >= Medium
      OBVIOUS
    <3>2. nets \subseteq 1 .. n
      BY <1>1, <2>2 DEF Nets
    <3>3. \A i \in nets : \A j :
            j \in After(i, "persist") <=> /\ j \in DOMAIN ks /\ i < j
                                          /\ ks[j].family = "persist"
      BY <1>1, <3>2
    <3> HIDE DEF nets, creds, After, persists
    <3> QED BY <2>2, <3>1, <3>3 DEF Persists
  <2> QED BY <2>1, <2>2, <2>3
<1>9. up <=> \/ Cardinality(Crossed(e)) >= 2 /\ RungIsReal(e, {"rootkit", "priv"})
             \/ e.triggers >= 2 /\ e.last = "persist" /\ RungIsReal(e, {"persist"})
  <2>1. ASSUME NEW fs \in SUBSET Families
        PROVE  Real(fs) <=> RungIsReal(e, fs)
    <3>1. \A f \in Families : e.rank[f] >= Medium <=>
                                \E i \in DOMAIN ks : ks[i].family = f /\ ks[i].rank >= Medium
      BY DEF Summary
    <3> QED BY <2>1, <3>1 DEF RungIsReal
  <2>2. Real({"rootkit", "priv"}) <=> RungIsReal(e, {"rootkit", "priv"})
    <3>1. {"rootkit", "priv"} \in SUBSET Families
      BY DEF Families
    <3> HIDE DEF Real
    <3> QED BY <2>1, <3>1
  <2>3. Real({"persist"}) <=> RungIsReal(e, {"persist"})
    <3>1. {"persist"} \in SUBSET Families
      BY DEF Families
    <3> HIDE DEF Real
    <3> QED BY <2>1, <3>1
  <2>4. e.triggers = n
    BY <1>1 DEF Summary
  <2>5. n >= 2 => e.last = ks[Len(ks)].family
    BY <1>1 DEF Summary
  <2>6. crossed = Crossed(e)
    BY <1>4, <1>5
  <2> HIDE DEF Real, crossed
  <2> QED BY <1>1, <2>2, <2>3, <2>4, <2>5, <2>6
<1>10. /\ e.cred <=> Creds(ks) # {}
       /\ e.credNet <=> Nets(ks) # {}
       /\ e.credNetPersist <=> Persists(ks) # {}
  BY Zenon DEF Summary
<1> HIDE DEF base, persists, nets, up
<1>11. Severity(e) = Verdict(ks)
  <2>1. Ceiling(Critical) = Critical /\ Ceiling(base) = base
    BY <1>7 DEF Ceiling, Ranks, Critical
  <2>2. CASE persists # {}
    BY <1>6, <1>8, <1>10, <2>1, <2>2 DEF Severity
  <2>3. CASE persists = {} /\ nets # {}
    BY <1>6, <1>7, <1>8, <1>10, <2>3 DEF Severity
  <2>4. CASE persists = {} /\ nets = {} /\ up
    BY <1>6, <1>7, <1>8, <1>9, <1>10, <2>4 DEF Severity
  <2>5. CASE persists = {} /\ nets = {} /\ ~up
    <3>1. Verdict(ks) = base
      BY <1>6, <2>5
    <3>2. Severity(e) = Ceiling(base)
      BY <1>7, <1>8, <1>9, <1>10, <2>5 DEF Severity
    <3> QED BY <2>1, <3>1, <3>2
  <2> QED BY <2>2, <2>3, <2>4, <2>5
<1> QED
  BY <1>4, <1>5, <1>11

-----------------------------------------------------------------------------
(* What the store holds *)

Chains ==
  [tree : Trees, id : Alerts, members : Seq(Alerts), shown : SUBSET Alerts,
   triggers : SUBSET Alerts, heard : Seq(Kind), state : Escalations, firstAt : Nat,
   lastAt : Nat]

Base ==
  /\ now \in Nat
  /\ alerts \in Seq([tree : Trees, kind : Kinds, at : Nat]) /\ Len(alerts) <= LastAlert
  /\ recent \in Seq(Slots)
  /\ live \subseteq Chains

\* A chain remembers all that it has heard.
Remembered == \A c \in live : Summary(c.state, c.heard)

\* What a chain has taken has been in a chain.
Taken == \A s \in Range(recent) : s.chained => s.alert \in joined

\* The chain that c is after the step a.
Stepped(c, a, k) ==
  IF a \in Range(c.members) THEN [c EXCEPT !.lastAt = now] ELSE Join(c, a, k)

LEMMA JoinFacts ==
  ASSUME now \in Nat, NEW c \in Chains, NEW a \in Alerts, NEW k \in Kind
  PROVE  LET d == Join(c, a, k) IN
         /\ d \in Chains
         /\ d.tree = c.tree /\ d.id = c.id /\ d.firstAt = c.firstAt /\ d.lastAt = now
         /\ d.members = Append(c.members, a)
         /\ Summary(c.state, c.heard) => Summary(d.state, d.heard)
<1>1. PICK d : d = Join(c, a, k)
  OBVIOUS
<1>2. /\ d.tree = c.tree /\ d.id = c.id /\ d.firstAt = c.firstAt /\ d.lastAt = now
      /\ d.members = Append(c.members, a)
      /\ d.heard = IF k.trigger THEN Append(c.heard, k) ELSE c.heard
      /\ d.state = IF k.trigger THEN Observe(c.state, k) ELSE c.state
  BY <1>1 DEF Join, Chains
<1>3. d.shown \in SUBSET Alerts /\ d.triggers \in SUBSET Alerts
  BY <1>1 DEF Join, Chains
<1>4. d.heard \in Seq(Kind) /\ d.state \in Escalations
  BY <1>2, ObserveType DEF Chains
<1>5. d \in Chains
  <2>1. d.members \in Seq(Alerts)
    BY <1>2 DEF Chains
  <2> QED BY <1>1, <1>2, <1>3, <1>4, <2>1 DEF Join, Chains
<1>6. ASSUME Summary(c.state, c.heard)
      PROVE  Summary(d.state, d.heard)
  <2>1. PICK e, h : e = c.state /\ h = c.heard
    OBVIOUS
  <2>2. h \in Seq(Kind) /\ Summary(e, h)
    BY <1>6, <2>1 DEF Chains
  <2>3. Summary(Observe(e, k), Append(h, k))
    BY <2>2, OneMore
  <2> QED BY <1>2, <2>1, <2>2, <2>3
<1> QED
  BY <1>1, <1>2, <1>5, <1>6

LEMMA SteppedFacts ==
  ASSUME now \in Nat, NEW c \in Chains, NEW a \in Alerts, NEW k \in Kind
  PROVE  LET d == Stepped(c, a, k) IN
         /\ d \in Chains
         /\ d.tree = c.tree /\ d.id = c.id /\ d.firstAt = c.firstAt /\ d.lastAt = now
         /\ \/ d.members = c.members /\ d.shown = c.shown /\ d.state = c.state
            \/ d.members = Append(c.members, a)
         /\ Summary(c.state, c.heard) => Summary(d.state, d.heard)
<1>1. PICK d : d = Stepped(c, a, k)
  OBVIOUS
<1>2. CASE a \in Range(c.members)
  <2>1. d = [c EXCEPT !.lastAt = now]
    BY <1>1, <1>2 DEF Stepped
  <2> QED BY <1>1, <2>1 DEF Chains
<1>3. CASE a \notin Range(c.members)
  <2>1. d = Join(c, a, k)
    BY <1>1, <1>3 DEF Stepped
  <2> QED BY <1>1, <2>1, JoinFacts
<1> QED
  BY <1>2, <1>3

LEMMA FormedFacts ==
  ASSUME now \in Nat, NEW tree \in Trees, NEW slots \in Seq(Slots), Len(slots) # 0
  PROVE  LET c == Formed(tree, slots) IN
         /\ c \in Chains
         /\ c.tree = tree /\ c.lastAt = now
         /\ slots[1] \in Range(slots) /\ c.id = slots[1].alert /\ c.firstAt = slots[1].at
         /\ c.members # <<>> /\ c.members[1] = c.id
         /\ Range(c.members) = {s.alert : s \in Range(slots)}
         /\ Summary(c.state, c.heard)
<1>1. PICK n \in Nat : n = Len(slots) /\ DOMAIN slots = 1 .. n /\ n # 0
                       /\ \A i \in 1 .. n : slots[i] \in Slots
  OBVIOUS
<1>2. PICK c : c = Formed(tree, slots)
  OBVIOUS
<1>3. PICK ids, ks, I : /\ ids = [i \in 1 .. n |-> slots[i].alert]
                        /\ ks = [i \in 1 .. n |-> slots[i].kind]
                        /\ I = {i \in 1 .. n : slots[i].kind.trigger}
  OBVIOUS
<1>4. PICK h : h = Those(ks, I)
  OBVIOUS
<1>5. c = [tree |-> tree, id |-> ids[1], members |-> ids, shown |-> Range(ids),
           triggers |-> {s.alert : s \in {q \in Range(slots) : q.kind.trigger}},
           heard |-> h, state |-> Folded(h), firstAt |-> slots[1].at, lastAt |-> now]
  BY <1>1, <1>2, <1>3, <1>4 DEF Formed
<1>6. ids \in [1 .. n -> Alerts] /\ ks \in [1 .. n -> Kind]
  BY <1>1, <1>3, ChainAssumption DEF Slots
<1>7. ids \in Seq(Alerts) /\ DOMAIN ids = 1 .. n /\ Len(ids) = n /\ ks \in Seq(Kind)
  BY <1>6, SeqOfFcn
<1>8. h \in Seq(Kind)
  BY <1>4, <1>7, ThoseFacts
<1>9. Summary(Folded(h), h)
  BY <1>8, FoldedFacts
<1>10. 1 \in 1 .. n
  BY <1>1
<1>11. Range(ids) = {s.alert : s \in Range(slots)} /\ Range(ids) \subseteq Alerts
  BY <1>1, <1>3, <1>6, <1>7 DEF Range
<1>12. {s.alert : s \in {q \in Range(slots) : q.kind.trigger}} \subseteq Alerts
  BY <1>1 DEF Range, Slots
<1>13. Folded(h) \in Escalations
  BY <1>9 DEF Summary
<1>14. ids[1] = slots[1].alert /\ ids[1] \in Alerts /\ slots[1] \in Range(slots)
       /\ slots[1].at \in Nat
  BY <1>1, <1>3, <1>6, <1>10 DEF Range, Slots
<1>15. ids # <<>>
  BY <1>1, <1>7
<1>16. c \in Chains
  BY <1>5, <1>7, <1>8, <1>11, <1>12, <1>13, <1>14 DEF Chains
<1> QED
  BY <1>2, <1>5, <1>9, <1>11, <1>14, <1>15, <1>16

-----------------------------------------------------------------------------
(* What an alert does *)

\* The slots a chain of `tree` would be formed of.
Here(tree, slot) == {r \in Range(FreshSlots) : r.tree = tree /\ ~r.chained} \cup {slot}

\* It joins the chain of its tree, ...
Grows(tree, a, k) ==
  \E c \in OpenChains :
    /\ c.tree = tree
    /\ recent' \in Seq(Slots)
    /\ Range(recent') \subseteq Range(FreshSlots) \cup {Slot(tree, a, k, TRUE)}
    /\ live' = (OpenChains \ {c}) \cup {Stepped(c, a, k)}
    /\ joined' = joined \cup {a}
    /\ IF Changed(c, Stepped(c, a, k)) THEN WriteChain(Stepped(c, a, k), live')
                                       ELSE WriteNothing(live')

\* or waits, ...
Waits(tree, a, k) ==
  LET slot == Slot(tree, a, k, FALSE) IN
  /\ \A c \in OpenChains : c.tree # tree
  /\ recent' \in Seq(Slots) /\ Range(recent') \subseteq Range(FreshSlots) \cup {slot}
  /\ live' = OpenChains
  /\ joined' = joined
  /\ ~Qualifies({s.kind : s \in Here(tree, slot)})
  /\ WriteNothing(live')

\* or makes a chain.
Forms(tree, a, k) ==
  LET slot == Slot(tree, a, k, FALSE) IN
  /\ \A c \in OpenChains : c.tree # tree
  /\ recent' \in Seq(Slots)
  /\ \A s \in Range(recent') : \E r \in Range(FreshSlots) \cup {slot} : s = Marked(r, tree)
  /\ \E slots \in Seq(Slots), others \in SUBSET OpenChains :
       LET c == Formed(tree, slots) IN
       /\ Len(slots) # 0 /\ Range(slots) = Here(tree, slot)
       /\ live' = others \cup {c}
       /\ joined' = joined \cup Range(c.members)
       /\ WriteChain(c, live')

LEMMA FreshFacts ==
  ASSUME Base
  PROVE  FreshSlots \in Seq(Slots) /\ Range(FreshSlots) \subseteq Range(recent)
<1>1. PICK I : I = {i \in DOMAIN recent : now - recent[i].at <= Window}
  OBVIOUS
<1>2. FreshSlots = Those(recent, I)
  BY <1>1 DEF FreshSlots
<1>3. recent \in Seq(Slots)
  BY DEF Base
<1> QED
  BY <1>2, <1>3, PruneFacts

LEMMA SlotType ==
  ASSUME now \in Nat, NEW tree \in Trees, NEW a \in Alerts, NEW k \in Kinds, NEW b \in BOOLEAN
  PROVE  LET s == Slot(tree, a, k, b) IN
         /\ s \in Slots
         /\ s.tree = tree /\ s.alert = a /\ s.kind = k /\ s.at = now /\ (s.chained <=> b)
BY DEF Slot, Slots

LEMMA NoteCases ==
  ASSUME Base, NEW tree \in Trees, NEW a \in Alerts, NEW k \in Kinds, Note(tree, a, k)
  PROVE  Grows(tree, a, k) \/ Waits(tree, a, k) \/ Forms(tree, a, k)
<1>1. now \in Nat
  BY DEF Base
<1>2. PICK fresh : fresh = FreshSlots
  OBVIOUS
<1>3. fresh \in Seq(Slots)
  BY <1>2, FreshFacts
<1>4. CASE {c \in OpenChains : c.tree = tree} # {}
  <2>1. PICK c \in OpenChains : c.tree = tree /\ Grow(c, a, k)
    BY <1>4 DEF Note
  <2>2. PICK slot : slot = Slot(tree, a, k, TRUE)
    OBVIOUS
  <2>3. slot \in Slots
    BY <1>1, <2>2, SlotType
  <2>4. PICK ring : ring = Push(fresh, slot)
    OBVIOUS
  <2>5. ring \in Seq(Slots) /\ Range(ring) \subseteq Range(fresh) \cup {slot}
    BY <1>3, <2>3, <2>4, PushFacts
  <2>6. recent' = ring
    BY <1>2, <2>1, <2>2, <2>4 DEF Grow
  <2>7. PICK d : d = Stepped(c, a, k)
    OBVIOUS
  <2>8. /\ live' = (OpenChains \ {c}) \cup {d}
        /\ joined' = joined \cup {a}
        /\ IF Changed(c, d) THEN WriteChain(d, (OpenChains \ {c}) \cup {d})
                            ELSE WriteNothing((OpenChains \ {c}) \cup {d})
    <3>1. d = IF a \in Range(c.members) THEN [c EXCEPT !.lastAt = now] ELSE Join(c, a, k)
      BY <2>7 DEF Stepped
    <3> HIDE <2>7
    <3> QED BY <2>1, <3>1 DEF Grow
  <2>9. IF Changed(c, d) THEN WriteChain(d, live') ELSE WriteNothing(live')
    BY <2>8
  <2> QED BY <1>2, <2>1, <2>2, <2>5, <2>6, <2>7, <2>8, <2>9 DEF Grows
<1>5. CASE {c \in OpenChains : c.tree = tree} = {}
  <2>1. Form(tree, a, k) /\ \A c \in OpenChains : c.tree # tree
    BY <1>5 DEF Note
  <2>2. PICK slot, ring, slots : /\ slot = Slot(tree, a, k, FALSE)
                                 /\ ring = Push(fresh, slot)
                                 /\ slots = Candidates(fresh, tree, slot)
    OBVIOUS
  <2>3. slot \in Slots
    BY <1>1, <2>2, SlotType
  <2>4. ring \in Seq(Slots) /\ Range(ring) \subseteq Range(fresh) \cup {slot}
    BY <1>3, <2>2, <2>3, PushFacts
  <2>5. slots \in Seq(Slots) /\ Len(slots) # 0 /\ Range(slots) = Here(tree, slot)
    <3>1. PICK q : q = Candidates(fresh, tree, slot)
      OBVIOUS
    <3>2. /\ q \in Seq(Slots) /\ Len(q) \in Nat \ {0}
          /\ Range(q) = {r \in Range(fresh) : r.tree = tree /\ ~r.chained} \cup {slot}
      BY <1>3, <2>3, <3>1, CandidatesFacts
    <3>3. Here(tree, slot) = {r \in Range(fresh) : r.tree = tree /\ ~r.chained} \cup {slot}
      BY <1>2 DEF Here
    <3> QED BY <2>2, <3>1, <3>2, <3>3
  <2>6. PICK c : c = Formed(tree, slots)
    OBVIOUS
  <2>7. IF ~Qualifies({s.kind : s \in Range(slots)})
        THEN /\ recent' = ring
             /\ live' = OpenChains
             /\ UNCHANGED joined
             /\ WriteNothing(OpenChains)
        ELSE \E others \in Evict(OpenChains) :
               /\ recent' = Mark(ring, tree)
               /\ live' = others \cup {c}
               /\ joined' = joined \cup Range(c.members)
               /\ WriteChain(c, others \cup {c})
    BY <1>2, <2>1, <2>2, <2>6 DEF Form, Candidates
  <2>8. CASE ~Qualifies({s.kind : s \in Range(slots)})
    <3>1. /\ recent' = ring /\ live' = OpenChains /\ joined' = joined
          /\ WriteNothing(OpenChains)
      BY <2>7, <2>8
    <3>2. ~Qualifies({s.kind : s \in Here(tree, slot)})
      BY <2>5, <2>8
    <3>3. WriteNothing(live')
      BY <3>1
    <3>4. Waits(tree, a, k)
      BY <1>2, <2>1, <2>2, <2>4, <3>1, <3>2, <3>3 DEF Waits
    <3> QED BY <3>4
  <2>9. CASE Qualifies({s.kind : s \in Range(slots)})
    <3>1. PICK others \in Evict(OpenChains) :
               /\ recent' = Mark(ring, tree)
               /\ live' = others \cup {c}
               /\ joined' = joined \cup Range(c.members)
               /\ WriteChain(c, others \cup {c})
      BY <2>7, <2>9
    <3>2. others \in SUBSET OpenChains
      BY DEF Evict
    <3>3. PICK z : z = Mark(ring, tree)
      OBVIOUS
    <3>4. z \in Seq(Slots) /\ \A s \in Range(z) : \E r \in Range(ring) : s = Marked(r, tree)
      BY <2>4, <3>3, MarkFacts
    <3>5. \A s \in Range(z) : \E r \in Range(fresh) \cup {slot} : s = Marked(r, tree)
      BY <2>4, <3>4
    <3>6. WriteChain(c, live')
      BY <3>1
    <3>7. /\ Len(slots) # 0 /\ Range(slots) = Here(tree, slot)
          /\ live' = others \cup {c}
          /\ joined' = joined \cup Range(c.members)
          /\ WriteChain(c, live')
      BY <2>5, <3>1, <3>6
    <3>8. recent' = z
      BY <3>1, <3>3
    <3>9. Forms(tree, a, k)
      BY <1>2, <2>1, <2>2, <2>5, <2>6, <3>2, <3>4, <3>5, <3>7, <3>8 DEF Forms
    <3> QED BY <3>9
  <2> QED BY <2>8, <2>9
<1> QED
  BY <1>4, <1>5

-----------------------------------------------------------------------------
(* No sequence waits unseen *)

\* More alerts do not make a sequence less worth reporting.
LEMMA QualifiesGrows ==
  ASSUME NEW A, NEW B, A \subseteq B, Qualifies(A)
  PROVE  Qualifies(B)
<1>1. PICK ta, tb, fa, fb : /\ ta = {k \in A : k.trigger} /\ fa = {k.family : k \in ta}
                            /\ tb = {k \in B : k.trigger} /\ fb = {k.family : k \in tb}
  OBVIOUS
<1>2. /\ \E f, g \in fa : f # g
      /\ ~(fa = {"exec", "net"} /\ \A k \in ta : k.launch)
      /\ ~(fa = {"cred", "exec"} /\ \A k \in ta : k.rank <= Medium)
      /\ \E k \in ta : k.rank >= Medium
      /\ \E k \in ta : k.striking
  BY <1>1 DEF Qualifies
<1>3. ta \subseteq tb /\ fa \subseteq fb
  BY <1>1
<1>4. ASSUME fb = {"exec", "net"} \/ fb = {"cred", "exec"}
      PROVE  fa = fb
  BY <1>2, <1>3, <1>4
<1>5. /\ \E f, g \in fb : f # g
      /\ ~(fb = {"exec", "net"} /\ \A k \in tb : k.launch)
      /\ ~(fb = {"cred", "exec"} /\ \A k \in tb : k.rank <= Medium)
      /\ \E k \in tb : k.rank >= Medium
      /\ \E k \in tb : k.striking
  BY <1>2, <1>3, <1>4
<1> QED
  BY <1>1, <1>5 DEF Qualifies

LEMMA NothingQualifies == ~Qualifies({})
BY DEF Qualifies

\* The kinds of what is left waiting in a tree and has been in no chain.
Unclaimed(ring, seen, tree) == {r.kind : r \in {q \in Range(ring) : q.tree = tree /\ q.alert \notin seen}}

LEMMA NoteStore ==
  ASSUME Base, Remembered, Taken, NothingMissed,
         NEW tree \in Trees, NEW a \in Alerts, NEW k \in Kinds, Note(tree, a, k)
  PROVE  /\ recent' \in Seq(Slots) /\ live' \subseteq Chains
         /\ Remembered' /\ Taken' /\ NothingMissed'
<1>1. now \in Nat /\ live \subseteq Chains /\ recent \in Seq(Slots) /\ k \in Kind
      /\ OpenChains \subseteq live
  BY ChainAssumption DEF Base, OpenChains
<1>2. Range(FreshSlots) \subseteq Range(recent)
  BY FreshFacts
<1>3. NothingMissed' <=> \A t \in Trees : ~Qualifies(Unclaimed(recent', joined', t))
  BY DEF NothingMissed, Unclaimed
<1>4. \A t \in Trees : ~Qualifies(Unclaimed(recent, joined, t))
  BY DEF NothingMissed, Unclaimed
<1>5. CASE Grows(tree, a, k)
  <2>1. PICK slot : slot = Slot(tree, a, k, TRUE)
    OBVIOUS
  <2>2. slot.alert = a
    BY <1>1, <2>1, SlotType
  <2>3. PICK c \in OpenChains :
          /\ recent' \in Seq(Slots) /\ Range(recent') \subseteq Range(FreshSlots) \cup {slot}
          /\ live' = (OpenChains \ {c}) \cup {Stepped(c, a, k)}
          /\ joined' = joined \cup {a}
    BY <1>5, <2>1 DEF Grows
  <2>4. PICK d : d = Stepped(c, a, k)
    OBVIOUS
  <2>5. d \in Chains /\ (Summary(c.state, c.heard) => Summary(d.state, d.heard))
    BY <1>1, <2>4, SteppedFacts
  <2>6. live' \subseteq Chains /\ Remembered'
    BY <1>1, <2>3, <2>4, <2>5 DEF Remembered
  <2>7. Taken'
    BY <1>2, <2>2, <2>3 DEF Taken
  <2>8. ASSUME NEW t \in Trees, Qualifies(Unclaimed(recent', joined', t))
        PROVE  FALSE
    <3>1. Unclaimed(recent', joined', t) \subseteq Unclaimed(recent, joined, t)
      BY <1>2, <2>2, <2>3 DEF Unclaimed
    <3> QED BY <1>4, <2>8, <3>1, QualifiesGrows
  <2> QED BY <1>3, <2>3, <2>6, <2>7, <2>8
<1>6. CASE Waits(tree, a, k)
  <2>1. PICK slot : slot = Slot(tree, a, k, FALSE)
    OBVIOUS
  <2>2. slot.alert = a /\ slot.tree = tree /\ ~slot.chained
    BY <1>1, <2>1, SlotType
  <2>3. /\ recent' \in Seq(Slots) /\ Range(recent') \subseteq Range(FreshSlots) \cup {slot}
        /\ live' = OpenChains /\ joined' = joined
        /\ ~Qualifies({s.kind : s \in Here(tree, slot)})
    BY <1>6, <2>1 DEF Waits
  <2>4. live' \subseteq Chains /\ Remembered'
    BY <1>1, <2>3 DEF Remembered
  <2>5. Taken'
    BY <1>2, <2>2, <2>3 DEF Taken
  <2>6. ASSUME NEW t \in Trees, Qualifies(Unclaimed(recent', joined', t))
        PROVE  FALSE
    <3>1. CASE t = tree
      <4>1. \A r \in Range(recent') : r.tree = tree /\ r.alert \notin joined'
                                        => r \in Here(tree, slot)
        BY <1>2, <2>3 DEF Taken, Here
      <4>2. Unclaimed(recent', joined', t) \subseteq {s.kind : s \in Here(tree, slot)}
        BY <3>1, <4>1 DEF Unclaimed
      <4> QED BY <2>3, <2>6, <4>2, QualifiesGrows
    <3>2. CASE t # tree
      <4>1. Unclaimed(recent', joined', t) \subseteq Unclaimed(recent, joined, t)
        BY <1>2, <2>2, <2>3, <3>2 DEF Unclaimed
      <4> QED BY <1>4, <2>6, <4>1, QualifiesGrows
    <3> QED BY <3>1, <3>2
  <2> QED BY <1>3, <2>3, <2>4, <2>5, <2>6
<1>7. CASE Forms(tree, a, k)
  <2>1. PICK slot : slot = Slot(tree, a, k, FALSE)
    OBVIOUS
  <2>2. slot \in Slots /\ slot.alert = a /\ slot.tree = tree /\ ~slot.chained
    BY <1>1, <2>1, SlotType
  <2>3. /\ recent' \in Seq(Slots)
        /\ \A s \in Range(recent') : \E r \in Range(FreshSlots) \cup {slot} : s = Marked(r, tree)
    BY <1>7, <2>1 DEF Forms
  <2>4. PICK slots \in Seq(Slots), others \in SUBSET OpenChains :
          /\ Len(slots) # 0 /\ Range(slots) = Here(tree, slot)
          /\ live' = others \cup {Formed(tree, slots)}
          /\ joined' = joined \cup Range(Formed(tree, slots).members)
    BY <1>7, <2>1 DEF Forms
  <2>5. PICK c : c = Formed(tree, slots)
    OBVIOUS
  <2>6. /\ c \in Chains /\ Summary(c.state, c.heard)
        /\ Range(c.members) = {s.alert : s \in Here(tree, slot)}
    BY <1>1, <2>4, <2>5, FormedFacts
  <2>7. live' \subseteq Chains /\ Remembered'
    BY <1>1, <2>4, <2>5, <2>6 DEF Remembered
  <2>8. \A r \in Range(FreshSlots) \cup {slot} :
          /\ r \in Slots
          /\ r.tree = tree => r.alert \in joined'
          /\ r.chained => r.alert \in joined'
    <3>1. \A r \in Range(FreshSlots) : r \in Slots
      BY <1>1, <1>2, RangeIn
    <3>2. \A r \in Here(tree, slot) : r.alert \in joined'
      BY <2>4, <2>5, <2>6
    <3>3. \A r \in Range(FreshSlots) : r.chained => r.alert \in joined'
      BY <1>2, <2>4 DEF Taken
    <3>4. \A r \in Range(FreshSlots) : r.tree = tree => r.alert \in joined'
      BY <3>2, <3>3 DEF Here
    <3> QED BY <2>2, <3>1, <3>2, <3>3, <3>4 DEF Here
  <2>9. \A s \in Range(recent') : \E r \in Range(FreshSlots) \cup {slot} :
          /\ s.alert = r.alert /\ s.kind = r.kind /\ s.tree = r.tree
          /\ r.tree # tree => s = r
    BY <2>3, <2>8 DEF Marked, Slots
  <2>10. Taken'
    <3>1. ASSUME NEW s \in Range(recent'), s.chained
          PROVE  s.alert \in joined'
      BY <2>8, <2>9, <3>1
    <3> QED BY <3>1 DEF Taken
  <2>11. ASSUME NEW t \in Trees, Qualifies(Unclaimed(recent', joined', t))
         PROVE  FALSE
    <3>1. CASE t = tree
      <4>1. Unclaimed(recent', joined', t) = {}
        BY <2>8, <2>9, <3>1 DEF Unclaimed
      <4> QED BY <2>11, <4>1, NothingQualifies
    <3>2. CASE t # tree
      <4>1. \A s \in Range(recent') : s.tree = t => s \in Range(recent)
        BY <1>2, <2>2, <2>9, <3>2
      <4>2. Unclaimed(recent', joined', t) \subseteq Unclaimed(recent, joined, t)
        BY <2>4, <4>1 DEF Unclaimed
      <4> QED BY <1>4, <2>11, <4>2, QualifiesGrows
    <3> QED BY <3>1, <3>2
  <2> QED BY <1>3, <2>3, <2>7, <2>10, <2>11
<1> QED
  BY <1>5, <1>6, <1>7, NoteCases

-----------------------------------------------------------------------------
(* The invariants of the store *)

Store == Base /\ Remembered /\ Taken /\ NothingMissed

\* An alert that is raised or repeated is one of a tree, known or the next.
LEMMA RaiseFacts ==
  ASSUME Base, NEW tree \in Trees, NEW k \in Kinds, Raise(tree, k)
  PROVE  /\ Len(alerts) + 1 \in Alerts /\ Len(alerts) \in Nat
         /\ alerts' \in Seq([tree : Trees, kind : Kinds, at : Nat]) /\ Len(alerts') <= LastAlert
         /\ DOMAIN alerts' = DOMAIN alerts \cup {Len(alerts) + 1}
         /\ Len(alerts) + 1 \notin DOMAIN alerts
         /\ \A x \in DOMAIN alerts : alerts'[x] = alerts[x]
         /\ alerts'[Len(alerts) + 1].tree = tree /\ alerts'[Len(alerts) + 1].at = now
<1> DEFINE R == [tree : Trees, kind : Kinds, at : Nat]
<1>1. alerts \in Seq(R) /\ now \in Nat
  BY DEF Base
<1>2. PICK n \in Nat : n = Len(alerts) /\ DOMAIN alerts = 1 .. n
  BY <1>1
<1>3. PICK r : r = [tree |-> tree, kind |-> k, at |-> now]
  OBVIOUS
<1>4. r \in R /\ r.tree = tree /\ r.at = now
  BY <1>1, <1>3
<1>5. alerts' = Append(alerts, r) /\ n < LastAlert
  BY <1>2, <1>3 DEF Raise
<1> HIDE DEF R
<1>6. /\ alerts' \in Seq(R) /\ Len(alerts') = n + 1 /\ DOMAIN alerts' = 1 .. n + 1
      /\ alerts'[n + 1] = r /\ \A x \in 1 .. n : alerts'[x] = alerts[x]
  BY <1>1, <1>2, <1>4, <1>5
<1>7. /\ n + 1 \in 1 .. LastAlert /\ n + 1 <= LastAlert
      /\ 1 .. n + 1 = (1 .. n) \cup {n + 1} /\ n + 1 \notin 1 .. n
  BY <1>5, ChainAssumption
<1> QED
  BY <1>2, <1>4, <1>6, <1>7 DEF Alerts, R

LEMMA RepeatFacts ==
  ASSUME Base, NEW a \in DOMAIN alerts
  PROVE  a \in Alerts /\ alerts[a].tree \in Trees /\ alerts[a].at \in Nat
<1>1. alerts \in Seq([tree : Trees, kind : Kinds, at : Nat]) /\ Len(alerts) <= LastAlert
  BY DEF Base
<1>2. PICK n \in Nat : n = Len(alerts) /\ DOMAIN alerts = 1 .. n
  BY <1>1
<1>3. a \in 1 .. n /\ n <= LastAlert
  BY <1>1, <1>2
<1>4. a \in Alerts
  BY <1>3, ChainAssumption DEF Alerts
<1>5. PICK R : R = [tree : Trees, kind : Kinds, at : Nat]
  OBVIOUS
<1>6. alerts \in Seq(R)
  BY <1>1, <1>5
<1>7. alerts[a] \in R
  BY <1>2, <1>3, <1>6
<1> QED
  BY <1>4, <1>5, <1>7

LEMMA TickFacts ==
  ASSUME Base, Tick
  PROVE  /\ now' \in Nat /\ now' = now + 1 /\ alerts' = alerts /\ joined' = joined
         /\ recent' \in Seq(Slots) /\ Range(recent') \subseteq Range(recent)
         /\ live' \subseteq live
<1>1. now \in Nat /\ recent \in Seq(Slots)
  BY DEF Base
<1>2. PICK I : recent' = Those(recent, I)
  BY DEF Tick
<1>3. recent' \in Seq(Slots) /\ Range(recent') \subseteq Range(recent)
  BY <1>1, <1>2, PruneFacts
<1> QED
  BY <1>1, <1>3 DEF Tick

LEMMA StoreInit == Init => Store
<1> SUFFICES ASSUME Init PROVE Store
  OBVIOUS
<1>1. Range(recent) = {} /\ live = {} /\ now = 0 /\ recent = <<>> /\ alerts = <<>>
  BY DEF Init, Range
<1>2. Base
  BY <1>1, ChainAssumption DEF Base
<1>3. Remembered /\ Taken
  BY <1>1 DEF Remembered, Taken
<1>4. NothingMissed
  <2>1. \A t \in Trees : Unclaimed(recent, joined, t) = {}
    BY <1>1 DEF Unclaimed
  <2>2. NothingMissed <=> \A t \in Trees : ~Qualifies(Unclaimed(recent, joined, t))
    BY DEF NothingMissed, Unclaimed
  <2> QED BY <2>1, <2>2, NothingQualifies
<1> QED
  BY <1>2, <1>3, <1>4 DEF Store

LEMMA StoreStep == Store /\ [Next]_vars => Store'
<1> SUFFICES ASSUME Store, [Next]_vars PROVE Store'
  OBVIOUS
<1>1. Base /\ Remembered /\ Taken /\ NothingMissed
  BY DEF Store
<1>2. ASSUME NEW tree \in Trees, NEW k \in Kinds, Raise(tree, k)
      PROVE  Store'
  <2>1. PICK a : a = Len(alerts) + 1
    OBVIOUS
  <2>2. a \in Alerts /\ Note(tree, a, k)
    BY <1>1, <1>2, <2>1, RaiseFacts DEF Raise
  <2>3. /\ recent' \in Seq(Slots) /\ live' \subseteq Chains
        /\ Remembered' /\ Taken' /\ NothingMissed'
    BY <1>1, <2>2, NoteStore
  <2>4. Base'
    BY <1>1, <1>2, <2>3, RaiseFacts DEF Base, Raise
  <2> QED BY <2>3, <2>4 DEF Store
<1>3. ASSUME NEW a \in DOMAIN alerts, NEW k \in Kinds, Repeat(a, k)
      PROVE  Store'
  <2>1. PICK tree : tree = alerts[a].tree
    OBVIOUS
  <2>2. a \in Alerts /\ tree \in Trees /\ Note(tree, a, k)
    BY <1>1, <1>3, <2>1, RepeatFacts DEF Repeat
  <2>3. /\ recent' \in Seq(Slots) /\ live' \subseteq Chains
        /\ Remembered' /\ Taken' /\ NothingMissed'
    BY <1>1, <2>2, NoteStore
  <2>4. Base'
    BY <1>1, <1>3, <2>3 DEF Base, Repeat
  <2> QED BY <2>3, <2>4 DEF Store
<1>4. CASE Tick
  <2>1. /\ now' \in Nat /\ alerts' = alerts /\ joined' = joined
        /\ recent' \in Seq(Slots) /\ Range(recent') \subseteq Range(recent) /\ live' \subseteq live
    BY <1>1, <1>4, TickFacts
  <2>2. Base'
    BY <1>1, <2>1 DEF Base
  <2>3. Remembered' /\ Taken'
    BY <1>1, <2>1 DEF Remembered, Taken
  <2>4. \A t \in Trees : Unclaimed(recent', joined', t) \subseteq Unclaimed(recent, joined, t)
    BY <2>1 DEF Unclaimed
  <2>5. NothingMissed'
    <3>1. \A t \in Trees : ~Qualifies(Unclaimed(recent, joined, t))
      BY <1>1 DEF NothingMissed, Unclaimed
    <3>2. \A t \in Trees : ~Qualifies(Unclaimed(recent', joined', t))
      BY <2>4, <3>1, QualifiesGrows
    <3> QED BY <3>2 DEF NothingMissed, Unclaimed
  <2> QED BY <2>2, <2>3, <2>5 DEF Store
<1>5. CASE UNCHANGED vars
  BY <1>1, <1>5 DEF Store, Base, Remembered, Taken, NothingMissed, vars
<1> QED
  BY <1>2, <1>3, <1>4, <1>5 DEF Next

\* What a chain remembers is enough for its verdict, and a slot is taken only by a chain
\* that has its alert, in every reachable state (ChainStore::note, push_recent, prune).
THEOREM StoreInvariant == Spec => []Store
<1>1. Init => Store
  BY StoreInit
<1>2. Store /\ [Next]_vars => Store'
  BY StoreStep
<1> QED
  BY <1>1, <1>2, PTL DEF Spec

\* No sequence waits unseen (qualifies, push_recent, the mark a chain leaves): alerts of
\* one tree that nothing has taken never come to qualify together.
THEOREM NothingMissedAlways == Spec => []NothingMissed
<1>1. Store => NothingMissed
  BY DEF Store
<1> QED
  BY <1>1, StoreInvariant, PTL

\* The twelfth step of a story is not the last one judged (Escalation, escalate_state):
\* a chain has the severity and the families of every trigger that ever joined it.
THEOREM VerdictAlways == Spec => []VerdictIsOfAll
<1>1. Store => VerdictIsOfAll
  <2> SUFFICES ASSUME Store, NEW c \in live
               PROVE  /\ Severity(c.state) = Verdict(c.heard)
                      /\ Crossed(c.state) = {c.heard[i].family : i \in DOMAIN c.heard}
    BY DEF VerdictIsOfAll
  <2>1. PICK e, h : e = c.state /\ h = c.heard
    OBVIOUS
  <2>2. h \in Seq(Kind) /\ Summary(e, h)
    BY <2>1 DEF Store, Base, Remembered, Chains
  <2>3. Severity(e) = Verdict(h) /\ Crossed(e) = {h[i].family : i \in DOMAIN h}
    BY <2>2, Remembers
  <2> QED BY <2>1, <2>3
<1> QED
  BY <1>1, StoreInvariant, PTL

-----------------------------------------------------------------------------
(* Powers of two *)

Powers(f, n) == f = [i \in 0 .. n |-> IF i = 0 THEN 1 ELSE 2 * f[i - 1]]

LEMMA PowersExist ==
  ASSUME NEW n \in Nat
  PROVE  \E f \in [0 .. n -> Nat] : Powers(f, n)
<1>1. PICK step : step = [p \in (1 .. n) \X Nat |-> 2 * p[2]]
  OBVIOUS
<1>2. step \in [(1 .. n) \X Nat -> Nat]
  BY <1>1
<1>3. PICK f \in [0 .. n -> Nat] : Recursive(f, 1, step, n)
  <2>1. 1 \in Nat
    OBVIOUS
  <2> QED BY <1>2, <2>1, Recursion
<1>4. ASSUME NEW m \in 0 .. n
      PROVE  f[m] = IF m = 0 THEN 1 ELSE 2 * f[m - 1]
  <2>1. CASE m = 0
    BY <1>3, <2>1 DEF Recursive
  <2>2. CASE m # 0
    <3>1. m \in 1 .. n /\ m - 1 \in 0 .. n
      BY <2>2
    <3>2. f[m] = step[<<m, f[m - 1]>>] /\ f[m - 1] \in Nat
      BY <1>3, <3>1 DEF Recursive
    <3>3. <<m, f[m - 1]>> \in (1 .. n) \X Nat
      BY <3>1, <3>2
    <3>4. step[<<m, f[m - 1]>>] = 2 * f[m - 1]
      BY <1>1, <3>3
    <3> QED BY <2>2, <3>2, <3>4
  <2> QED BY <2>1, <2>2
<1> QED
  BY <1>3, <1>4 DEF Powers

LEMMA PowersAgree ==
  ASSUME NEW n \in Nat, NEW m \in Nat, n <= m, NEW f, NEW g, Powers(f, n), Powers(g, m)
  PROVE  \A i \in 0 .. n : f[i] = g[i]
<1> DEFINE T == {l \in Nat : l <= n => f[l] = g[l]}
<1>1. 0 \in T
  BY DEF Powers
<1>2. ASSUME NEW l \in Nat, l \in T
      PROVE  l + 1 \in T
  <2> SUFFICES ASSUME l + 1 <= n PROVE f[l + 1] = g[l + 1]
    OBVIOUS
  <2>1. l + 1 \in 0 .. n /\ l + 1 \in 0 .. m /\ l + 1 # 0 /\ (l + 1) - 1 = l /\ f[l] = g[l]
    BY <1>2
  <2>2. f[l + 1] = 2 * f[l] /\ g[l + 1] = 2 * g[l]
    BY <2>1 DEF Powers
  <2> QED BY <2>1, <2>2
<1>3. Nat \subseteq T
  <2> HIDE DEF T
  <2> QED BY <1>1, <1>2, NumbersByInduction
<1> QED
  BY <1>3

LEMMA PowerIs ==
  ASSUME NEW n \in Nat
  PROVE  \E f \in [0 .. n -> Nat] : /\ Powers(f, n)
                                    /\ IsPowerOfTwo(n) <=> \E i \in 0 .. n : f[i] = n
<1> DEFINE f == CHOOSE f : f = [i \in 0 .. n |-> IF i = 0 THEN 1 ELSE 2 * f[i - 1]]
<1>1. Powers(f, n)
  <2>1. \E g : Powers(g, n)
    BY PowersExist
  <2>2. \E g : g = [i \in 0 .. n |-> IF i = 0 THEN 1 ELSE 2 * g[i - 1]]
    BY <2>1 DEF Powers
  <2>3. f = [i \in 0 .. n |-> IF i = 0 THEN 1 ELSE 2 * f[i - 1]]
    BY <2>2
  <2> HIDE DEF f
  <2> QED BY <2>3 DEF Powers
<1>2. IsPowerOfTwo(n) <=> \E i \in 0 .. n : f[i] = n
  BY DEF IsPowerOfTwo
<1> HIDE DEF f
<1>3. f \in [0 .. n -> Nat]
  <2>1. PICK g \in [0 .. n -> Nat] : Powers(g, n)
    BY PowersExist
  <2>2. \A i \in 0 .. n : g[i] = f[i]
    BY <1>1, <2>1, PowersAgree
  <2>3. f = [i \in 0 .. n |-> f[i]]
    BY <1>1 DEF Powers
  <2> QED BY <2>1, <2>2, <2>3
<1> QED
  BY <1>1, <1>2, <1>3

LEMMA OneIsPower == IsPowerOfTwo(1)
<1>1. 1 \in Nat /\ 0 \in 0 .. 1
  OBVIOUS
<1>2. PICK f : Powers(f, 1) /\ (IsPowerOfTwo(1) <=> \E i \in 0 .. 1 : f[i] = 1)
  BY <1>1, PowerIs
<1>3. f[0] = 1
  BY <1>1, <1>2 DEF Powers
<1> QED
  BY <1>1, <1>2, <1>3

LEMMA PowersDouble ==
  ASSUME NEW n \in Nat \ {0}, IsPowerOfTwo(n)
  PROVE  IsPowerOfTwo(2 * n)
<1>1. PICK m \in Nat : m = 2 * n /\ n <= m
  OBVIOUS
<1>2. PICK f : Powers(f, n) /\ (IsPowerOfTwo(n) <=> \E i \in 0 .. n : f[i] = n)
  BY PowerIs
<1>3. PICK g : Powers(g, m) /\ (IsPowerOfTwo(m) <=> \E i \in 0 .. m : g[i] = m)
  BY PowerIs
<1>4. PICK i \in 0 .. n : f[i] = n
  BY <1>2
<1>5. i + 1 \in 0 .. m /\ i + 1 # 0 /\ (i + 1) - 1 = i
  BY <1>1
<1>6. g[i] = n
  BY <1>1, <1>2, <1>3, <1>4, PowersAgree
<1>7. g[i + 1] = 2 * g[i]
  BY <1>3, <1>5 DEF Powers
<1> QED
  BY <1>1, <1>3, <1>5, <1>6, <1>7

\* Every count lies between a power of two and its double.
Between(p, n) == p \in Nat \ {0} /\ IsPowerOfTwo(p) /\ p <= n /\ n < 2 * p

LEMMA PowerBelow ==
  ASSUME NEW n \in Nat \ {0}
  PROVE  \E p : Between(p, n)
<1> DEFINE T == {l \in Nat : \E p : Between(p, l + 1)}
<1>1. 0 \in T
  <2>1. Between(1, 0 + 1)
    BY OneIsPower DEF Between
  <2> QED BY <2>1
<1>2. ASSUME NEW l \in Nat, l \in T
      PROVE  l + 1 \in T
  <2>1. PICK p : Between(p, l + 1)
    BY <1>2
  <2>2. p \in Nat \ {0} /\ IsPowerOfTwo(p) /\ p <= l + 1 /\ l + 1 < 2 * p
    BY <2>1 DEF Between
  <2>3. CASE (l + 1) + 1 < 2 * p
    <3>1. Between(p, (l + 1) + 1)
      BY <2>2, <2>3 DEF Between
    <3> QED BY <3>1
  <2>4. CASE ~((l + 1) + 1 < 2 * p)
    <3>1. PICK q : q = 2 * p
      OBVIOUS
    <3>2. IsPowerOfTwo(q)
      BY <2>2, <3>1, PowersDouble
    <3>3. q = (l + 1) + 1 /\ q \in Nat \ {0}
      BY <2>2, <2>4, <3>1
    <3>4. Between(q, (l + 1) + 1)
      BY <3>2, <3>3 DEF Between
    <3> QED BY <3>4
  <2> QED BY <2>3, <2>4
<1>3. Nat \subseteq T
  <2> HIDE DEF T
  <2> QED BY <1>1, <1>2, NumbersByInduction
<1>4. n - 1 \in Nat /\ (n - 1) + 1 = n
  OBVIOUS
<1> QED
  BY <1>3, <1>4

\* One step more stays below the double unless it reaches a power of two.
LEMMA BelowDouble ==
  ASSUME NEW p, NEW n \in Nat, p \in Nat \ {0}, IsPowerOfTwo(p), n < 2 * p,
         ~IsPowerOfTwo(n + 1)
  PROVE  n + 1 < 2 * p
<1>1. PICK q : q = 2 * p
  OBVIOUS
<1>2. IsPowerOfTwo(q)
  BY <1>1, PowersDouble
<1>3. n + 1 # q
  BY <1>2
<1> QED
  BY <1>1, <1>3

-----------------------------------------------------------------------------
(* What the log says *)

\* An open chain is of its tree, begins with the alert it is named after, and is not old.
Sound(c) ==
  /\ c.members # <<>> /\ c.members[1] = c.id
  /\ \A m \in Range(c.members) : m \in DOMAIN alerts /\ alerts[m].tree = c.tree
  /\ alerts[c.id].at <= c.firstAt /\ c.firstAt <= c.lastAt /\ c.lastAt <= now
  /\ now - c.lastAt <= Window /\ now - c.firstAt <= MaxSpan

\* A slot is of its alert's tree.
Placed(s) ==
  /\ s.alert \in DOMAIN alerts /\ alerts[s.alert].tree = s.tree
  /\ alerts[s.alert].at <= s.at /\ s.at <= now

\* No chain will be named after x again: it repeats no more, and nothing of it waits.
Spent(x) ==
  /\ x \in DOMAIN alerts /\ now - alerts[x].at >= DedupeSecs
  /\ \A s \in Range(recent) : s.alert = x => s.chained

\* A tree has one open chain, to which all its slots are given.
Single ==
  /\ \A c \in live : Sound(c)
  /\ \A c, d \in live : c.tree = d.tree => c = d
  /\ \A s \in Range(recent) : Placed(s)
  /\ \A s \in Range(recent), c \in live : s.tree = c.tree => s.chained
  /\ \A x \in DOMAIN stamps : (\E c \in live : c.id = x) \/ Spent(x)

\* What the anchor's row, the stamp and the members' rows say of an open chain.
Logged(c) ==
  /\ c.id \in DOMAIN stamps /\ stamps[c.id].stamped = told[c.id].total
  /\ told[c.id] = [Record(c) EXCEPT !.total = told[c.id].total]
  /\ told[c.id].total \in Nat /\ told[c.id].total <= Len(c.members)
  /\ \E p \in 1 .. told[c.id].total : IsPowerOfTwo(p) /\ Len(c.members) < 2 * p
  /\ \A i \in 1 .. told[c.id].total : named[c.members[i]] = c.id

Ledger == DOMAIN named = Alerts /\ Single /\ \A c \in live : Logged(c)

\* An alert a of a tree, as it is noted: the log of alerts has it, and when it is a
\* repeat, it is one that may still repeat.
Arrives(a, tree) ==
  /\ now' = now
  /\ DOMAIN alerts \subseteq DOMAIN alerts'
  /\ \A x \in DOMAIN alerts : alerts'[x] = alerts[x]
  /\ a \in DOMAIN alerts' /\ alerts'[a].tree = tree
  /\ alerts'[a].at \in Nat /\ alerts'[a].at <= now
  /\ a \in DOMAIN alerts => now - alerts[a].at < DedupeSecs

Stamp(c) == IF c.id \in DOMAIN stamps THEN stamps[c.id] ELSE NoStamp

LEMMA WriteFacts ==
  ASSUME NEW chains, NEW c \in chains, WriteChain(c, chains)
  PROVE  /\ \A x \in DOMAIN stamps' : \E y \in chains : y.id = x
         /\ c.id \in DOMAIN stamps' /\ stamps'[c.id].stamped = Len(c.members)
         /\ told'[c.id] = Record(c)
         /\ \A y \in chains : y.id # c.id =>
              /\ told'[y.id] = told[y.id]
              /\ y.id \in DOMAIN stamps => y.id \in DOMAIN stamps' /\ stamps'[y.id] = stamps[y.id]
         /\ DOMAIN named' = DOMAIN named
         /\ \A a \in DOMAIN named :
              named'[a] = IF a \in Unstamped(c, Stamp(c)) THEN c.id ELSE named[a]
<1>1. PICK kept : kept = {c.id} \cup {x.id : x \in chains}
  OBVIOUS
<1>2. PICK st, raise, new : /\ st = Stamp(c) /\ raise = (Severity(c.state) >= High)
                            /\ new = Unstamped(c, st)
  OBVIOUS
<1>3. /\ told' = [x \in kept |-> IF x = c.id THEN Record(c) ELSE told[x]]
      /\ named' = [a \in DOMAIN named |-> IF a \in new THEN c.id ELSE named[a]]
      /\ stamps' =
           [x \in kept \cap (DOMAIN stamps \cup {c.id}) |->
              IF x = c.id THEN [stamped |-> Len(c.members),
                                raised |-> st.raised \/ Severity(c.state) >= High]
                          ELSE stamps[x]]
  BY <1>1, <1>2 DEF WriteChain, Stamp
<1>4. c.id \in kept /\ \A y \in chains : y.id \in kept
  BY <1>1
<1>5. \A x \in DOMAIN stamps' : \E y \in chains : y.id = x
  BY <1>1, <1>3
<1>6. c.id \in DOMAIN stamps' /\ stamps'[c.id].stamped = Len(c.members)
  BY <1>3, <1>4
<1>7. told'[c.id] = Record(c) /\ \A y \in chains : y.id # c.id => told'[y.id] = told[y.id]
  BY <1>3, <1>4
<1>8. \A y \in chains : y.id # c.id /\ y.id \in DOMAIN stamps
                          => y.id \in DOMAIN stamps' /\ stamps'[y.id] = stamps[y.id]
  BY <1>3, <1>4
<1>9. DOMAIN named' = DOMAIN named
  BY <1>3
<1>10. \A a \in DOMAIN named : named'[a] = IF a \in Unstamped(c, Stamp(c)) THEN c.id ELSE named[a]
  BY <1>2, <1>3
<1> QED
  BY <1>5, <1>6, <1>7, <1>8, <1>9, <1>10

LEMMA WriteNothingFacts ==
  ASSUME NEW chains, WriteNothing(chains)
  PROVE  /\ stamps' = stamps /\ named' = named
         /\ \A y \in chains : told'[y.id] = told[y.id]
<1>1. PICK kept : kept = {c.id : c \in chains}
  OBVIOUS
<1>2. told' = [x \in kept |-> told[x]] /\ stamps' = stamps /\ named' = named
  BY <1>1 DEF WriteNothing
<1>3. \A y \in chains : y.id \in kept
  BY <1>1
<1> QED
  BY <1>2, <1>3

LEMMA AllOpen ==
  ASSUME Single
  PROVE  OpenChains = live
BY DEF Single, Sound, OpenChains

\* A chain's name is the first of its members.
LEMMA FirstMember ==
  ASSUME NEW c \in Chains, c.members # <<>>, c.members[1] = c.id
  PROVE  c.id \in Range(c.members)
<1>1. PICK q : q = c.members
  OBVIOUS
<1>2. q \in Seq(Alerts) /\ q # <<>>
  BY <1>1 DEF Chains
<1>3. 1 \in DOMAIN q
  BY <1>2
<1> QED
  BY <1>1, <1>3 DEF Range

LEMMA SoundKept ==
  ASSUME NEW a, NEW tree, Arrives(a, tree), NEW c \in Chains, Sound(c)
  PROVE  Sound(c)'
<1>1. c.id \in Range(c.members)
  BY FirstMember DEF Sound
<1>2. c.id \in DOMAIN alerts
  BY <1>1 DEF Sound
<1>3. \A m \in Range(c.members) : m \in DOMAIN alerts' /\ alerts'[m].tree = c.tree
  BY DEF Sound, Arrives
<1>4. alerts'[c.id].at = alerts[c.id].at /\ now' = now
  BY <1>2 DEF Arrives
<1> QED
  BY <1>3, <1>4 DEF Sound

LEMMA PlacedKept ==
  ASSUME NEW a, NEW tree, Arrives(a, tree), NEW s, Placed(s)
  PROVE  Placed(s)'
BY DEF Placed, Arrives

LEMMA PlacedNew ==
  ASSUME now \in Nat, NEW a, NEW tree, Arrives(a, tree), NEW s, s.alert = a, s.tree = tree,
         s.at = now
  PROVE  Placed(s)'
BY DEF Placed, Arrives

LEMMA SpentKept ==
  ASSUME Base, NEW a, NEW tree, Arrives(a, tree), NEW x, Spent(x),
         \A s \in Range(recent') : s \in Range(recent) \/ s.alert = a \/ s.chained
  PROVE  Spent(x)'
<1>1. x \in DOMAIN alerts' /\ alerts'[x] = alerts[x] /\ now' = now
  BY DEF Spent, Arrives
<1>2. a # x
  <2> SUFFICES ASSUME a = x PROVE FALSE
    OBVIOUS
  <2>1. DedupeSecs \in Nat /\ now \in Nat /\ alerts[x].at \in Nat
    BY ChainAssumption, RepeatFacts DEF Base, Spent
  <2>2. PICK d \in Int : d = now - alerts[x].at
    BY <2>1
  <2>3. d >= DedupeSecs /\ d < DedupeSecs
    BY <2>2 DEF Spent, Arrives
  <2> QED BY <2>1, <2>3
<1>3. \A s \in Range(recent') : s.alert = x => s.chained
  BY <1>2 DEF Spent
<1> QED
  BY <1>1, <1>3 DEF Spent

LEMMA GrowsSingle ==
  ASSUME Base, Single, NEW tree \in Trees, NEW a \in Alerts, NEW k \in Kinds,
         Arrives(a, tree), Grows(tree, a, k)
  PROVE  Single'
<1>1. /\ now \in Nat /\ live \subseteq Chains /\ k \in Kind
      /\ OpenChains = live /\ Range(FreshSlots) \subseteq Range(recent)
  BY AllOpen, FreshFacts, ChainAssumption DEF Base
<1>2. PICK slot : slot = Slot(tree, a, k, TRUE)
  OBVIOUS
<1>3. slot.tree = tree /\ slot.alert = a /\ slot.at = now /\ slot.chained
  BY <1>2 DEF Slot
<1>4. PICK c \in live :
        /\ c.tree = tree
        /\ Range(recent') \subseteq Range(recent) \cup {slot}
        /\ live' = (live \ {c}) \cup {Stepped(c, a, k)}
        /\ IF Changed(c, Stepped(c, a, k)) THEN WriteChain(Stepped(c, a, k), live')
                                           ELSE WriteNothing(live')
  BY <1>1, <1>2 DEF Grows
<1>5. PICK d : d = Stepped(c, a, k)
  OBVIOUS
<1>6. /\ d \in Chains
      /\ d.tree = c.tree /\ d.id = c.id /\ d.firstAt = c.firstAt /\ d.lastAt = now
      /\ d.members = c.members \/ d.members = Append(c.members, a)
  BY <1>1, <1>4, <1>5, SteppedFacts
<1>7. live' = (live \ {c}) \cup {d} /\ Sound(c) /\ Sound(c)'
  BY <1>1, <1>4, <1>5, SoundKept DEF Single
<1>8. Sound(d)'
  <2>1. PICK q : q = c.members
    OBVIOUS
  <2>2. q \in Seq(Alerts) /\ q # <<>> /\ q[1] = c.id
    BY <1>1, <1>4, <1>7, <2>1 DEF Chains, Sound
  <2>3. d.members # <<>> /\ d.members[1] = d.id
    BY <1>6, <2>1, <2>2
  <2>4. \A m \in Range(d.members) : m \in DOMAIN alerts' /\ alerts'[m].tree = d.tree
    <3>1. Range(Append(q, a)) = Range(q) \cup {a}
      BY <2>2, AppendRange
    <3>2. \A m \in Range(q) \cup {a} : m \in DOMAIN alerts' /\ alerts'[m].tree = c.tree
      BY <1>4, <1>7, <2>1 DEF Sound, Arrives
    <3> QED BY <1>6, <2>1, <3>1, <3>2
  <2>5. alerts'[d.id].at <= d.firstAt
    BY <1>6, <1>7 DEF Sound
  <2>6. now' = now /\ c.firstAt <= c.lastAt /\ c.lastAt <= now /\ now - c.firstAt <= MaxSpan
    BY <1>7 DEF Sound, Arrives
  <2>7. c.firstAt \in Nat /\ c.lastAt \in Nat /\ Window \in Nat
    BY <1>1, <1>4, ChainAssumption DEF Chains
  <2>8. d.firstAt <= d.lastAt /\ d.lastAt <= now' /\ now' - d.lastAt <= Window
        /\ now' - d.firstAt <= MaxSpan
    BY <1>1, <1>6, <2>6, <2>7
  <2> QED BY <2>3, <2>4, <2>5, <2>8 DEF Sound
<1>9. \A y \in live' : Sound(y)'
  <2>1. ASSUME NEW y \in live, y # c
        PROVE  Sound(y)'
    BY <1>1, <2>1, SoundKept DEF Single
  <2> QED BY <1>7, <1>8, <2>1
<1>10. \A y, z \in live' : y.tree = z.tree => y = z
  BY <1>4, <1>6, <1>7 DEF Single
<1>11. \A s \in Range(recent') : Placed(s)'
  <2>1. ASSUME NEW s \in Range(recent)
        PROVE  Placed(s)'
    BY <2>1, PlacedKept DEF Single
  <2>2. Placed(slot)'
    BY <1>1, <1>3, PlacedNew
  <2> QED BY <1>4, <2>1, <2>2
<1>12. \A s \in Range(recent'), y \in live' : s.tree = y.tree => s.chained
  BY <1>3, <1>4, <1>6, <1>7 DEF Single
<1>13. \A x \in DOMAIN stamps' : (\E y \in live' : y.id = x) \/ Spent(x)'
  <2>1. CASE Changed(c, d)
    <3>1. WriteChain(d, live') /\ d \in live'
      BY <1>4, <1>5, <1>7, <2>1
    <3> QED BY <3>1, WriteFacts
  <2>2. CASE ~Changed(c, d)
    <3>1. WriteNothing(live')
      BY <1>4, <1>5, <2>2
    <3>2. stamps' = stamps
      BY <3>1, WriteNothingFacts
    <3>3. ASSUME NEW x \in DOMAIN stamps
          PROVE  (\E y \in live' : y.id = x) \/ Spent(x)'
      <4>1. CASE Spent(x)
        BY <1>3, <1>4, <4>1, SpentKept
      <4>2. CASE \E y \in live : y.id = x
        BY <1>6, <1>7, <4>2
      <4> QED BY <4>1, <4>2 DEF Single
    <3> QED BY <3>2, <3>3
  <2> QED BY <2>1, <2>2
<1> QED
  BY <1>9, <1>10, <1>11, <1>12, <1>13 DEF Single

LEMMA WaitsSingle ==
  ASSUME Base, Single, NEW tree \in Trees, NEW a \in Alerts, NEW k \in Kinds,
         Arrives(a, tree), Waits(tree, a, k)
  PROVE  Single'
<1>1. /\ now \in Nat /\ live \subseteq Chains
      /\ OpenChains = live /\ Range(FreshSlots) \subseteq Range(recent)
  BY AllOpen, FreshFacts DEF Base
<1>2. PICK slot : slot = Slot(tree, a, k, FALSE)
  OBVIOUS
<1>3. slot.tree = tree /\ slot.alert = a /\ slot.at = now
  BY <1>2 DEF Slot
<1>4. /\ \A c \in live : c.tree # tree
      /\ Range(recent') \subseteq Range(recent) \cup {slot}
      /\ live' = live /\ WriteNothing(live')
  BY <1>1, <1>2 DEF Waits
<1>5. \A y \in live' : Sound(y)'
  <2>1. ASSUME NEW y \in live
        PROVE  Sound(y)'
    BY <1>1, <2>1, SoundKept DEF Single
  <2> QED BY <1>4, <2>1
<1>6. \A y, z \in live' : y.tree = z.tree => y = z
  BY <1>4 DEF Single
<1>7. \A s \in Range(recent') : Placed(s)'
  <2>1. ASSUME NEW s \in Range(recent)
        PROVE  Placed(s)'
    BY <2>1, PlacedKept DEF Single
  <2>2. Placed(slot)'
    BY <1>1, <1>3, PlacedNew
  <2> QED BY <1>4, <2>1, <2>2
<1>8. \A s \in Range(recent'), y \in live' : s.tree = y.tree => s.chained
  BY <1>3, <1>4 DEF Single
<1>9. \A x \in DOMAIN stamps' : (\E y \in live' : y.id = x) \/ Spent(x)'
  <2>1. stamps' = stamps
    BY <1>4, WriteNothingFacts
  <2>2. ASSUME NEW x \in DOMAIN stamps
        PROVE  (\E y \in live' : y.id = x) \/ Spent(x)'
    <3>1. CASE Spent(x)
      BY <1>3, <1>4, <3>1, SpentKept
    <3>2. CASE \E y \in live : y.id = x
      BY <1>4, <3>2
    <3> QED BY <3>1, <3>2 DEF Single
  <2> QED BY <2>1, <2>2
<1> QED
  BY <1>5, <1>6, <1>7, <1>8, <1>9 DEF Single

\* The times are ordered as the program has them: a repeat folds for less time than a
\* slot waits (DEDUPE_SECS, by default 60, and WINDOW_SECS, 600), and a slot waits for
\* less time than a chain may span (MAX_SPAN_SECS, 3600).
Times == DedupeSecs <= Window /\ Window <= MaxSpan

LEMMA FreshAge ==
  ASSUME Base
  PROVE  \A r \in Range(FreshSlots) : now - r.at <= Window
<1>1. PICK q, I : q = recent /\ I = {i \in DOMAIN recent : now - recent[i].at <= Window}
  OBVIOUS
<1>2. FreshSlots = Those(q, I) /\ q \in Seq(Slots)
  BY <1>1 DEF FreshSlots, Base
<1>3. Range(Those(q, I)) = {q[i] : i \in I \cap DOMAIN q}
  BY <1>2, ThoseFacts
<1>4. \A i \in I : now - q[i].at <= Window
  BY <1>1
<1> QED
  BY <1>2, <1>3, <1>4

LEMMA FormsSingle ==
  ASSUME Times, Base, Single, NEW tree \in Trees, NEW a \in Alerts, NEW k \in Kinds,
         Arrives(a, tree), Forms(tree, a, k)
  PROVE  Single'
<1>1. /\ now \in Nat /\ live \subseteq Chains /\ recent \in Seq(Slots)
      /\ OpenChains = live /\ Range(FreshSlots) \subseteq Range(recent)
      /\ Window \in Nat /\ MaxSpan \in Nat /\ Window <= MaxSpan
  BY AllOpen, FreshFacts, ChainAssumption DEF Base, Times
<1>2. PICK slot : slot = Slot(tree, a, k, FALSE)
  OBVIOUS
<1>3. slot.tree = tree /\ slot.alert = a /\ slot.at = now
  BY <1>2 DEF Slot
<1>4. slot \in Slots
  BY <1>1, <1>2 DEF Slot, Slots
<1>5. PICK slots \in Seq(Slots), others \in SUBSET OpenChains :
        /\ Len(slots) # 0 /\ Range(slots) = Here(tree, slot)
        /\ live' = others \cup {Formed(tree, slots)}
        /\ WriteChain(Formed(tree, slots), live')
  BY <1>2 DEF Forms
<1>6. /\ \A y \in live : y.tree # tree
      /\ \A s \in Range(recent') : \E r \in Range(FreshSlots) \cup {slot} : s = Marked(r, tree)
  BY <1>1, <1>2 DEF Forms
<1>7. PICK c : c = Formed(tree, slots)
  OBVIOUS
<1>8. PICK first : first = slots[1]
  OBVIOUS
<1>9. /\ c \in Chains /\ c.tree = tree /\ c.lastAt = now
      /\ first \in Here(tree, slot) /\ c.id = first.alert /\ c.firstAt = first.at
      /\ c.members # <<>> /\ c.members[1] = c.id
      /\ Range(c.members) = {s.alert : s \in Here(tree, slot)}
  BY <1>1, <1>5, <1>7, <1>8, FormedFacts
<1>10. \A s \in Range(recent) \cup {slot} : Placed(s)'
  <2>1. ASSUME NEW s \in Range(recent)
        PROVE  Placed(s)'
    BY <2>1, PlacedKept DEF Single
  <2>2. Placed(slot)'
    BY <1>1, <1>3, PlacedNew
  <2> QED BY <2>1, <2>2
<1>11. \A s \in Here(tree, slot) :
         /\ s.tree = tree /\ Placed(s)' /\ s \in Slots /\ now - s.at <= Window
  <2>1. \A s \in Range(FreshSlots) : s \in Slots /\ Placed(s)' /\ now - s.at <= Window
    BY <1>1, <1>10, FreshAge, RangeIn
  <2>2. now - slot.at <= Window
    BY <1>1, <1>3
  <2> QED BY <1>3, <1>4, <1>10, <2>1, <2>2 DEF Here
<1>12. Sound(c)'
  <2>1. \A m \in Range(c.members) : m \in DOMAIN alerts' /\ alerts'[m].tree = c.tree
    BY <1>9, <1>11 DEF Placed
  <2>2. alerts'[c.id].at <= c.firstAt /\ c.firstAt <= now'
    BY <1>9, <1>11 DEF Placed
  <2>3. now' = now
    BY DEF Arrives
  <2>4. now - c.firstAt <= Window /\ c.firstAt \in Nat
    BY <1>9, <1>11 DEF Slots
  <2>5. now - c.lastAt <= Window /\ now - c.firstAt <= MaxSpan /\ c.lastAt <= now
    BY <1>1, <1>9, <2>4
  <2> QED BY <1>9, <2>1, <2>2, <2>3, <2>5 DEF Sound
<1>13. live' = others \cup {c} /\ others \subseteq live
  BY <1>1, <1>5, <1>7
<1>14. \A y \in live' : Sound(y)'
  <2>1. ASSUME NEW y \in live
        PROVE  Sound(y)'
    BY <1>1, <2>1, SoundKept DEF Single
  <2> QED BY <1>12, <1>13, <2>1
<1>15. \A y, z \in live' : y.tree = z.tree => y = z
  BY <1>6, <1>9, <1>13 DEF Single
<1>16. \A s \in Range(recent') : \E r \in Range(recent) \cup {slot} :
         /\ s.alert = r.alert /\ s.tree = r.tree /\ s.at = r.at
         /\ r.tree = tree => s.chained
         /\ r.tree # tree => s = r
  <2>1. \A r \in Range(recent) \cup {slot} : r \in Slots
    BY <1>1, <1>4, RangeIn
  <2> QED BY <1>1, <1>6, <2>1 DEF Marked, Slots
<1>17. \A s \in Range(recent') : Placed(s)'
  BY <1>10, <1>16 DEF Placed
<1>18. \A s \in Range(recent'), y \in live' : s.tree = y.tree => s.chained
  <2>1. ASSUME NEW s \in Range(recent'), NEW y \in live', s.tree = y.tree
        PROVE  s.chained
    <3>1. PICK r \in Range(recent) \cup {slot} : /\ s.tree = r.tree
                                                 /\ r.tree = tree => s.chained
                                                 /\ r.tree # tree => s = r
      BY <1>16
    <3>2. CASE r.tree # tree
      <4>1. s \in Range(recent) /\ s.tree # tree
        BY <1>3, <3>1, <3>2
      <4>2. y \in live
        BY <1>9, <1>13, <2>1, <4>1
      <4> QED BY <2>1, <4>1, <4>2 DEF Single
    <3> QED BY <3>1, <3>2
  <2> QED BY <2>1
<1>19. \A x \in DOMAIN stamps' : \E y \in live' : y.id = x
  <2>1. WriteChain(c, live') /\ c \in live'
    BY <1>5, <1>7, <1>13
  <2> QED BY <2>1, WriteFacts
<1> QED
  BY <1>14, <1>15, <1>17, <1>18, <1>19 DEF Single

LEMMA TickSingle ==
  ASSUME Times, Base, Single, Tick
  PROVE  Single'
<1>1. /\ now \in Nat /\ now' = now + 1 /\ alerts' = alerts /\ live' \subseteq live
      /\ Range(recent') \subseteq Range(recent) /\ live \subseteq Chains /\ stamps' = stamps
      /\ Window \in Nat /\ MaxSpan \in Nat /\ DedupeSecs \in Nat
      /\ DedupeSecs <= Window /\ Window <= MaxSpan
  BY TickFacts, ChainAssumption DEF Base, Times, Tick
<1>2. live' = {c \in live : now + 1 - c.lastAt <= Window /\ now + 1 - c.firstAt <= MaxSpan}
  BY DEF Tick
<1>3. \A c \in live : c \in Chains /\ Sound(c)
  BY <1>1 DEF Single
<1>4. ASSUME NEW c \in live'
      PROVE  Sound(c)'
  <2>1. Sound(c) /\ c.lastAt \in Nat /\ c.lastAt <= now
    BY <1>1, <1>3 DEF Chains, Sound
  <2>2. c.lastAt <= now' /\ now' - c.lastAt <= Window /\ now' - c.firstAt <= MaxSpan
    <3>1. now \in Nat /\ now' = now + 1
      BY <1>1
    <3>2. now + 1 - c.lastAt <= Window /\ now + 1 - c.firstAt <= MaxSpan
      BY <1>2
    <3>3. c.lastAt <= now'
      BY <2>1, <3>1
    <3>4. c.lastAt \in Nat /\ c.firstAt \in Nat
      BY <1>1, <1>3 DEF Chains
    <3>5. now' - c.lastAt = now + 1 - c.lastAt /\ now' - c.firstAt = now + 1 - c.firstAt
      BY <3>1, <3>4
    <3> QED BY <3>2, <3>3, <3>5
  <2> QED BY <1>1, <2>1, <2>2 DEF Sound
<1>5. \A s \in Range(recent') : Placed(s)'
  <2>1. ASSUME NEW s \in Range(recent)
        PROVE  Placed(s)'
    <3>1. Placed(s)
      BY DEF Single
    <3>2. recent \in Seq(Slots)
      BY DEF Base
    <3>3. s \in Slots
      BY <3>2, RangeIn
    <3>4. s.at \in Nat /\ s.at <= now
      BY <3>1, <3>3 DEF Placed, Slots
    <3>5. s.at <= now'
      BY <1>1, <3>4
    <3> QED BY <1>1, <3>1, <3>5 DEF Placed
  <2> QED BY <1>1, <2>1
<1>6. ASSUME NEW x \in DOMAIN stamps'
      PROVE  (\E c \in live' : c.id = x) \/ Spent(x)'
  <2>1. CASE Spent(x)
    <3>1. x \in DOMAIN alerts /\ now - alerts[x].at >= DedupeSecs
      BY <2>1 DEF Spent
    <3>2. alerts[x].at \in Nat
      BY <3>1, RepeatFacts
    <3>3. now' - alerts[x].at >= DedupeSecs
      BY <1>1, <3>1, <3>2
    <3> QED BY <1>1, <2>1, <3>3 DEF Spent
  <2>2. CASE \E c \in live : c.id = x
    <3>1. PICK c \in live : c.id = x
      BY <2>2
    <3>2. CASE c \in live'
      BY <3>1, <3>2
    <3>3. CASE c \notin live'
      <4>1. ~(now + 1 - c.lastAt <= Window /\ now + 1 - c.firstAt <= MaxSpan)
        BY <1>2, <3>1, <3>3
      <4>2. c \in Chains /\ Sound(c) /\ c.lastAt \in Nat /\ c.firstAt \in Nat
        BY <1>3, <3>1 DEF Chains
      <4>3. x \in Range(c.members)
        BY <3>1, <4>2, FirstMember DEF Sound
      <4>4. x \in DOMAIN alerts /\ alerts[x].tree = c.tree /\ alerts[x].at <= c.firstAt
            /\ c.firstAt <= c.lastAt
        BY <3>1, <4>2, <4>3 DEF Sound
      <4>5. alerts[x].at \in Nat
        BY <4>4, RepeatFacts
      <4>6. now + 1 - alerts[x].at >= DedupeSecs
        <5>1. CASE ~(now + 1 - c.lastAt <= Window)
          BY <1>1, <4>2, <4>4, <4>5, <5>1
        <5>2. CASE ~(now + 1 - c.firstAt <= MaxSpan)
          BY <1>1, <4>2, <4>4, <4>5, <5>2
        <5> QED BY <4>1, <5>1, <5>2
      <4>7. \A s \in Range(recent') : s.alert = x => s.chained
        <5>1. ASSUME NEW s \in Range(recent), s.alert = x
              PROVE  s.chained
          <6>1. s.tree = c.tree
            BY <4>4, <5>1 DEF Single, Placed
          <6> QED BY <3>1, <6>1 DEF Single
        <5> QED BY <1>1, <5>1
      <4>8. Spent(x)'
        <5>1. now \in Nat /\ now' = now + 1 /\ alerts' = alerts
          BY <1>1
        <5>2. x \in DOMAIN alerts' /\ now' - alerts'[x].at >= DedupeSecs
          <6>1. alerts'[x].at = alerts[x].at /\ x \in DOMAIN alerts'
            BY <4>4, <5>1
          <6>2. now' - alerts'[x].at = now + 1 - alerts[x].at
            BY <4>5, <5>1, <6>1
          <6> QED BY <4>6, <6>1, <6>2
        <5> QED BY <4>7, <5>2 DEF Spent
      <4> QED BY <4>8
    <3> QED BY <3>2, <3>3
  <2>3. x \in DOMAIN stamps
    BY <1>1
  <2> QED BY <2>1, <2>2, <2>3 DEF Single
<1> QED
  BY <1>1, <1>4, <1>5, <1>6 DEF Single

\* Chains of two trees have nothing in common.
LEMMA Apart ==
  ASSUME NEW y \in Chains, NEW c \in Chains, Sound(y)', Sound(c)', y.tree # c.tree
  PROVE  y.id # c.id /\ \A m \in Range(y.members) : m \notin Range(c.members)
<1>1. \A m \in Range(y.members) : alerts'[m].tree = y.tree
  BY DEF Sound
<1>2. \A m \in Range(c.members) : alerts'[m].tree = c.tree
  BY DEF Sound
<1>3. y.id \in Range(y.members) /\ c.id \in Range(c.members)
  BY FirstMember DEF Sound
<1> QED
  BY <1>1, <1>2, <1>3

LEMMA RecordTotal ==
  ASSUME NEW c
  PROVE  /\ Record(c).total = Len(c.members)
         /\ Record(c) = [Record(c) EXCEPT !.total = Record(c).total]
BY DEF Record

\* Writing one chain leaves what the log says of the others.
LEMMA LoggedKept ==
  ASSUME NEW chains, NEW c \in chains, WriteChain(c, chains), DOMAIN named = Alerts,
         c \in Chains, NEW y \in chains, y \in Chains, y.id # c.id,
         \A m \in Range(y.members) : m \notin Range(c.members), Logged(y)
  PROVE  Logged(y)'
<1>1. PICK q, t : q = y.members /\ t = told[y.id].total
  OBVIOUS
<1>2. /\ y.id \in DOMAIN stamps /\ stamps[y.id].stamped = told[y.id].total
      /\ told[y.id] = [Record(y) EXCEPT !.total = told[y.id].total]
      /\ t \in Nat /\ t <= Len(q)
      /\ \E p \in 1 .. told[y.id].total : IsPowerOfTwo(p) /\ Len(y.members) < 2 * p
      /\ \A i \in 1 .. t : named[q[i]] = y.id
  BY <1>1 DEF Logged
<1>3. told'[y.id] = told[y.id] /\ y.id \in DOMAIN stamps' /\ stamps'[y.id] = stamps[y.id]
  BY <1>2, WriteFacts
<1>4. ASSUME NEW i \in 1 .. t
      PROVE  named'[q[i]] = y.id
  <2>1. q \in Seq(Alerts) /\ Len(q) \in Nat
    BY <1>1 DEF Chains
  <2>2. i \in DOMAIN q /\ q[i] \in Alerts /\ q[i] \in Range(q)
    BY <1>2, <2>1 DEF Range
  <2>3. q[i] \notin Range(c.members)
    BY <1>1, <2>2
  <2>4. q[i] \notin Unstamped(c, Stamp(c))
    BY <2>3 DEF Unstamped, Range
  <2>5. named'[q[i]] = IF q[i] \in Unstamped(c, Stamp(c)) THEN c.id ELSE named[q[i]]
    BY <2>2, WriteFacts
  <2> QED BY <1>2, <2>4, <2>5
<1> QED
  BY <1>1, <1>2, <1>3, <1>4 DEF Logged

\* What is written of a chain is all of it.
LEMMA LoggedWritten ==
  ASSUME NEW chains, NEW c \in chains, WriteChain(c, chains), DOMAIN named = Alerts,
         c \in Chains, c.members # <<>>, Stamp(c).stamped \in Nat,
         \A j \in DOMAIN c.members : j <= Stamp(c).stamped => named[c.members[j]] = c.id
  PROVE  Logged(c)'
<1>1. PICK q, n, st : q = c.members /\ n = Len(q) /\ st = Stamp(c)
  OBVIOUS
<1>2. q \in Seq(Alerts) /\ n \in Nat \ {0} /\ DOMAIN q = 1 .. n /\ st.stamped \in Nat
  BY <1>1 DEF Chains
<1>3. /\ c.id \in DOMAIN stamps' /\ stamps'[c.id].stamped = n /\ told'[c.id] = Record(c)
      /\ told'[c.id].total = n
      /\ told'[c.id] = [Record(c) EXCEPT !.total = told'[c.id].total]
  BY <1>1, WriteFacts, RecordTotal
<1>4. \E p \in 1 .. n : IsPowerOfTwo(p) /\ n < 2 * p
  <2>1. PICK p : Between(p, n)
    BY <1>2, PowerBelow
  <2> QED BY <1>2, <2>1 DEF Between
<1>5. ASSUME NEW i \in 1 .. n
      PROVE  named'[q[i]] = c.id
  <2>1. q[i] \in Alerts
    BY <1>2
  <2>2. named'[q[i]] = IF q[i] \in Unstamped(c, st) THEN c.id ELSE named[q[i]]
    BY <1>1, <2>1, WriteFacts
  <2>3. CASE i > st.stamped
    <3>1. q[i] \in Unstamped(c, st)
      BY <1>1, <1>2, <2>3 DEF Unstamped
    <3> QED BY <2>2, <3>1
  <2>4. CASE i <= st.stamped
    <3>1. named[q[i]] = c.id
      BY <1>1, <1>2, <2>4
    <3> QED BY <2>2, <3>1
  <2> QED BY <1>2, <2>3, <2>4
<1>6. n \in Nat /\ n <= Len(c.members)
  BY <1>1, <1>2
<1> QED
  BY <1>1, <1>3, <1>4, <1>5, <1>6 DEF Logged

\* What is not written again still says what it must.
LEMMA LoggedSame ==
  ASSUME NEW y, Logged(y), told'[y.id] = told[y.id], stamps' = stamps, named' = named
  PROVE  Logged(y)'
BY DEF Logged

LEMMA GrowsLogged ==
  ASSUME Base, Ledger, NEW tree \in Trees, NEW a \in Alerts, NEW k \in Kinds,
         Arrives(a, tree), Grows(tree, a, k)
  PROVE  Ledger'
<1>1. /\ now \in Nat /\ live \subseteq Chains /\ k \in Kind /\ Single
      /\ OpenChains = live /\ DOMAIN named = Alerts
  BY AllOpen, ChainAssumption DEF Base, Ledger
<1>2. Single'
  BY <1>1, GrowsSingle
<1>3. PICK c \in live :
        /\ c.tree = tree
        /\ live' = (live \ {c}) \cup {Stepped(c, a, k)}
        /\ IF Changed(c, Stepped(c, a, k)) THEN WriteChain(Stepped(c, a, k), live')
                                           ELSE WriteNothing(live')
  BY <1>1 DEF Grows
<1>4. PICK d : d = Stepped(c, a, k)
  OBVIOUS
<1>5. /\ d \in Chains /\ c \in Chains /\ d.tree = c.tree /\ d.id = c.id
      /\ \/ d.members = c.members /\ d.shown = c.shown /\ d.state = c.state
         \/ d.members = Append(c.members, a)
  BY <1>1, <1>3, <1>4, SteppedFacts
<1>6. live' = (live \ {c}) \cup {d} /\ d \in live'
  BY <1>3, <1>4
<1>7. PICK q, t : q = c.members /\ t = told[c.id].total
  OBVIOUS
<1>8. /\ c.id \in DOMAIN stamps /\ stamps[c.id].stamped = t
      /\ told[c.id] = [Record(c) EXCEPT !.total = t]
      /\ t \in Nat /\ t <= Len(q) /\ q \in Seq(Alerts) /\ Len(q) \in Nat
      /\ \E p \in 1 .. t : IsPowerOfTwo(p) /\ Len(q) < 2 * p
      /\ \A i \in 1 .. t : named[q[i]] = c.id
  <2>1. Logged(c)
    BY <1>3 DEF Ledger
  <2>2. q \in Seq(Alerts) /\ Len(q) \in Nat
    BY <1>5, <1>7 DEF Chains
  <2> QED BY <1>7, <2>1, <2>2 DEF Logged
<1>9. Sound(d)' /\ d.members # <<>>
  BY <1>2, <1>6 DEF Single, Sound
<1>10. \A i \in 1 .. t : d.members[i] = q[i]
  <2>1. CASE d.members = q
    BY <2>1
  <2>2. CASE d.members = Append(q, a)
    <3>1. \A i \in 1 .. Len(q) : Append(q, a)[i] = q[i]
      BY <1>8
    <3>2. \A i \in 1 .. t : i \in 1 .. Len(q)
      BY <1>8
    <3> QED BY <2>2, <3>1, <3>2
  <2> QED BY <1>5, <1>7, <2>1, <2>2
<1>11. CASE Changed(c, d)
  <2>1. WriteChain(d, live')
    BY <1>3, <1>4, <1>11
  <2>2. Stamp(d).stamped = t
    BY <1>5, <1>8 DEF Stamp
  <2>3. ASSUME NEW j \in DOMAIN d.members, j <= t
        PROVE  named[d.members[j]] = d.id
    <3>1. d.members \in Seq(Alerts)
      BY <1>5 DEF Chains
    <3>2. j \in 1 .. t
      BY <1>8, <2>3, <3>1
    <3> QED BY <1>5, <1>8, <1>10, <3>2
  <2>4. Logged(d)'
    BY <1>1, <1>5, <1>6, <1>8, <1>9, <2>1, <2>2, <2>3, LoggedWritten
  <2>5. ASSUME NEW y \in live', y # d
        PROVE  Logged(y)'
    <3>1. y \in live /\ y \in Chains /\ Logged(y) /\ Sound(y)'
      BY <1>1, <1>2, <1>6, <2>5 DEF Ledger, Single
    <3>2. y.tree # d.tree
      BY <1>2, <1>6, <2>5 DEF Single
    <3>3. y.id # d.id /\ \A m \in Range(y.members) : m \notin Range(d.members)
      BY <1>5, <1>9, <3>1, <3>2, Apart
    <3> QED BY <1>1, <1>5, <1>6, <2>1, <3>1, <3>3, LoggedKept
  <2>6. DOMAIN named' = Alerts
    BY <1>1, <1>6, <2>1, WriteFacts
  <2> QED BY <1>2, <2>4, <2>5, <2>6 DEF Ledger
<1>12. CASE ~Changed(c, d)
  <2>1. WriteNothing(live')
    BY <1>3, <1>4, <1>12
  <2>2. stamps' = stamps /\ named' = named /\ \A y \in live' : told'[y.id] = told[y.id]
    BY <2>1, WriteNothingFacts
  <2>3. /\ d.shown = c.shown /\ Severity(d.state) = Severity(c.state)
        /\ Crossed(d.state) = Crossed(c.state) /\ ~IsPowerOfTwo(Len(d.members))
    BY <1>12 DEF Changed
  <2>4. told'[d.id] = [Record(d) EXCEPT !.total = t]
    <3>1. told'[d.id] = told[c.id]
      BY <1>5, <1>6, <2>2
    <3>2. [Record(d) EXCEPT !.total = t] = [Record(c) EXCEPT !.total = t]
      BY <2>3 DEF Record
    <3> QED BY <1>8, <3>1, <3>2
  <2>5. told'[d.id].total = t
    BY <2>4 DEF Record
  <2>6. PICK p \in 1 .. t : IsPowerOfTwo(p) /\ Len(q) < 2 * p
    BY <1>8
  <2>7. t <= Len(d.members) /\ Len(d.members) < 2 * p
    <3>1. CASE d.members = q
      BY <1>8, <2>6, <3>1
    <3>2. CASE d.members = Append(q, a)
      <4>1. Len(d.members) = Len(q) + 1
        BY <1>8, <3>2
      <4>2. PICK n \in Nat : n = Len(q) /\ t <= n
        BY <1>8
      <4>3. p \in Nat \ {0} /\ ~IsPowerOfTwo(n + 1) /\ n < 2 * p
        BY <1>8, <2>3, <2>6, <4>1, <4>2
      <4>4. n + 1 < 2 * p
        BY <2>6, <4>3, BelowDouble
      <4>5. t <= n + 1
        BY <1>8, <4>2
      <4> QED BY <4>1, <4>2, <4>4, <4>5
    <3> QED BY <1>5, <1>7, <3>1, <3>2
  <2>8. Logged(d)'
    <3>1. \A i \in 1 .. t : named'[d.members[i]] = d.id
      BY <1>5, <1>8, <1>10, <2>2
    <3>2. d.id \in DOMAIN stamps' /\ stamps'[d.id].stamped = t
      BY <1>5, <1>8, <2>2
    <3> QED BY <1>8, <2>4, <2>5, <2>6, <2>7, <3>1, <3>2 DEF Logged
  <2>9. ASSUME NEW y \in live', y # d
        PROVE  Logged(y)'
    <3>1. Logged(y)
      BY <1>6, <2>9 DEF Ledger
    <3> QED BY <2>2, <3>1, LoggedSame
  <2> QED BY <1>1, <1>2, <2>2, <2>8, <2>9 DEF Ledger
<1> QED
  BY <1>11, <1>12

LEMMA WaitsLogged ==
  ASSUME Base, Ledger, NEW tree \in Trees, NEW a \in Alerts, NEW k \in Kinds,
         Arrives(a, tree), Waits(tree, a, k)
  PROVE  Ledger'
<1>1. Single /\ OpenChains = live /\ DOMAIN named = Alerts
  BY AllOpen DEF Ledger
<1>2. Single'
  BY <1>1, WaitsSingle
<1>3. live' = live /\ WriteNothing(live')
  BY <1>1 DEF Waits
<1>4. stamps' = stamps /\ named' = named /\ \A y \in live' : told'[y.id] = told[y.id]
  BY <1>3, WriteNothingFacts
<1>5. ASSUME NEW y \in live'
      PROVE  Logged(y)'
  <2>1. Logged(y)
    BY <1>3 DEF Ledger
  <2> QED BY <1>4, <2>1, LoggedSame
<1> QED
  BY <1>1, <1>2, <1>4, <1>5 DEF Ledger

LEMMA FormsLogged ==
  ASSUME Times, Base, Ledger, NEW tree \in Trees, NEW a \in Alerts, NEW k \in Kinds,
         Arrives(a, tree), Forms(tree, a, k)
  PROVE  Ledger'
<1>1. /\ now \in Nat /\ live \subseteq Chains /\ Single /\ OpenChains = live
      /\ DOMAIN named = Alerts /\ Range(FreshSlots) \subseteq Range(recent)
  BY AllOpen, FreshFacts DEF Base, Ledger
<1>2. Single'
  BY <1>1, FormsSingle
<1>3. PICK slot : slot = Slot(tree, a, k, FALSE)
  OBVIOUS
<1>4. slot.tree = tree /\ slot.alert = a
  BY <1>3 DEF Slot
<1>5. PICK slots \in Seq(Slots), others \in SUBSET OpenChains :
        /\ Len(slots) # 0 /\ Range(slots) = Here(tree, slot)
        /\ live' = others \cup {Formed(tree, slots)}
        /\ WriteChain(Formed(tree, slots), live')
  BY <1>3 DEF Forms
<1>6. \A y \in live : y.tree # tree
  BY <1>1 DEF Forms
<1>7. PICK c, first : c = Formed(tree, slots) /\ first = slots[1]
  OBVIOUS
<1>8. /\ c \in Chains /\ c.tree = tree /\ c.members # <<>>
      /\ first \in Here(tree, slot) /\ c.id = first.alert
  BY <1>1, <1>5, <1>7, FormedFacts
<1>9. live' = others \cup {c} /\ others \subseteq live /\ WriteChain(c, live') /\ c \in live'
  BY <1>1, <1>5, <1>7
<1>10. ASSUME c.id \in DOMAIN stamps
       PROVE  FALSE
  <2>1. PICK x : x = c.id
    OBVIOUS
  <2>2. first = slot \/ (first \in Range(recent) /\ first.tree = tree /\ ~first.chained)
    BY <1>1, <1>8 DEF Here
  <2>3. x \in DOMAIN alerts => alerts[x].tree = tree
    <3>1. CASE first = slot
      BY <1>4, <1>8, <2>1, <3>1 DEF Arrives
    <3>2. CASE first \in Range(recent) /\ first.tree = tree
      <4>1. Placed(first)
        BY <3>2 DEF Ledger, Single
      <4> QED BY <1>8, <2>1, <3>2, <4>1 DEF Placed
    <3> QED BY <2>2, <3>1, <3>2
  <2>4. CASE \E y \in live : y.id = x
    <3>1. PICK y \in live : y.id = x
      BY <2>4
    <3>2. Sound(y) /\ y \in Chains
      BY <1>1 DEF Single
    <3>3. x \in Range(y.members)
      BY <3>1, <3>2, FirstMember DEF Sound
    <3>4. x \in DOMAIN alerts /\ alerts[x].tree = y.tree
      BY <3>2, <3>3 DEF Sound
    <3> QED BY <1>6, <2>3, <3>4
  <2>5. CASE Spent(x)
    <3>1. x \in DOMAIN alerts /\ now - alerts[x].at >= DedupeSecs
      BY <2>5 DEF Spent
    <3>2. CASE first = slot
      <4>1. x = a
        BY <1>4, <1>8, <2>1, <3>2
      <4>2. DedupeSecs \in Nat /\ alerts[x].at \in Nat
        BY <3>1, ChainAssumption, RepeatFacts
      <4>3. PICK e \in Int : e = now - alerts[x].at
        BY <1>1, <4>2
      <4>4. e >= DedupeSecs /\ e < DedupeSecs
        BY <3>1, <4>1, <4>3 DEF Arrives
      <4> QED BY <4>2, <4>4
    <3>3. CASE first \in Range(recent) /\ ~first.chained
      BY <1>8, <2>1, <2>5, <3>3 DEF Spent
    <3> QED BY <2>2, <3>2, <3>3
  <2> QED BY <1>1, <1>10, <2>1, <2>4, <2>5 DEF Single
<1>11. Stamp(c).stamped = 0
  BY <1>10 DEF Stamp, NoStamp
<1>12. Logged(c)'
  <2>1. c.members \in Seq(Alerts)
    BY <1>8 DEF Chains
  <2>2. \A j \in DOMAIN c.members : ~(j <= 0)
    BY <2>1
  <2>3. Stamp(c).stamped \in Nat
    BY <1>11
  <2>4. \A j \in DOMAIN c.members : j <= Stamp(c).stamped => named[c.members[j]] = c.id
    BY <1>11, <2>2
  <2> QED BY <1>1, <1>8, <1>9, <2>3, <2>4, LoggedWritten
<1>13. ASSUME NEW y \in live', y # c
       PROVE  Logged(y)'
  <2>1. y \in live /\ y \in Chains /\ Logged(y) /\ Sound(y)' /\ Sound(c)'
    BY <1>1, <1>2, <1>9, <1>13 DEF Ledger, Single
  <2>2. y.tree # c.tree
    BY <1>6, <1>8, <2>1
  <2>3. y.id # c.id /\ \A m \in Range(y.members) : m \notin Range(c.members)
    BY <1>8, <2>1, <2>2, Apart
  <2> QED BY <1>1, <1>8, <1>9, <2>1, <2>3, LoggedKept
<1>14. DOMAIN named' = Alerts
  BY <1>1, <1>9, WriteFacts
<1> QED
  BY <1>2, <1>12, <1>13, <1>14 DEF Ledger

LEMMA TickLogged ==
  ASSUME Times, Base, Ledger, Tick
  PROVE  Ledger'
<1>1. Single' /\ live' \subseteq live
  BY TickSingle, TickFacts DEF Ledger
<1>2. PICK kept : kept = {c.id : c \in live'} /\ told' = [x \in kept |-> told[x]]
  BY DEF Tick
<1>3. \A c \in live' : told'[c.id] = told[c.id]
  BY <1>2
<1>4. stamps' = stamps /\ named' = named
  BY DEF Tick
<1>5. ASSUME NEW c \in live'
      PROVE  Logged(c)'
  <2>1. Logged(c)
    BY <1>1 DEF Ledger
  <2> QED BY <1>3, <1>4, <2>1, LoggedSame
<1> QED
  BY <1>1, <1>4, <1>5 DEF Ledger

LEMMA NoteLedger ==
  ASSUME Times, Base, Ledger, NEW tree \in Trees, NEW a \in Alerts, NEW k \in Kinds,
         Arrives(a, tree), Note(tree, a, k)
  PROVE  Ledger'
BY NoteCases, GrowsLogged, WaitsLogged, FormsLogged

\* No alert is of a time to come.
Past == \A x \in DOMAIN alerts : alerts[x].at <= now

LEMMA PastStep == Base /\ Past /\ [Next]_vars => Past'
<1> SUFFICES ASSUME Base, Past, [Next]_vars PROVE Past'
  OBVIOUS
<1>0. now \in Nat /\ \A x \in DOMAIN alerts : alerts[x].at \in Nat /\ alerts[x].at <= now
  BY RepeatFacts DEF Base, Past
<1>1. ASSUME NEW tree \in Trees, NEW k \in Kinds, Raise(tree, k)
      PROVE  Past'
  <2>1. PICK a : a = Len(alerts) + 1
    OBVIOUS
  <2>2. /\ DOMAIN alerts' = DOMAIN alerts \cup {a} /\ alerts'[a].at = now /\ now' = now
        /\ \A x \in DOMAIN alerts : alerts'[x] = alerts[x]
    BY <1>1, <2>1, RaiseFacts DEF Raise
  <2> QED BY <1>0, <2>2 DEF Past
<1>2. ASSUME NEW a \in DOMAIN alerts, NEW k \in Kinds, Repeat(a, k)
      PROVE  Past'
  BY <1>0, <1>2 DEF Repeat, Past
<1>3. CASE Tick
  <2>1. now' = now + 1 /\ alerts' = alerts
    BY <1>3, TickFacts
  <2> QED BY <1>0, <2>1 DEF Past
<1>4. CASE UNCHANGED vars
  BY <1>4 DEF Past, vars
<1> QED
  BY <1>1, <1>2, <1>3, <1>4 DEF Next

LEMMA LedgerInit == Init => Ledger
<1> SUFFICES ASSUME Init PROVE Ledger
  OBVIOUS
<1>1. /\ Range(recent) = {} /\ live = {} /\ DOMAIN stamps = {} /\ DOMAIN named = Alerts
  BY DEF Init, Range
<1> QED
  BY <1>1 DEF Ledger, Single

LEMMA LedgerStep ==
  ASSUME Times
  PROVE  Base /\ Past /\ Ledger /\ [Next]_vars => Ledger'
<1> SUFFICES ASSUME Base, Past, Ledger, [Next]_vars PROVE Ledger'
  OBVIOUS
<1>1. ASSUME NEW tree \in Trees, NEW k \in Kinds, Raise(tree, k)
      PROVE  Ledger'
  <2>1. PICK a : a = Len(alerts) + 1
    OBVIOUS
  <2>2. a \in Alerts /\ Note(tree, a, k) /\ now' = now /\ now \in Nat
    BY <1>1, <2>1, RaiseFacts DEF Raise, Base
  <2>3. /\ DOMAIN alerts \subseteq DOMAIN alerts' /\ a \notin DOMAIN alerts
        /\ \A x \in DOMAIN alerts : alerts'[x] = alerts[x]
        /\ a \in DOMAIN alerts' /\ alerts'[a].tree = tree /\ alerts'[a].at = now
    BY <1>1, <2>1, RaiseFacts
  <2>4. Arrives(a, tree)
    BY <2>2, <2>3 DEF Arrives
  <2> QED BY <2>2, <2>4, NoteLedger
<1>2. ASSUME NEW a \in DOMAIN alerts, NEW k \in Kinds, Repeat(a, k)
      PROVE  Ledger'
  <2>1. PICK tree : tree = alerts[a].tree
    OBVIOUS
  <2>2. /\ a \in Alerts /\ tree \in Trees /\ alerts[a].at \in Nat
        /\ Note(tree, a, k) /\ now' = now /\ alerts' = alerts
        /\ now - alerts[a].at < DedupeSecs
    BY <1>2, <2>1, RepeatFacts DEF Repeat
  <2>3. alerts[a].at <= now
    BY DEF Past
  <2>4. Arrives(a, tree)
    BY <2>1, <2>2, <2>3 DEF Arrives
  <2> QED BY <2>2, <2>4, NoteLedger
<1>3. CASE Tick
  BY <1>3, TickLogged
<1>4. CASE UNCHANGED vars
  BY <1>4 DEF Ledger, Single, Sound, Placed, Spent, Logged, vars
<1> QED
  BY <1>1, <1>2, <1>3, <1>4 DEF Next

\* What the log says of an open chain is what the correlator has concluded (note,
\* `changed`; write_chain, ChainStamp): its severity, its families and its steps, a count
\* that lags by less than a factor of two, and the chain's name on every alert counted.
\* It needs the times to be in order: where a repeat folds for longer than a chain lives,
\* a second chain is named after the same alert and meets the stamp of the first.
THEOREM RecordAlways ==
  ASSUME Times
  PROVE  Spec => []RecordIsCurrent
<1>1. Init => Store /\ Past /\ Ledger
  <2>1. Init => Past
    BY DEF Init, Past
  <2> QED BY <2>1, StoreInit, LedgerInit
<1>2. (Store /\ Past /\ Ledger) /\ [Next]_vars => (Store /\ Past /\ Ledger)'
  <2>1. Store => Base
    BY DEF Store
  <2> QED BY <2>1, StoreStep, PastStep, LedgerStep
<1>3. Ledger => RecordIsCurrent
  <2> SUFFICES ASSUME Ledger, NEW c \in live
               PROVE  LET r == told[c.id] IN
                      /\ r = [Record(c) EXCEPT !.total = r.total]
                      /\ r.total <= Len(c.members) /\ Len(c.members) < 2 * r.total
                      /\ \A i \in 1 .. r.total : named[c.members[i]] = c.id
    BY DEF RecordIsCurrent
  <2>1. Logged(c) /\ c.members # <<>>
    BY DEF Ledger, Single, Sound
  <2>2. PICK t \in Nat : t = told[c.id].total
    BY <2>1 DEF Logged
  <2>3. PICK p \in 1 .. t : Len(c.members) < 2 * p
    BY <2>1, <2>2 DEF Logged
  <2>4. Len(c.members) < 2 * t
    BY <2>1, <2>2, <2>3 DEF Logged
  <2> QED BY <2>1, <2>2, <2>4 DEF Logged
<1> QED
  BY <1>1, <1>2, <1>3, PTL DEF Spec

=============================================================================
