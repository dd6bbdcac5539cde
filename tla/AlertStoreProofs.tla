-------------------------- MODULE AlertStoreProofs --------------------------
(***************************************************************************)
(* Machine-checked proofs about AlertStore, for any number of alerts, any  *)
(* kinds and any limits.                                                   *)
(*                                                                         *)
(* The first sections say what the operators compute.  Fold and InOrder    *)
(* are recursive functions, and induction over numbers gives what they     *)
(* return for every file and every set.                                    *)
(*                                                                         *)
(* The argument compares the folds that readers make with the fold W of    *)
(* every line ever written.  In W a row that names an anchor holds the     *)
(* anchor's chain (True).  A fold of less may have forgotten a chain, and  *)
(* nothing else, and it has not forgotten it where it has the anchor       *)
(* (Agrees).  Both survive a line that fits what moatd remembers, and      *)
(* Agrees survives the rows a rotation wrote, on top of anything.          *)
(*                                                                         *)
(* The last section before the invariant is about what is carried: the     *)
(* rows that were staged fold to what they were, whatever the cap evicted. *)
(* The last one of all is about what a step does to the rows readers see.  *)
(***************************************************************************)
EXTENDS AlertStore, FiniteSetTheorems, WellFoundedInduction, TLAPS

(* Induction and recursion over numbers *)

\* Every set of numbers that is not empty has a least element.  The initial segments
\* 0 .. n are finite sets, whose strict inclusion is well founded.
LEMMA LeastNat ==
  ASSUME NEW T, T \subseteq Nat, T # {}
  PROVE  \E x \in T : \A y \in T : x <= y
<1> DEFINE C == {0 .. n : n \in T}
<1>1. C \subseteq FiniteSubsetsOf(Nat)
  <2> SUFFICES ASSUME NEW n \in T PROVE IsFiniteSet(0 .. n) /\ 0 .. n \subseteq Nat
    BY DEF FiniteSubsetsOf
  <2> QED BY FS_Interval
<1>2. C # {}
  OBVIOUS
<1>3. IsWellFoundedOn(StrictSubsetOrdering(Nat), FiniteSubsetsOf(Nat))
  BY FS_StrictSubsetOrderingWellFounded
<1>4. PICK c \in C : \A d \in C : ~ (<<d, c>> \in StrictSubsetOrdering(Nat))
  <2> HIDE DEF C
  <2> QED BY <1>1, <1>2, <1>3, WFMin
<1>5. PICK x \in T : c = 0 .. x
  OBVIOUS
<1>6. ASSUME NEW y \in T, y < x PROVE FALSE
  <2>1. 0 .. y \subseteq 0 .. x /\ 0 .. x \subseteq Nat /\ x \in 0 .. x /\ x \notin 0 .. y
    BY <1>6
  <2>2. <<0 .. y, 0 .. x>> \in StrictSubsetOrdering(Nat)
    BY <2>1 DEF StrictSubsetOrdering
  <2> QED BY <2>2, <1>4, <1>5
<1> QED
  BY <1>6

\* A set that holds 0 and the successor of each of its numbers holds them all.
LEMMA NumbersByInduction ==
  ASSUME NEW T, 0 \in T, \A n \in Nat : n \in T => n + 1 \in T
  PROVE  Nat \subseteq T
<1> SUFFICES ASSUME ~(Nat \subseteq T) PROVE FALSE
  OBVIOUS
<1>1. PICK x \in Nat \ T : \A y \in Nat \ T : x <= y
  BY LeastNat
<1>2. x # 0 /\ x - 1 \in Nat /\ ~(x <= x - 1)
  BY <1>1
<1>3. x - 1 \in T
  BY <1>1, <1>2
<1> QED BY <1>1, <1>2, <1>3

\* Recursion up to n: there is a function that starts with b and goes on by `step`.
Recursive(f, b, step, n) == f[0] = b /\ \A m \in 1 .. n : f[m] = step[<<m, f[m - 1]>>]

LEMMA Recursion ==
  ASSUME NEW V, NEW b \in V, NEW n \in Nat, NEW step \in [(1 .. n) \X V -> V]
  PROVE  \E f \in [0 .. n -> V] : Recursive(f, b, step, n)
<1> DEFINE T == {l \in Nat : l <= n => \E f \in [0 .. l -> V] : Recursive(f, b, step, l)}
<1>1. 0 \in T
  <2>1. PICK f : f = [m \in 0 .. 0 |-> b]
    OBVIOUS
  <2>2. f \in [0 .. 0 -> V] /\ f[0] = b
    BY <2>1
  <2>3. Recursive(f, b, step, 0)
    BY <2>2 DEF Recursive
  <2> QED BY <2>2, <2>3
<1>2. ASSUME NEW l \in Nat, l \in T
      PROVE  l + 1 \in T
  <2> SUFFICES ASSUME l + 1 <= n
               PROVE  \E f \in [0 .. l + 1 -> V] : Recursive(f, b, step, l + 1)
    OBVIOUS
  <2>1. PICK f \in [0 .. l -> V] : Recursive(f, b, step, l)
    BY <1>2
  <2>2. PICK v : v = step[<<l + 1, f[l]>>]
    OBVIOUS
  <2>3. v \in V
    <3>1. <<l + 1, f[l]>> \in (1 .. n) \X V
      OBVIOUS
    <3> QED BY <2>2, <3>1
  <2>4. PICK g : g = [m \in 0 .. l + 1 |-> IF m = l + 1 THEN v ELSE f[m]]
    OBVIOUS
  <2>5. g \in [0 .. l + 1 -> V] /\ g[l + 1] = v /\ \A m \in 0 .. l : g[m] = f[m]
    BY <2>3, <2>4
  <2>6. ASSUME NEW m \in 1 .. l + 1
        PROVE  g[m] = step[<<m, g[m - 1]>>]
    <3>1. m - 1 \in 0 .. l /\ (m = l + 1 \/ m \in 1 .. l)
      OBVIOUS
    <3>2. CASE m = l + 1
      <4>1. m - 1 = l
        BY <3>2
      <4> QED BY <2>2, <2>5, <3>1, <3>2, <4>1
    <3>3. CASE m \in 1 .. l
      BY <2>1, <2>5, <3>1, <3>3 DEF Recursive
    <3> QED BY <3>1, <3>2, <3>3
  <2>7. Recursive(g, b, step, l + 1)
    <3>1. g[0] = b
      BY <2>1, <2>5 DEF Recursive
    <3> QED BY <2>6, <3>1 DEF Recursive
  <2> QED BY <2>5, <2>7
<1>3. Nat \subseteq T
  <2> HIDE DEF T
  <2> QED BY <1>1, <1>2, NumbersByInduction
<1> QED
  BY <1>3

-----------------------------------------------------------------------------
(* Types *)

Stories == [id : 0 .. LastAlert, total : Nat, high : BOOLEAN, members : SUBSET Alerts]
Rows ==
  [shown : BOOLEAN, grave : BOOLEAN, meta : BOOLEAN, acked : BOOLEAN, acted : BOOLEAN,
   story : Stories, anchor : 0 .. LastAlert]
Changes ==
  [acked : SUBSET BOOLEAN, acted : SUBSET BOOLEAN, shown : SUBSET BOOLEAN,
   anchor : 0 .. LastAlert, story : Stories]
FullLines == [kind : {"full"}, id : Alerts, set : Rows]
UpdateLines == [kind : {"update"}, id : Alerts, set : Changes]
Lines == FullLines \cup UpdateLines \cup {NoLine}
Maps == UNION {[D -> Rows] : D \in SUBSET Alerts}

LEMMA AlertsAreNumbers == Alerts \subseteq 1 .. LastAlert /\ Alerts \subseteq Nat \ {0} /\ LastAlert \in Nat
BY AlertStoreAssumption DEF Alerts

LEMMA NoStoryType == NoStory \in Stories /\ NoStory.id = 0 /\ NoStory.total = 0 /\ NoStory.members = {}
<1>1. 0 \in 0 .. LastAlert
  BY AlertStoreAssumption
<1> QED BY <1>1 DEF NoStory, Stories

LEMMA MapFacts ==
  ASSUME NEW m \in Maps
  PROVE  /\ DOMAIN m \subseteq Alerts /\ \A x \in DOMAIN m : m[x] \in Rows
         /\ m = [x \in DOMAIN m |-> m[x]]
<1>1. PICK D \in SUBSET Alerts : m \in [D -> Rows]
  BY DEF Maps
<1> QED BY <1>1

LEMMA MapMade ==
  ASSUME NEW m, NEW D, D \subseteq Alerts, m \in [D -> Rows]
  PROVE  m \in Maps
BY DEF Maps

-----------------------------------------------------------------------------
(* What a line does to a fold *)

LEMMA InsertedType ==
  ASSUME NEW m \in Maps, NEW a \in Alerts, NEW row \in Rows
  PROVE  /\ Inserted(m, a, row) \in Maps
         /\ DOMAIN Inserted(m, a, row) = DOMAIN m \cup {a}
         /\ Inserted(m, a, row)[a] = row
         /\ \A x \in DOMAIN m \ {a} : Inserted(m, a, row)[x] = m[x]
<1>1. DOMAIN m \cup {a} \subseteq Alerts /\ \A x \in DOMAIN m : m[x] \in Rows
  BY MapFacts
<1>2. Inserted(m, a, row) \in [DOMAIN m \cup {a} -> Rows]
  BY <1>1 DEF Inserted
<1>3. Inserted(m, a, row) \in Maps
  BY <1>1, <1>2, MapMade
<1> QED BY <1>2, <1>3 DEF Inserted

\* A row with another chain, or with none.
WithStory(row, s) == [row EXCEPT !.story = s]

LEMMA StoryGiven ==
  ASSUME NEW row \in Rows, NEW s \in Stories
  PROVE  /\ WithStory(row, s) \in Rows /\ WithStory(row, s).story = s
         /\ WithStory(row, s).anchor = row.anchor /\ WithStory(row, s).acked = row.acked
         /\ WithStory(row, s).acted = row.acted /\ WithStory(row, s).shown = row.shown
         /\ WithStory(row, s).grave = row.grave /\ WithStory(row, s).meta = row.meta
         /\ WithStory(row, row.story) = row
         /\ \A t \in Stories : WithStory(WithStory(row, s), t) = WithStory(row, t)
BY DEF Rows, WithStory

\* What Hydrate does, in terms of the row alone.
LEMMA HydrateFacts ==
  ASSUME NEW m \in Maps, NEW a \in DOMAIN m
  PROVE  /\ Hydrate(m, a) \in Maps /\ DOMAIN Hydrate(m, a) = DOMAIN m
         /\ \A x \in DOMAIN m \ {a} : Hydrate(m, a)[x] = m[x]
         /\ LET c == m[a].anchor
            IN  Hydrate(m, a)[a] =
                  IF c \in DOMAIN m \ {a} /\ m[c].story.id = c /\ m[a].story.total <= m[c].story.total
                  THEN WithStory(m[a], m[c].story) ELSE m[a]
<1>1. PICK c : c = m[a].anchor
  OBVIOUS
<1>2. DOMAIN m \subseteq Alerts /\ \A x \in DOMAIN m : m[x] \in Rows
  BY MapFacts
<1>3. CASE c \in DOMAIN m \ {a} /\ m[c].story.id = c /\ m[a].story.total <= m[c].story.total
  <2>1. PICK row : row = WithStory(m[a], m[c].story)
    OBVIOUS
  <2>2. row \in Rows
    <3>1. m[c].story \in Stories /\ m[a] \in Rows
      BY <1>2, <1>3 DEF Rows
    <3> QED BY <2>1, <3>1, StoryGiven
  <2>3. Hydrate(m, a) = [m EXCEPT ![a] = row]
    BY <1>1, <1>3, <2>1 DEF Hydrate, WithStory
  <2>4. Hydrate(m, a) \in [DOMAIN m -> Rows]
    BY <1>2, <2>2, <2>3
  <2> QED BY <1>1, <1>2, <1>3, <2>1, <2>3, <2>4, MapMade
<1>4. CASE ~(c \in DOMAIN m \ {a} /\ m[c].story.id = c /\ m[a].story.total <= m[c].story.total)
  <2>1. Hydrate(m, a) = m
    BY <1>1, <1>4 DEF Hydrate
  <2> QED BY <1>1, <1>4, <2>1
<1> QED
  BY <1>3, <1>4

LEMMA PropagateFacts ==
  ASSUME NEW m \in Maps, NEW a \in DOMAIN m
  PROVE  /\ Propagate(m, a) \in Maps /\ DOMAIN Propagate(m, a) = DOMAIN m
         /\ Propagate(m, a)[a] = m[a]
         /\ \A x \in DOMAIN m \ {a} :
              Propagate(m, a)[x] =
                IF m[a].story.id = a /\ x \in m[a].story.members /\ m[x].anchor = a
                THEN WithStory(m[x], m[a].story) ELSE m[x]
<1>1. DOMAIN m \subseteq Alerts /\ (\A x \in DOMAIN m : m[x] \in Rows) /\ m = [x \in DOMAIN m |-> m[x]]
  BY MapFacts
<1>2. PICK told : told = {x \in DOMAIN m \ {a} : x \in m[a].story.members /\ m[x].anchor = a}
  OBVIOUS
<1>3. CASE m[a].story.id = a
  <2>1. Propagate(m, a) = [x \in DOMAIN m |-> IF x \in told THEN WithStory(m[x], m[a].story) ELSE m[x]]
    BY <1>2, <1>3 DEF Propagate, WithStory
  <2>2. \A x \in DOMAIN m : WithStory(m[x], m[a].story) \in Rows
    <3>1. m[a].story \in Stories
      BY <1>1 DEF Rows
    <3> QED BY <1>1, <3>1, StoryGiven
  <2>3. Propagate(m, a) \in [DOMAIN m -> Rows]
    BY <1>1, <2>1, <2>2
  <2> QED BY <1>1, <1>2, <1>3, <2>1, <2>3, MapMade
<1>4. CASE m[a].story.id # a
  <2>1. Propagate(m, a) = m
    BY <1>4 DEF Propagate
  <2> QED BY <1>4, <2>1
<1> QED
  BY <1>3, <1>4

\* An assignment of a flag, or of nothing, leaves a flag.
LEMMA AssignedFlag ==
  ASSUME NEW old \in BOOLEAN, NEW new
  PROVE  Assigned(old, new) \in BOOLEAN
<1>1. CASE new = {}
  BY <1>1 DEF Assigned
<1>2. CASE new # {}
  <2>1. Assigned(old, new) = (TRUE \in new)
    BY <1>2 DEF Assigned
  <2> QED BY <2>1
<1> QED
  BY <1>1, <1>2

LEMMA UpdatedFacts ==
  ASSUME NEW row \in Rows, NEW u \in Changes
  PROVE  /\ Updated(row, u) \in Rows
         /\ Updated(row, u).anchor = (IF u.anchor = 0 THEN row.anchor ELSE u.anchor)
         /\ Updated(row, u).story = (IF u.story = NoStory THEN row.story ELSE u.story)
         /\ \A s \in Stories : Updated(WithStory(row, s), u)
              = WithStory(Updated(row, u), IF u.story = NoStory THEN s ELSE u.story)
<1>1. PICK up1, up2, up3, up4, up5 :
        /\ up1 \in BOOLEAN /\ up1 = Assigned(row.acked, u.acked)
        /\ up2 \in BOOLEAN /\ up2 = Assigned(row.acted, u.acted)
        /\ up3 \in BOOLEAN /\ up3 = Assigned(row.shown, u.shown)
        /\ up4 = (IF u.anchor = 0 THEN row.anchor ELSE u.anchor)
        /\ up5 = (IF u.story = NoStory THEN row.story ELSE u.story)
  <2>1. /\ Assigned(row.acked, u.acked) \in BOOLEAN /\ Assigned(row.acted, u.acted) \in BOOLEAN
        /\ Assigned(row.shown, u.shown) \in BOOLEAN
    <3>1. row.acked \in BOOLEAN /\ row.acted \in BOOLEAN /\ row.shown \in BOOLEAN
      BY DEF Rows
    <3> QED BY <3>1, AssignedFlag
  <2> QED BY <2>1
<1>2. up4 \in 0 .. LastAlert /\ up5 \in Stories
  BY <1>1 DEF Rows, Changes
<1>3. Updated(row, u) = [row EXCEPT !.acked = up1, !.acted = up2, !.shown = up3,
                                    !.anchor = up4, !.story = up5]
  BY <1>1 DEF Updated
<1>4. ASSUME NEW s \in Stories
      PROVE  Updated(WithStory(row, s), u)
               = WithStory(Updated(row, u), IF u.story = NoStory THEN s ELSE u.story)
  <2>1. PICK r2 : r2 = WithStory(row, s)
    OBVIOUS
  <2>2. /\ r2.acked = row.acked /\ r2.acted = row.acted /\ r2.shown = row.shown
        /\ r2.anchor = row.anchor /\ r2.story = s
    BY <2>1 DEF Rows, WithStory
  <2>3. Updated(r2, u) = [r2 EXCEPT !.acked = up1, !.acted = up2, !.shown = up3, !.anchor = up4,
                                    !.story = IF u.story = NoStory THEN s ELSE u.story]
    BY <1>1, <2>2 DEF Updated
  <2> QED BY <1>3, <2>1, <2>3 DEF Rows, WithStory
<1> QED
  BY <1>1, <1>2, <1>3, <1>4 DEF Rows

LEMMA FoldLineType ==
  ASSUME NEW m \in Maps, NEW l \in Lines
  PROVE  /\ FoldLine(m, l) \in Maps
         /\ DOMAIN FoldLine(m, l) = DOMAIN m \cup (IF l.kind = "full" THEN {l.id} ELSE {})
<1>1. CASE l \in FullLines
  <2>1. l.kind = "full" /\ l.id \in Alerts /\ l.set \in Rows
    BY <1>1 DEF FullLines
  <2>2. PICK a \in Alerts, row \in Rows : a = l.id /\ row = l.set
    BY <2>1
  <2>3. PICK i : i = Inserted(m, l.id, l.set) /\ i \in Maps /\ DOMAIN i = DOMAIN m \cup {l.id}
    <3>1. Inserted(m, a, row) \in Maps /\ DOMAIN Inserted(m, a, row) = DOMAIN m \cup {a}
      BY InsertedType
    <3> QED BY <2>2, <3>1
  <2>4. PICK h : h = Hydrate(i, l.id)
    OBVIOUS
  <2>5. h \in Maps /\ DOMAIN h = DOMAIN i /\ l.id \in DOMAIN h
    BY <2>3, <2>4, HydrateFacts
  <2>6. Propagate(h, l.id) \in Maps /\ DOMAIN Propagate(h, l.id) = DOMAIN h
    BY <2>5, PropagateFacts
  <2>7. FoldLine(m, l) = Propagate(h, l.id)
    BY <2>1, <2>3, <2>4 DEF FoldLine
  <2> QED BY <2>1, <2>3, <2>5, <2>6, <2>7
<1>2. CASE l \in UpdateLines
  <2>1. l.kind = "update" /\ l.kind # "full" /\ l.id \in Alerts /\ l.set \in Changes
    BY <1>2 DEF UpdateLines
  <2>2. CASE l.id \notin DOMAIN m
    <3>1. FoldLine(m, l) = m
      BY <2>1, <2>2 DEF FoldLine
    <3> QED BY <2>1, <3>1
  <2>3. CASE l.id \in DOMAIN m
    <3>1. PICK u : u = [m EXCEPT ![l.id] = Updated(m[l.id], l.set)]
      OBVIOUS
    <3>2. u \in Maps /\ DOMAIN u = DOMAIN m
      <4>1. DOMAIN m \subseteq Alerts /\ \A x \in DOMAIN m : m[x] \in Rows
        BY MapFacts
      <4>2. Updated(m[l.id], l.set) \in Rows
        BY <2>1, <2>3, <4>1, UpdatedFacts
      <4>3. u \in [DOMAIN m -> Rows]
        BY <3>1, <4>1, <4>2
      <4> QED BY <4>1, <4>3, MapMade
    <3>3. PICK h : h = IF l.set.anchor # 0 THEN Hydrate(u, l.id) ELSE u
      OBVIOUS
    <3>4. h \in Maps /\ DOMAIN h = DOMAIN m
      BY <2>3, <3>2, <3>3, HydrateFacts
    <3>5. Propagate(h, l.id) \in Maps /\ DOMAIN Propagate(h, l.id) = DOMAIN m
      BY <2>3, <3>4, PropagateFacts
    <3>6. FoldLine(m, l) = IF l.set.story # NoStory THEN Propagate(h, l.id) ELSE h
      BY <2>1, <2>3, <3>1, <3>3 DEF FoldLine
    <3> QED BY <2>1, <3>4, <3>5, <3>6
  <2> QED BY <2>2, <2>3
<1>3. CASE l = NoLine
  <2>1. l.kind = "absent"
    BY <1>3 DEF NoLine
  <2>2. FoldLine(m, l) = m
    BY <2>1 DEF FoldLine
  <2> QED BY <2>1, <2>2
<1> QED
  BY <1>1, <1>2, <1>3 DEF Lines

-----------------------------------------------------------------------------
(* The fold of a file *)

FoldOf(f, s) == f = [n \in 0 .. Len(s) |-> IF n = 0 THEN <<>> ELSE FoldLine(f[n - 1], s[n])]

LEMMA EmptyMap == <<>> \in Maps /\ DOMAIN <<>> = {}
<1>1. <<>> \in [{} -> Rows]
  OBVIOUS
<1> QED BY <1>1, MapMade

LEMMA FoldFacts ==
  ASSUME NEW s \in Seq(Lines)
  PROVE  \E f \in [0 .. Len(s) -> Maps] :
           /\ f[0] = <<>>
           /\ \A n \in 1 .. Len(s) : f[n] = FoldLine(f[n - 1], s[n])
           /\ Fold(s) = f[Len(s)]
<1>1. PICK n \in Nat : n = Len(s) /\ \A i \in 1 .. n : s[i] \in Lines
  OBVIOUS
<1>2. PICK step : step = [p \in (1 .. n) \X Maps |-> FoldLine(p[2], s[p[1]])]
  OBVIOUS
<1>3. step \in [(1 .. n) \X Maps -> Maps]
  <2>1. \A i \in 1 .. n, m \in Maps : FoldLine(m, s[i]) \in Maps
    BY <1>1, FoldLineType
  <2> QED BY <1>2, <2>1
<1>4. PICK g \in [0 .. n -> Maps] : Recursive(g, <<>>, step, n)
  BY <1>3, EmptyMap, Recursion
<1>5. FoldOf(g, s)
  <2>1. ASSUME NEW i \in 0 .. n
        PROVE  g[i] = IF i = 0 THEN <<>> ELSE FoldLine(g[i - 1], s[i])
    <3>1. CASE i = 0
      BY <1>4, <3>1 DEF Recursive
    <3>2. CASE i # 0
      <4>1. i \in 1 .. n /\ i - 1 \in 0 .. n
        BY <3>2
      <4>2. g[i] = step[<<i, g[i - 1]>>] /\ g[i - 1] \in Maps
        BY <1>4, <4>1 DEF Recursive
      <4>3. <<i, g[i - 1]>> \in (1 .. n) \X Maps
        BY <4>1, <4>2
      <4>4. step[<<i, g[i - 1]>>] = FoldLine(g[i - 1], s[i])
        BY <1>2, <4>3
      <4> QED BY <3>2, <4>2, <4>4
    <3> QED BY <3>1, <3>2
  <2> QED BY <1>1, <1>4, <2>1 DEF FoldOf
<1>6. PICK f : FoldOf(f, s) /\ Fold(s) = f[Len(s)]
  <2> DEFINE f == CHOOSE f : f = [k \in 0 .. Len(s) |-> IF k = 0 THEN <<>> ELSE FoldLine(f[k - 1], s[k])]
  <2>1. FoldOf(f, s)
    <3>1. \E h : h = [k \in 0 .. Len(s) |-> IF k = 0 THEN <<>> ELSE FoldLine(h[k - 1], s[k])]
      BY <1>5 DEF FoldOf
    <3>2. f = [k \in 0 .. Len(s) |-> IF k = 0 THEN <<>> ELSE FoldLine(f[k - 1], s[k])]
      BY <3>1
    <3> HIDE DEF f
    <3> QED BY <3>2 DEF FoldOf
  <2>2. Fold(s) = f[Len(s)]
    BY DEF Fold
  <2> HIDE DEF f
  <2> QED BY <2>1, <2>2
<1>7. /\ f[0] = <<>>
      /\ \A i \in 1 .. n : f[i] = FoldLine(f[i - 1], s[i])
      /\ DOMAIN f = 0 .. n /\ f = [i \in 0 .. n |-> f[i]]
  BY <1>1, <1>6 DEF FoldOf
<1> DEFINE T == {i \in Nat : i <= n => f[i] \in Maps}
<1>8. 0 \in T
  BY <1>7, EmptyMap
<1>9. ASSUME NEW i \in Nat, i \in T
      PROVE  i + 1 \in T
  <2> SUFFICES ASSUME i + 1 <= n PROVE f[i + 1] \in Maps
    OBVIOUS
  <2>1. i + 1 \in 1 .. n /\ (i + 1) - 1 = i /\ f[i] \in Maps
    BY <1>9
  <2>2. f[i + 1] = FoldLine(f[i], s[i + 1])
    BY <1>7, <2>1
  <2> QED BY <1>1, <2>1, <2>2, FoldLineType
<1>10. Nat \subseteq T
  <2> HIDE DEF T
  <2> QED BY <1>8, <1>9, NumbersByInduction
<1>11. f \in [0 .. n -> Maps]
  BY <1>7, <1>10
<1> QED
  BY <1>1, <1>6, <1>7, <1>11

LEMMA FoldEmpty == Fold(<<>>) = <<>>
<1>1. <<>> \in Seq(Lines) /\ Len(<<>>) = 0
  OBVIOUS
<1> QED BY <1>1, FoldFacts

LEMMA FoldAppend ==
  ASSUME NEW s \in Seq(Lines), NEW l \in Lines
  PROVE  /\ Append(s, l) \in Seq(Lines)
         /\ Fold(Append(s, l)) = FoldLine(Fold(s), l)
<1>1. PICK r \in Seq(Lines), n \in Nat :
        /\ r = Append(s, l) /\ n = Len(s) /\ Len(r) = n + 1
        /\ r[n + 1] = l /\ \A i \in 1 .. n : r[i] = s[i]
  <2>1. /\ Append(s, l) \in Seq(Lines) /\ Len(s) \in Nat
        /\ Len(Append(s, l)) = Len(s) + 1
        /\ Append(s, l)[Len(s) + 1] = l
    OBVIOUS
  <2>2. \A i \in 1 .. Len(s) : Append(s, l)[i] = s[i]
    OBVIOUS
  <2> QED BY <2>1, <2>2
<1>2. PICK f : f[0] = <<>> /\ (\A i \in 1 .. n : f[i] = FoldLine(f[i - 1], s[i])) /\ Fold(s) = f[n]
  BY <1>1, FoldFacts
<1>3. PICK g : g[0] = <<>> /\ (\A i \in 1 .. n + 1 : g[i] = FoldLine(g[i - 1], r[i])) /\ Fold(r) = g[n + 1]
  BY <1>1, FoldFacts
<1> DEFINE T == {i \in Nat : i <= n => f[i] = g[i]}
<1>4. f[n] = g[n]
  <2>1. 0 \in T
    BY <1>2, <1>3
  <2>2. ASSUME NEW i \in Nat, i \in T
        PROVE  i + 1 \in T
    <3> SUFFICES ASSUME i + 1 <= n PROVE f[i + 1] = g[i + 1]
      OBVIOUS
    <3>1. i + 1 \in 1 .. n /\ i + 1 \in 1 .. n + 1 /\ (i + 1) - 1 = i /\ f[i] = g[i]
      BY <2>2
    <3> QED BY <1>1, <1>2, <1>3, <3>1
  <2>3. Nat \subseteq T
    <3> HIDE DEF T
    <3> QED BY <2>1, <2>2, NumbersByInduction
  <2> QED BY <2>3
<1>5. g[n + 1] = FoldLine(g[n], r[n + 1])
  <2>1. n + 1 \in 1 .. n + 1 /\ (n + 1) - 1 = n
    OBVIOUS
  <2> QED BY <1>3, <2>1
<1> QED
  BY <1>1, <1>2, <1>3, <1>4, <1>5


LEMMA RangeIn ==
  ASSUME NEW S, NEW q \in Seq(S)
  PROVE  Range(q) \subseteq S
BY DEF Range

LEMMA AppendRange ==
  ASSUME NEW S, NEW q \in Seq(S), NEW e \in S
  PROVE  Append(q, e) \in Seq(S) /\ Range(Append(q, e)) = Range(q) \cup {e}
<1>1. /\ Append(q, e) \in Seq(S) /\ DOMAIN Append(q, e) = 1 .. Len(q) + 1
      /\ \A i \in 1 .. Len(q) : Append(q, e)[i] = q[i]
      /\ Append(q, e)[Len(q) + 1] = e /\ DOMAIN q = 1 .. Len(q) /\ Len(q) \in Nat
  OBVIOUS
<1>2. ASSUME NEW x \in Range(Append(q, e))
      PROVE  x \in Range(q) \cup {e}
  <2>1. PICK i \in 1 .. Len(q) + 1 : x = Append(q, e)[i]
    BY <1>1 DEF Range
  <2>2. i \in 1 .. Len(q) \/ i = Len(q) + 1
    BY <1>1
  <2> QED BY <1>1, <2>1, <2>2 DEF Range
<1>3. ASSUME NEW x \in Range(q) \cup {e}
      PROVE  x \in Range(Append(q, e))
  <2>1. CASE x \in Range(q)
    <3>1. PICK i \in 1 .. Len(q) : x = q[i]
      BY <1>1, <2>1 DEF Range
    <3>2. i \in 1 .. Len(q) + 1
      BY <1>1
    <3> QED BY <1>1, <3>1, <3>2 DEF Range
  <2>2. CASE x = e
    <3>1. Len(q) + 1 \in 1 .. Len(q) + 1
      BY <1>1
    <3> QED BY <1>1, <2>2, <3>1 DEF Range
  <2> QED BY <2>1, <2>2
<1> QED
  BY <1>1, <1>2, <1>3

\* What holds of the empty sequence, and after any element of q is added, holds of q.
LEMMA SequencesByInduction ==
  ASSUME NEW S, NEW T, NEW q \in Seq(S), <<>> \in T,
         \A s \in Seq(S), e \in Range(q) : s \in T => Append(s, e) \in T
  PROVE  q \in T
<1>1. PICK n \in Nat : n = Len(q) /\ DOMAIN q = 1 .. n /\ \A i \in 1 .. n : q[i] \in S
  OBVIOUS
<1> DEFINE P == {i \in Nat : i <= n => SubSeq(q, 1, i) \in T}
<1>2. 0 \in P
  <2>1. SubSeq(q, 1, 0) = <<>>
    OBVIOUS
  <2> QED BY <2>1
<1>3. ASSUME NEW i \in Nat, i \in P
      PROVE  i + 1 \in P
  <2> SUFFICES ASSUME i + 1 <= n PROVE SubSeq(q, 1, i + 1) \in T
    OBVIOUS
  <2>1. SubSeq(q, 1, i) \in T
    BY <1>3
  <2>2. SubSeq(q, 1, i) \in Seq(S)
    BY <1>1
  <2>3. q[i + 1] \in Range(q)
    BY <1>1 DEF Range
  <2>4. SubSeq(q, 1, i + 1) = Append(SubSeq(q, 1, i), q[i + 1])
    BY <1>1
  <2> QED BY <2>1, <2>2, <2>3, <2>4
<1>4. Nat \subseteq P
  <2> HIDE DEF P
  <2> QED BY <1>2, <1>3, NumbersByInduction
<1>5. SubSeq(q, 1, n) \in T
  <2>1. n \in P
    BY <1>4
  <2> QED BY <2>1
<1>6. SubSeq(q, 1, n) = q
  BY <1>1
<1> HIDE DEF P
<1> QED
  BY <1>5, <1>6

LEMMA IdsAppend ==
  ASSUME NEW s \in Seq(Lines), NEW l \in Lines
  PROVE  Ids(Append(s, l)) = Ids(s) \cup (IF l.kind = "full" THEN {l.id} ELSE {})
<1>1. Range(Append(s, l)) = Range(s) \cup {l}
  BY AppendRange
<1> QED BY <1>1 DEF Ids

LEMMA FoldType ==
  ASSUME NEW s \in Seq(Lines)
  PROVE  Fold(s) \in Maps /\ DOMAIN Fold(s) = Ids(s)
<1> DEFINE T == {r \in Seq(Lines) : Fold(r) \in Maps /\ DOMAIN Fold(r) = Ids(r)}
<1>1. <<>> \in T
  <2>1. Ids(<<>>) = {} /\ <<>> \in Seq(Lines)
    BY DEF Ids, Range
  <2>2. Fold(<<>>) \in Maps /\ DOMAIN Fold(<<>>) = {}
    BY FoldEmpty, EmptyMap
  <2> QED BY <2>1, <2>2
<1>2. ASSUME NEW r \in Seq(Lines), NEW l \in Range(s), r \in T
      PROVE  Append(r, l) \in T
  <2>1. l \in Lines
    BY RangeIn
  <2>2. Append(r, l) \in Seq(Lines) /\ Fold(Append(r, l)) = FoldLine(Fold(r), l)
    BY <2>1, FoldAppend
  <2>3. FoldLine(Fold(r), l) \in Maps
        /\ DOMAIN FoldLine(Fold(r), l) = DOMAIN Fold(r) \cup (IF l.kind = "full" THEN {l.id} ELSE {})
    BY <1>2, <2>1, FoldLineType
  <2>4. Ids(Append(r, l)) = Ids(r) \cup (IF l.kind = "full" THEN {l.id} ELSE {})
    BY <2>1, IdsAppend
  <2> QED BY <1>2, <2>2, <2>3, <2>4
<1>3. s \in T
  <2>1. \A r \in Seq(Lines), l \in Range(s) : r \in T => Append(r, l) \in T
    BY <1>2
  <2> HIDE DEF T
  <2> QED BY <1>1, <2>1, SequencesByInduction
<1> QED
  BY <1>3

LEMMA FoldFilesFacts ==
  ASSUME NEW o \in Seq(Lines), NEW n \in Seq(Lines)
  PROVE  /\ FoldFiles(o, n) \in Maps /\ DOMAIN FoldFiles(o, n) = Ids(o) \cup Ids(n)
         /\ FoldFiles(o, <<>>) = Fold(o)
         /\ \A l \in Lines : FoldFiles(o, Append(n, l)) = FoldLine(FoldFiles(o, n), l)
<1>1. o \o n \in Seq(Lines) /\ o \o <<>> = o
  OBVIOUS
<1>2. Range(o \o n) = Range(o) \cup Range(n)
  <2>1. PICK j \in Nat, k \in Nat, r \in Seq(Lines) :
          /\ j = Len(o) /\ k = Len(n) /\ r = o \o n /\ DOMAIN r = 1 .. j + k
          /\ DOMAIN o = 1 .. j /\ DOMAIN n = 1 .. k
          /\ \A i \in 1 .. j : r[i] = o[i]
          /\ \A i \in 1 .. k : r[j + i] = n[i]
    <3>1. /\ Len(o) \in Nat /\ Len(n) \in Nat /\ DOMAIN (o \o n) = 1 .. Len(o) + Len(n)
          /\ DOMAIN o = 1 .. Len(o) /\ DOMAIN n = 1 .. Len(n)
      OBVIOUS
    <3>2. \A i \in 1 .. Len(o) : (o \o n)[i] = o[i]
      OBVIOUS
    <3>3. \A i \in 1 .. Len(n) : (o \o n)[Len(o) + i] = n[i]
      OBVIOUS
    <3> QED BY <1>1, <3>1, <3>2, <3>3
  <2>2. ASSUME NEW x \in Range(r) PROVE x \in Range(o) \cup Range(n)
    <3>1. PICK i \in 1 .. j + k : x = r[i]
      BY <2>1 DEF Range
    <3>2. CASE i \in 1 .. j
      BY <2>1, <3>1, <3>2 DEF Range
    <3>3. CASE i \notin 1 .. j
      <4>1. PICK h \in 1 .. k : i = j + h
        <5>1. i - j \in 1 .. k /\ i = j + (i - j)
          BY <3>3
        <5> QED BY <5>1
      <4> QED BY <2>1, <3>1, <4>1 DEF Range
    <3> QED BY <3>2, <3>3
  <2>3. ASSUME NEW x \in Range(o) PROVE x \in Range(r)
    <3>1. PICK i \in 1 .. j : x = o[i]
      BY <2>1 DEF Range
    <3>2. i \in 1 .. j + k
      OBVIOUS
    <3> QED BY <2>1, <3>1, <3>2 DEF Range
  <2>4. ASSUME NEW x \in Range(n) PROVE x \in Range(r)
    <3>1. PICK i \in 1 .. k : x = n[i]
      BY <2>1 DEF Range
    <3>2. j + i \in 1 .. j + k
      OBVIOUS
    <3> QED BY <2>1, <3>1, <3>2 DEF Range
  <2> QED BY <2>1, <2>2, <2>3, <2>4
<1>3. Ids(o \o n) = Ids(o) \cup Ids(n)
  BY <1>2 DEF Ids
<1>4. ASSUME NEW l \in Lines
      PROVE  FoldFiles(o, Append(n, l)) = FoldLine(FoldFiles(o, n), l)
  <2>1. o \o Append(n, l) = Append(o \o n, l)
    OBVIOUS
  <2> QED BY <1>1, <2>1, FoldAppend DEF FoldFiles
<1> QED
  BY <1>1, <1>3, <1>4, FoldType DEF FoldFiles


-----------------------------------------------------------------------------
(* A line in full, and an update, row by row *)

\* The row a of a fold, when `row` is inserted there and hydrated.
Hydrated(m, a, row) ==
  IF /\ row.anchor \in DOMAIN m \ {a} /\ m[row.anchor].story.id = row.anchor
     /\ row.story.total <= m[row.anchor].story.total
  THEN WithStory(row, m[row.anchor].story) ELSE row

\* The row x, when `row` is at a and its chain is propagated.
Propagated(m, a, row, x) ==
  IF row.story.id = a /\ x \in row.story.members /\ m[x].anchor = a
  THEN WithStory(m[x], row.story) ELSE m[x]

LEMMA FullLineFacts ==
  ASSUME NEW m \in Maps, NEW a \in Alerts, NEW row \in Rows
  PROVE  /\ FullLine(a, row) \in Lines
         /\ FoldLine(m, FullLine(a, row)) \in Maps
         /\ DOMAIN FoldLine(m, FullLine(a, row)) = DOMAIN m \cup {a}
         /\ FoldLine(m, FullLine(a, row))[a] = Hydrated(m, a, row)
         /\ \A x \in DOMAIN m \ {a} :
              FoldLine(m, FullLine(a, row))[x] = Propagated(m, a, Hydrated(m, a, row), x)
<1>1. PICK l : l = FullLine(a, row) /\ l \in Lines /\ l.kind = "full" /\ l.id = a /\ l.set = row
  <2>1. PICK l : l = [kind |-> "full", id |-> a, set |-> row]
    OBVIOUS
  <2>2. l \in FullLines /\ l.kind = "full" /\ l.id = a /\ l.set = row
    BY <2>1 DEF FullLines
  <2> QED BY <2>1, <2>2 DEF FullLine, Lines
<1>2. PICK i \in Maps : /\ i = Inserted(m, a, row)
                        /\ DOMAIN i = DOMAIN m \cup {a} /\ i[a] = row
                        /\ \A x \in DOMAIN m \ {a} : i[x] = m[x]
  <2>1. /\ Inserted(m, a, row) \in Maps
        /\ DOMAIN Inserted(m, a, row) = DOMAIN m \cup {a}
        /\ Inserted(m, a, row)[a] = row
        /\ \A x \in DOMAIN m \ {a} : Inserted(m, a, row)[x] = m[x]
    BY InsertedType
  <2> QED BY <2>1
<1>3. PICK c : c = row.anchor
  OBVIOUS
<1>4. PICK h \in Maps :
        /\ h = Hydrate(i, a) /\ DOMAIN h = DOMAIN i
        /\ \A x \in DOMAIN i \ {a} : h[x] = i[x]
        /\ h[a] = IF c \in DOMAIN i \ {a} /\ i[c].story.id = c /\ i[a].story.total <= i[c].story.total
                  THEN WithStory(i[a], i[c].story) ELSE i[a]
  <2>1. a \in DOMAIN i /\ i[a].anchor = c
    BY <1>2, <1>3
  <2> QED BY <2>1, HydrateFacts
<1>5. h[a] = IF c \in DOMAIN m \ {a} /\ m[c].story.id = c /\ row.story.total <= m[c].story.total
             THEN WithStory(row, m[c].story) ELSE row
  <2>1. DOMAIN i \ {a} = DOMAIN m \ {a}
    BY <1>2
  <2> QED BY <1>2, <1>4, <2>1
<1>6. PICK p \in Maps :
        /\ p = Propagate(h, a) /\ DOMAIN p = DOMAIN h /\ p[a] = h[a]
        /\ \A x \in DOMAIN h \ {a} :
             p[x] = IF h[a].story.id = a /\ x \in h[a].story.members /\ h[x].anchor = a
                    THEN WithStory(h[x], h[a].story) ELSE h[x]
  <2>1. a \in DOMAIN h
    BY <1>2, <1>4
  <2> QED BY <2>1, PropagateFacts
<1>7. PICK f : f = FoldLine(m, l) /\ f = p
  BY <1>1, <1>2, <1>4, <1>6 DEF FoldLine
<1>8. \A x \in DOMAIN m \ {a} : x \in DOMAIN i \ {a} /\ x \in DOMAIN h \ {a} /\ h[x] = m[x]
  BY <1>2, <1>4
<1>9. PICK r : r = h[a] /\ r = Hydrated(m, a, row)
  BY <1>3, <1>5 DEF Hydrated
<1>10. \A x \in DOMAIN m \ {a} : f[x] = Propagated(m, a, r, x)
  BY <1>6, <1>7, <1>8, <1>9 DEF Propagated
<1> QED
  BY <1>1, <1>2, <1>3, <1>4, <1>5, <1>6, <1>7, <1>9, <1>10

LEMMA UpdateLineFacts ==
  ASSUME NEW m \in Maps, NEW a \in Alerts, NEW u \in Changes, NEW f, NEW b, NEW r,
         f = FoldLine(m, UpdateLine(a, u)),
         b = Updated(m[a], u),
         r = IF /\ u.anchor # 0 /\ b.anchor \in DOMAIN m \ {a} /\ m[b.anchor].story.id = b.anchor
                /\ b.story.total <= m[b.anchor].story.total
             THEN WithStory(b, m[b.anchor].story) ELSE b
  PROVE  /\ UpdateLine(a, u) \in Lines
         /\ a \notin DOMAIN m => f = m
         /\ a \in DOMAIN m =>
              /\ f \in Maps /\ DOMAIN f = DOMAIN m /\ f[a] = r
              /\ \A x \in DOMAIN m \ {a} :
                   f[x] = IF u.story # NoStory /\ r.story.id = a /\ x \in r.story.members /\ m[x].anchor = a
                          THEN WithStory(m[x], r.story) ELSE m[x]
<1>1. PICK l : /\ l = UpdateLine(a, u) /\ l \in Lines /\ l.kind = "update" /\ l.id = a /\ l.set = u
               /\ l.kind # "full"
  <2>1. PICK l : l = [kind |-> "update", id |-> a, set |-> u]
    OBVIOUS
  <2>2. l \in UpdateLines /\ l.kind = "update" /\ l.id = a /\ l.set = u
    BY <2>1 DEF UpdateLines
  <2> QED BY <2>1, <2>2 DEF UpdateLine, Lines
<1>2. CASE a \notin DOMAIN m
  <2>1. FoldLine(m, l) = m
    BY <1>1, <1>2 DEF FoldLine
  <2> QED BY <1>1, <1>2, <2>1
<1>3. CASE a \in DOMAIN m
  <2>2. PICK i \in Maps : /\ i = [m EXCEPT ![a] = b] /\ DOMAIN i = DOMAIN m /\ i[a] = b
                          /\ \A x \in DOMAIN m \ {a} : i[x] = m[x]
    <3>1. DOMAIN m \subseteq Alerts /\ \A x \in DOMAIN m : m[x] \in Rows
      BY MapFacts
    <3>2. b \in Rows
      BY <1>3, <3>1, UpdatedFacts
    <3>3. [m EXCEPT ![a] = b] \in [DOMAIN m -> Rows]
      BY <3>1, <3>2
    <3>4. [m EXCEPT ![a] = b] \in Maps
      BY <3>1, <3>3, MapMade
    <3> QED BY <1>3, <3>4
  <2>3. PICK c : c = b.anchor
    OBVIOUS
  <2>4. PICK h \in Maps :
          /\ h = (IF u.anchor # 0 THEN Hydrate(i, a) ELSE i) /\ DOMAIN h = DOMAIN i
          /\ \A x \in DOMAIN i \ {a} : h[x] = i[x]
          /\ h[a] = IF u.anchor # 0 /\ c \in DOMAIN i \ {a} /\ i[c].story.id = c
                         /\ i[a].story.total <= i[c].story.total
                    THEN WithStory(i[a], i[c].story) ELSE i[a]
    <3>1. a \in DOMAIN i /\ i[a].anchor = c
      BY <1>3, <2>2, <2>3
    <3>2. CASE u.anchor # 0
      <4>1. /\ Hydrate(i, a) \in Maps /\ DOMAIN Hydrate(i, a) = DOMAIN i
            /\ \A x \in DOMAIN i \ {a} : Hydrate(i, a)[x] = i[x]
            /\ Hydrate(i, a)[a] =
                 IF c \in DOMAIN i \ {a} /\ i[c].story.id = c /\ i[a].story.total <= i[c].story.total
                 THEN WithStory(i[a], i[c].story) ELSE i[a]
        BY <3>1, HydrateFacts
      <4> QED BY <3>2, <4>1
    <3>3. CASE u.anchor = 0
      BY <3>3
    <3> QED BY <3>2, <3>3
  <2>5. h[a] = IF u.anchor # 0 /\ c \in DOMAIN m \ {a} /\ m[c].story.id = c
                    /\ b.story.total <= m[c].story.total
               THEN WithStory(b, m[c].story) ELSE b
    BY <2>2, <2>4
  <2>6. r = h[a]
    BY <2>3, <2>5
  <2>7. PICK p \in Maps :
          /\ p = (IF u.story # NoStory THEN Propagate(h, a) ELSE h) /\ DOMAIN p = DOMAIN h /\ p[a] = r
          /\ \A x \in DOMAIN h \ {a} :
               p[x] = IF u.story # NoStory /\ r.story.id = a /\ x \in r.story.members /\ h[x].anchor = a
                      THEN WithStory(h[x], r.story) ELSE h[x]
    <3>1. a \in DOMAIN h
      BY <1>3, <2>2, <2>4
    <3>2. CASE u.story # NoStory
      <4>1. /\ Propagate(h, a) \in Maps /\ DOMAIN Propagate(h, a) = DOMAIN h /\ Propagate(h, a)[a] = r
            /\ \A x \in DOMAIN h \ {a} :
                 Propagate(h, a)[x] =
                   IF r.story.id = a /\ x \in r.story.members /\ h[x].anchor = a
                   THEN WithStory(h[x], r.story) ELSE h[x]
        <5>1. /\ Propagate(h, a) \in Maps /\ DOMAIN Propagate(h, a) = DOMAIN h
              /\ Propagate(h, a)[a] = h[a]
              /\ \A x \in DOMAIN h \ {a} :
                   Propagate(h, a)[x] =
                     IF h[a].story.id = a /\ x \in h[a].story.members /\ h[x].anchor = a
                     THEN WithStory(h[x], h[a].story) ELSE h[x]
          BY <3>1, PropagateFacts
        <5> QED BY <2>6, <5>1
      <4> QED BY <3>2, <4>1
    <3>3. CASE u.story = NoStory
      BY <2>6, <3>3
    <3> QED BY <3>2, <3>3
  <2>8. f = p
    BY <1>1, <1>3, <2>2, <2>4, <2>7 DEF FoldLine
  <2>9. \A x \in DOMAIN m \ {a} : x \in DOMAIN h \ {a} /\ h[x] = m[x]
    BY <2>2, <2>4
  <2>10. \A x \in DOMAIN m \ {a} :
           f[x] = IF u.story # NoStory /\ r.story.id = a /\ x \in r.story.members /\ m[x].anchor = a
                  THEN WithStory(m[x], r.story) ELSE m[x]
    BY <2>7, <2>8, <2>9
  <2>11. DOMAIN f = DOMAIN m
    BY <2>2, <2>4, <2>7, <2>8
  <2> QED BY <1>1, <1>3, <2>6, <2>7, <2>8, <2>10, <2>11
<1> QED
  BY <1>2, <1>3


-----------------------------------------------------------------------------
(* The fold of everything, and what a fold of less keeps of it *)

True(w) ==
  \A x \in DOMAIN w :
    IF w[x].anchor = 0
    THEN w[x].story = NoStory
    ELSE /\ w[x].anchor \in DOMAIN w
         /\ w[w[x].anchor].anchor = w[x].anchor
         /\ w[w[x].anchor].story = w[x].story
         /\ w[x].story.id = w[x].anchor
         /\ x \in w[x].story.members

Like(m, x, row) ==
  /\ m[x] = WithStory(row, m[x].story)
  /\ row.anchor \in DOMAIN m \cup {0} => m[x].story = row.story
  /\ m[x].story.total <= row.story.total

Agrees(m, w) == DOMAIN m \subseteq DOMAIN w /\ \A x \in DOMAIN m : Like(m, x, w[x])

LEMMA LikeFacts ==
  ASSUME NEW m, NEW x, NEW row \in Rows, Like(m, x, row)
  PROVE  /\ m[x].anchor = row.anchor /\ m[x].acked = row.acked /\ m[x].acted = row.acted
         /\ m[x].shown = row.shown /\ m[x].grave = row.grave /\ m[x].meta = row.meta
BY DEF Like, Rows, WithStory

\* A new alert.
LEMMA NewAgrees ==
  ASSUME NEW w \in Maps, True(w), NEW x \in Alerts \ DOMAIN w, NEW row \in Rows,
         row.anchor = 0, row.story = NoStory
  PROVE  LET l == FullLine(x, row)
         IN  /\ FoldLine(w, l) \in Maps /\ DOMAIN FoldLine(w, l) = DOMAIN w \cup {x}
             /\ FoldLine(w, l)[x] = row /\ \A y \in DOMAIN w : FoldLine(w, l)[y] = w[y]
             /\ True(FoldLine(w, l))
             /\ \A m \in Maps : Agrees(m, w) => Agrees(FoldLine(m, l), FoldLine(w, l))
<1>1. PICK l : l = FullLine(x, row)
  OBVIOUS
<1>2. ASSUME NEW m \in Maps, x \notin DOMAIN m
      PROVE  /\ FoldLine(m, l) \in Maps /\ DOMAIN FoldLine(m, l) = DOMAIN m \cup {x}
             /\ FoldLine(m, l)[x] = row /\ \A y \in DOMAIN m : FoldLine(m, l)[y] = m[y]
  <2>1. 0 \notin DOMAIN m /\ x # 0
    BY MapFacts, AlertsAreNumbers
  <2>2. row.anchor \notin DOMAIN m \ {x} /\ row.story.id # x /\ DOMAIN m \ {x} = DOMAIN m
    BY <1>2, <2>1, NoStoryType
  <2>3. PICK f : f = FoldLine(m, FullLine(x, row))
    OBVIOUS
  <2>4. /\ f \in Maps /\ DOMAIN f = DOMAIN m \cup {x} /\ f[x] = row
        /\ \A y \in DOMAIN m \ {x} : f[y] = m[y]
    <3>1. row = Hydrated(m, x, row)
      BY <2>2 DEF Hydrated
    <3>2. /\ FoldLine(m, FullLine(x, row)) \in Maps
          /\ DOMAIN FoldLine(m, FullLine(x, row)) = DOMAIN m \cup {x}
          /\ FoldLine(m, FullLine(x, row))[x] = Hydrated(m, x, row)
          /\ \A y \in DOMAIN m \ {x} :
               FoldLine(m, FullLine(x, row))[y] = Propagated(m, x, Hydrated(m, x, row), y)
      BY FullLineFacts
    <3> QED BY <2>2, <2>3, <3>1, <3>2 DEF Propagated
  <2> QED BY <1>1, <2>2, <2>3, <2>4
<1>3. PICK v \in Maps : /\ v = FoldLine(w, l) /\ DOMAIN v = DOMAIN w \cup {x}
                        /\ v[x] = row /\ \A y \in DOMAIN w : v[y] = w[y]
  BY <1>2
<1>4. True(v)
  <2>1. ASSUME NEW y \in DOMAIN w
        PROVE  IF v[y].anchor = 0 THEN v[y].story = NoStory
               ELSE /\ v[y].anchor \in DOMAIN v /\ v[v[y].anchor].anchor = v[y].anchor
                    /\ v[v[y].anchor].story = v[y].story /\ v[y].story.id = v[y].anchor
                    /\ y \in v[y].story.members
    BY <1>3 DEF True
  <2> QED BY <1>3, <2>1 DEF True
<1>5. ASSUME NEW m \in Maps, Agrees(m, w)
      PROVE  Agrees(FoldLine(m, l), v)
  <2>1. DOMAIN m \subseteq DOMAIN w /\ x \notin DOMAIN m
    BY <1>5 DEF Agrees
  <2>2. PICK n \in Maps : /\ n = FoldLine(m, l) /\ DOMAIN n = DOMAIN m \cup {x}
                          /\ n[x] = row /\ \A y \in DOMAIN m : n[y] = m[y]
    BY <1>2, <2>1
  <2>3. ASSUME NEW y \in DOMAIN m
        PROVE  Like(n, y, v[y])
    <3>1. Like(m, y, w[y]) /\ y \in DOMAIN w
      BY <1>5, <2>1 DEF Agrees
    <3>2. w[y].anchor # x
      <4>1. x # 0
        BY AlertsAreNumbers
      <4> QED BY <3>1, <4>1 DEF True
    <3> QED BY <1>3, <2>2, <3>1, <3>2 DEF Like
  <2>4. Like(n, x, v[x])
    <3>1. row.story.total <= row.story.total
      BY NoStoryType
    <3>2. row = WithStory(row, row.story)
      BY DEF Rows, WithStory
    <3> QED BY <1>3, <2>2, <3>1, <3>2 DEF Like
  <2> QED BY <1>3, <2>1, <2>2, <2>3, <2>4 DEF Agrees
<1> QED
  BY <1>1, <1>3, <1>4, <1>5

\* An update that names no anchor and brings no chain.
LEMMA MarkAgrees ==
  ASSUME NEW w \in Maps, True(w), NEW a \in DOMAIN w, NEW u \in Changes,
         u.anchor = 0, u.story = NoStory
  PROVE  LET l == UpdateLine(a, u)
         IN  /\ FoldLine(w, l) \in Maps /\ DOMAIN FoldLine(w, l) = DOMAIN w
             /\ \A y \in DOMAIN w : /\ FoldLine(w, l)[y].anchor = w[y].anchor
                                    /\ FoldLine(w, l)[y].story = w[y].story
             /\ True(FoldLine(w, l))
             /\ \A m \in Maps : Agrees(m, w) => Agrees(FoldLine(m, l), FoldLine(w, l))
<1>1. PICK l : l = UpdateLine(a, u)
  OBVIOUS
<1>2. a \in Alerts /\ \A y \in DOMAIN w : w[y] \in Rows
  BY MapFacts
<1>3. ASSUME NEW m \in Maps
      PROVE  /\ a \notin DOMAIN m => FoldLine(m, l) = m
             /\ a \in DOMAIN m => /\ FoldLine(m, l) \in Maps /\ DOMAIN FoldLine(m, l) = DOMAIN m
                                  /\ FoldLine(m, l)[a] = Updated(m[a], u)
                                  /\ \A y \in DOMAIN m \ {a} : FoldLine(m, l)[y] = m[y]
  <2>1. PICK f : f = FoldLine(m, UpdateLine(a, u))
    OBVIOUS
  <2>2. /\ a \notin DOMAIN m => f = m
        /\ a \in DOMAIN m => /\ f \in Maps /\ DOMAIN f = DOMAIN m /\ f[a] = Updated(m[a], u)
                             /\ \A y \in DOMAIN m \ {a} : f[y] = m[y]
    <3>1. PICK b : b = Updated(m[a], u)
      OBVIOUS
    <3>2. b = IF /\ u.anchor # 0 /\ b.anchor \in DOMAIN m \ {a} /\ m[b.anchor].story.id = b.anchor
                 /\ b.story.total <= m[b.anchor].story.total
              THEN WithStory(b, m[b.anchor].story) ELSE b
      OBVIOUS
    <3>3. /\ a \notin DOMAIN m => f = m
          /\ a \in DOMAIN m =>
               /\ f \in Maps /\ DOMAIN f = DOMAIN m /\ f[a] = b
               /\ \A x \in DOMAIN m \ {a} :
                    f[x] = IF u.story # NoStory /\ b.story.id = a /\ x \in b.story.members /\ m[x].anchor = a
                           THEN WithStory(m[x], b.story) ELSE m[x]
      BY <1>2, <2>1, <3>1, <3>2, UpdateLineFacts
    <3> QED BY <3>1, <3>3
  <2> QED BY <1>1, <2>1, <2>2
<1>4. PICK v \in Maps : /\ v = FoldLine(w, l) /\ DOMAIN v = DOMAIN w
                        /\ v[a] = Updated(w[a], u) /\ \A y \in DOMAIN w \ {a} : v[y] = w[y]
  BY <1>3
<1>5. Updated(w[a], u).anchor = w[a].anchor /\ Updated(w[a], u).story = w[a].story
  BY <1>2, UpdatedFacts
<1>6. \A y \in DOMAIN w : v[y].anchor = w[y].anchor /\ v[y].story = w[y].story
  BY <1>4, <1>5
<1>7. True(v)
  BY <1>4, <1>6 DEF True
<1>8. ASSUME NEW m \in Maps, Agrees(m, w)
      PROVE  Agrees(FoldLine(m, l), v)
  <2>1. CASE a \notin DOMAIN m
    <3>1. FoldLine(m, l) = m
      BY <1>3, <2>1
    <3>2. \A y \in DOMAIN m : v[y] = w[y]
      BY <1>4, <1>8, <2>1 DEF Agrees
    <3> QED BY <1>4, <1>8, <3>1, <3>2 DEF Agrees
  <2>2. CASE a \in DOMAIN m
    <3>1. PICK n \in Maps : /\ n = FoldLine(m, l) /\ DOMAIN n = DOMAIN m
                            /\ n[a] = Updated(m[a], u) /\ \A y \in DOMAIN m \ {a} : n[y] = m[y]
      BY <1>3, <2>2
    <3>2. \A y \in DOMAIN m \ {a} : Like(n, y, v[y])
      BY <1>4, <1>8, <3>1 DEF Agrees, Like
    <3>3. Like(n, a, v[a])
      <4>1. Like(m, a, w[a]) /\ m[a].story \in Stories
        <5>1. m[a] \in Rows
          BY <2>2, MapFacts
        <5> QED BY <1>8, <2>2, <5>1 DEF Agrees, Rows
      <4>2. m[a] = WithStory(w[a], m[a].story)
        BY <4>1 DEF Like
      <4>3. Updated(m[a], u) = WithStory(Updated(w[a], u), m[a].story)
        BY <1>2, <4>1, <4>2, UpdatedFacts
      <4>4. n[a].story = m[a].story
        <5>1. Updated(w[a], u) \in Rows
          BY <1>2, UpdatedFacts
        <5> QED BY <3>1, <4>1, <4>3, <5>1, StoryGiven
      <4> QED BY <1>4, <1>5, <3>1, <4>1, <4>3, <4>4 DEF Like
    <3> QED BY <1>4, <1>8, <3>1, <3>2, <3>3 DEF Agrees
  <2> QED BY <2>1, <2>2
<1> QED
  BY <1>1, <1>4, <1>6, <1>7, <1>8


LEMMA LikeSame ==
  ASSUME NEW m, NEW x, NEW row \in Rows, m[x] = row
  PROVE  Like(m, x, row)
<1>1. row.story \in Stories /\ row.story.total \in Nat
  BY DEF Rows, Stories
<1>2. WithStory(row, row.story) = row
  BY <1>1, StoryGiven
<1> QED BY <1>1, <1>2 DEF Like

LEMMA StoryTypes ==
  ASSUME NEW m \in Maps, NEW x \in DOMAIN m
  PROVE  m[x] \in Rows /\ x \in Alerts /\ x # 0 /\ m[x].story \in Stories /\ m[x].story.total \in Nat
<1>1. m[x] \in Rows /\ x \in Alerts
  BY MapFacts
<1> QED BY <1>1, AlertsAreNumbers DEF Rows, Stories

\* The update that tells a chain, on the row of its anchor.
LEMMA TellAgrees ==
  ASSUME NEW w \in Maps, True(w), NEW a \in DOMAIN w, NEW u \in Changes,
         u.story.id = a, a \in u.story.members, u.anchor \in {0, a}, w[a].anchor \in {0, a},
         w[a].anchor = 0 => u.anchor = a,
         w[a].story.members \subseteq u.story.members, w[a].story.total <= u.story.total
  PROVE  LET l == UpdateLine(a, u)
         IN  /\ FoldLine(w, l) \in Maps /\ DOMAIN FoldLine(w, l) = DOMAIN w
             /\ FoldLine(w, l)[a].anchor = a /\ FoldLine(w, l)[a].story = u.story
             /\ \A y \in DOMAIN w \ {a} : FoldLine(w, l)[y].anchor = w[y].anchor
             /\ True(FoldLine(w, l))
             /\ \A m \in Maps : Agrees(m, w) => Agrees(FoldLine(m, l), FoldLine(w, l))
<1>1. PICK l : l = UpdateLine(a, u)
  OBVIOUS
<1>2. /\ a \in Alerts /\ a # 0 /\ u.story \in Stories /\ u.story # NoStory /\ u.story.total \in Nat
      /\ \A y \in DOMAIN w : w[y] \in Rows
  <2>1. a \in Alerts /\ a # 0 /\ \A y \in DOMAIN w : w[y] \in Rows
    BY StoryTypes
  <2>2. u.story \in Stories /\ u.story.total \in Nat
    BY DEF Changes, Stories
  <2> QED BY <2>1, <2>2, NoStoryType
<1>3. ASSUME NEW m \in Maps, a \in DOMAIN m, m[a].anchor = w[a].anchor
      PROVE  /\ FoldLine(m, l) \in Maps /\ DOMAIN FoldLine(m, l) = DOMAIN m
             /\ FoldLine(m, l)[a] = Updated(m[a], u)
             /\ \A x \in DOMAIN m \ {a} :
                  FoldLine(m, l)[x] = IF x \in u.story.members /\ m[x].anchor = a
                                      THEN WithStory(m[x], u.story) ELSE m[x]
  <2>1. PICK b : b = Updated(m[a], u)
    OBVIOUS
  <2>2. PICK f : f = FoldLine(m, UpdateLine(a, u))
    OBVIOUS
  <2>3. b.anchor = a /\ b.story = u.story
    <3>1. m[a] \in Rows
      BY <1>3, MapFacts
    <3>2. /\ b.anchor = (IF u.anchor = 0 THEN m[a].anchor ELSE u.anchor)
          /\ b.story = (IF u.story = NoStory THEN m[a].story ELSE u.story)
      BY <2>1, <3>1, UpdatedFacts
    <3> QED BY <1>2, <1>3, <3>2
  <2>4. b = IF /\ u.anchor # 0 /\ b.anchor \in DOMAIN m \ {a} /\ m[b.anchor].story.id = b.anchor
               /\ b.story.total <= m[b.anchor].story.total
            THEN WithStory(b, m[b.anchor].story) ELSE b
    BY <2>3
  <2>5. /\ f \in Maps /\ DOMAIN f = DOMAIN m /\ f[a] = b
        /\ \A x \in DOMAIN m \ {a} :
             f[x] = IF u.story # NoStory /\ b.story.id = a /\ x \in b.story.members /\ m[x].anchor = a
                    THEN WithStory(m[x], b.story) ELSE m[x]
    BY <1>2, <1>3, <2>1, <2>2, <2>4, UpdateLineFacts
  <2> QED BY <1>1, <1>2, <2>1, <2>2, <2>3, <2>5
<1>4. PICK v \in Maps : v = FoldLine(w, l) /\ DOMAIN v = DOMAIN w /\ v[a] = Updated(w[a], u)
                        /\ \A x \in DOMAIN w \ {a} :
                             v[x] = IF x \in u.story.members /\ w[x].anchor = a
                                    THEN WithStory(w[x], u.story) ELSE w[x]
  BY <1>3
<1>5. v[a].anchor = a /\ v[a].story = u.story /\ v[a] \in Rows
  <2>1. /\ v[a].anchor = (IF u.anchor = 0 THEN w[a].anchor ELSE u.anchor)
        /\ v[a].story = (IF u.story = NoStory THEN w[a].story ELSE u.story)
        /\ v[a] \in Rows
    BY <1>2, <1>4, UpdatedFacts
  <2> QED BY <1>2, <2>1
<1>6. ASSUME NEW x \in DOMAIN w \ {a}
      PROVE  /\ w[x].anchor = a => /\ v[x] = WithStory(w[x], u.story) /\ v[x].story = u.story
                                   /\ v[x].anchor = a /\ x \in u.story.members
                                   /\ w[x].story = w[a].story
             /\ w[x].anchor # a => v[x] = w[x]
  <2>1. CASE w[x].anchor = a
    <3>1. x \in u.story.members /\ w[x].story = w[a].story
      BY <1>2, <2>1 DEF True
    <3>2. v[x] = WithStory(w[x], u.story)
      BY <1>4, <2>1, <3>1
    <3> QED BY <1>2, <2>1, <3>1, <3>2, StoryGiven
  <2>2. CASE w[x].anchor # a
    BY <1>4, <2>2
  <2> QED BY <2>1, <2>2
<1>7. True(v)
  <2>1. ASSUME NEW x \in DOMAIN w
        PROVE  IF v[x].anchor = 0 THEN v[x].story = NoStory
               ELSE /\ v[x].anchor \in DOMAIN v /\ v[v[x].anchor].anchor = v[x].anchor
                    /\ v[v[x].anchor].story = v[x].story /\ v[x].story.id = v[x].anchor
                    /\ x \in v[x].story.members
    <3>1. CASE x = a
      BY <1>2, <1>4, <1>5, <3>1
    <3>2. CASE x # a /\ w[x].anchor = a
      BY <1>2, <1>4, <1>5, <1>6, <3>2
    <3>3. CASE x # a /\ w[x].anchor # a
      <4>1. v[x] = w[x]
        BY <1>6, <3>3
      <4>2. CASE w[x].anchor = 0
        BY <4>1, <4>2 DEF True
      <4>3. CASE w[x].anchor # 0
        <5>1. PICK c : c = w[x].anchor
          OBVIOUS
        <5>2. /\ c \in DOMAIN w \ {a} /\ w[c].anchor = c /\ w[c].story = w[x].story
              /\ w[x].story.id = c /\ x \in w[x].story.members
          BY <3>3, <4>3, <5>1 DEF True
        <5>3. v[c] = w[c]
          BY <1>6, <3>3, <5>1, <5>2
        <5> QED BY <1>4, <4>1, <4>3, <5>1, <5>2, <5>3
      <4> QED BY <4>2, <4>3
    <3> QED BY <3>1, <3>2, <3>3
  <2> QED BY <1>4, <2>1 DEF True
<1>8. ASSUME NEW m \in Maps, Agrees(m, w)
      PROVE  Agrees(FoldLine(m, l), v)
  <2>1. /\ DOMAIN m \subseteq DOMAIN w
        /\ \A x \in DOMAIN m : Like(m, x, w[x]) /\ w[x] \in Rows /\ m[x].anchor = w[x].anchor
                               /\ m[x].story \in Stories /\ m[x].story.total \in Nat
                               /\ w[x].story.total \in Nat /\ w[x].story \in Stories
    <3>1. DOMAIN m \subseteq DOMAIN w /\ \A x \in DOMAIN m : Like(m, x, w[x])
      BY <1>8 DEF Agrees
    <3> QED BY <3>1, LikeFacts, StoryTypes
  <2>2. CASE a \notin DOMAIN m
    <3>1. FoldLine(m, l) = m
      BY <1>1, <1>2, <2>2, UpdateLineFacts
    <3>2. ASSUME NEW x \in DOMAIN m PROVE Like(m, x, v[x])
      <4>1. x \in DOMAIN w \ {a}
        BY <2>1, <2>2
      <4>2. CASE w[x].anchor = a
        <5>1. /\ v[x] = WithStory(w[x], u.story) /\ v[x].story = u.story
              /\ v[x].anchor = a /\ w[x].story = w[a].story
          BY <1>6, <4>1, <4>2
        <5>2. m[x] = WithStory(w[x], m[x].story) /\ m[x].story.total <= w[x].story.total
          BY <2>1 DEF Like
        <5>3. WithStory(v[x], m[x].story) = WithStory(w[x], m[x].story)
          BY <1>2, <2>1, <5>1, StoryGiven
        <5>4. m[x].story.total <= v[x].story.total
          BY <1>2, <2>1, <5>1, <5>2
        <5> QED BY <1>2, <2>2, <5>1, <5>2, <5>3, <5>4 DEF Like
      <4>3. CASE w[x].anchor # a
        <5>1. v[x] = w[x]
          BY <1>6, <4>1, <4>3
        <5> QED BY <2>1, <5>1
      <4> QED BY <4>2, <4>3
    <3> QED BY <1>4, <2>1, <3>1, <3>2 DEF Agrees
  <2>3. CASE a \in DOMAIN m
    <3>1. PICK n \in Maps : /\ n = FoldLine(m, l) /\ DOMAIN n = DOMAIN m /\ n[a] = Updated(m[a], u)
                            /\ \A x \in DOMAIN m \ {a} :
                                 n[x] = IF x \in u.story.members /\ m[x].anchor = a
                                        THEN WithStory(m[x], u.story) ELSE m[x]
      BY <1>3, <2>1, <2>3
    <3>2. Like(n, a, v[a])
      <4>1. m[a] = WithStory(w[a], m[a].story)
        BY <2>1, <2>3 DEF Like
      <4>2. n[a] = WithStory(Updated(w[a], u), u.story)
        BY <1>2, <2>1, <2>3, <3>1, <4>1, UpdatedFacts
      <4>3. n[a] = v[a]
        <5>1. WithStory(v[a], v[a].story) = v[a]
          BY <1>2, <1>5, StoryGiven
        <5>2. n[a] = WithStory(v[a], v[a].story)
          BY <1>4, <1>5, <4>2
        <5> QED BY <5>1, <5>2
      <4> QED BY <1>5, <4>3, LikeSame
    <3>3. ASSUME NEW x \in DOMAIN m \ {a} PROVE Like(n, x, v[x])
      <4>1. x \in DOMAIN w \ {a} /\ v[x] \in Rows
        BY <1>4, <2>1, StoryTypes
      <4>2. CASE w[x].anchor = a
        <5>1. v[x] = WithStory(w[x], u.story) /\ x \in u.story.members
          BY <1>6, <4>1, <4>2
        <5>2. n[x] = WithStory(m[x], u.story) /\ m[x] = WithStory(w[x], m[x].story)
          BY <2>1, <3>1, <4>2, <5>1 DEF Like
        <5>3. n[x] = v[x]
          BY <1>2, <2>1, <5>1, <5>2, StoryGiven
        <5> QED BY <4>1, <5>3, LikeSame
      <4>3. CASE w[x].anchor # a
        <5>1. v[x] = w[x] /\ n[x] = m[x]
          BY <1>6, <2>1, <3>1, <4>1, <4>3
        <5> QED BY <2>1, <3>1, <5>1 DEF Like
      <4> QED BY <4>2, <4>3
    <3> QED BY <1>4, <2>1, <3>1, <3>2, <3>3 DEF Agrees
  <2> QED BY <2>2, <2>3
<1>9. \A y \in DOMAIN w \ {a} : v[y].anchor = w[y].anchor
  BY <1>6
<1> QED
  BY <1>1, <1>4, <1>5, <1>7, <1>8, <1>9


\* The update that names a row's anchor.
LEMMA NameAgrees ==
  ASSUME NEW w \in Maps, True(w), NEW y \in DOMAIN w, NEW u \in Changes, u.story = NoStory,
         NEW c \in DOMAIN w \ {y}, u.anchor = c, w[c].anchor = c, w[y].anchor \in {0, c},
         y \in w[c].story.members
  PROVE  LET l == UpdateLine(y, u)
         IN  /\ FoldLine(w, l) \in Maps /\ DOMAIN FoldLine(w, l) = DOMAIN w
             /\ FoldLine(w, l)[y].anchor = c
             /\ \A x \in DOMAIN w \ {y} : FoldLine(w, l)[x] = w[x]
             /\ True(FoldLine(w, l))
             /\ \A m \in Maps : Agrees(m, w) => Agrees(FoldLine(m, l), FoldLine(w, l))
<1>1. PICK l : l = UpdateLine(y, u)
  OBVIOUS
<1>2. /\ y \in Alerts /\ y # 0 /\ c # 0 /\ c \in Alerts
      /\ \A x \in DOMAIN w : w[x] \in Rows /\ w[x].story \in Stories /\ w[x].story.total \in Nat
  BY StoryTypes
<1>3. w[c].story.id = c /\ w[y].story.total <= w[c].story.total
  <2>1. w[c].story.id = c
    BY <1>2 DEF True
  <2>2. CASE w[y].anchor = 0
    <3>1. w[y].story.total = 0
      BY <2>2, NoStoryType DEF True
    <3> QED BY <1>2, <2>1, <3>1
  <2>3. CASE w[y].anchor = c
    <3>1. w[y].story = w[c].story
      BY <1>2, <2>3 DEF True
    <3> QED BY <1>2, <2>1, <3>1
  <2> QED BY <2>2, <2>3
<1>4. ASSUME NEW m \in Maps, y \in DOMAIN m
      PROVE  /\ FoldLine(m, l) \in Maps /\ DOMAIN FoldLine(m, l) = DOMAIN m
             /\ FoldLine(m, l)[y] =
                  IF c \in DOMAIN m /\ m[c].story.id = c /\ m[y].story.total <= m[c].story.total
                  THEN WithStory(Updated(m[y], u), m[c].story) ELSE Updated(m[y], u)
             /\ \A x \in DOMAIN m \ {y} : FoldLine(m, l)[x] = m[x]
  <2>1. PICK b : b = Updated(m[y], u)
    OBVIOUS
  <2>2. PICK f : f = FoldLine(m, UpdateLine(y, u))
    OBVIOUS
  <2>3. b.anchor = c /\ b.story = m[y].story
    <3>1. m[y] \in Rows
      BY <1>4, MapFacts
    <3>2. /\ b.anchor = (IF u.anchor = 0 THEN m[y].anchor ELSE u.anchor)
          /\ b.story = (IF u.story = NoStory THEN m[y].story ELSE u.story)
      BY <2>1, <3>1, UpdatedFacts
    <3> QED BY <1>2, <3>2
  <2>4. PICK r : r = IF /\ u.anchor # 0 /\ b.anchor \in DOMAIN m \ {y} /\ m[b.anchor].story.id = b.anchor
                        /\ b.story.total <= m[b.anchor].story.total
                     THEN WithStory(b, m[b.anchor].story) ELSE b
    OBVIOUS
  <2>5. r = IF c \in DOMAIN m /\ m[c].story.id = c /\ m[y].story.total <= m[c].story.total
            THEN WithStory(b, m[c].story) ELSE b
    BY <1>2, <2>3, <2>4
  <2>6. /\ f \in Maps /\ DOMAIN f = DOMAIN m /\ f[y] = r
        /\ \A x \in DOMAIN m \ {y} :
             f[x] = IF u.story # NoStory /\ r.story.id = y /\ x \in r.story.members /\ m[x].anchor = y
                    THEN WithStory(m[x], r.story) ELSE m[x]
    BY <1>2, <1>4, <2>1, <2>2, <2>4, UpdateLineFacts
  <2> QED BY <1>1, <2>1, <2>2, <2>5, <2>6
<1>5. PICK v \in Maps : /\ v = FoldLine(w, l) /\ DOMAIN v = DOMAIN w
                        /\ v[y] = WithStory(Updated(w[y], u), w[c].story)
                        /\ \A x \in DOMAIN w \ {y} : v[x] = w[x]
  BY <1>3, <1>4
<1>6. v[y].anchor = c /\ v[y].story = w[c].story /\ v[y] \in Rows
  <2>1. /\ Updated(w[y], u) \in Rows
        /\ Updated(w[y], u).anchor = (IF u.anchor = 0 THEN w[y].anchor ELSE u.anchor)
    BY <1>2, UpdatedFacts
  <2> QED BY <1>2, <1>5, <2>1, StoryGiven
<1>7. True(v)
  <2>1. ASSUME NEW x \in DOMAIN w
        PROVE  IF v[x].anchor = 0 THEN v[x].story = NoStory
               ELSE /\ v[x].anchor \in DOMAIN v /\ v[v[x].anchor].anchor = v[x].anchor
                    /\ v[v[x].anchor].story = v[x].story /\ v[x].story.id = v[x].anchor
                    /\ x \in v[x].story.members
    <3>1. CASE x = y
      BY <1>2, <1>3, <1>5, <1>6, <3>1
    <3>2. CASE x # y
      <4>1. v[x] = w[x]
        BY <1>5, <3>2
      <4>2. w[x].anchor # y
        <5>1. w[x].anchor = y => w[y].anchor = y
          BY <1>2 DEF True
        <5> QED BY <1>2, <5>1
      <4>3. w[x].anchor # 0 => w[x].anchor \in DOMAIN w /\ v[w[x].anchor] = w[w[x].anchor]
        BY <1>5, <4>2 DEF True
      <4> QED BY <1>5, <4>1, <4>3 DEF True
    <3> QED BY <3>1, <3>2
  <2> QED BY <1>5, <2>1 DEF True
<1>8. ASSUME NEW m \in Maps, Agrees(m, w)
      PROVE  Agrees(FoldLine(m, l), v)
  <2>1. /\ DOMAIN m \subseteq DOMAIN w
        /\ \A x \in DOMAIN m : Like(m, x, w[x]) /\ m[x].story \in Stories /\ m[x].story.total \in Nat
    BY <1>8, StoryTypes DEF Agrees
  <2>2. CASE y \notin DOMAIN m
    <3>1. FoldLine(m, l) = m
      BY <1>1, <1>2, <2>2, UpdateLineFacts
    <3>2. \A x \in DOMAIN m : v[x] = w[x]
      BY <1>5, <2>1, <2>2
    <3> QED BY <1>5, <1>8, <3>1, <3>2 DEF Agrees
  <2>3. CASE y \in DOMAIN m
    <3>1. PICK n \in Maps :
            /\ n = FoldLine(m, l) /\ DOMAIN n = DOMAIN m
            /\ n[y] = IF c \in DOMAIN m /\ m[c].story.id = c /\ m[y].story.total <= m[c].story.total
                      THEN WithStory(Updated(m[y], u), m[c].story) ELSE Updated(m[y], u)
            /\ \A x \in DOMAIN m \ {y} : n[x] = m[x]
      BY <1>4, <2>3
    <3>2. \A x \in DOMAIN m \ {y} : Like(n, x, v[x])
      BY <1>5, <2>1, <3>1 DEF Like
    <3>3. Like(n, y, v[y])
      <4>1. PICK s \in Stories : s = m[y].story /\ s.total \in Nat /\ s.total <= w[y].story.total
        BY <2>1, <2>3 DEF Like
      <4>2. m[y] = WithStory(w[y], s)
        BY <2>1, <2>3, <4>1 DEF Like
      <4>3. PICK b \in Rows : b = Updated(w[y], u)
        BY <1>2, UpdatedFacts
      <4>4. Updated(m[y], u) = WithStory(b, s)
        BY <1>2, <4>2, <4>3, UpdatedFacts
      <4>5. s.total <= w[c].story.total
        BY <1>2, <1>3, <4>1
      <4>6. CASE c \in DOMAIN m
        <5>1. m[c].story = w[c].story
          BY <2>1, <4>6 DEF Like
        <5>2. n[y] = WithStory(WithStory(b, s), w[c].story)
          BY <1>3, <3>1, <4>1, <4>4, <4>5, <4>6, <5>1
        <5>3. n[y] = v[y]
          BY <1>2, <1>5, <4>3, <5>2, StoryGiven
        <5> QED BY <1>6, <5>3, LikeSame
      <4>7. CASE c \notin DOMAIN m
        <5>1. n[y] = WithStory(b, s) /\ n[y].story = s
          BY <3>1, <4>4, <4>7, StoryGiven
        <5>2. WithStory(v[y], s) = WithStory(b, s)
          BY <1>2, <1>5, <4>3, StoryGiven
        <5> QED BY <1>2, <1>6, <3>1, <4>5, <4>7, <5>1, <5>2 DEF Like
      <4> QED BY <4>6, <4>7
    <3> QED BY <1>5, <2>1, <3>1, <3>2, <3>3 DEF Agrees
  <2> QED BY <2>2, <2>3
<1> QED
  BY <1>1, <1>5, <1>6, <1>7, <1>8

\* A row that a rotation wrote, on top of any fold that agrees.
LEMMA CarriedAgrees ==
  ASSUME NEW w \in Maps, True(w), NEW m \in Maps, Agrees(m, w), NEW x \in DOMAIN w, NEW row \in Rows,
         row = WithStory(w[x], row.story), row.story.total <= w[x].story.total,
         w[x].anchor \in {0, x} => row.story = w[x].story
  PROVE  /\ FoldLine(m, FullLine(x, row)) \in Maps
         /\ Agrees(FoldLine(m, FullLine(x, row)), w)
<1>1. PICK c : c = w[x].anchor
  OBVIOUS
<1>2. /\ x \in Alerts /\ x # 0 /\ w[x] \in Rows /\ row.story \in Stories
      /\ \A y \in DOMAIN w : w[y] \in Rows /\ w[y].story \in Stories /\ w[y].story.total \in Nat
      /\ \A y \in DOMAIN m : m[y] \in Rows /\ m[y].story \in Stories /\ y # 0
  BY StoryTypes DEF Rows
<1>3. row.anchor = c
  <2>1. WithStory(w[x], row.story).anchor = w[x].anchor
    BY <1>2, StoryGiven
  <2> QED BY <1>1, <2>1
<1>4. DOMAIN m \subseteq DOMAIN w /\ \A y \in DOMAIN m : Like(m, y, w[y]) /\ m[y].anchor = w[y].anchor
  BY <1>2, LikeFacts DEF Agrees
<1>5. PICK r : r = Hydrated(m, x, row)
  OBVIOUS
<1>6. PICK f : f = FoldLine(m, FullLine(x, row))
  OBVIOUS
<1>7. /\ f \in Maps /\ DOMAIN f = DOMAIN m \cup {x} /\ f[x] = r
      /\ \A y \in DOMAIN m \ {x} : f[y] = Propagated(m, x, r, y)
  <2>1. x \in Alerts
    BY <1>2
  <2>2. /\ FoldLine(m, FullLine(x, row)) \in Maps
        /\ DOMAIN FoldLine(m, FullLine(x, row)) = DOMAIN m \cup {x}
        /\ FoldLine(m, FullLine(x, row))[x] = Hydrated(m, x, row)
        /\ \A y \in DOMAIN m \ {x} :
             FoldLine(m, FullLine(x, row))[y] = Propagated(m, x, Hydrated(m, x, row), y)
    BY <2>1, FullLineFacts
  <2> QED BY <1>5, <1>6, <2>2
<1>8. c \in {0, x} => r = w[x]
  <2>1. WithStory(w[x], w[x].story) = w[x]
    BY <1>2, StoryGiven
  <2>2. c \in {0, x} => r = row
    BY <1>2, <1>3, <1>5 DEF Hydrated
  <2> QED BY <1>1, <2>1, <2>2
<1>9. Like(f, x, w[x])
  <2>1. CASE c \in {0, x}
    BY <1>2, <1>7, <1>8, <2>1, LikeSame
  <2>2. CASE c \in DOMAIN m \ {x}
    <3>1. m[c].story = w[c].story
      <4>1. w[c].anchor = c
        BY <1>1, <1>2, <2>2 DEF True
      <4> QED BY <1>4, <2>2, <4>1 DEF Like
    <3>2. w[c].story = w[x].story /\ w[x].story.id = c
      BY <1>1, <1>2, <2>2 DEF True
    <3>3. r = WithStory(row, w[x].story)
      BY <1>3, <1>5, <2>2, <3>1, <3>2 DEF Hydrated
    <3>4. WithStory(row, w[x].story) = w[x]
      BY <1>2, StoryGiven
    <3> QED BY <1>2, <1>7, <3>3, <3>4, LikeSame
  <2>3. CASE c \notin DOMAIN m \cup {0, x}
    <3>1. f[x] = row
      BY <1>3, <1>5, <1>7, <2>3 DEF Hydrated
    <3> QED BY <1>1, <1>7, <2>3, <3>1 DEF Like
  <2> QED BY <2>1, <2>2, <2>3
<1>10. ASSUME NEW y \in DOMAIN m \ {x} PROVE Like(f, y, w[y])
  <2>1. y \in DOMAIN w
    BY <1>4
  <2>2. CASE w[y].anchor = x
    <3>1. /\ w[x].anchor = x /\ w[x].story = w[y].story /\ w[x].story.id = x
          /\ y \in w[x].story.members
      BY <1>2, <2>1, <2>2 DEF True
    <3>2. r = w[x]
      BY <1>1, <1>8, <3>1
    <3>3. f[y] = WithStory(m[y], w[y].story) /\ m[y] = WithStory(w[y], m[y].story)
      BY <1>4, <1>7, <2>2, <3>1, <3>2 DEF Like, Propagated
    <3>4. f[y] = w[y]
      BY <1>2, <2>1, <3>3, StoryGiven
    <3> QED BY <1>2, <2>1, <3>4, LikeSame
  <2>3. CASE w[y].anchor # x
    <3>1. f[y] = m[y]
      BY <1>4, <1>7, <2>3 DEF Propagated
    <3> QED BY <1>4, <1>7, <2>3, <3>1 DEF Like
  <2> QED BY <2>2, <2>3
<1> QED
  BY <1>4, <1>6, <1>7, <1>9, <1>10 DEF Agrees


-----------------------------------------------------------------------------
(* What a rotation writes *)

LEMMA InOrderFacts ==
  ASSUME NEW S, S \subseteq Alerts
  PROVE  InOrder(S) \in Seq(Alerts) /\ Range(InOrder(S)) = S
<1> DEFINE Build(f) ==
      f = [n \in 0 .. LastAlert |->
             IF n = 0 THEN <<>> ELSE IF n \in S THEN Append(f[n - 1], n) ELSE f[n - 1]]
<1>1. PICK n \in Nat : n = LastAlert /\ Alerts = 1 .. n
  BY AlertStoreAssumption DEF Alerts
<1>2. PICK step : step = [p \in (1 .. n) \X Seq(Alerts) |-> IF p[1] \in S THEN Append(p[2], p[1]) ELSE p[2]]
  OBVIOUS
<1>3. step \in [(1 .. n) \X Seq(Alerts) -> Seq(Alerts)]
  <2>1. \A i \in 1 .. n, s \in Seq(Alerts) : Append(s, i) \in Seq(Alerts)
    BY <1>1
  <2> QED BY <1>2, <2>1
<1>4. <<>> \in Seq(Alerts)
  OBVIOUS
<1>5. PICK g \in [0 .. n -> Seq(Alerts)] : Recursive(g, <<>>, step, n)
  BY <1>3, <1>4, Recursion
<1>6. Build(g)
  <2>1. ASSUME NEW i \in 0 .. n
        PROVE  g[i] = IF i = 0 THEN <<>> ELSE IF i \in S THEN Append(g[i - 1], i) ELSE g[i - 1]
    <3>1. CASE i = 0
      BY <1>5, <3>1 DEF Recursive
    <3>2. CASE i # 0
      <4>1. i \in 1 .. n /\ i - 1 \in 0 .. n
        BY <3>2
      <4>2. g[i] = step[<<i, g[i - 1]>>] /\ g[i - 1] \in Seq(Alerts)
        BY <1>5, <4>1 DEF Recursive
      <4>3. <<i, g[i - 1]>> \in (1 .. n) \X Seq(Alerts)
        BY <4>1, <4>2
      <4>4. step[<<i, g[i - 1]>>] = IF i \in S THEN Append(g[i - 1], i) ELSE g[i - 1]
        BY <1>2, <4>3
      <4> QED BY <3>2, <4>2, <4>4
    <3> QED BY <3>1, <3>2
  <2> QED BY <1>1, <1>5, <2>1
<1>7. PICK f : Build(f) /\ InOrder(S) = f[n]
  <2> DEFINE f == CHOOSE f : Build(f)
  <2>1. Build(f)
    BY <1>6
  <2>2. InOrder(S) = f[n]
    BY <1>1 DEF InOrder
  <2> HIDE DEF f
  <2> QED BY <2>1, <2>2
<1>8. /\ f[0] = <<>>
      /\ \A i \in 1 .. n : f[i] = IF i \in S THEN Append(f[i - 1], i) ELSE f[i - 1]
  <2>1. f = [i \in 0 .. n |->
               IF i = 0 THEN <<>> ELSE IF i \in S THEN Append(f[i - 1], i) ELSE f[i - 1]]
    BY <1>1, <1>7
  <2>2. 0 \in 0 .. n /\ \A i \in 1 .. n : i \in 0 .. n /\ i # 0
    OBVIOUS
  <2> QED BY <2>1, <2>2
<1> HIDE DEF Build
<1> DEFINE T == {i \in Nat : i <= n => f[i] \in Seq(Alerts) /\ Range(f[i]) = S \cap (1 .. i)}
<1>9. 0 \in T
  <2>1. Range(<<>>) = {} /\ S \cap (1 .. 0) = {}
    BY DEF Range
  <2> QED BY <1>4, <1>8, <2>1
<1>10. ASSUME NEW i \in Nat, i \in T
       PROVE  i + 1 \in T
  <2> SUFFICES ASSUME i + 1 <= n
               PROVE  f[i + 1] \in Seq(Alerts) /\ Range(f[i + 1]) = S \cap (1 .. i + 1)
    OBVIOUS
  <2>1. i + 1 \in 1 .. n /\ (i + 1) - 1 = i /\ f[i] \in Seq(Alerts) /\ Range(f[i]) = S \cap (1 .. i)
    BY <1>10
  <2>2. 1 .. i + 1 = (1 .. i) \cup {i + 1}
    BY ONLY i \in Nat
  <2>3. CASE i + 1 \in S
    <3>1. f[i + 1] = Append(f[i], i + 1) /\ i + 1 \in Alerts
      BY <1>1, <1>8, <2>1, <2>3
    <3>2. Append(f[i], i + 1) \in Seq(Alerts) /\ Range(Append(f[i], i + 1)) = Range(f[i]) \cup {i + 1}
      BY <2>1, <3>1, AppendRange
    <3>3. S \cap (1 .. i + 1) = (S \cap (1 .. i)) \cup {i + 1}
      BY <2>2, <2>3
    <3> QED BY <2>1, <3>1, <3>2, <3>3
  <2>4. CASE i + 1 \notin S
    <3>1. S \cap (1 .. i + 1) = S \cap (1 .. i)
      BY <2>2, <2>4
    <3> QED BY <1>8, <2>1, <2>4, <3>1
  <2> QED BY <2>3, <2>4
<1>11. Nat \subseteq T
  <2> HIDE DEF T
  <2> QED BY <1>9, <1>10, NumbersByInduction
<1>12. S \cap (1 .. n) = S
  BY <1>1
<1>13. f[n] \in Seq(Alerts) /\ Range(f[n]) = S \cap (1 .. n)
  <2>1. n \in T
    BY <1>11
  <2> QED BY <2>1
<1> QED
  BY <1>7, <1>12, <1>13

Chosen(m) == [a \in Candidates(m) |-> m[a]]
Written(m) == StripShared(Chosen(m))

LEMMA WrittenFacts ==
  ASSUME NEW m \in Maps
  PROVE  /\ Candidates(m) \subseteq DOMAIN m /\ DOMAIN Chosen(m) = Candidates(m)
         /\ Carried(m) \subseteq Candidates(m)
         /\ \A a \in Candidates(m) :
              /\ Chosen(m)[a] = m[a]
              /\ Stripped(Chosen(m), a) <=>
                   /\ m[a].anchor \in Candidates(m) \ {a} /\ m[a].story.id = m[a].anchor
                   /\ m[m[a].anchor].story.id = m[a].anchor
              /\ Written(m)[a] = IF Stripped(Chosen(m), a) THEN WithStory(m[a], NoStory) ELSE m[a]
              /\ Written(m)[a] \in Rows
<1>1. Candidates(m) \subseteq DOMAIN m
  BY DEF Candidates
<1>2. DOMAIN Chosen(m) = Candidates(m) /\ \A a \in Candidates(m) : Chosen(m)[a] = m[a]
  BY DEF Chosen
<1>3. Carried(m) \subseteq Candidates(m)
  <2> DEFINE key == [a \in Candidates(m) |-> CarryKey([b \in Candidates(m) |-> m[b]], a)]
  <2>1. Carried(m) = {a \in DOMAIN key : Cardinality({x \in DOMAIN key : Before(key[a], key[x])}) < CarryMax}
    BY DEF Carried
  <2>2. DOMAIN key = Candidates(m)
    OBVIOUS
  <2> HIDE DEF key
  <2> QED BY <2>1, <2>2
<1>4. ASSUME NEW a \in Candidates(m)
      PROVE  /\ Stripped(Chosen(m), a) <=>
                   /\ m[a].anchor \in Candidates(m) \ {a} /\ m[a].story.id = m[a].anchor
                   /\ m[m[a].anchor].story.id = m[a].anchor
             /\ Written(m)[a] = IF Stripped(Chosen(m), a) THEN WithStory(m[a], NoStory) ELSE m[a]
             /\ Written(m)[a] \in Rows
  <2>1. Stripped(Chosen(m), a) <=>
                   /\ m[a].anchor \in Candidates(m) \ {a} /\ m[a].story.id = m[a].anchor
                   /\ m[m[a].anchor].story.id = m[a].anchor
    BY <1>2 DEF Stripped
  <2>2. Written(m)[a] = IF Stripped(Chosen(m), a) THEN WithStory(m[a], NoStory) ELSE m[a]
    BY <1>2 DEF Written, StripShared, WithStory
  <2>3. m[a] \in Rows
    BY <1>1, MapFacts
  <2> QED BY <2>1, <2>2, <2>3, NoStoryType, StoryGiven
<1> QED
  BY <1>1, <1>2, <1>3, <1>4

LEMMA CarriedLinesFacts ==
  ASSUME NEW m \in Maps
  PROVE  /\ CarriedLines(m) \in Seq(Lines) /\ CarriedLines(m) # Absent
         /\ Range(CarriedLines(m)) = {FullLine(a, Written(m)[a]) : a \in Carried(m)}
         /\ Ids(CarriedLines(m)) = Carried(m)
<1>1. Carried(m) \subseteq Candidates(m) /\ Carried(m) \subseteq Alerts
      /\ \A a \in Carried(m) : Written(m)[a] \in Rows
  BY WrittenFacts, MapFacts
<1>2. PICK ids : ids = InOrder(Carried(m)) /\ ids \in Seq(Alerts) /\ Range(ids) = Carried(m)
  BY <1>1, InOrderFacts
<1>3. PICK s : s = [i \in DOMAIN ids |-> FullLine(ids[i], Written(m)[ids[i]])]
  OBVIOUS
<1>4. CarriedLines(m) = s
  BY <1>2, <1>3 DEF CarriedLines, Written, Chosen
<1>5. PICK n \in Nat : DOMAIN ids = 1 .. n /\ DOMAIN s = 1 .. n
  BY <1>2, <1>3
<1>6. ASSUME NEW i \in 1 .. n
      PROVE  /\ ids[i] \in Carried(m) /\ s[i] = FullLine(ids[i], Written(m)[ids[i]])
             /\ s[i] \in Lines
  <2>1. ids[i] \in Carried(m) /\ s[i] = FullLine(ids[i], Written(m)[ids[i]])
    BY <1>2, <1>3, <1>5 DEF Range
  <2>2. PICK a \in Alerts, row \in Rows : a = ids[i] /\ row = Written(m)[ids[i]]
    BY <1>1, <2>1
  <2>3. PICK e \in Maps : e = <<>>
    BY EmptyMap
  <2>4. FullLine(a, row) \in Lines
    BY <2>3, FullLineFacts
  <2> QED BY <2>1, <2>2, <2>4
<1>7. s \in Seq(Lines)
  BY <1>3, <1>5, <1>6
<1>8. Range(s) = {FullLine(a, Written(m)[a]) : a \in Carried(m)}
  <2>1. ASSUME NEW x \in Range(s) PROVE x \in {FullLine(a, Written(m)[a]) : a \in Carried(m)}
    BY <1>5, <1>6, <2>1 DEF Range
  <2>2. ASSUME NEW a \in Carried(m) PROVE FullLine(a, Written(m)[a]) \in Range(s)
    BY <1>2, <1>5, <1>6, <2>2 DEF Range
  <2> QED BY <2>1, <2>2
<1>9. \A a, row : FullLine(a, row).kind = "full" /\ FullLine(a, row).id = a
  BY DEF FullLine
<1>10. Ids(s) = Carried(m)
  <2>1. \A l \in Range(s) : l.kind = "full"
    BY <1>8, <1>9
  <2>2. {l \in Range(s) : l.kind = "full"} = Range(s)
    BY <2>1
  <2>3. Ids(s) = {l.id : l \in Range(s)}
    BY <2>2 DEF Ids
  <2>4. ASSUME NEW a \in Carried(m) PROVE a \in {l.id : l \in Range(s)}
    BY <1>8, <1>9
  <2>5. ASSUME NEW l \in Range(s) PROVE l.id \in Carried(m)
    BY <1>8, <1>9
  <2> QED BY <2>3, <2>4, <2>5
<1>11. s # Absent
  <2>1. NoLine \in Range(Absent) /\ NoLine.kind = "absent"
    <3>1. 1 \in DOMAIN Absent /\ Absent[1] = NoLine
      BY DEF Absent
    <3> QED BY <3>1 DEF Range, NoLine
  <2>2. NoLine \notin Range(s)
    <3>1. \A l \in Range(s) : l.kind = "full"
      BY <1>8, <1>9
    <3> QED BY <2>1, <3>1
  <2> QED BY <2>1, <2>2
<1> QED
  BY <1>4, <1>7, <1>8, <1>10, <1>11


\* What a rotation wrote, on top of any file whose fold agrees.
LEMMA StagedAgrees ==
  ASSUME NEW w \in Maps, True(w), NEW m \in Maps, Agrees(m, w), NEW o \in Seq(Lines), Agrees(Fold(o), w)
  PROVE  /\ Agrees(FoldFiles(o, CarriedLines(m)), w)
         /\ Agrees(Fold(CarriedLines(m)), w)
<1>1. ASSUME NEW n \in Maps, Agrees(n, w), NEW l \in Range(CarriedLines(m))
      PROVE  FoldLine(n, l) \in Maps /\ Agrees(FoldLine(n, l), w)
  <2>1. PICK a \in Carried(m) : l = FullLine(a, Written(m)[a])
    BY CarriedLinesFacts
  <2>2. PICK row \in Rows :
          /\ a \in DOMAIN m /\ row = Written(m)[a]
          /\ row = (IF Stripped(Chosen(m), a) THEN WithStory(m[a], NoStory) ELSE m[a])
          /\ Stripped(Chosen(m), a) => m[a].anchor \in DOMAIN m \ {a}
    BY WrittenFacts
  <2>3. a \in DOMAIN w /\ Like(m, a, w[a]) /\ w[a] \in Rows /\ m[a] \in Rows /\ a # 0
        /\ w[a].story \in Stories /\ w[a].story.total \in Nat /\ m[a].story \in Stories
        /\ m[a].anchor = w[a].anchor /\ 0 \notin DOMAIN m
    <3>1. a \in DOMAIN w /\ Like(m, a, w[a])
      BY <2>2 DEF Agrees
    <3>2. m[a].anchor = w[a].anchor /\ 0 \notin DOMAIN m
      BY <3>1, StoryTypes, LikeFacts
    <3> QED BY <2>2, <3>1, <3>2, StoryTypes
  <2>4. CASE Stripped(Chosen(m), a)
    <3>1. row = WithStory(m[a], NoStory) /\ row.story = NoStory
      BY <2>2, <2>3, <2>4, NoStoryType, StoryGiven
    <3>2. m[a] = WithStory(w[a], m[a].story)
      BY <2>3 DEF Like
    <3>3. row = WithStory(w[a], row.story)
      BY <2>3, <3>1, <3>2, NoStoryType, StoryGiven
    <3>4. row.story.total <= w[a].story.total
      BY <2>3, <3>1, NoStoryType
    <3>5. w[a].anchor \notin {0, a}
      BY <2>2, <2>3, <2>4
    <3>6. FoldLine(n, FullLine(a, row)) \in Maps /\ Agrees(FoldLine(n, FullLine(a, row)), w)
      BY <1>1, <2>3, <3>3, <3>4, <3>5, CarriedAgrees
    <3> QED BY <2>1, <2>2, <3>6
  <2>5. CASE ~Stripped(Chosen(m), a)
    <3>1. row = m[a]
      BY <2>2, <2>5
    <3>2. /\ row = WithStory(w[a], row.story) /\ row.story.total <= w[a].story.total
          /\ w[a].anchor \in {0, a} => row.story = w[a].story
      BY <2>2, <2>3, <3>1 DEF Like
    <3>3. FoldLine(n, FullLine(a, row)) \in Maps /\ Agrees(FoldLine(n, FullLine(a, row)), w)
      BY <1>1, <2>3, <3>2, CarriedAgrees
    <3> QED BY <2>1, <2>2, <3>3
  <2> QED BY <2>4, <2>5
<1>2. ASSUME NEW p \in Seq(Lines), Agrees(Fold(p), w)
      PROVE  Agrees(FoldFiles(p, CarriedLines(m)), w)
  <2> DEFINE T == {s \in Seq(Lines) : FoldFiles(p, s) \in Maps /\ Agrees(FoldFiles(p, s), w)}
  <2>1. <<>> \in T
    <3>1. <<>> \in Seq(Lines) /\ FoldFiles(p, <<>>) = Fold(p)
      <4>1. <<>> \in Seq(Lines)
        OBVIOUS
      <4>2. FoldFiles(p, <<>>) = Fold(p)
        BY FoldFilesFacts
      <4> QED BY <4>1, <4>2
    <3>2. Fold(p) \in Maps
      BY FoldType
    <3> QED BY <1>2, <3>1, <3>2
  <2>2. \A s \in Seq(Lines), l \in Range(CarriedLines(m)) : s \in T => Append(s, l) \in T
    <3> SUFFICES ASSUME NEW s \in Seq(Lines), NEW l \in Range(CarriedLines(m)), s \in T
                 PROVE  Append(s, l) \in T
      OBVIOUS
    <3>1. l \in Lines
      BY CarriedLinesFacts, RangeIn
    <3>2. FoldFiles(p, Append(s, l)) = FoldLine(FoldFiles(p, s), l) /\ Append(s, l) \in Seq(Lines)
      <4>1. FoldFiles(p, Append(s, l)) = FoldLine(FoldFiles(p, s), l)
        BY <3>1, FoldFilesFacts
      <4>2. Append(s, l) \in Seq(Lines)
        BY <3>1, AppendRange
      <4> QED BY <4>1, <4>2
    <3>3. FoldLine(FoldFiles(p, s), l) \in Maps /\ Agrees(FoldLine(FoldFiles(p, s), l), w)
      BY <1>1
    <3> QED BY <3>2, <3>3
  <2>3. CarriedLines(m) \in Seq(Lines)
    BY CarriedLinesFacts
  <2>4. CarriedLines(m) \in T
    <3> HIDE DEF T
    <3> QED BY <2>1, <2>2, <2>3, SequencesByInduction
  <2> QED BY <2>4
<1>3. Agrees(Fold(<<>>), w)
  BY FoldEmpty, EmptyMap DEF Agrees
<1>4. <<>> \in Seq(Lines) /\ <<>> \o CarriedLines(m) = CarriedLines(m)
  BY CarriedLinesFacts
<1>5. FoldFiles(<<>>, CarriedLines(m)) = Fold(CarriedLines(m))
  BY <1>4 DEF FoldFiles
<1> QED
  BY <1>2, <1>3, <1>4, <1>5

-----------------------------------------------------------------------------
(* The order of eviction *)

\* Every set of numbers with a bound has a greatest element.
LEMMA GreatestNat ==
  ASSUME NEW T, T \subseteq Nat, T # {}, NEW n \in Nat, \A x \in T : x <= n
  PROVE  Max(T) \in T /\ \A y \in T : y <= Max(T)
<1> DEFINE D == {d \in Nat : \E x \in T : d = n - x}
<1>1. D \subseteq Nat /\ D # {}
  <2>1. PICK x \in T : TRUE
    OBVIOUS
  <2>2. n - x \in Nat
    OBVIOUS
  <2> QED BY <2>2
<1>2. PICK d \in D : \A e \in D : d <= e
  BY <1>1, LeastNat
<1>3. PICK x \in T : d = n - x
  OBVIOUS
<1>4. \A y \in T : x >= y
  <2> SUFFICES ASSUME NEW y \in T PROVE x >= y
    OBVIOUS
  <2>1. n - y \in D
    OBVIOUS
  <2>2. n - x <= n - y
    BY <1>2, <1>3, <2>1
  <2>3. x \in Nat /\ y \in Nat
    OBVIOUS
  <2> HIDE DEF D
  <2> QED BY <2>2, <2>3
<1>5. Max(T) \in T /\ \A y \in T : Max(T) >= y
  BY <1>3, <1>4 DEF Max
<1> QED
  BY <1>5

Keys == Nat \X Nat \X Nat

LEMMA BeforeOrders ==
  ASSUME NEW k \in Keys, NEW l \in Keys, NEW p \in Keys
  PROVE  /\ Before(k, l) /\ Before(l, p) => Before(k, p)
         /\ ~Before(k, k)
         /\ ~Before(k, l) => l[1] <= k[1]
<1>1. /\ k[1] \in Nat /\ k[2] \in Nat /\ k[3] \in Nat /\ l[1] \in Nat /\ l[2] \in Nat
      /\ l[3] \in Nat /\ p[1] \in Nat /\ p[2] \in Nat /\ p[3] \in Nat
  BY DEF Keys
<1> QED BY <1>1 DEF Before

\* The key of a row: what it is, and that it is behind all that lean on it.
LEMMA KeyFacts ==
  ASSUME NEW m \in Maps, NEW a \in Candidates(m)
  PROVE  LET own == CarryPriority(Written(m)[a])
             leaning == {x \in Candidates(m) : m[x].anchor = a /\ Stripped(Chosen(m), x)}
             key == CarryKey(Chosen(m), a)
         IN  /\ key \in Keys /\ own <= key[1] /\ own \in 0 .. 3
             /\ leaning = {} => key = <<own, a, 0>>
             /\ leaning # {} =>
                  /\ key[1] = own \/ \E x \in leaning : key[1] = CarryPriority(Written(m)[x])
                  /\ key[3] = 1
                  /\ \A x \in leaning : x <= key[2] /\ CarryPriority(Written(m)[x]) <= key[1]
<1>1. PICK own : own = CarryPriority(Written(m)[a])
  OBVIOUS
<1>2. PICK leaning : leaning = {x \in Candidates(m) : m[x].anchor = a /\ Stripped(Chosen(m), x)}
  OBVIOUS
<1>3. PICK key : key = CarryKey(Chosen(m), a)
  OBVIOUS
<1>4. \A row : CarryPriority(row) \in 0 .. 3
  BY DEF CarryPriority
<1>5. PICK P, Q : /\ P = {own} \cup {CarryPriority(Written(m)[x]) : x \in leaning}
                  /\ Q = {a} \cup leaning
  OBVIOUS
<1>6. key = IF leaning # {} THEN <<Max(P), Max(Q), 1>> ELSE <<own, a, 0>>
  <2>1. {x \in DOMAIN Chosen(m) : Chosen(m)[x].anchor = a /\ Stripped(Chosen(m), x)} = leaning
    BY <1>2, WrittenFacts
  <2> QED BY <1>1, <1>3, <1>5, <2>1 DEF CarryKey, Written
<1>7. Candidates(m) \subseteq Alerts /\ leaning \subseteq Candidates(m)
  BY <1>2, WrittenFacts, MapFacts
<1>8. Max(P) \in P /\ \A y \in P : y <= Max(P)
  <2>1. P \subseteq 0 .. 3 /\ P # {}
    BY <1>1, <1>4, <1>5
  <2>2. P \subseteq Nat /\ \A y \in P : y <= 3
    BY <2>1
  <2> QED BY <2>1, <2>2, GreatestNat
<1>9. Max(Q) \in Q /\ \A y \in Q : y <= Max(Q)
  <2>1. Q \subseteq Alerts /\ Q # {}
    BY <1>5, <1>7
  <2>2. Q \subseteq Nat /\ LastAlert \in Nat /\ \A y \in Q : y <= LastAlert
    BY <2>1, AlertsAreNumbers
  <2> QED BY <2>1, <2>2, GreatestNat
<1>10. P \subseteq Nat /\ Q \subseteq Nat /\ own \in Nat /\ a \in Nat /\ own \in 0 .. 3
  BY <1>1, <1>4, <1>5, <1>7, AlertsAreNumbers
<1>11. CASE leaning = {}
  <2>1. key = <<own, a, 0>>
    BY <1>6, <1>11
  <2>2. key \in Keys /\ own <= key[1]
    BY <1>10, <2>1 DEF Keys
  <2> QED BY <1>1, <1>2, <1>3, <1>10, <1>11, <2>1, <2>2
<1>12. CASE leaning # {}
  <2>1. key = <<Max(P), Max(Q), 1>>
    BY <1>6, <1>12
  <2>2. key \in Keys /\ key[1] = Max(P) /\ key[2] = Max(Q) /\ key[3] = 1
    BY <1>8, <1>9, <1>10, <2>1 DEF Keys
  <2>3. own <= key[1]
    BY <1>5, <1>8, <2>2
  <2>4. key[1] = own \/ \E x \in leaning : key[1] = CarryPriority(Written(m)[x])
    BY <1>5, <1>8, <2>2
  <2>5. \A x \in leaning : x <= key[2] /\ CarryPriority(Written(m)[x]) <= key[1]
    BY <1>5, <1>8, <1>9, <2>2
  <2> QED BY <1>1, <1>2, <1>3, <1>10, <1>12, <2>2, <2>3, <2>4, <2>5
<1> QED
  BY <1>11, <1>12


KeyOf(m, a) == CarryKey(Chosen(m), a)
Ahead(m, a) == {x \in Candidates(m) : Before(KeyOf(m, a), KeyOf(m, x))}

LEMMA CarriedFacts ==
  ASSUME NEW m \in Maps
  PROVE  /\ Carried(m) = {a \in Candidates(m) : Cardinality(Ahead(m, a)) < CarryMax}
         /\ \A a \in Candidates(m) : IsFiniteSet(Ahead(m, a)) /\ Cardinality(Ahead(m, a)) \in Nat
<1>1. IsFiniteSet(Candidates(m))
  <2>1. IsFiniteSet(Alerts)
    BY AlertStoreAssumption, FS_Interval DEF Alerts
  <2>2. Candidates(m) \subseteq Alerts
    BY WrittenFacts, MapFacts
  <2> QED BY <2>1, <2>2, FS_Subset
<1>2. ASSUME NEW a \in Candidates(m)
      PROVE  IsFiniteSet(Ahead(m, a)) /\ Cardinality(Ahead(m, a)) \in Nat
  <2>1. Ahead(m, a) \subseteq Candidates(m)
    BY DEF Ahead
  <2>2. IsFiniteSet(Ahead(m, a))
    BY <1>1, <2>1, FS_Subset
  <2> QED BY <2>2, FS_CardinalityType
<1> DEFINE key == [a \in Candidates(m) |-> CarryKey([b \in Candidates(m) |-> m[b]], a)]
<1>3. Carried(m) = {a \in DOMAIN key : Cardinality({x \in DOMAIN key : Before(key[a], key[x])}) < CarryMax}
  BY DEF Carried
<1>4. DOMAIN key = Candidates(m) /\ \A a \in Candidates(m) : key[a] = KeyOf(m, a)
  BY DEF KeyOf, Chosen
<1>5. \A a \in Candidates(m) : {x \in DOMAIN key : Before(key[a], key[x])} = Ahead(m, a)
  BY <1>4 DEF Ahead
<1> HIDE DEF key
<1>6. Carried(m) = {a \in Candidates(m) : Cardinality(Ahead(m, a)) < CarryMax}
  BY <1>3, <1>4, <1>5
<1> QED
  BY <1>2, <1>6

\* What is ahead of a row that is carried is carried.
LEMMA AheadIsCarried ==
  ASSUME NEW m \in Maps, NEW a \in Carried(m), NEW c \in Candidates(m), Before(KeyOf(m, a), KeyOf(m, c))
  PROVE  c \in Carried(m)
<1>1. a \in Candidates(m) /\ Cardinality(Ahead(m, a)) < CarryMax
  BY CarriedFacts
<1>2. \A x \in Candidates(m) : KeyOf(m, x) \in Keys
  BY KeyFacts DEF KeyOf
<1>3. Ahead(m, c) \subseteq Ahead(m, a)
  <2> SUFFICES ASSUME NEW x \in Ahead(m, c) PROVE x \in Ahead(m, a)
    OBVIOUS
  <2>1. x \in Candidates(m) /\ Before(KeyOf(m, c), KeyOf(m, x))
    BY DEF Ahead
  <2>2. PICK j \in Keys, k \in Keys, l \in Keys : j = KeyOf(m, a) /\ k = KeyOf(m, c) /\ l = KeyOf(m, x)
    BY <1>1, <1>2, <2>1
  <2>3. Before(j, l)
    BY <2>1, <2>2, BeforeOrders
  <2> QED BY <2>1, <2>2, <2>3 DEF Ahead
<1>4. IsFiniteSet(Ahead(m, a)) /\ Cardinality(Ahead(m, a)) \in Nat /\ Cardinality(Ahead(m, c)) \in Nat
  BY <1>1, CarriedFacts
<1>5. Cardinality(Ahead(m, c)) <= Cardinality(Ahead(m, a))
  BY <1>3, <1>4, FS_Subset
<1>6. CarryMax \in Nat
  BY AlertStoreAssumption
<1>7. Cardinality(Ahead(m, c)) < CarryMax
  BY <1>1, <1>4, <1>5, <1>6
<1> QED
  BY <1>7, CarriedFacts

\* The anchors of the chains that are told in a fold that agrees.
LEMMA AnchorFacts ==
  ASSUME NEW w \in Maps, True(w), NEW m \in Maps, Agrees(m, w), NEW x \in DOMAIN m
  PROVE  /\ m[x] \in Rows /\ x # 0 /\ m[x].story \in Stories /\ m[x].story.total \in Nat
         /\ m[x].anchor \in DOMAIN m =>
              /\ m[m[x].anchor].anchor = m[x].anchor
              /\ m[x].story = m[m[x].anchor].story
              /\ m[x].story.id = m[x].anchor
              /\ x \in m[x].story.members
<1>1. x \in DOMAIN w /\ Like(m, x, w[x]) /\ w[x] \in Rows /\ m[x] \in Rows /\ x # 0
      /\ m[x].story \in Stories /\ m[x].story.total \in Nat
  BY StoryTypes DEF Agrees
<1>2. m[x].anchor = w[x].anchor
  BY <1>1, LikeFacts
<1>3. ASSUME m[x].anchor \in DOMAIN m
      PROVE  /\ m[m[x].anchor].anchor = m[x].anchor
             /\ m[x].story = m[m[x].anchor].story
             /\ m[x].story.id = m[x].anchor
             /\ x \in m[x].story.members
  <2>1. PICK c \in DOMAIN m : c = m[x].anchor
    BY <1>3
  <2>2. c \in DOMAIN w /\ Like(m, c, w[c]) /\ w[c] \in Rows /\ c # 0
    BY StoryTypes DEF Agrees
  <2>3. /\ w[c].anchor = c /\ w[c].story = w[x].story /\ w[x].story.id = c /\ x \in w[x].story.members
    BY <1>1, <1>2, <2>1, <2>2 DEF True
  <2>4. m[c].anchor = c
    BY <2>2, <2>3, LikeFacts
  <2>5. m[x].story = w[x].story /\ m[c].story = w[c].story
    BY <1>1, <1>2, <2>1, <2>2, <2>3 DEF Like
  <2> QED BY <2>1, <2>3, <2>4, <2>5
<1> QED
  BY <1>1, <1>3

LEMMA AnchorIsCarried ==
  ASSUME NEW w \in Maps, True(w), NEW m \in Maps, Agrees(m, w),
         NEW a \in Carried(m), Stripped(Chosen(m), a)
  PROVE  m[a].anchor \in Carried(m)
<1>1. PICK c : c = m[a].anchor
  OBVIOUS
<1>2. a \in Candidates(m) /\ c \in Candidates(m) \ {a} /\ Candidates(m) \subseteq DOMAIN m
  BY <1>1, WrittenFacts
<1>3. ASSUME NEW x \in Candidates(m), m[x].anchor = a PROVE FALSE
  BY <1>1, <1>2, <1>3, AnchorFacts
<1>4. {x \in Candidates(m) : m[x].anchor = a /\ Stripped(Chosen(m), x)} = {}
  BY <1>3
<1>5. a \in {x \in Candidates(m) : m[x].anchor = c /\ Stripped(Chosen(m), x)}
  BY <1>1, <1>2
<1>6. PICK own \in 0 .. 3 : own = CarryPriority(Written(m)[a]) /\ KeyOf(m, a) = <<own, a, 0>>
  BY <1>2, <1>4, KeyFacts DEF KeyOf
<1>7. PICK k \in Keys : k = KeyOf(m, c) /\ own <= k[1] /\ a <= k[2] /\ k[3] = 1
  <2>1. PICK L : L = {x \in Candidates(m) : m[x].anchor = c /\ Stripped(Chosen(m), x)}
    OBVIOUS
  <2>2. KeyOf(m, c) \in Keys
    BY <1>2, KeyFacts DEF KeyOf
  <2>3. /\ KeyOf(m, c)[3] = 1
        /\ \A x \in L : x <= KeyOf(m, c)[2] /\ CarryPriority(Written(m)[x]) <= KeyOf(m, c)[1]
    BY <1>2, <1>5, <2>1, KeyFacts DEF KeyOf
  <2> QED BY <1>5, <1>6, <2>1, <2>2, <2>3
<1>8. Before(KeyOf(m, a), KeyOf(m, c))
  <2>1. a \in Nat /\ own \in Nat /\ k[1] \in Nat /\ k[2] \in Nat
    BY <1>2, MapFacts, AlertsAreNumbers DEF Keys
  <2> QED BY <1>6, <1>7, <2>1 DEF Before
<1> QED
  BY <1>1, <1>2, <1>8, AheadIsCarried

\* The rows of D as a file of them, each written as the rotation writes it, folds.
Restored(m, D) ==
  [x \in D |-> IF Stripped(Chosen(m), x) /\ m[x].anchor \notin D THEN WithStory(m[x], NoStory) ELSE m[x]]

LEMMA OneMoreRow ==
  ASSUME NEW w \in Maps, True(w), NEW m \in Maps, Agrees(m, w),
         NEW D, D \subseteq Candidates(m), NEW y \in Candidates(m)
  PROVE  FoldLine(Restored(m, D), FullLine(y, Written(m)[y])) = Restored(m, D \cup {y})
<1>1. /\ Candidates(m) \subseteq DOMAIN m /\ DOMAIN m \subseteq Alerts
      /\ \A x \in Candidates(m) : m[x] \in Rows /\ x # 0 /\ m[x].story \in Stories /\ m[x].story.total \in Nat
      /\ \A x \in Candidates(m) : m[x].anchor \in Candidates(m) =>
              /\ m[m[x].anchor].anchor = m[x].anchor
              /\ m[x].story = m[m[x].anchor].story
              /\ m[x].story.id = m[x].anchor
              /\ x \in m[x].story.members
  BY WrittenFacts, MapFacts, AnchorFacts
\* A candidate is stripped when the row of its anchor, another one, is carried too.
<1>2. \A x \in Candidates(m) : Stripped(Chosen(m), x) <=> m[x].anchor \in Candidates(m) \ {x}
  BY <1>1, WrittenFacts
<1>3. PICK p \in Maps :
        /\ p = Restored(m, D) /\ DOMAIN p = D
        /\ \A x \in D : p[x] = IF Stripped(Chosen(m), x) /\ m[x].anchor \notin D
                               THEN WithStory(m[x], NoStory) ELSE m[x]
  <2>1. Restored(m, D) \in [D -> Rows]
    BY <1>1, NoStoryType, StoryGiven DEF Restored
  <2>2. Restored(m, D) \in Maps
    BY <1>1, <2>1, MapMade
  <2> QED BY <2>1, <2>2 DEF Restored
<1>4. PICK row \in Rows :
        row = Written(m)[y] /\ row = IF Stripped(Chosen(m), y) THEN WithStory(m[y], NoStory) ELSE m[y]
  BY WrittenFacts
<1>5. PICK c : c = m[y].anchor /\ row.anchor = c
  BY <1>1, <1>4, NoStoryType, StoryGiven
<1>6. PICK r : r = Hydrated(p, y, row)
  OBVIOUS
<1>7. PICK f \in Maps :
        /\ f = FoldLine(p, FullLine(y, row)) /\ DOMAIN f = D \cup {y} /\ f[y] = r
        /\ \A x \in D \ {y} : f[x] = Propagated(p, y, r, x)
  <2>1. y \in Alerts
    BY <1>1
  <2>2. /\ FoldLine(p, FullLine(y, row)) \in Maps
        /\ DOMAIN FoldLine(p, FullLine(y, row)) = DOMAIN p \cup {y}
        /\ FoldLine(p, FullLine(y, row))[y] = Hydrated(p, y, row)
        /\ \A x \in DOMAIN p \ {y} :
             FoldLine(p, FullLine(y, row))[x] = Propagated(p, y, Hydrated(p, y, row), x)
    BY <2>1, FullLineFacts
  <2> QED BY <1>3, <1>6, <2>2
<1>8. r = IF Stripped(Chosen(m), y) /\ c \notin D THEN WithStory(m[y], NoStory) ELSE m[y]
  <2>1. CASE c \in D \ {y}
    <3>1. /\ c \in Candidates(m) /\ Stripped(Chosen(m), y) /\ m[c].anchor = c
          /\ m[c].story = m[y].story /\ m[y].story.id = c
      BY <1>1, <1>2, <1>5, <2>1
    <3>2. p[c] = m[c]
      <4>1. ~Stripped(Chosen(m), c)
        BY <1>2, <3>1
      <4> QED BY <1>3, <2>1, <4>1
    <3>3. row = WithStory(m[y], NoStory) /\ row.story = NoStory
      BY <1>1, <1>4, <3>1, NoStoryType, StoryGiven
    <3>4. r = WithStory(row, m[y].story)
      <4>1. row.story.total <= m[y].story.total
        BY <1>1, <3>3, NoStoryType
      <4> QED BY <1>3, <1>5, <1>6, <2>1, <3>1, <3>2, <4>1 DEF Hydrated
    <3>5. WithStory(row, m[y].story) = m[y]
      BY <1>1, <3>3, NoStoryType, StoryGiven
    <3> QED BY <2>1, <3>4, <3>5
  <2>2. CASE c \notin D \ {y}
    <3>1. r = row
      BY <1>3, <1>5, <1>6, <2>2 DEF Hydrated
    <3>2. c = y => ~Stripped(Chosen(m), y)
      BY <1>2, <1>5
    <3> QED BY <1>4, <2>2, <3>1, <3>2
  <2> QED BY <2>1, <2>2
<1>9. ASSUME NEW x \in D \ {y}
      PROVE  f[x] = IF Stripped(Chosen(m), x) /\ m[x].anchor \notin D \cup {y}
                    THEN WithStory(m[x], NoStory) ELSE m[x]
  <2>1. x \in Candidates(m) /\ p[x].anchor = m[x].anchor
    <3>1. x \in Candidates(m)
      OBVIOUS
    <3> QED BY <1>1, <1>3, <3>1, NoStoryType, StoryGiven
  <2>2. CASE m[x].anchor = y
    <3>1. m[y].anchor = y /\ m[y].story = m[x].story /\ m[y].story.id = y /\ x \in m[y].story.members
      BY <1>1, <2>1, <2>2
    <3>2. r = m[y]
      BY <1>2, <1>5, <1>8, <3>1
    <3>3. f[x] = WithStory(p[x], m[x].story)
      BY <1>7, <2>1, <2>2, <3>1, <3>2 DEF Propagated
    <3>4. WithStory(p[x], m[x].story) = m[x]
      BY <1>1, <1>3, <2>1, NoStoryType, StoryGiven
    <3> QED BY <2>2, <3>3, <3>4
  <2>3. CASE m[x].anchor # y
    <3>1. f[x] = p[x]
      BY <1>7, <2>1, <2>3 DEF Propagated
    <3> QED BY <1>3, <2>3, <3>1
  <2> QED BY <2>2, <2>3
<1>10. f[y] = IF Stripped(Chosen(m), y) /\ m[y].anchor \notin D \cup {y}
              THEN WithStory(m[y], NoStory) ELSE m[y]
  <2>1. c = y => ~Stripped(Chosen(m), y)
    BY <1>2, <1>5
  <2> QED BY <1>5, <1>7, <1>8, <2>1
<1>11. f = Restored(m, D \cup {y})
  <2>1. f = [x \in D \cup {y} |-> f[x]]
    BY <1>7, MapFacts
  <2>2. \A x \in D \cup {y} : f[x] = IF Stripped(Chosen(m), x) /\ m[x].anchor \notin D \cup {y}
                                     THEN WithStory(m[x], NoStory) ELSE m[x]
    BY <1>9, <1>10
  <2> QED BY <2>1, <2>2 DEF Restored
<1> QED
  BY <1>3, <1>4, <1>7, <1>11


\* What was carried folds to what it was.
LEMMA CarriedFold ==
  ASSUME NEW w \in Maps, True(w), NEW m \in Maps, Agrees(m, w)
  PROVE  \A a \in Carried(m) : /\ a \in DOMAIN Fold(CarriedLines(m))
                               /\ Fold(CarriedLines(m))[a] = m[a]
<1> DEFINE T == {s \in Seq(Lines) : Ids(s) \subseteq Candidates(m) /\ Fold(s) = Restored(m, Ids(s))}
<1>1. <<>> \in T
  <2>1. <<>> \in Seq(Lines) /\ Ids(<<>>) = {}
    BY DEF Ids, Range
  <2>2. Restored(m, {}) = <<>>
    BY DEF Restored
  <2> QED BY <2>1, <2>2, FoldEmpty
<1>2. \A s \in Seq(Lines), l \in Range(CarriedLines(m)) : s \in T => Append(s, l) \in T
  <2> SUFFICES ASSUME NEW s \in Seq(Lines), NEW l \in Range(CarriedLines(m)), s \in T
               PROVE  Append(s, l) \in T
    OBVIOUS
  <2>1. PICK a \in Carried(m) : l = FullLine(a, Written(m)[a])
    BY CarriedLinesFacts
  <2>2. l \in Lines /\ a \in Candidates(m)
    BY CarriedLinesFacts, RangeIn, WrittenFacts
  <2>3. l.kind = "full" /\ l.id = a
    BY <2>1 DEF FullLine
  <2>4. Append(s, l) \in Seq(Lines) /\ Fold(Append(s, l)) = FoldLine(Fold(s), l)
        /\ Ids(Append(s, l)) = Ids(s) \cup {a}
    BY <2>2, <2>3, FoldAppend, IdsAppend
  <2>5. FoldLine(Restored(m, Ids(s)), l) = Restored(m, Ids(s) \cup {a})
    BY <2>1, <2>2, OneMoreRow
  <2> QED BY <2>2, <2>4, <2>5
<1>3. CarriedLines(m) \in T
  <2>1. CarriedLines(m) \in Seq(Lines)
    BY CarriedLinesFacts
  <2> HIDE DEF T
  <2> QED BY <1>1, <1>2, <2>1, SequencesByInduction
<1>4. Fold(CarriedLines(m)) = Restored(m, Carried(m))
  <2>1. Ids(CarriedLines(m)) = Carried(m)
    BY CarriedLinesFacts
  <2>2. Fold(CarriedLines(m)) = Restored(m, Ids(CarriedLines(m)))
    BY <1>3
  <2> QED BY <2>1, <2>2
<1>5. ASSUME NEW a \in Carried(m)
      PROVE  a \in DOMAIN Restored(m, Carried(m)) /\ Restored(m, Carried(m))[a] = m[a]
  <2>1. Stripped(Chosen(m), a) => m[a].anchor \in Carried(m)
    BY AnchorIsCarried
  <2> QED BY <2>1 DEF Restored
<1> QED
  BY <1>4, <1>5

\* What waits for a person is evicted for others that do, and for their anchors.
LEMMA WantedStay ==
  ASSUME NEW m \in Maps, NEW a \in DOMAIN m \ Carried(m), NEW x \in Carried(m), StillWanted(m[a])
  PROVE  \E y \in DOMAIN m : StillWanted(m[y]) /\ (y = x \/ m[y].anchor = x)
<1>1. /\ a \in Candidates(m) /\ x \in Candidates(m) /\ Candidates(m) \subseteq DOMAIN m
  BY WrittenFacts DEF Candidates, IsProtected
<1>2. ASSUME NEW y \in Candidates(m)
      PROVE  CarryPriority(Written(m)[y]) = 3 <=> StillWanted(m[y])
  <2>1. m[y] \in Rows
    BY <1>1, MapFacts
  <2>2. Written(m)[y].shown = m[y].shown /\ Written(m)[y].acked = m[y].acked
    BY <2>1, WrittenFacts, NoStoryType, StoryGiven
  <2>3. StillWanted(Written(m)[y]) <=> StillWanted(m[y])
    BY <2>2 DEF StillWanted
  <2>4. PICK row : row = Written(m)[y]
    OBVIOUS
  <2>5. CASE StillWanted(row)
    <3>1. CarryPriority(row) = 3
      BY <2>5 DEF CarryPriority
    <3> QED BY <2>3, <2>4, <2>5, <3>1
  <2>6. CASE ~StillWanted(row)
    <3>1. CarryPriority(row) \in {0, 1, 2}
      BY <2>6 DEF CarryPriority
    <3> QED BY <2>3, <2>4, <2>6, <3>1
  <2> QED BY <2>5, <2>6
<1>3. PICK k \in Keys, l \in Keys : k = KeyOf(m, a) /\ l = KeyOf(m, x) /\ 3 <= k[1]
  <2>1. CarryPriority(Written(m)[a]) = 3
    BY <1>1, <1>2
  <2> QED BY <1>1, <2>1, KeyFacts DEF KeyOf
<1>4. ~Before(l, k)
  BY <1>1, <1>3, AheadIsCarried
<1>5. 3 <= l[1]
  <2>1. k[1] <= l[1] /\ k[1] \in Nat /\ l[1] \in Nat
    BY <1>4, BeforeOrders DEF Keys
  <2> QED BY <1>3, <2>1
<1>6. PICK L : L = {z \in Candidates(m) : m[z].anchor = x /\ Stripped(Chosen(m), z)}
  OBVIOUS
<1>7. \A z \in Candidates(m) : CarryPriority(Written(m)[z]) \in 0 .. 3
  BY KeyFacts
<1>8. CASE L = {}
  <2>1. l[1] = CarryPriority(Written(m)[x])
    <3>1. KeyOf(m, x) = <<CarryPriority(Written(m)[x]), x, 0>>
      BY <1>1, <1>6, <1>8, KeyFacts DEF KeyOf
    <3> QED BY <1>3, <3>1
  <2>2. CarryPriority(Written(m)[x]) = 3
    BY <1>1, <1>5, <1>7, <2>1
  <2> QED BY <1>1, <1>2, <2>2
<1>9. CASE L # {}
  <2>1. l[1] = CarryPriority(Written(m)[x]) \/ \E z \in L : l[1] = CarryPriority(Written(m)[z])
    BY <1>1, <1>3, <1>6, <1>9, KeyFacts DEF KeyOf
  <2>2. PICK z \in Candidates(m) : l[1] = CarryPriority(Written(m)[z]) /\ (z = x \/ m[z].anchor = x)
    BY <1>1, <1>6, <2>1
  <2>3. CarryPriority(Written(m)[z]) = 3
    BY <1>5, <1>7, <2>2
  <2> QED BY <1>1, <1>2, <2>2, <2>3
<1> QED
  BY <1>8, <1>9


-----------------------------------------------------------------------------
(* The invariant *)

Whole == Fold(whole)

StoreTypes ==
  /\ up \in BOOLEAN /\ rotating \in {"no", "staged", "renamed"}
  /\ rotated \in Seq(Lines) /\ live \in Seq(Lines) /\ staging \in Seq(Lines) /\ whole \in Seq(Lines)
  /\ story \in Stories /\ raised \in BOOLEAN /\ todo \in Seq(UpdateLines)
  /\ nextId \in 1 .. LastAlert + 1 /\ booted \in 1 .. nextId

\* What readers see, and what they would see without the rotated file, agree with the
\* fold of everything, and miss no row but those that were dropped.
ReadersAgree ==
  /\ True(Whole)
  /\ Agrees(Seen, Whole)
  /\ Agrees(Fold(Reconciled), Whole)
  /\ DOMAIN Whole \ dropped \subseteq DOMAIN Seen

\* Which files there are at each step of a rotation.
FilesThere ==
  /\ Reconciled # Absent
  /\ rotating # "no" => up
  /\ rotating = "staged" => live # Absent /\ staging = CarriedLines(FoldFiles(rotated, live))
  /\ rotating = "renamed" => live = Absent
  /\ up /\ rotating = "no" => live # Absent

CacheOfFiles ==
  \/ cache = NoCache
  \/ up /\ rotating = "no" /\ cache = CacheOf(FoldFiles(rotated, live), rotated, live)

\* The chain that moatd remembers is the one on its anchor's row, and only it has been
\* told of alerts of this run.
Memory ==
  /\ DOMAIN Whole = 1 .. nextId - 1
  /\ ~up => story = NoStory /\ todo = <<>>
  /\ up => \A x \in booted .. nextId - 1 : Whole[x].anchor \in {0, story.id}
  /\ story # NoStory =>
       /\ story.id \in story.members
       /\ story.members \subseteq booted .. nextId - 1
       /\ Whole[story.id].anchor = story.id /\ Whole[story.id].story = story
       /\ story.total = Cardinality(story.members)
  /\ \A l \in Range(todo) :
       /\ l.id \in story.members \ {story.id}
       /\ l.set.anchor \in {0, story.id}
       /\ l.set.story = NoStory

StoreInv == StoreTypes /\ ReadersAgree /\ FilesThere /\ CacheOfFiles /\ Memory

LEMMA AbsentFacts ==
  /\ Absent \in Seq(Lines) /\ Ids(Absent) = {} /\ NoLine \in Lines
  /\ <<>> \in Seq(Lines) /\ Ids(<<>>) = {} /\ <<>> # Absent
  /\ \A s \in Seq(Lines), l \in FullLines \cup UpdateLines : Append(s, l) # Absent
<1>1. NoLine \in Lines /\ NoLine.kind = "absent"
  BY DEF Lines, NoLine
<1>2. Absent \in Seq(Lines) /\ Range(Absent) = {NoLine}
  <2>1. Absent = Append(<<>>, NoLine)
    BY DEF Absent
  <2>2. <<>> \in Seq(Lines) /\ Range(<<>>) = {}
    BY DEF Range
  <2>3. Append(<<>>, NoLine) \in Seq(Lines) /\ Range(Append(<<>>, NoLine)) = Range(<<>>) \cup {NoLine}
    BY <1>1, <2>2, AppendRange
  <2> QED BY <2>1, <2>2, <2>3
<1>3. Ids(Absent) = {}
  BY <1>1, <1>2 DEF Ids
<1>4. <<>> \in Seq(Lines) /\ Range(<<>>) = {} /\ Ids(<<>>) = {}
  BY DEF Range, Ids
<1>5. ASSUME NEW s \in Seq(Lines), NEW l \in FullLines \cup UpdateLines PROVE Append(s, l) # Absent
  <2>1. l \in Range(Append(s, l))
    <3>1. l \in Lines
      BY DEF Lines
    <3> QED BY <3>1, AppendRange
  <2>2. l.kind # "absent"
    BY DEF FullLines, UpdateLines
  <2> QED BY <1>1, <1>2, <2>1, <2>2
<1>6. <<>> # Absent
  BY <1>2, <1>4
<1> QED
  BY <1>1, <1>2, <1>3, <1>4, <1>5, <1>6

LEMMA CacheFields ==
  /\ NoCache.held = FALSE
  /\ \A f, o, n : /\ CacheOf(f, o, n).held = TRUE /\ CacheOf(f, o, n).fold = f
                  /\ CacheOf(f, o, n).old = o /\ CacheOf(f, o, n).new = n
BY DEF NoCache, CacheOf

\* What every line that is written preserves, when it fits the fold of everything.
LEMMA LineStep ==
  ASSUME StoreInv, NEW l \in FullLines \cup UpdateLines, WriteLine(l),
         True(FoldLine(Whole, l)),
         \A m \in Maps : Agrees(m, Whole) => Agrees(FoldLine(m, l), FoldLine(Whole, l))
  PROVE  /\ up /\ up' = up /\ rotated' \in Seq(Lines) /\ live' \in Seq(Lines) /\ staging' \in Seq(Lines)
         /\ whole' \in Seq(Lines) /\ rotating' \in {"no", "staged"}
         /\ Whole' = FoldLine(Whole, l)
         /\ ReadersAgree' /\ FilesThere' /\ CacheOfFiles'
<1>1. /\ up /\ rotating = "no" /\ up' = up /\ rotated' = rotated /\ dropped' = dropped
      /\ live' = Append(live, l) /\ whole' = Append(whole, l)
  BY DEF WriteLine
<1>2. /\ rotated \in Seq(Lines) /\ live \in Seq(Lines) /\ staging \in Seq(Lines)
      /\ whole \in Seq(Lines) /\ l \in Lines /\ live # Absent
  BY <1>1 DEF StoreInv, StoreTypes, FilesThere, Lines
<1>3. /\ live' \in Seq(Lines) /\ whole' \in Seq(Lines) /\ live' # Absent
  BY <1>1, <1>2, AppendRange, AbsentFacts
<1>4. Reconciled = live /\ Reconciled' = live'
  BY <1>2, <1>3 DEF Reconciled
<1>5. PICK v \in Maps, s \in Maps, r \in Maps :
        v = Whole /\ s = FoldFiles(rotated, live) /\ r = Fold(live)
  BY <1>2, FoldType, FoldFilesFacts DEF Whole
<1>6. /\ Whole' = FoldLine(v, l)
      /\ FoldFiles(rotated', live') = FoldLine(s, l)
      /\ Fold(live') = FoldLine(r, l)
  BY <1>1, <1>2, <1>5, FoldAppend, FoldFilesFacts DEF Whole
<1>7. Seen = s /\ Seen' = FoldLine(s, l)
  <2>1. Seen = FoldFiles(rotated, live)
    BY <1>4 DEF Seen
  <2>2. Seen' = FoldFiles(rotated', live')
    BY <1>4 DEF Seen
  <2> QED BY <1>5, <1>6, <2>1, <2>2
<1>8. /\ DOMAIN FoldLine(v, l) = DOMAIN v \cup (IF l.kind = "full" THEN {l.id} ELSE {})
      /\ DOMAIN FoldLine(s, l) = DOMAIN s \cup (IF l.kind = "full" THEN {l.id} ELSE {})
  BY <1>2, FoldLineType
<1>9. ReadersAgree'
  <2>1. Agrees(s, v) /\ Agrees(r, v) /\ DOMAIN v \ dropped \subseteq DOMAIN s
    BY <1>4, <1>5, <1>7 DEF StoreInv, ReadersAgree
  <2>2. Agrees(FoldLine(s, l), FoldLine(v, l)) /\ Agrees(FoldLine(r, l), FoldLine(v, l))
        /\ True(FoldLine(v, l))
    BY <1>5, <2>1
  <2>3. DOMAIN FoldLine(v, l) \ dropped' \subseteq DOMAIN FoldLine(s, l)
    BY <1>1, <1>8, <2>1
  <2>4. Fold(Reconciled') = FoldLine(r, l)
    BY <1>4, <1>6
  <2> QED BY <1>6, <1>7, <2>2, <2>3, <2>4 DEF ReadersAgree
<1>10. PICK after : after = CacheAfter(l, Append(live, l))
  OBVIOUS
<1>11. \/ after = NoCache
       \/ after = CacheOf(FoldFiles(rotated', live'), rotated', live')
  <2>1. CASE cache = NoCache
    <3>1. ~cache.held
      BY <2>1, CacheFields
    <3> QED BY <1>10, <2>1, <3>1 DEF CacheAfter
  <2>2. CASE cache = CacheOf(s, rotated, live)
    <3>1. cache.held /\ cache.fold = s
      BY <2>2, CacheFields
    <3> QED BY <1>1, <1>6, <1>10, <3>1 DEF CacheAfter
  <2> QED BY <1>5, <2>1, <2>2 DEF StoreInv, CacheOfFiles
<1>12. (IF after.held THEN after.fold ELSE FoldFiles(rotated, Append(live, l))) = FoldFiles(rotated', live')
  BY <1>1, <1>11, CacheFields
<1>13. CASE Len(Append(live, l)) < MaxLines
  <2>1. cache' = after /\ staging' = staging /\ rotating' = "no"
    BY <1>1, <1>10, <1>13 DEF WriteLine
  <2>2. CacheOfFiles' /\ FilesThere'
    BY <1>1, <1>3, <1>4, <1>11, <2>1 DEF CacheOfFiles, FilesThere, NoCache, CacheOf
  <2> QED BY <1>1, <1>2, <1>3, <1>5, <1>6, <1>9, <2>1, <2>2
<1>14. CASE ~(Len(Append(live, l)) < MaxLines)
  <2>1. /\ cache' = NoCache /\ rotating' = "staged"
        /\ staging' = CarriedLines(FoldFiles(rotated', live'))
    <3>1. staging' = CarriedLines(IF after.held THEN after.fold ELSE FoldFiles(rotated, Append(live, l)))
          /\ cache' = NoCache /\ rotating' = "staged"
      BY <1>10, <1>14 DEF WriteLine
    <3> QED BY <1>12, <3>1
  <2>2. staging' \in Seq(Lines)
    <3>1. FoldFiles(rotated', live') \in Maps
      BY <1>2, <1>5, <1>6, FoldLineType
    <3> QED BY <2>1, <3>1, CarriedLinesFacts
  <2>3. CacheOfFiles' /\ FilesThere'
    BY <1>1, <1>3, <1>4, <2>1 DEF CacheOfFiles, FilesThere, NoCache
  <2> QED BY <1>1, <1>2, <1>3, <1>5, <1>6, <1>9, <2>1, <2>2, <2>3
<1> QED
  BY <1>13, <1>14


-----------------------------------------------------------------------------
(* The steps *)

\* What a step writes: a new alert, or a change that gives no row another anchor than
\* it has.
Writes ==
  \/ \E row \in Rows : nextId \in Alerts /\ WriteLine(FullLine(nextId, row))
  \/ \E a \in Alerts, u \in Changes :
       WriteLine(UpdateLine(a, u)) /\ (u.anchor = 0 \/ Whole[a].anchor \in {0, u.anchor})

\* What a step does that writes nothing.
Fewer == Whole' = Whole /\ DOMAIN Seen' \subseteq DOMAIN Seen

LEMMA WholeType ==
  ASSUME StoreInv
  PROVE  /\ Whole \in Maps /\ True(Whole) /\ DOMAIN Whole = 1 .. nextId - 1
         /\ 0 \notin DOMAIN Whole
         /\ nextId \in Nat /\ booted \in Nat /\ 1 <= booted /\ booted <= nextId /\ nextId <= LastAlert + 1
         /\ booted .. nextId - 1 \subseteq DOMAIN Whole /\ DOMAIN Whole \subseteq Alerts
<1>1. Whole \in Maps /\ True(Whole) /\ DOMAIN Whole = 1 .. nextId - 1
  BY FoldType DEF Whole, StoreInv, StoreTypes, ReadersAgree, Memory
<1>2. nextId \in Nat /\ booted \in Nat /\ 1 <= booted /\ booted <= nextId /\ nextId <= LastAlert + 1
  BY AlertStoreAssumption DEF StoreInv, StoreTypes
<1> QED BY <1>1, <1>2, MapFacts

LEMMA RaiseStep ==
  ASSUME StoreInv, Raise
  PROVE  StoreInv' /\ Writes
<1>1. PICK k \in Kinds : WriteLine(FullLine(nextId, NewRow(k)))
  BY DEF Raise
<1>2. /\ todo = <<>> /\ nextId <= LastAlert /\ nextId' = nextId + 1
      /\ story' = story /\ raised' = raised /\ todo' = todo /\ booted' = booted
  BY DEF Raise, Idle
<1>3. PICK w \in Maps : w = Whole /\ True(w) /\ DOMAIN w = 1 .. nextId - 1
  BY WholeType
<1>4. PICK x \in Alerts \ DOMAIN w : x = nextId
  BY <1>2, <1>3, WholeType, AlertStoreAssumption DEF Alerts
<1>5. PICK row \in Rows : row = NewRow(k) /\ row.anchor = 0 /\ row.story = NoStory
  <2>1. k.shown \in BOOLEAN /\ k.grave \in BOOLEAN /\ k.meta \in BOOLEAN
    BY AlertStoreAssumption
  <2>2. 0 \in 0 .. LastAlert
    BY AlertStoreAssumption
  <2>3. NewRow(k) \in Rows
    BY <2>1, <2>2, NoStoryType DEF NewRow, Rows
  <2> QED BY <2>3 DEF NewRow
<1>6. PICK l \in FullLines : l = FullLine(x, row)
  BY DEF FullLines, FullLine
<1>7. /\ DOMAIN FoldLine(w, l) = DOMAIN w \cup {x}
      /\ FoldLine(w, l)[x] = row /\ \A y \in DOMAIN w : FoldLine(w, l)[y] = w[y]
      /\ True(FoldLine(w, l))
      /\ \A m \in Maps : Agrees(m, w) => Agrees(FoldLine(m, l), FoldLine(w, l))
  <2>1. /\ DOMAIN FoldLine(w, FullLine(x, row)) = DOMAIN w \cup {x}
        /\ FoldLine(w, FullLine(x, row))[x] = row
        /\ \A y \in DOMAIN w : FoldLine(w, FullLine(x, row))[y] = w[y]
        /\ True(FoldLine(w, FullLine(x, row)))
        /\ \A m \in Maps : Agrees(m, w) => Agrees(FoldLine(m, FullLine(x, row)), FoldLine(w, FullLine(x, row)))
    <3>1. /\ w \in Maps /\ True(w) /\ x \in Alerts \ DOMAIN w /\ row \in Rows
          /\ row.anchor = 0 /\ row.story = NoStory
      BY <1>3, <1>5
    <3> QED BY ONLY <3>1, NewAgrees
  <2> QED BY <1>6, <2>1
<1>8. WriteLine(l)
  BY <1>1, <1>4, <1>5, <1>6
<1>9. /\ up /\ up' = up /\ rotated' \in Seq(Lines) /\ live' \in Seq(Lines) /\ staging' \in Seq(Lines)
      /\ whole' \in Seq(Lines) /\ rotating' \in {"no", "staged"}
      /\ Whole' = FoldLine(w, l)
      /\ ReadersAgree' /\ FilesThere' /\ CacheOfFiles'
  BY <1>3, <1>7, <1>8, LineStep
<1>10. nextId' \in 1 .. LastAlert + 1 /\ booted' \in 1 .. nextId'
  BY <1>2, WholeType, AlertStoreAssumption
<1>11. StoreTypes'
  BY <1>2, <1>9, <1>10 DEF StoreInv, StoreTypes
<1>12. Memory'
  <2>1. 1 .. nextId' - 1 = DOMAIN w \cup {x}
    BY <1>2, <1>3, <1>4, WholeType
  <2>2. booted' .. nextId' - 1 = (booted .. nextId - 1) \cup {x}
    BY <1>2, <1>4, WholeType
  <2>3. \A y \in booted' .. nextId' - 1 : Whole'[y].anchor \in {0, story'.id}
    <3>1. \A y \in booted .. nextId - 1 : w[y].anchor \in {0, story.id} /\ y \in DOMAIN w
      BY <1>3, <1>9, WholeType DEF StoreInv, Memory
    <3> QED BY <1>2, <1>5, <1>7, <1>9, <2>2, <3>1
  <2>4. story # NoStory => story.id \in DOMAIN w /\ Whole'[story.id] = w[story.id]
    <3>1. story # NoStory => story.id \in booted .. nextId - 1
      BY DEF StoreInv, Memory
    <3> QED BY <1>3, <1>7, <1>9, <3>1, WholeType
  <2>5. story' # NoStory =>
       /\ story'.id \in story'.members
       /\ story'.members \subseteq booted' .. nextId' - 1
       /\ Whole'[story'.id].anchor = story'.id /\ Whole'[story'.id].story = story'
       /\ story'.total = Cardinality(story'.members)
    BY <1>2, <1>3, <2>2, <2>4 DEF StoreInv, Memory
  <2> QED BY <1>2, <1>7, <1>9, <2>1, <2>3, <2>5 DEF StoreInv, Memory
<1>13. Writes
  BY <1>4, <1>6, <1>8 DEF Writes
<1> QED
  BY <1>9, <1>11, <1>12, <1>13 DEF StoreInv

LEMMA ChangeTypes ==
  ASSUME NEW f \in SUBSET BOOLEAN
  PROVE  /\ [NoChange EXCEPT !.acked = f] \in Changes /\ [NoChange EXCEPT !.acted = f] \in Changes
         /\ [NoChange EXCEPT !.shown = f] \in Changes
         /\ [NoChange EXCEPT !.acked = f].anchor = 0 /\ [NoChange EXCEPT !.acked = f].story = NoStory
         /\ [NoChange EXCEPT !.acted = f].anchor = 0 /\ [NoChange EXCEPT !.acted = f].story = NoStory
         /\ [NoChange EXCEPT !.shown = f].anchor = 0 /\ [NoChange EXCEPT !.shown = f].story = NoStory
<1>1. 0 \in 0 .. LastAlert
  BY AlertStoreAssumption
<1> QED BY <1>1, NoStoryType DEF NoChange, Changes

\* A line that changes no anchor and no chain leaves the memory true.
LEMMA MarkStep ==
  ASSUME StoreInv, NEW a \in Alerts, NEW u \in Changes, u.anchor = 0, u.story = NoStory,
         a < nextId, WriteLine(UpdateLine(a, u)),
         story' = story, raised' = raised, booted' = booted, nextId' = nextId,
         todo' \in Seq(UpdateLines), Range(todo') \subseteq Range(todo)
  PROVE  StoreInv' /\ Writes
<1>1. PICK w \in Maps : w = Whole /\ True(w) /\ DOMAIN w = 1 .. nextId - 1
  BY WholeType
<1>2. a \in DOMAIN w
  BY <1>1, WholeType, AlertsAreNumbers
<1>3. PICK l \in UpdateLines : l = UpdateLine(a, u)
  BY DEF UpdateLines, UpdateLine
<1>4. /\ DOMAIN FoldLine(w, l) = DOMAIN w
      /\ \A y \in DOMAIN w : FoldLine(w, l)[y].anchor = w[y].anchor /\ FoldLine(w, l)[y].story = w[y].story
      /\ True(FoldLine(w, l))
      /\ \A m \in Maps : Agrees(m, w) => Agrees(FoldLine(m, l), FoldLine(w, l))
  <2>1. /\ DOMAIN FoldLine(w, UpdateLine(a, u)) = DOMAIN w
        /\ \A y \in DOMAIN w : /\ FoldLine(w, UpdateLine(a, u))[y].anchor = w[y].anchor
                               /\ FoldLine(w, UpdateLine(a, u))[y].story = w[y].story
        /\ True(FoldLine(w, UpdateLine(a, u)))
        /\ \A m \in Maps : Agrees(m, w) => Agrees(FoldLine(m, UpdateLine(a, u)), FoldLine(w, UpdateLine(a, u)))
    BY <1>1, <1>2, MarkAgrees
  <2> QED BY <1>3, <2>1
<1>5. /\ up /\ up' = up /\ rotated' \in Seq(Lines) /\ live' \in Seq(Lines) /\ staging' \in Seq(Lines)
      /\ whole' \in Seq(Lines) /\ rotating' \in {"no", "staged"}
      /\ Whole' = FoldLine(w, l)
      /\ ReadersAgree' /\ FilesThere' /\ CacheOfFiles'
  BY <1>1, <1>3, <1>4, LineStep
<1>6. StoreTypes'
  BY <1>5 DEF StoreInv, StoreTypes
<1>7. Memory'
  <2>1. booted .. nextId - 1 \subseteq DOMAIN w
    BY <1>1, WholeType
  <2>2. story # NoStory => story.id \in DOMAIN w
    BY <2>1 DEF StoreInv, Memory
  <2> QED BY <1>1, <1>4, <1>5, <2>1, <2>2 DEF StoreInv, Memory
<1>8. Writes
  BY DEF Writes
<1> QED
  BY <1>5, <1>6, <1>7, <1>8 DEF StoreInv

LEMMA MarkRowStep ==
  ASSUME StoreInv, NEW a \in Alerts,
         Ack(a) \/ Act(a) \/ \E badge \in BOOLEAN : Surface(a, badge)
  PROVE  StoreInv' /\ Writes
<1>1. PICK u \in Changes : u.anchor = 0 /\ u.story = NoStory /\ MarkRow(a, u)
  <2>1. {TRUE} \in SUBSET BOOLEAN /\ \A badge \in BOOLEAN : {badge} \in SUBSET BOOLEAN
    OBVIOUS
  <2> QED BY <2>1, ChangeTypes DEF Ack, Act, Surface
<1>2. /\ a < nextId /\ WriteLine(UpdateLine(a, u))
      /\ story' = story /\ raised' = raised /\ booted' = booted /\ nextId' = nextId /\ todo' = todo
  BY <1>1 DEF MarkRow
<1>3. todo' \in Seq(UpdateLines) /\ Range(todo') \subseteq Range(todo)
  BY <1>2 DEF StoreInv, StoreTypes
<1> QED
  BY <1>1, <1>2, <1>3, MarkStep

LEMMA StampStep ==
  ASSUME StoreInv, Stamp
  PROVE  StoreInv' /\ Writes
<1>1. PICK l : /\ l = Head(todo) /\ todo # <<>> /\ todo' = Tail(todo) /\ WriteLine(l)
               /\ story' = story /\ raised' = raised /\ booted' = booted /\ nextId' = nextId
  BY DEF Stamp
<1>2. /\ l \in UpdateLines /\ l \in Range(todo)
      /\ todo' \in Seq(UpdateLines) /\ Range(todo') \subseteq Range(todo)
  <2>1. PICK n \in Nat \ {0} :
          /\ DOMAIN todo = 1 .. n /\ l = todo[1] /\ \A i \in 1 .. n : todo[i] \in UpdateLines
          /\ DOMAIN todo' = 1 .. n - 1 /\ \A i \in 1 .. n - 1 : todo'[i] = todo[i + 1]
          /\ todo' \in Seq(UpdateLines)
    <3>1. todo \in Seq(UpdateLines) /\ Len(todo) \in Nat \ {0}
      BY <1>1 DEF StoreInv, StoreTypes
    <3>2. /\ DOMAIN todo = 1 .. Len(todo) /\ Head(todo) = todo[1]
          /\ DOMAIN Tail(todo) = 1 .. Len(todo) - 1 /\ Tail(todo) \in Seq(UpdateLines)
      BY <3>1
    <3>3. \A i \in 1 .. Len(todo) - 1 : Tail(todo)[i] = todo[i + 1]
      BY <3>1
    <3>4. \A i \in 1 .. Len(todo) : todo[i] \in UpdateLines
      BY <3>1
    <3> QED BY <1>1, <3>1, <3>2, <3>3, <3>4
  <2>2. 1 \in 1 .. n
    OBVIOUS
  <2>3. ASSUME NEW e \in Range(todo') PROVE e \in Range(todo)
    <3>1. PICK i \in 1 .. n - 1 : e = todo'[i]
      BY <2>1 DEF Range
    <3>2. i + 1 \in 1 .. n
      OBVIOUS
    <3> QED BY <2>1, <3>1, <3>2 DEF Range
  <2> QED BY <2>1, <2>2, <2>3 DEF Range
<1>3. PICK y \in Alerts, u \in Changes : y = l.id /\ u = l.set /\ l = UpdateLine(y, u)
  BY <1>2 DEF UpdateLines, UpdateLine
<1>4. /\ y \in story.members \ {story.id} /\ u.anchor \in {0, story.id} /\ u.story = NoStory
      /\ story # NoStory
  <2>1. y \in story.members \ {story.id} /\ u.anchor \in {0, story.id} /\ u.story = NoStory
    BY <1>2, <1>3 DEF StoreInv, Memory
  <2> QED BY <2>1, NoStoryType
<1>5. PICK w \in Maps : w = Whole /\ True(w) /\ DOMAIN w = 1 .. nextId - 1
  BY WholeType
<1>6. PICK c : c = story.id
  OBVIOUS
<1>7. /\ up /\ y \in booted .. nextId - 1 /\ c \in booted .. nextId - 1
      /\ booted .. nextId - 1 \subseteq DOMAIN w /\ c # 0
      /\ w[c].anchor = c /\ w[c].story = story /\ w[y].anchor \in {0, c}
  <2>1. /\ up /\ y \in booted .. nextId - 1 /\ c \in booted .. nextId - 1
        /\ w[c].anchor = c /\ w[c].story = story
    BY <1>1, <1>4, <1>5, <1>6 DEF StoreInv, Memory
  <2>2. booted .. nextId - 1 \subseteq DOMAIN w /\ 0 \notin DOMAIN w
    BY <1>5, WholeType
  <2>3. w[y].anchor \in {0, c}
    BY <1>5, <1>6, <2>1 DEF StoreInv, Memory
  <2> QED BY <2>1, <2>2, <2>3
<1>8. CASE u.anchor = 0
  <2>1. y < nextId
    BY <1>7, WholeType
  <2> QED BY <1>1, <1>2, <1>3, <1>4, <1>8, <2>1, MarkStep
<1>9. CASE u.anchor # 0
  <2>1. /\ u.anchor = c /\ c \in DOMAIN w \ {y} /\ y \in DOMAIN w /\ y \in w[c].story.members
    BY <1>4, <1>6, <1>7, <1>9
  <2>2. /\ DOMAIN FoldLine(w, l) = DOMAIN w
        /\ FoldLine(w, l)[y].anchor = c
        /\ \A x \in DOMAIN w \ {y} : FoldLine(w, l)[x] = w[x]
        /\ True(FoldLine(w, l))
        /\ \A m \in Maps : Agrees(m, w) => Agrees(FoldLine(m, l), FoldLine(w, l))
    <3>1. /\ DOMAIN FoldLine(w, UpdateLine(y, u)) = DOMAIN w
          /\ FoldLine(w, UpdateLine(y, u))[y].anchor = c
          /\ \A x \in DOMAIN w \ {y} : FoldLine(w, UpdateLine(y, u))[x] = w[x]
          /\ True(FoldLine(w, UpdateLine(y, u)))
          /\ \A m \in Maps : Agrees(m, w) => Agrees(FoldLine(m, UpdateLine(y, u)), FoldLine(w, UpdateLine(y, u)))
      <4>1. /\ w \in Maps /\ True(w) /\ y \in DOMAIN w /\ u \in Changes /\ u.story = NoStory
            /\ c \in DOMAIN w \ {y} /\ u.anchor = c /\ w[c].anchor = c /\ w[y].anchor \in {0, c}
            /\ y \in w[c].story.members
        BY <1>4, <1>5, <1>7, <2>1
      <4> QED BY ONLY <4>1, NameAgrees
    <3> QED BY <1>3, <3>1
  <2>3. /\ up' = up /\ rotated' \in Seq(Lines) /\ live' \in Seq(Lines) /\ staging' \in Seq(Lines)
        /\ whole' \in Seq(Lines) /\ rotating' \in {"no", "staged"}
        /\ Whole' = FoldLine(w, l)
        /\ ReadersAgree' /\ FilesThere' /\ CacheOfFiles'
    BY <1>1, <1>2, <1>5, <2>2, LineStep
  <2>4. StoreTypes'
    BY <1>1, <1>2, <1>7, <2>3 DEF StoreInv, StoreTypes
  <2>5. \A x \in booted .. nextId - 1 : Whole'[x].anchor \in {0, c}
    <3>1. \A x \in booted .. nextId - 1 : w[x].anchor \in {0, c}
      BY <1>5, <1>6, <1>7 DEF StoreInv, Memory
    <3> QED BY <1>7, <2>2, <2>3, <3>1
  <2>6. Whole'[c] = w[c]
    BY <2>1, <2>2, <2>3
  <2>7. Memory'
    BY <1>1, <1>2, <1>5, <1>6, <1>7, <2>2, <2>3, <2>5, <2>6 DEF StoreInv, Memory
  <2>8. Writes
    <3>1. WriteLine(UpdateLine(y, u)) /\ Whole[y].anchor \in {0, u.anchor}
      BY <1>1, <1>3, <1>5, <1>7, <2>1
    <3> QED BY <3>1 DEF Writes
  <2> QED BY <2>3, <2>4, <2>7, <2>8 DEF StoreInv
<1> QED
  BY <1>8, <1>9


LEMMA MembersAreFinite ==
  ASSUME NEW S \in SUBSET Alerts, NEW T \in SUBSET S
  PROVE  Cardinality(S) \in Nat /\ Cardinality(T) \in Nat /\ Cardinality(T) <= Cardinality(S)
<1>1. IsFiniteSet(Alerts)
  BY AlertStoreAssumption, FS_Interval DEF Alerts
<1>2. IsFiniteSet(S)
  BY <1>1, FS_Subset
<1> QED BY <1>2, FS_Subset, FS_CardinalityType

LEMMA TieType ==
  ASSUME NEW x \in Alerts, NEW a \in Alerts, NEW new \in BOOLEAN, NEW raise \in BOOLEAN
  PROVE  \E u \in Changes : /\ Tie(x, a, new, raise) = UpdateLine(x, u)
                            /\ u.anchor = (IF new THEN a ELSE 0) /\ u.story = NoStory
<1>1. 0 \in 0 .. LastAlert /\ a \in 0 .. LastAlert
  BY AlertStoreAssumption, AlertsAreNumbers
<1>2. PICK d \in 0 .. LastAlert : d = IF new THEN a ELSE 0
  BY <1>1
<1>3. PICK u : u = [NoChange EXCEPT !.anchor = d, !.shown = {raise} \ {FALSE}]
  OBVIOUS
<1>4. u \in Changes /\ u.anchor = d /\ u.story = NoStory
  BY <1>1, <1>3, NoStoryType DEF NoChange, Changes
<1>5. Tie(x, a, new, raise) = UpdateLine(x, u)
  BY <1>2, <1>3 DEF Tie
<1> QED
  BY <1>2, <1>4, <1>5

\* The line that tells a chain, as it is written.
LEMMA ToldLine ==
  ASSUME NEW a \in Alerts, NEW new \in BOOLEAN, NEW raise \in BOOLEAN, NEW s \in Stories
  PROVE  \E u \in Changes : /\ [Tie(a, a, new, raise) EXCEPT !.set.story = s] = UpdateLine(a, u)
                            /\ u.anchor = (IF new THEN a ELSE 0) /\ u.story = s
<1>1. PICK r \in Changes : Tie(a, a, new, raise) = UpdateLine(a, r) /\ r.anchor = IF new THEN a ELSE 0
  BY TieType
<1>2. PICK u : u = [r EXCEPT !.story = s]
  OBVIOUS
<1>3. u \in Changes /\ u.anchor = r.anchor /\ u.story = s
  BY <1>2 DEF Changes
<1>4. [[kind |-> "update", id |-> a, set |-> r] EXCEPT !.set.story = s]
        = [kind |-> "update", id |-> a, set |-> [r EXCEPT !.story = s]]
  OBVIOUS
<1>5. [Tie(a, a, new, raise) EXCEPT !.set.story = s] = UpdateLine(a, u)
  BY <1>1, <1>2, <1>4 DEF UpdateLine
<1> QED
  BY <1>1, <1>3, <1>5

LEMMA GrowStep ==
  ASSUME StoreInv, NEW high \in BOOLEAN, Grow(high)
  PROVE  StoreInv' /\ Writes
<1>a. PICK a \in booted .. nextId - 1, b \in booted .. nextId - 1 :
        /\ a < b /\ b \notin story.members
        /\ story # NoStory => a = story.id
        /\ LET members == story.members \cup {a, b}
               grown == [id |-> a, total |-> Cardinality(members), high |-> high,
                         members |-> members]
               toRaise == high /\ ~raised
               others == InOrder(IF toRaise THEN members \ {a} ELSE {b})
               anchorLine == Tie(a, a, story = NoStory, toRaise)
           IN  /\ WriteLine([anchorLine EXCEPT !.set.story = grown])
               /\ story' = grown
               /\ raised' = (raised \/ high)
               /\ todo' = [i \in DOMAIN others |->
                             Tie(others[i], a, others[i] \notin story.members, high)]
  BY Zenon DEF Grow
<1>b. Idle /\ booted' = booted /\ nextId' = nextId
  BY DEF Grow
<1>c. PICK members, toRaise : members = story.members \cup {a, b} /\ toRaise = (high /\ ~raised)
  OBVIOUS
<1>d. PICK grown, others :
        /\ grown = [id |-> a, total |-> Cardinality(members), high |-> high, members |-> members]
        /\ others = InOrder(IF toRaise THEN members \ {a} ELSE {b})
  OBVIOUS
<1>1. /\ Idle /\ a < b /\ b \notin story.members
      /\ story # NoStory => a = story.id
      /\ members = story.members \cup {a, b}
      /\ grown = [id |-> a, total |-> Cardinality(members), high |-> high, members |-> members]
      /\ toRaise = (high /\ ~raised)
      /\ others = InOrder(IF toRaise THEN members \ {a} ELSE {b})
      /\ WriteLine([Tie(a, a, story = NoStory, toRaise) EXCEPT !.set.story = grown])
      /\ story' = grown
      /\ raised' = (raised \/ high)
      /\ todo' = [i \in DOMAIN others |-> Tie(others[i], a, others[i] \notin story.members, high)]
      /\ booted' = booted /\ nextId' = nextId
  BY <1>a, <1>b, <1>c, <1>d, Zenon
<1>2. PICK w \in Maps : w = Whole /\ True(w) /\ DOMAIN w = 1 .. nextId - 1
  BY WholeType
<1>3. up
  BY <1>1 DEF WriteLine
<1>4. /\ booted .. nextId - 1 \subseteq DOMAIN w /\ DOMAIN w \subseteq Alerts
      /\ a \in DOMAIN w /\ b \in DOMAIN w /\ a # b /\ a # 0
  <2>1. booted .. nextId - 1 \subseteq DOMAIN w /\ DOMAIN w \subseteq Alerts /\ 0 \notin DOMAIN w
    BY <1>2, WholeType
  <2>2. a # b
    BY <1>1, WholeType
  <2> QED BY <1>1, <2>1, <2>2
<1>5. /\ story.members \subseteq booted .. nextId - 1 /\ story.members \subseteq members
      /\ members \subseteq booted .. nextId - 1 /\ members \subseteq Alerts
      /\ a \in members /\ b \in members
  <2>1. story.members \subseteq booted .. nextId - 1
    BY NoStoryType DEF StoreInv, Memory
  <2> QED BY <1>1, <1>4, <2>1
<1>6. /\ Cardinality(members) \in Nat /\ Cardinality(story.members) \in Nat
      /\ Cardinality(story.members) <= Cardinality(members)
  BY <1>5, MembersAreFinite
<1>7. grown \in Stories /\ grown.id = a /\ grown.members = members /\ grown.total = Cardinality(members)
  <2>1. a \in 0 .. LastAlert
    BY <1>4, AlertsAreNumbers
  <2> QED BY <1>1, <1>5, <1>6, <2>1 DEF Stories
<1>8. toRaise \in BOOLEAN /\ (raised \/ high) \in BOOLEAN
  BY <1>1 DEF StoreInv, StoreTypes
<1>9. \A x \in booted .. nextId - 1 : w[x].anchor \in {0, story.id}
  BY <1>2, <1>3 DEF StoreInv, Memory
<1>10. /\ w[a].anchor \in {0, a}
       /\ w[a].anchor = 0 => story = NoStory
       /\ w[a].story.members \subseteq members /\ w[a].story.total <= Cardinality(members)
  <2>1. CASE story = NoStory
    <3>1. w[a].anchor = 0
      BY <1>9, <2>1, NoStoryType
    <3>2. w[a].story = NoStory
      BY <1>2, <1>4, <3>1 DEF True
    <3> QED BY <1>6, <2>1, <3>1, <3>2, NoStoryType
  <2>2. CASE story # NoStory
    <3>1. w[a].anchor = a /\ w[a].story = story /\ story.total = Cardinality(story.members)
      BY <1>1, <1>2, <2>2 DEF StoreInv, Memory
    <3> QED BY <1>4, <1>5, <1>6, <3>1
  <2> QED BY <2>1, <2>2
<1>11. PICK new \in BOOLEAN : new = (story = NoStory)
  OBVIOUS
<1>12. PICK u \in Changes :
         /\ [Tie(a, a, new, toRaise) EXCEPT !.set.story = grown] = UpdateLine(a, u)
         /\ u.anchor = (IF new THEN a ELSE 0) /\ u.story = grown
  <2>1. a \in Alerts
    BY <1>4
  <2> QED BY <1>7, <1>8, <2>1, ToldLine
<1>13. PICK l \in UpdateLines : l = UpdateLine(a, u)
  BY <1>4 DEF UpdateLines, UpdateLine
<1>14. WriteLine(l)
  BY <1>1, <1>11, <1>12, <1>13
<1>15. /\ DOMAIN FoldLine(w, l) = DOMAIN w
       /\ FoldLine(w, l)[a].anchor = a /\ FoldLine(w, l)[a].story = grown
       /\ \A y \in DOMAIN w \ {a} : FoldLine(w, l)[y].anchor = w[y].anchor
       /\ True(FoldLine(w, l))
       /\ \A m \in Maps : Agrees(m, w) => Agrees(FoldLine(m, l), FoldLine(w, l))
  <2>1. /\ DOMAIN FoldLine(w, UpdateLine(a, u)) = DOMAIN w
        /\ FoldLine(w, UpdateLine(a, u))[a].anchor = a /\ FoldLine(w, UpdateLine(a, u))[a].story = u.story
        /\ \A y \in DOMAIN w \ {a} : FoldLine(w, UpdateLine(a, u))[y].anchor = w[y].anchor
        /\ True(FoldLine(w, UpdateLine(a, u)))
        /\ \A m \in Maps : Agrees(m, w) => Agrees(FoldLine(m, UpdateLine(a, u)), FoldLine(w, UpdateLine(a, u)))
    <3>1. /\ w \in Maps /\ True(w) /\ a \in DOMAIN w /\ u \in Changes
          /\ u.story.id = a /\ a \in u.story.members /\ u.anchor \in {0, a} /\ w[a].anchor \in {0, a}
          /\ w[a].anchor = 0 => u.anchor = a
          /\ w[a].story.members \subseteq u.story.members /\ w[a].story.total <= u.story.total
      BY <1>2, <1>4, <1>5, <1>7, <1>10, <1>11, <1>12
    <3> QED BY ONLY <3>1, TellAgrees
  <2> QED BY <1>12, <1>13, <2>1
<1>16. /\ up' = up /\ rotated' \in Seq(Lines) /\ live' \in Seq(Lines) /\ staging' \in Seq(Lines)
       /\ whole' \in Seq(Lines) /\ rotating' \in {"no", "staged"}
       /\ Whole' = FoldLine(w, l)
       /\ ReadersAgree' /\ FilesThere' /\ CacheOfFiles'
  BY <1>2, <1>14, <1>15, LineStep
<1>17. PICK S \in SUBSET Alerts : others = InOrder(S) /\ S \subseteq members \ {a}
  <2>1. PICK S : S = IF toRaise THEN members \ {a} ELSE {b}
    OBVIOUS
  <2>2. S \subseteq members \ {a}
    BY <1>4, <1>5, <2>1
  <2> QED BY <1>1, <1>5, <2>1, <2>2
<1>18. /\ others \in Seq(Alerts) /\ \A i \in DOMAIN others : others[i] \in Alerts /\ others[i] \in members \ {a}
  <2>1. others \in Seq(Alerts) /\ Range(others) = S
    BY <1>17, InOrderFacts
  <2> QED BY <1>17, <2>1 DEF Range
<1>19. \A i \in DOMAIN others :
         /\ todo'[i] \in UpdateLines /\ todo'[i].id = others[i]
         /\ todo'[i].set.anchor \in {0, a} /\ todo'[i].set.story = NoStory
  <2> SUFFICES ASSUME NEW i \in DOMAIN others
               PROVE  /\ todo'[i] \in UpdateLines /\ todo'[i].id = others[i]
                      /\ todo'[i].set.anchor \in {0, a} /\ todo'[i].set.story = NoStory
    OBVIOUS
  <2>1. PICK x \in Alerts, fresh \in BOOLEAN : x = others[i] /\ fresh = (others[i] \notin story.members)
    BY <1>18
  <2>2. todo'[i] = Tie(x, a, fresh, high)
    BY <1>1, <2>1
  <2>3. a \in Alerts
    BY <1>4
  <2>4. PICK e \in Changes : Tie(x, a, fresh, high) = UpdateLine(x, e) /\ e.anchor \in {0, a} /\ e.story = NoStory
    BY <2>3, TieType
  <2>5. UpdateLine(x, e) \in UpdateLines /\ UpdateLine(x, e).id = x /\ UpdateLine(x, e).set = e
    BY DEF UpdateLine, UpdateLines
  <2> QED BY <2>1, <2>2, <2>4, <2>5
<1>20. todo' \in Seq(UpdateLines) /\ DOMAIN todo' = DOMAIN others
  <2>1. PICK n \in Nat : DOMAIN others = 1 .. n
    BY <1>18
  <2>2. DOMAIN todo' = 1 .. n /\ todo' = [i \in 1 .. n |-> todo'[i]]
    BY <1>1, <2>1
  <2>3. \A i \in 1 .. n : todo'[i] \in UpdateLines
    BY <1>19, <2>1
  <2> QED BY <2>1, <2>2, <2>3
<1>21. StoreTypes'
  BY <1>1, <1>3, <1>7, <1>8, <1>16, <1>20 DEF StoreInv, StoreTypes
<1>22. \A l1 \in Range(todo') :
         /\ l1.id \in story'.members \ {story'.id}
         /\ l1.set.anchor \in {0, story'.id}
         /\ l1.set.story = NoStory
  <2>1. ASSUME NEW l1 \in Range(todo')
        PROVE  l1.id \in members \ {a} /\ l1.set.anchor \in {0, a} /\ l1.set.story = NoStory
    <3>1. PICK i \in DOMAIN others : l1 = todo'[i]
      BY <1>20 DEF Range
    <3> QED BY <1>18, <1>19, <3>1
  <2> QED BY <1>1, <1>7, <2>1
<1>23. \A x \in booted' .. nextId' - 1 : Whole'[x].anchor \in {0, story'.id}
  <2> SUFFICES ASSUME NEW x \in booted .. nextId - 1 PROVE FoldLine(w, l)[x].anchor \in {0, a}
    BY <1>1, <1>7, <1>16
  <2>1. CASE x = a
    BY <1>15, <2>1
  <2>2. CASE x # a
    <3>1. FoldLine(w, l)[x].anchor = w[x].anchor
      BY <1>4, <1>15, <2>2
    <3>2. w[x].anchor \in {0, story.id}
      BY <1>9
    <3> QED BY <1>1, <3>1, <3>2, NoStoryType
  <2> QED BY <2>1, <2>2
<1>24. /\ story'.id \in story'.members /\ story'.members \subseteq booted' .. nextId' - 1
       /\ Whole'[story'.id].anchor = story'.id /\ Whole'[story'.id].story = story'
       /\ story'.total = Cardinality(story'.members)
  <2>1. story' = grown /\ story'.id = a /\ story'.members = members /\ story'.total = Cardinality(members)
    BY <1>1, <1>7
  <2> QED BY <1>1, <1>5, <1>15, <1>16, <2>1
<1>25. Memory'
  <2>1. DOMAIN Whole' = 1 .. nextId' - 1 /\ up'
    BY <1>1, <1>2, <1>3, <1>15, <1>16
  <2> QED BY <1>22, <1>23, <1>24, <2>1 DEF Memory
<1>26. Writes
  <2>1. WriteLine(UpdateLine(a, u)) /\ (u.anchor = 0 \/ Whole[a].anchor \in {0, u.anchor})
    BY <1>2, <1>10, <1>11, <1>12, <1>13, <1>14
  <2>2. a \in Alerts
    BY <1>4
  <2> QED BY <2>1, <2>2 DEF Writes
<1> QED
  BY <1>16, <1>21, <1>25, <1>26 DEF StoreInv


\* What the steps that write no line leave as it was.
LEMMA StillRemembered ==
  ASSUME StoreInv, whole' = whole, up' = up, story' = story, todo' = todo,
         booted' = booted, nextId' = nextId
  PROVE  Whole' = Whole /\ Memory'
<1>1. Whole' = Whole
  BY DEF Whole
<1> QED
  BY <1>1 DEF StoreInv, Memory

LEMMA RenameLiveStep ==
  ASSUME StoreInv, RenameLive
  PROVE  StoreInv' /\ Fewer
<1>1. /\ rotating = "staged" /\ rotated' = live /\ live' = Absent /\ rotating' = "renamed"
      /\ dropped' = dropped \cup (Ids(rotated) \ (Ids(live) \cup Ids(staging)))
      /\ up' = up /\ staging' = staging /\ cache' = cache /\ story' = story /\ raised' = raised
      /\ todo' = todo /\ booted' = booted /\ nextId' = nextId /\ whole' = whole
  BY DEF RenameLive
<1>2. /\ up /\ live # Absent /\ staging = CarriedLines(FoldFiles(rotated, live)) /\ cache = NoCache
      /\ rotated \in Seq(Lines) /\ live \in Seq(Lines) /\ staging \in Seq(Lines)
  BY <1>1 DEF StoreInv, StoreTypes, FilesThere, CacheOfFiles
<1>3. PICK w \in Maps : w = Whole /\ True(w)
  BY WholeType
<1>4. PICK m \in Maps : m = FoldFiles(rotated, live) /\ DOMAIN m = Ids(rotated) \cup Ids(live)
  BY <1>2, FoldFilesFacts
<1>5. Reconciled = live /\ Seen = m
  BY <1>2, <1>4 DEF Reconciled, Seen
<1>6. Agrees(m, w) /\ Agrees(Fold(live), w) /\ DOMAIN w \ dropped \subseteq DOMAIN m
  BY <1>3, <1>5 DEF StoreInv, ReadersAgree
<1>7. staging # Absent
  BY <1>2, <1>4, CarriedLinesFacts
<1>8. Reconciled' = staging /\ Seen' = FoldFiles(live, staging)
  <2>1. Reconciled' = staging
    BY <1>1, <1>7 DEF Reconciled
  <2> QED BY <1>1, <2>1 DEF Seen
<1>9. Whole' = w /\ Memory'
  BY <1>1, <1>3, StillRemembered
<1>10. Agrees(FoldFiles(live, staging), w) /\ Agrees(Fold(staging), w)
  BY <1>2, <1>3, <1>4, <1>6, StagedAgrees
<1>11. DOMAIN w \ dropped' \subseteq DOMAIN FoldFiles(live, staging)
  <2>1. DOMAIN FoldFiles(live, staging) = Ids(live) \cup Ids(staging)
    BY <1>2, FoldFilesFacts
  <2> QED BY <1>1, <1>4, <1>6, <2>1
<1>12. ReadersAgree'
  BY <1>3, <1>8, <1>9, <1>10, <1>11 DEF ReadersAgree
<1>13. StoreTypes'
  BY <1>1, <1>2, AbsentFacts DEF StoreInv, StoreTypes
<1>14. FilesThere' /\ CacheOfFiles'
  BY <1>1, <1>2, <1>7, <1>8 DEF FilesThere, CacheOfFiles, NoCache
<1>15. Fewer
  <2>1. DOMAIN FoldFiles(live, staging) = Ids(live) \cup Ids(staging)
    BY <1>2, FoldFilesFacts
  <2>2. Ids(staging) = Carried(m)
    BY <1>2, <1>4, CarriedLinesFacts
  <2>3. Carried(m) \subseteq DOMAIN m
    BY CarriedFacts DEF Candidates
  <2> QED BY <1>3, <1>4, <1>5, <1>8, <1>9, <2>1, <2>2, <2>3 DEF Fewer
<1> QED
  BY <1>9, <1>12, <1>13, <1>14, <1>15 DEF StoreInv

LEMMA RenameStagingStep ==
  ASSUME StoreInv, RenameStaging
  PROVE  StoreInv' /\ Fewer
<1>1. /\ rotating = "renamed" /\ live' = staging /\ staging' = Absent /\ rotating' = "no"
      /\ up' = up /\ rotated' = rotated /\ cache' = cache /\ story' = story /\ raised' = raised
      /\ todo' = todo /\ booted' = booted /\ nextId' = nextId /\ whole' = whole /\ dropped' = dropped
  BY DEF RenameStaging
<1>2. /\ up /\ live = Absent /\ staging # Absent /\ cache = NoCache
  BY <1>1 DEF StoreInv, FilesThere, CacheOfFiles, Reconciled
<1>3. Reconciled = staging /\ Reconciled' = staging /\ Seen' = Seen
  <2>1. Reconciled = staging /\ Reconciled' = staging
    BY <1>1, <1>2 DEF Reconciled
  <2> QED BY <1>1, <2>1 DEF Seen
<1>4. Whole' = Whole /\ Memory'
  BY <1>1, StillRemembered
<1>5. ReadersAgree'
  BY <1>1, <1>3, <1>4 DEF StoreInv, ReadersAgree
<1>6. StoreTypes'
  BY <1>1, AbsentFacts DEF StoreInv, StoreTypes
<1>7. FilesThere' /\ CacheOfFiles'
  BY <1>1, <1>2, <1>3 DEF FilesThere, CacheOfFiles, NoCache
<1> QED
  BY <1>3, <1>4, <1>5, <1>6, <1>7 DEF StoreInv, Fewer

LEMMA ReadStep ==
  ASSUME StoreInv, Read
  PROVE  StoreInv' /\ Fewer
<1>1. /\ up /\ rotating = "no" /\ cache' = CacheOf(FoldFiles(rotated, live), rotated, live)
      /\ up' = up /\ rotated' = rotated /\ live' = live /\ staging' = staging /\ rotating' = rotating
      /\ story' = story /\ raised' = raised /\ todo' = todo /\ booted' = booted
      /\ nextId' = nextId /\ whole' = whole /\ dropped' = dropped
  BY DEF Read, Idle
<1>2. Reconciled' = Reconciled /\ Seen' = Seen
  BY <1>1 DEF Reconciled, Seen
<1>3. Whole' = Whole /\ Memory'
  BY <1>1, StillRemembered
<1>4. ReadersAgree' /\ StoreTypes' /\ FilesThere'
  BY <1>1, <1>2, <1>3 DEF StoreInv, ReadersAgree, StoreTypes, FilesThere
<1>5. CacheOfFiles'
  BY <1>1 DEF CacheOfFiles
<1> QED
  BY <1>2, <1>3, <1>4, <1>5 DEF StoreInv, Fewer

LEMMA CrashStep ==
  ASSUME StoreInv, Crash
  PROVE  StoreInv' /\ Fewer
<1>1. /\ ~up' /\ up' \in BOOLEAN /\ cache' = NoCache /\ rotating' = "no"
      /\ story' = NoStory /\ raised' = FALSE /\ todo' = <<>>
      /\ rotated' = rotated /\ live' = live /\ staging' = staging /\ booted' = booted
      /\ nextId' = nextId /\ whole' = whole /\ dropped' = dropped
  BY DEF Crash
<1>2. Reconciled' = Reconciled /\ Seen' = Seen /\ Whole' = Whole
  BY <1>1 DEF Reconciled, Seen, Whole
<1>3. ReadersAgree'
  BY <1>1, <1>2 DEF StoreInv, ReadersAgree
<1>4. StoreTypes'
  <2>1. <<>> \in Seq(UpdateLines)
    OBVIOUS
  <2>2. todo' \in Seq(UpdateLines)
    BY <1>1, <2>1
  <2>3. raised' \in BOOLEAN /\ rotating' \in {"no", "staged", "renamed"}
    BY <1>1
  <2>4. story' \in Stories
    BY <1>1, NoStoryType
  <2> QED BY <1>1, <2>2, <2>3, <2>4 DEF StoreInv, StoreTypes
<1>5. FilesThere' /\ CacheOfFiles'
  BY <1>1, <1>2 DEF StoreInv, FilesThere, CacheOfFiles
<1>6. Memory'
  <2>1. Range(todo') = {}
    BY <1>1 DEF Range
  <2> QED BY <1>1, <1>2, <2>1 DEF StoreInv, Memory
<1> QED
  BY <1>2, <1>3, <1>4, <1>5, <1>6 DEF StoreInv, Fewer

LEMMA RestartStep ==
  ASSUME StoreInv, Restart
  PROVE  StoreInv' /\ Fewer
<1>1. /\ ~up /\ up' = TRUE /\ booted' = nextId /\ live' = Reconciled /\ staging' = Absent
      /\ rotated' = rotated /\ cache' = cache /\ rotating' = rotating /\ story' = story
      /\ raised' = raised /\ todo' = todo /\ nextId' = nextId /\ whole' = whole /\ dropped' = dropped
  BY DEF Restart
<1>2. /\ rotating = "no" /\ cache = NoCache /\ Reconciled # Absent /\ story = NoStory /\ todo = <<>>
  BY <1>1 DEF StoreInv, StoreTypes, FilesThere, CacheOfFiles, Memory
<1>3. Reconciled' = Reconciled /\ Seen' = Seen /\ Whole' = Whole
  <2>1. Reconciled' = Reconciled
    BY <1>1, <1>2 DEF Reconciled
  <2> QED BY <1>1, <2>1 DEF Seen, Whole
<1>4. ReadersAgree'
  BY <1>1, <1>3 DEF StoreInv, ReadersAgree
<1>5. StoreTypes'
  <2>1. Reconciled \in Seq(Lines)
    BY DEF StoreInv, StoreTypes, Reconciled
  <2>2. nextId \in 1 .. nextId
    BY WholeType
  <2> QED BY <1>1, <2>1, <2>2, AbsentFacts DEF StoreInv, StoreTypes
<1>6. FilesThere' /\ CacheOfFiles'
  BY <1>1, <1>2, <1>3 DEF FilesThere, CacheOfFiles
<1>7. Memory'
  <2>1. booted' .. nextId' - 1 = {}
    BY <1>1, WholeType
  <2>2. Range(todo') = {}
    BY <1>1, <1>2 DEF Range
  <2> QED BY <1>1, <1>2, <1>3, <2>1, <2>2 DEF StoreInv, Memory
<1> QED
  BY <1>3, <1>4, <1>5, <1>6, <1>7 DEF StoreInv, Fewer

LEMMA StillStep ==
  ASSUME StoreInv, UNCHANGED vars
  PROVE  StoreInv' /\ Fewer
<1>1. /\ up' = up /\ rotated' = rotated /\ live' = live /\ staging' = staging /\ rotating' = rotating
      /\ cache' = cache /\ story' = story /\ raised' = raised /\ todo' = todo /\ booted' = booted
      /\ nextId' = nextId /\ whole' = whole /\ dropped' = dropped
  BY DEF vars
<1>2. Reconciled' = Reconciled /\ Seen' = Seen
  BY <1>1 DEF Reconciled, Seen
<1>3. Whole' = Whole /\ Memory'
  BY <1>1, StillRemembered
<1> QED
  BY <1>1, <1>2, <1>3 DEF StoreInv, ReadersAgree, StoreTypes, FilesThere, CacheOfFiles, Fewer

LEMMA InitStep ==
  ASSUME Init
  PROVE  StoreInv
<1>1. /\ up = TRUE /\ rotated = Absent /\ live = <<>> /\ staging = Absent /\ cache = NoCache
      /\ rotating = "no" /\ story = NoStory /\ raised = FALSE /\ todo = <<>>
      /\ booted = 1 /\ nextId = 1 /\ whole = <<>> /\ dropped = {}
  BY DEF Init
<1>2. Reconciled = live /\ live # Absent
  BY <1>1, AbsentFacts DEF Reconciled
<1>3. StoreTypes
  <2>1. 1 \in 1 .. LastAlert + 1
    BY AlertStoreAssumption
  <2>2. <<>> \in Seq(UpdateLines)
    OBVIOUS
  <2>3. /\ rotated \in Seq(Lines) /\ live \in Seq(Lines) /\ staging \in Seq(Lines) /\ whole \in Seq(Lines)
        /\ story \in Stories /\ todo \in Seq(UpdateLines)
    BY <1>1, <2>2, NoStoryType, AbsentFacts
  <2>4. nextId \in 1 .. LastAlert + 1 /\ booted \in 1 .. nextId
    BY <1>1, <2>1
  <2> QED BY <1>1, <2>3, <2>4 DEF StoreTypes
<1>4. DOMAIN Whole = {} /\ DOMAIN Seen = {} /\ DOMAIN Fold(Reconciled) = {}
  <2>1. DOMAIN Fold(<<>>) = {}
    BY AbsentFacts, FoldType
  <2>2. DOMAIN FoldFiles(Absent, <<>>) = {}
    BY AbsentFacts, FoldFilesFacts
  <2> QED BY <1>1, <1>2, <2>1, <2>2 DEF Whole, Seen
<1>5. ReadersAgree
  BY <1>4 DEF ReadersAgree, True, Agrees
<1>6. FilesThere /\ CacheOfFiles
  BY <1>1, <1>2 DEF FilesThere, CacheOfFiles
<1>7. Memory
  <2>1. 1 .. nextId - 1 = {} /\ booted .. nextId - 1 = {}
    BY <1>1
  <2>2. Range(todo) = {}
    BY <1>1 DEF Range
  <2> QED BY <1>1, <1>4, <2>1, <2>2 DEF Memory
<1> QED
  BY <1>3, <1>5, <1>6, <1>7 DEF StoreInv


-----------------------------------------------------------------------------
(* The theorems *)

LEMMA StoreStep ==
  ASSUME StoreInv, [Next]_vars
  PROVE  StoreInv' /\ (Writes \/ Fewer)
<1>1. CASE Raise
  BY <1>1, RaiseStep
<1>2. CASE Stamp
  BY <1>2, StampStep
<1>3. CASE Read
  BY <1>3, ReadStep
<1>4. CASE RenameLive
  BY <1>4, RenameLiveStep
<1>5. CASE RenameStaging
  BY <1>5, RenameStagingStep
<1>6. ASSUME NEW a \in Alerts, Ack(a) \/ Act(a) \/ \E badge \in BOOLEAN : Surface(a, badge)
      PROVE  StoreInv' /\ Writes
  BY <1>6, MarkRowStep
<1>7. ASSUME NEW high \in BOOLEAN, Grow(high) PROVE StoreInv' /\ Writes
  BY <1>7, GrowStep
<1>8. CASE Crash
  BY <1>8, CrashStep
<1>9. CASE Restart
  BY <1>9, RestartStep
<1>10. CASE UNCHANGED vars
  BY <1>10, StillStep
<1> QED
  BY <1>1, <1>2, <1>3, <1>4, <1>5, <1>6, <1>7, <1>8, <1>9, <1>10 DEF Next

\* The inductive invariant: readers of the files, whole or without the rotated one,
\* have forgotten nothing but chains told on rows they do not have, the cache is the
\* fold of the files, and moatd remembers the chain that is on its anchor's row
\* (AlertStore::write_line, rotate, open; write_chain).
THEOREM StoreInvariant == Spec => []StoreInv
<1>1. Init => StoreInv
  BY InitStep
<1>2. StoreInv /\ [Next]_vars => StoreInv'
  BY StoreStep
<1> QED
  BY <1>1, <1>2, PTL DEF Spec

\* A fold that the stamp says is fresh is the fold of the files: adding a line to the
\* one in memory is reading everything again (write_line, with_fold).
THEOREM CacheIsDiskAlways == Spec => []CacheIsDisk
<1>1. StoreInv => CacheIsDisk
  <2> SUFFICES ASSUME StoreInv, cache.held PROVE cache.fold = FoldFiles(rotated, live)
    BY DEF CacheIsDisk, Fresh
  <2> QED BY CacheFields DEF StoreInv, CacheOfFiles
<1> QED
  BY <1>1, StoreInvariant, PTL

\* Rotation shows nowhere: every row that was ever written and not left behind is
\* there, with all that was said of it, and with its chain unless that is told on a
\* row that was left behind; whatever crashed in between (rotate, reconcile_staging,
\* write_carried).
THEOREM RotationIsUnseenAlways == Spec => []RotationIsUnseen
<1>1. StoreInv => RotationIsUnseen
  <2> SUFFICES ASSUME StoreInv, NEW a \in DOMAIN Whole \ dropped
               PROVE  /\ a \in DOMAIN Seen
                      /\ Seen[a] = [Whole[a] EXCEPT !.story =
                           IF Whole[a].anchor \in dropped THEN Seen[a].story ELSE Whole[a].story]
    BY DEF RotationIsUnseen, Whole
  <2>1. PICK w \in Maps : w = Whole /\ True(w)
    BY WholeType
  <2>2. /\ Agrees(Seen, w) /\ DOMAIN w \ dropped \subseteq DOMAIN Seen /\ a \in DOMAIN Seen
    BY <2>1 DEF StoreInv, ReadersAgree
  <2>3. Like(Seen, a, w[a])
    BY <2>2 DEF Agrees
  <2>4. w[a].anchor \in dropped \/ Seen[a].story = w[a].story
    <3>1. w[a].anchor = 0 \/ w[a].anchor \in DOMAIN w
      BY <2>1 DEF True
    <3> QED BY <2>2, <2>3, <3>1 DEF Like
  <2>5. Seen[a] = WithStory(w[a], Seen[a].story)
    BY <2>3 DEF Like
  <2>6. Seen[a].story = IF w[a].anchor \in dropped THEN Seen[a].story ELSE w[a].story
    BY <2>4
  <2>7. Seen[a] = WithStory(w[a], IF w[a].anchor \in dropped THEN Seen[a].story ELSE w[a].story)
    BY <2>5, <2>6
  <2> QED BY <2>1, <2>2, <2>7 DEF WithStory
<1> QED
  BY <1>1, StoreInvariant, PTL

\* Whoever finds an alert and its anchor finds the chain whole on both: no member is
\* left with an earlier copy (Cache::propagate, Cache::hydrate).
THEOREM MembersHoldTheStoryAlways == Spec => []MembersHoldTheStory
<1>1. StoreInv => MembersHoldTheStory
  <2> SUFFICES ASSUME StoreInv, NEW a \in DOMAIN Seen, Seen[a].anchor \in DOMAIN Seen
               PROVE  Seen[a].story = Seen[Seen[a].anchor].story
    BY DEF MembersHoldTheStory
  <2>1. PICK w \in Maps : w = Whole /\ True(w)
    BY WholeType
  <2>2. PICK m \in Maps : m = Seen /\ Agrees(m, w)
    <3>1. Reconciled \in Seq(Lines) /\ rotated \in Seq(Lines)
      BY DEF StoreInv, StoreTypes, Reconciled
    <3>2. Seen \in Maps
      BY <3>1, FoldFilesFacts DEF Seen
    <3> QED BY <2>1, <3>2 DEF StoreInv, ReadersAgree
  <2>3. a \in DOMAIN m /\ m[a].anchor \in DOMAIN m
    BY <2>2
  <2>4. m[a].story = m[m[a].anchor].story
    BY <2>1, <2>2, <2>3, AnchorFacts
  <2> QED BY <2>2, <2>4
<1> QED
  BY <1>1, StoreInvariant, PTL

\* What the files are while the carried rows are staged.
LEMMA StagedFacts ==
  ASSUME StoreInv, rotating = "staged"
  PROVE  \E w \in Maps, m \in Maps : /\ True(w) /\ Agrees(m, w) /\ m = Seen
                                     /\ staging = CarriedLines(m) /\ Ids(staging) = Carried(m)
<1>1. PICK w \in Maps : w = Whole /\ True(w)
  BY WholeType
<1>2. /\ live # Absent /\ staging = CarriedLines(FoldFiles(rotated, live))
      /\ rotated \in Seq(Lines) /\ live \in Seq(Lines)
  BY DEF StoreInv, StoreTypes, FilesThere
<1>3. Seen = FoldFiles(rotated, live)
  BY <1>2 DEF Seen, Reconciled
<1>4. PICK m \in Maps : m = Seen
  BY <1>2, <1>3, FoldFilesFacts
<1>5. Agrees(m, w)
  BY <1>1, <1>4 DEF StoreInv, ReadersAgree
<1>6. staging = CarriedLines(m) /\ Ids(staging) = Carried(m)
  BY <1>2, <1>3, <1>4, CarriedLinesFacts
<1> QED
  BY <1>1, <1>4, <1>5, <1>6

\* The rows a rotation stages are complete by themselves, though a chain is written on
\* one of them only, and whatever the cap evicted: read alone, they fold to what they
\* were (strip_shared_chains, apply_carry_caps).
THEOREM CarriedIsWholeAlways == Spec => []CarriedIsWhole
<1>1. StoreInv => CarriedIsWhole
  <2> SUFFICES ASSUME StoreInv, rotating = "staged", NEW a \in Ids(staging)
               PROVE  a \in DOMAIN Fold(staging) /\ Fold(staging)[a] = Seen[a]
    BY DEF CarriedIsWhole
  <2>1. PICK w \in Maps, m \in Maps : /\ True(w) /\ Agrees(m, w) /\ m = Seen
                                      /\ staging = CarriedLines(m) /\ Ids(staging) = Carried(m)
    BY StagedFacts
  <2>2. a \in Carried(m)
    BY <2>1
  <2>3. a \in DOMAIN Fold(CarriedLines(m)) /\ Fold(CarriedLines(m))[a] = m[a]
    BY <2>1, <2>2, CarriedFold
  <2> QED BY <2>1, <2>3
<1> QED
  BY <1>1, StoreInvariant, PTL

\* An alert that waits for a person is evicted for no less than another that does, or
\* the anchor of one (carry_priority, apply_carry_caps).
THEOREM WantedFirstAlways == Spec => []WantedFirst
<1>1. StoreInv => WantedFirst
  <2> SUFFICES ASSUME StoreInv, rotating = "staged",
                      NEW a \in DOMAIN Seen \ Ids(staging), NEW x \in Ids(staging), StillWanted(Seen[a])
               PROVE  \E y \in DOMAIN Seen : StillWanted(Seen[y]) /\ (y = x \/ Seen[y].anchor = x)
    BY DEF WantedFirst
  <2>1. PICK w \in Maps, m \in Maps : /\ True(w) /\ Agrees(m, w) /\ m = Seen
                                      /\ staging = CarriedLines(m) /\ Ids(staging) = Carried(m)
    BY StagedFacts
  <2>2. a \in DOMAIN m \ Carried(m) /\ x \in Carried(m) /\ StillWanted(m[a])
    BY <2>1
  <2>3. \E y \in DOMAIN m : StillWanted(m[y]) /\ (y = x \/ m[y].anchor = x)
    BY <2>2, WantedStay
  <2> QED BY <2>1, <2>3
<1> QED
  BY <1>1, StoreInvariant, PTL

-----------------------------------------------------------------------------
(* What a step does to the rows that readers see *)

Flags(r) == <<r.acked, r.acted, r.shown>>

\* A row keeps what was said of it: the answers given to it, its badge, its anchor.
Stands(r, s) == Flags(s) = Flags(r) /\ r.anchor \in {0, s.anchor}

\* A row has the flags the update u gives it, and its anchor.
Answered(r, s, u) == Flags(s) = Flags(Updated(r, u)) /\ r.anchor \in {0, s.anchor}

Kept(m, v) == DOMAIN m \subseteq DOMAIN v /\ \A x \in DOMAIN m : Stands(m[x], v[x])

\* The same, of all but the row that the line l is about.
KeptBut(m, v, l) ==
  /\ DOMAIN m \subseteq DOMAIN v
  /\ \A x \in DOMAIN m :
       \/ Stands(m[x], v[x])
       \/ \E u \in Changes : l = UpdateLine(x, u) /\ Answered(m[x], v[x], u)

LEMMA StoryStands ==
  ASSUME NEW r \in Rows, NEW s \in Stories
  PROVE  Stands(r, r) /\ Stands(r, WithStory(r, s))
BY StoryGiven DEF Stands, Flags

LEMMA UpdatedAnswers ==
  ASSUME NEW r \in Rows, NEW u \in Changes, u.anchor = 0 \/ r.anchor \in {0, u.anchor}
  PROVE  /\ Updated(r, u) \in Rows /\ Answered(r, Updated(r, u), u)
         /\ \A s \in Stories : Answered(r, WithStory(Updated(r, u), s), u)
<1>1. PICK v \in Rows : v = Updated(r, u) /\ v.anchor = (IF u.anchor = 0 THEN r.anchor ELSE u.anchor)
  <2>1. Updated(r, u) \in Rows /\ Updated(r, u).anchor = (IF u.anchor = 0 THEN r.anchor ELSE u.anchor)
    BY UpdatedFacts
  <2> QED BY <2>1
<1>2. r.anchor \in {0, v.anchor}
  BY <1>1
<1>3. Answered(r, v, u)
  BY <1>1, <1>2 DEF Answered
<1>4. ASSUME NEW s \in Stories PROVE Answered(r, WithStory(v, s), u)
  BY <1>3, StoryGiven DEF Answered, Flags
<1> QED
  BY <1>1, <1>3, <1>4

LEMMA FullLineKeeps ==
  ASSUME NEW m \in Maps, NEW a \in Alerts \ DOMAIN m, NEW row \in Rows
  PROVE  Kept(m, FoldLine(m, FullLine(a, row)))
<1>1. PICK f \in Maps, h \in Rows :
        /\ f = FoldLine(m, FullLine(a, row)) /\ h = Hydrated(m, a, row)
        /\ DOMAIN f = DOMAIN m \cup {a}
        /\ \A x \in DOMAIN m : f[x] = Propagated(m, a, h, x)
  <2>1. PICK f \in Maps :
          /\ f = FoldLine(m, FullLine(a, row)) /\ DOMAIN f = DOMAIN m \cup {a}
          /\ f[a] = Hydrated(m, a, row)
          /\ \A x \in DOMAIN m \ {a} : f[x] = Propagated(m, a, Hydrated(m, a, row), x)
    <3>1. /\ FoldLine(m, FullLine(a, row)) \in Maps
          /\ DOMAIN FoldLine(m, FullLine(a, row)) = DOMAIN m \cup {a}
          /\ FoldLine(m, FullLine(a, row))[a] = Hydrated(m, a, row)
          /\ \A x \in DOMAIN m \ {a} :
               FoldLine(m, FullLine(a, row))[x] = Propagated(m, a, Hydrated(m, a, row), x)
      BY FullLineFacts
    <3> QED BY <3>1
  <2>2. Hydrated(m, a, row) \in Rows
    BY <2>1, MapFacts
  <2> QED BY <2>1, <2>2
<1>2. ASSUME NEW x \in DOMAIN m PROVE Stands(m[x], f[x])
  <2>1. m[x] \in Rows /\ h.story \in Stories
    BY MapFacts DEF Rows
  <2>2. f[x] = m[x] \/ f[x] = WithStory(m[x], h.story)
    BY <1>1 DEF Propagated
  <2>3. Stands(m[x], m[x]) /\ Stands(m[x], WithStory(m[x], h.story))
    BY <2>1, StoryStands
  <2> QED BY <2>2, <2>3
<1> QED
  BY <1>1, <1>2 DEF Kept

LEMMA UpdateLineKeeps ==
  ASSUME NEW m \in Maps, NEW a \in Alerts, NEW u \in Changes,
         a \in DOMAIN m => u.anchor = 0 \/ m[a].anchor \in {0, u.anchor}
  PROVE  KeptBut(m, FoldLine(m, UpdateLine(a, u)), UpdateLine(a, u))
<1>1. PICK f, b, r :
        /\ f = FoldLine(m, UpdateLine(a, u))
        /\ b = Updated(m[a], u)
        /\ r = IF /\ u.anchor # 0 /\ b.anchor \in DOMAIN m \ {a} /\ m[b.anchor].story.id = b.anchor
                  /\ b.story.total <= m[b.anchor].story.total
               THEN WithStory(b, m[b.anchor].story) ELSE b
  OBVIOUS
<1>2. \A x \in DOMAIN m : m[x] \in Rows /\ m[x].story \in Stories
  BY MapFacts DEF Rows
<1>3. /\ a \notin DOMAIN m => f = m
      /\ a \in DOMAIN m =>
           /\ f \in Maps /\ DOMAIN f = DOMAIN m /\ f[a] = r
           /\ \A x \in DOMAIN m \ {a} :
                f[x] = IF u.story # NoStory /\ r.story.id = a /\ x \in r.story.members /\ m[x].anchor = a
                       THEN WithStory(m[x], r.story) ELSE m[x]
  BY ONLY <1>1, m \in Maps, a \in Alerts, u \in Changes, UpdateLineFacts
<1>4. CASE a \notin DOMAIN m
  <2>1. f = m
    BY <1>3, <1>4
  <2> QED BY <1>1, <1>2, <2>1, StoryStands, NoStoryType DEF KeptBut
<1>5. CASE a \in DOMAIN m
  <2>1. Answered(m[a], b, u) /\ \A s \in Stories : Answered(m[a], WithStory(b, s), u)
    BY <1>1, <1>2, <1>5, UpdatedAnswers
  <2>2. Answered(m[a], f[a], u)
    <3>1. r = b \/ \E c \in DOMAIN m : r = WithStory(b, m[c].story)
      BY <1>1
    <3> QED BY <1>2, <1>3, <1>5, <2>1, <3>1
  <2>3. ASSUME NEW x \in DOMAIN m \ {a} PROVE Stands(m[x], f[x])
    <3>1. r.story \in Stories
      BY <1>3, <1>5, MapFacts DEF Rows
    <3>2. f[x] = m[x] \/ f[x] = WithStory(m[x], r.story)
      BY <1>3, <1>5
    <3>3. Stands(m[x], m[x]) /\ Stands(m[x], WithStory(m[x], r.story))
      BY <1>2, <3>1, StoryStands
    <3> QED BY <3>2, <3>3
  <2> QED BY <1>1, <1>3, <1>5, <2>2, <2>3 DEF KeptBut
<1> QED
  BY <1>4, <1>5

LEMMA SeenType ==
  ASSUME StoreInv
  PROVE  Seen \in Maps /\ Agrees(Seen, Whole)
<1>1. Reconciled \in Seq(Lines) /\ rotated \in Seq(Lines)
  BY DEF StoreInv, StoreTypes, Reconciled
<1> QED
  BY <1>1, FoldFilesFacts DEF Seen, StoreInv, ReadersAgree

LEMMA LineIsSeen ==
  ASSUME StoreInv, NEW l \in FullLines \cup UpdateLines, WriteLine(l)
  PROVE  Whole' = FoldLine(Whole, l) /\ Seen' = FoldLine(Seen, l)
<1>1. /\ up /\ rotating = "no" /\ rotated' = rotated
      /\ live' = Append(live, l) /\ whole' = Append(whole, l)
  BY DEF WriteLine
<1>2. /\ rotated \in Seq(Lines) /\ live \in Seq(Lines) /\ whole \in Seq(Lines)
      /\ l \in Lines /\ live # Absent
  BY <1>1 DEF StoreInv, StoreTypes, FilesThere, Lines
<1>3. live' # Absent
  BY <1>1, <1>2, AbsentFacts
<1>4. Seen = FoldFiles(rotated, live)
  BY <1>2 DEF Seen, Reconciled
<1>5. Seen' = FoldFiles(rotated', live')
  BY <1>3 DEF Seen, Reconciled
<1>6. FoldFiles(rotated', live') = FoldLine(FoldFiles(rotated, live), l)
  BY <1>1, <1>2, FoldFilesFacts
<1>7. Whole' = FoldLine(Whole, l)
  BY <1>1, <1>2, FoldAppend DEF Whole
<1> QED
  BY <1>4, <1>5, <1>6, <1>7

\* What the line of a step does to the fold of everything, and to what readers see.
LEMMA WritesKeep ==
  ASSUME StoreInv, Writes
  PROVE  /\ \E l : whole' = Append(whole, l) /\ KeptBut(Whole, Whole', l)
         /\ DOMAIN Seen' \subseteq DOMAIN Seen \cup {nextId}
<1>1. PICK w \in Maps : w = Whole /\ DOMAIN w = 1 .. nextId - 1 /\ nextId \in Nat
  BY WholeType
<1>2. PICK m \in Maps : m = Seen
  BY SeenType
<1>3. ASSUME NEW row \in Rows, nextId \in Alerts, WriteLine(FullLine(nextId, row))
      PROVE  /\ \E l : whole' = Append(whole, l) /\ KeptBut(Whole, Whole', l)
             /\ DOMAIN Seen' \subseteq DOMAIN Seen \cup {nextId}
  <2>1. PICK a \in Alerts : a = nextId /\ a \notin DOMAIN w
    BY <1>1, <1>3
  <2>2. FullLine(a, row) \in FullLines
    BY DEF FullLine, FullLines
  <2>3. Whole' = FoldLine(w, FullLine(a, row)) /\ Seen' = FoldLine(m, FullLine(a, row))
    BY <1>1, <1>2, <1>3, <2>1, <2>2, LineIsSeen
  <2>4. Kept(w, FoldLine(w, FullLine(a, row)))
    BY <2>1, FullLineKeeps
  <2>5. DOMAIN FoldLine(m, FullLine(a, row)) = DOMAIN m \cup {a}
    BY FullLineFacts
  <2>6. whole' = Append(whole, FullLine(a, row))
    BY <1>3, <2>1 DEF WriteLine
  <2>7. KeptBut(Whole, Whole', FullLine(a, row))
    BY <1>1, <2>3, <2>4 DEF Kept, KeptBut
  <2> QED BY <1>2, <2>1, <2>3, <2>5, <2>6, <2>7
<1>4. ASSUME NEW a \in Alerts, NEW u \in Changes, WriteLine(UpdateLine(a, u)),
             u.anchor = 0 \/ Whole[a].anchor \in {0, u.anchor}
      PROVE  /\ \E l : whole' = Append(whole, l) /\ KeptBut(Whole, Whole', l)
             /\ DOMAIN Seen' \subseteq DOMAIN Seen \cup {nextId}
  <2>1. UpdateLine(a, u) \in UpdateLines
    BY DEF UpdateLine, UpdateLines
  <2>2. Whole' = FoldLine(w, UpdateLine(a, u)) /\ Seen' = FoldLine(m, UpdateLine(a, u))
    BY <1>1, <1>2, <1>4, <2>1, LineIsSeen
  <2>3. KeptBut(w, FoldLine(w, UpdateLine(a, u)), UpdateLine(a, u))
    BY <1>1, <1>4, UpdateLineKeeps
  <2>4. DOMAIN FoldLine(m, UpdateLine(a, u)) = DOMAIN m
    <3>1. UpdateLine(a, u).kind # "full" /\ UpdateLine(a, u) \in Lines
      BY <2>1 DEF UpdateLine, Lines
    <3> QED BY <3>1, FoldLineType
  <2>5. whole' = Append(whole, UpdateLine(a, u))
    BY <1>4 DEF WriteLine
  <2> QED BY <1>1, <1>2, <2>2, <2>3, <2>4, <2>5
<1> QED
  BY <1>3, <1>4 DEF Writes

\* What the line about a says of it, if the step writes one.
AnsweredByLine(a) ==
  \E u \in Changes : whole' = Append(whole, UpdateLine(a, u)) /\ Answered(Seen[a], Seen'[a], u)

\* What was said of an alert stands until a line about that alert says otherwise, and is
\* then what the line says: whoever sees it before and after a step finds its ack, its
\* action, its badge and its anchor as they were, through updates of other alerts,
\* rotations, crashes and restarts; and not even a line about it gives it another anchor
\* than it has (append_update, write_carried, fold_line, alert::fold).
THEOREM AnswersStandAlways ==
  Spec => [][\A a \in DOMAIN Seen \cap DOMAIN Seen' :
               Stands(Seen[a], Seen'[a]) \/ AnsweredByLine(a)]_vars
<1>1. ASSUME StoreInv, [Next]_vars, NEW a \in DOMAIN Seen \cap DOMAIN Seen'
      PROVE  Stands(Seen[a], Seen'[a]) \/ AnsweredByLine(a)
  <2>1. PICK m, n, w, v : m = Seen /\ n = Seen' /\ w = Whole /\ v = Whole'
    OBVIOUS
  <2>2. StoreInv' /\ (Writes \/ Fewer)
    BY <1>1, StoreStep
  <2>3. Agrees(m, w) /\ w \in Maps
    BY <1>1, <2>1, SeenType, WholeType
  <2>4. Agrees(n, v) /\ v \in Maps
    <3>1. Agrees(Seen', Whole') /\ whole' \in Seq(Lines)
      BY <2>2 DEF StoreInv, StoreTypes, ReadersAgree
    <3> QED BY <2>1, <3>1, FoldType DEF Whole
  <2>5. a \in DOMAIN w /\ a \in DOMAIN v /\ Like(m, a, w[a]) /\ Like(n, a, v[a])
    BY <1>1, <2>1, <2>3, <2>4 DEF Agrees
  <2>6. w[a] \in Rows /\ v[a] \in Rows
    BY <2>3, <2>4, <2>5, MapFacts
  <2>7. /\ m[a].anchor = w[a].anchor /\ m[a].acked = w[a].acked /\ m[a].acted = w[a].acted
        /\ m[a].shown = w[a].shown
        /\ n[a].anchor = v[a].anchor /\ n[a].acked = v[a].acked /\ n[a].acted = v[a].acted
        /\ n[a].shown = v[a].shown
    BY <2>5, <2>6, LikeFacts
  <2>8. CASE Stands(w[a], v[a])
    BY <2>1, <2>7, <2>8 DEF Stands, Flags
  <2>9. ASSUME NEW u \in Changes, whole' = Append(whole, UpdateLine(a, u)), Answered(w[a], v[a], u)
        PROVE  AnsweredByLine(a)
    <3>1. m[a] \in Rows
      BY <1>1, <2>1, SeenType, MapFacts
    <3>2. Flags(Updated(m[a], u)) = Flags(Updated(w[a], u))
      BY <2>6, <2>7, <3>1 DEF Flags, Updated, Rows
    <3>3. Answered(m[a], n[a], u)
      BY <2>7, <2>9, <3>2 DEF Answered, Flags
    <3> QED BY <2>1, <2>9, <3>3 DEF AnsweredByLine
  <2> QED
    <3>1. CASE Writes
      <4>1. PICK l : whole' = Append(whole, l) /\ KeptBut(w, v, l)
        BY <1>1, <2>1, <3>1, WritesKeep
      <4> QED BY <2>5, <2>8, <2>9, <4>1 DEF KeptBut
    <3>2. CASE Fewer
      <4>1. v = w
        BY <2>1, <3>2 DEF Fewer
      <4> QED BY <2>6, <2>8, <4>1, StoryStands, NoStoryType
    <3> QED BY <2>2, <3>1, <3>2
<1>2. StoreInv /\ [Next]_vars
        => [\A a \in DOMAIN Seen \cap DOMAIN Seen' :
              Stands(Seen[a], Seen'[a]) \/ AnsweredByLine(a)]_vars
  BY <1>1
<1> QED
  BY <1>2, StoreInvariant, PTL DEF Spec

\* A row that readers no longer find does not come back: a step adds the alert that is
\* raised, with the next id, or none, so that an update, a restart or the second rename
\* revives nothing (fold_line, reconcile_staging).
THEOREM NothingReturnsAlways ==
  Spec => [][DOMAIN Seen' \subseteq DOMAIN Seen \cup {nextId}]_vars
<1>1. ASSUME StoreInv, [Next]_vars
      PROVE  DOMAIN Seen' \subseteq DOMAIN Seen \cup {nextId}
  <2>1. Writes \/ Fewer
    BY <1>1, StoreStep
  <2> QED BY <1>1, <2>1, WritesKeep DEF Fewer
<1>2. StoreInv /\ [Next]_vars => [DOMAIN Seen' \subseteq DOMAIN Seen \cup {nextId}]_vars
  BY <1>1
<1> QED
  BY <1>2, StoreInvariant, PTL DEF Spec

=============================================================================
