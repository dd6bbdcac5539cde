---------------------------- MODULE FeedsProofs ----------------------------
(***************************************************************************)
(* What the published pointer names can be fetched, and the machine that   *)
(* has its sequence has its packages: for any indexes, any window, any     *)
(* number of artifacts kept from two up, and any deaths on either side.    *)
(*                                                                         *)
(* The first invariant says where the state of the aggregator may stand    *)
(* between two of its writes: the pointer is at its sequence or one ahead  *)
(* of it, and the pointer before it at most one behind.  The second one    *)
(* supposes a history, the index that each sequence stood for, and says    *)
(* how the documents, the steps and the files of the machine relate to it. *)
(***************************************************************************)
EXTENDS Feeds, FiniteSetTheorems, WellFoundedInduction, TLAPS

\* KEEP_ARTIFACTS is 4 unless it is configured: the grace needs two.
Grace == Keep \in Nat /\ Keep >= 2

----------------------------------------------------------------------------

Document(p) ==
  /\ p = [tag |-> p.tag, seq |-> p.seq, index |-> p.index, deltas |-> p.deltas,
          list |-> p.list]
  /\ p.seq \in Nat /\ p.list \in Nat

\* The artifact and the deltas of a pointer are in the bucket.
In(p, bucket) ==
  /\ [seq |-> p.seq, index |-> p.index] \in bucket.artifacts
  /\ Named(p) \subseteq bucket.deltas

Shapes ==
  /\ Document(pointer) /\ Document(before)
  /\ pstate = [seq |-> pstate.seq, index |-> pstate.index, steps |-> pstate.steps]
  /\ pstate.seq \in Nat /\ dstate \in Nat
  /\ objects = [artifacts |-> objects.artifacts, deltas |-> objects.deltas,
                lists |-> objects.lists]
  /\ \/ run \in [at : {"idle", "prune", "list", "prune lists"}]
     \/ /\ run = [at |-> run.at, next |-> run.next, steps |-> run.steps]
        /\ run.at \in {"pointer", "state"}
        /\ Document(run.next)

\* Where the sequences stand.
Positions ==
  /\ pointer.seq \in {pstate.seq, pstate.seq + 1}
  /\ before.seq + 1 >= pointer.seq
  /\ run.at \in {"pointer", "state"} => run.next.seq = pstate.seq + 1
  /\ run.at = "state" => pointer.seq = run.next.seq
  /\ run.at = "prune" => pointer.seq = pstate.seq
  /\ run.at = "list" => dstate \in objects.lists
  /\ run.at = "prune lists" => pointer.list = dstate

Packages ==
  /\ pointer.seq > 0 => In(pointer, objects)
  /\ before.seq > 0 => In(before, objects)
  /\ run.at = "pointer" => In(run.next, objects)

Lists == pointer.list > 0 => pointer.list \in objects.lists

Inv == Shapes /\ Positions /\ Packages /\ Lists

----------------------------------------------------------------------------

LEMMA Initially == FeedsInit => Inv
  BY DEF FeedsInit, Init, Inv, Shapes, Positions, Packages, Lists, Document, In, NoPointer,
         Resting, NoIndex

LEMMA Enough == Inv => NamesWhatIsThere
  BY DEF Inv, Packages, Lists, In, NamesWhatIsThere

\* Only a run changes what the invariant is about.
LEMMA Untouched == Inv /\ UNCHANGED pvars => Inv'
<1> SUFFICES ASSUME Inv, UNCHANGED pvars PROVE Inv'
  OBVIOUS
<1> USE DEF pvars
<1>1. Shapes'
  BY DEF Inv, Shapes, Document
<1>2. Positions'
  BY DEF Inv, Positions
<1>3. Packages'
  BY DEF Inv, Packages
<1>4. Lists'
  BY DEF Inv, Lists
<1> QED
  BY <1>1, <1>2, <1>3, <1>4 DEF Inv

\* What the bucket has of a pointer it keeps as it grows, and it does not matter
\* what list or tag the pointer has.
LEMMA MoreIsEnough ==
  ASSUME NEW p, NEW q, NEW bucket, NEW larger,
         p.seq = q.seq, p.index = q.index, p.deltas = q.deltas,
         bucket.artifacts \subseteq larger.artifacts, bucket.deltas \subseteq larger.deltas,
         In(p, bucket)
  PROVE  In(q, larger)
  BY DEF In, Named

LEMMA PutKeeps ==
  ASSUME Inv, NEW index, Put(index)
  PROVE  Inv'
<1> DEFINE deltas == DeltasOf(Steps(index))
           p == [tag |-> 0, seq |-> pstate.seq + 1, index |-> index, deltas |-> deltas,
                 list |-> 0]
<1> HIDE DEF deltas
<1>1. /\ p.seq = pstate.seq + 1 /\ p.index = index /\ p.list = 0
      /\ p = [tag |-> p.tag, seq |-> p.seq, index |-> p.index, deltas |-> p.deltas,
              list |-> p.list]
  OBVIOUS
<1>2. /\ objects' = [objects EXCEPT
           !.artifacts = @ \cup {[seq |-> p.seq, index |-> index]},
           !.deltas = @ \cup Named(p)]
      /\ run = Resting
      /\ run' = [at |-> "pointer", next |-> p, steps |-> Steps(index)]
      /\ UNCHANGED <<pstate, dstate, pointer, before>>
  BY DEF Put, deltas
<1> HIDE DEF p
<1>3. pstate.seq \in Nat /\ Shapes
  BY DEF Inv, Shapes
<1>4. Document(p)
  BY <1>1, <1>3 DEF Document
<1>5. /\ objects' = [artifacts |-> objects'.artifacts, deltas |-> objects'.deltas,
                     lists |-> objects'.lists]
      /\ objects'.artifacts = objects.artifacts \cup {[seq |-> p.seq, index |-> index]}
      /\ objects'.deltas = objects.deltas \cup Named(p)
      /\ objects'.lists = objects.lists
  BY <1>2, <1>3 DEF Shapes
<1>6. run'.at = "pointer" /\ run'.next = p
      /\ run' = [at |-> run'.at, next |-> run'.next, steps |-> run'.steps]
  BY <1>2
<1>7. Shapes'
  BY <1>2, <1>3, <1>4, <1>5, <1>6 DEF Shapes, Document
<1>8. Positions'
  BY <1>1, <1>2, <1>6 DEF Inv, Positions
<1>9. Packages'
  <2>1. In(p, objects')
    BY <1>1, <1>5 DEF In
  <2>2. pointer.seq > 0 => In(pointer, objects')
    BY <1>5, MoreIsEnough DEF Inv, Packages
  <2>3. before.seq > 0 => In(before, objects')
    BY <1>5, MoreIsEnough DEF Inv, Packages
  <2> QED
    BY <1>2, <1>6, <2>1, <2>2, <2>3 DEF Packages
<1>10. Lists'
  BY <1>2, <1>5 DEF Inv, Lists
<1> QED
  BY <1>7, <1>8, <1>9, <1>10 DEF Inv

LEMMA PointPackagesKeeps ==
  ASSUME Inv, PointPackages
  PROVE  Inv'
<1> DEFINE new == [run.next EXCEPT !.list = pointer.list]
<1>1. /\ run.at = "pointer"
      /\ pointer' = [new EXCEPT !.tag = pointer.tag + 1] /\ before' = pointer
      /\ run' = [run EXCEPT !.at = "state"]
      /\ UNCHANGED <<pstate, dstate, objects>>
  BY DEF PointPackages, Point
<1>2. /\ Shapes
      /\ run = [at |-> run.at, next |-> run.next, steps |-> run.steps]
      /\ Document(run.next) /\ Document(pointer)
      /\ pstate.seq \in Nat /\ run.next.seq = pstate.seq + 1
  BY <1>1 DEF Inv, Shapes, Positions
<1>3. /\ pointer'.seq = run.next.seq /\ pointer'.index = run.next.index
      /\ pointer'.deltas = run.next.deltas /\ pointer'.list = pointer.list
      /\ Document(pointer')
  BY <1>1, <1>2 DEF Document
<1>4. /\ run'.at = "state" /\ run'.next = run.next
      /\ run' = [at |-> run'.at, next |-> run'.next, steps |-> run'.steps]
  BY <1>1, <1>2
<1>5. Shapes'
  BY <1>1, <1>2, <1>3, <1>4 DEF Shapes, Document
<1>6. Positions'
  BY <1>1, <1>2, <1>3, <1>4 DEF Inv, Positions
<1>7. Packages'
  <2>1. In(pointer', objects)
    BY <1>1, <1>3, MoreIsEnough DEF Inv, Packages
  <2> QED
    BY <1>1, <1>4, <2>1 DEF Inv, Packages
<1>8. Lists'
  BY <1>1, <1>3 DEF Inv, Lists
<1> QED
  BY <1>5, <1>6, <1>7, <1>8 DEF Inv

LEMMA SaveStateKeeps ==
  ASSUME Inv, SaveState
  PROVE  Inv'
<1>1. /\ run.at = "state" /\ run' = [at |-> "prune"]
      /\ pstate' = [seq |-> run.next.seq, index |-> run.next.index, steps |-> run.steps]
      /\ UNCHANGED <<dstate, pointer, objects, before>>
  BY DEF SaveState
<1>2. /\ Shapes /\ run.next.seq \in Nat /\ pointer.seq = run.next.seq
  BY <1>1 DEF Inv, Shapes, Positions, Document
<1>3. Shapes'
  BY <1>1, <1>2 DEF Shapes, Document
<1>4. Positions'
  BY <1>1, <1>2 DEF Inv, Positions
<1>5. Packages' /\ Lists'
  BY <1>1 DEF Inv, Packages, Lists
<1> QED
  BY <1>3, <1>4, <1>5 DEF Inv

\* What is pruned lies further back than the two pointers.
LEMMA PruneKeeps ==
  ASSUME Grace, Inv, Prune
  PROVE  Inv'
<1>1. /\ run.at = "prune" /\ run' = [at |-> "idle"]
      /\ objects' = [objects EXCEPT
           !.artifacts = {o \in @ : o.seq > pstate.seq - Keep},
           !.deltas = {o \in @ : o.to >= pstate.seq - 1}]
      /\ UNCHANGED <<pstate, dstate, pointer, before>>
  BY DEF Prune, Resting
<1>2. /\ Shapes /\ pstate.seq \in Nat /\ pointer.seq \in Nat /\ before.seq \in Nat
      /\ pointer.seq = pstate.seq /\ before.seq + 1 >= pointer.seq
  BY <1>1 DEF Inv, Shapes, Positions, Document
<1>3. /\ objects' = [artifacts |-> objects'.artifacts, deltas |-> objects'.deltas,
                     lists |-> objects'.lists]
      /\ objects'.artifacts = {o \in objects.artifacts : o.seq > pstate.seq - Keep}
      /\ objects'.deltas = {o \in objects.deltas : o.to >= pstate.seq - 1}
      /\ objects'.lists = objects.lists
  BY <1>1, <1>2 DEF Shapes
<1>4. ASSUME NEW p, p.seq \in Nat, p.seq + 1 >= pstate.seq, In(p, objects)
      PROVE  In(p, objects')
  <2>1. [seq |-> p.seq, index |-> p.index] \in objects'.artifacts
    BY <1>2, <1>3, <1>4 DEF In, Grace
  <2>2. \A o \in Named(p) : o.to = p.seq
    BY DEF Named
  <2>3. Named(p) \subseteq objects'.deltas
    BY <1>2, <1>3, <1>4, <2>2 DEF In
  <2> QED
    BY <2>1, <2>3 DEF In
<1>5. Shapes'
  BY <1>1, <1>2, <1>3 DEF Shapes, Document
<1>6. Positions'
  BY <1>1 DEF Inv, Positions
<1>7. Packages'
  <2>1. pointer.seq > 0 => In(pointer, objects')
    BY <1>2, <1>4 DEF Inv, Packages
  <2>2. before.seq > 0 => In(before, objects')
    BY <1>2, <1>4 DEF Inv, Packages
  <2> QED
    BY <1>1, <2>1, <2>2 DEF Packages
<1>8. Lists'
  BY <1>1, <1>3 DEF Inv, Lists
<1> QED
  BY <1>5, <1>6, <1>7, <1>8 DEF Inv

LEMMA PutListKeeps ==
  ASSUME Inv, PutList
  PROVE  Inv'
<1>1. /\ objects' = [objects EXCEPT !.lists = @ \cup {dstate + 1}]
      /\ dstate' = dstate + 1 /\ run = Resting /\ run' = [at |-> "list"]
      /\ UNCHANGED <<pstate, pointer, before>>
  BY DEF PutList
<1>2. Shapes /\ dstate \in Nat
  BY DEF Inv, Shapes
<1>3. /\ objects' = [artifacts |-> objects'.artifacts, deltas |-> objects'.deltas,
                     lists |-> objects'.lists]
      /\ objects'.artifacts = objects.artifacts /\ objects'.deltas = objects.deltas
      /\ objects'.lists = objects.lists \cup {dstate + 1}
  BY <1>1, <1>2 DEF Shapes
<1>4. Shapes'
  <2>1. dstate' \in Nat /\ run' \in [at : {"idle", "prune", "list", "prune lists"}]
    BY <1>1, <1>2
  <2> QED
    BY <1>1, <1>2, <1>3, <2>1 DEF Shapes, Document
<1>5. Positions'
  BY <1>1, <1>3 DEF Inv, Positions
<1>6. Packages'
  BY <1>1, <1>3 DEF Inv, Packages, In
<1>7. Lists'
  BY <1>1, <1>3 DEF Inv, Lists
<1> QED
  BY <1>4, <1>5, <1>6, <1>7 DEF Inv

LEMMA PointListKeeps ==
  ASSUME Inv, PointList
  PROVE  Inv'
<1>1. /\ run.at = "list" /\ run' = [at |-> "prune lists"]
      /\ pointer' = [[pointer EXCEPT !.list = dstate] EXCEPT !.tag = pointer.tag + 1]
      /\ before' = pointer
      /\ UNCHANGED <<pstate, dstate, objects>>
  BY DEF PointList, Point
<1>2. /\ Shapes /\ Document(pointer) /\ dstate \in Nat /\ dstate \in objects.lists
      /\ pointer.seq \in Nat
  BY <1>1 DEF Inv, Shapes, Positions, Document
<1>3. /\ pointer'.seq = pointer.seq /\ pointer'.index = pointer.index
      /\ pointer'.deltas = pointer.deltas /\ pointer'.list = dstate
      /\ Document(pointer')
  BY <1>1, <1>2 DEF Document
<1>4. Shapes'
  BY <1>1, <1>2, <1>3 DEF Shapes, Document
<1>5. Positions'
  <2>1. pointer'.seq \in {pstate'.seq, pstate'.seq + 1}
    BY <1>1, <1>3 DEF Inv, Positions
  <2>2. before'.seq + 1 >= pointer'.seq
    <3>1. before'.seq = pointer.seq /\ pointer'.seq = pointer.seq
      BY <1>1, <1>3
    <3>2. pointer.seq \in Nat => pointer.seq + 1 >= pointer.seq
      OBVIOUS
    <3> QED
      BY <1>2, <3>1, <3>2
  <2>3. run'.at = "prune lists" /\ pointer'.list = dstate'
    BY <1>1, <1>3
  <2> QED
    BY <2>1, <2>2, <2>3 DEF Positions
<1>6. Packages'
  <2>1. pointer.seq > 0 => In(pointer', objects)
    BY <1>3, MoreIsEnough DEF Inv, Packages
  <2> QED
    BY <1>1, <1>3, <2>1 DEF Inv, Packages
<1>7. Lists'
  BY <1>1, <1>2, <1>3 DEF Lists
<1> QED
  BY <1>4, <1>5, <1>6, <1>7 DEF Inv

LEMMA PruneListsKeeps ==
  ASSUME Grace, Inv, PruneLists
  PROVE  Inv'
<1>1. /\ run.at = "prune lists" /\ run' = [at |-> "idle"]
      /\ objects' = [objects EXCEPT !.lists = {d \in @ : d > dstate - Keep}]
      /\ UNCHANGED <<pstate, dstate, pointer, before>>
  BY DEF PruneLists, Resting
<1>2. Shapes /\ dstate \in Nat /\ pointer.list = dstate
  BY <1>1 DEF Inv, Shapes, Positions
<1>3. /\ objects' = [artifacts |-> objects'.artifacts, deltas |-> objects'.deltas,
                     lists |-> objects'.lists]
      /\ objects'.artifacts = objects.artifacts /\ objects'.deltas = objects.deltas
      /\ objects'.lists = {d \in objects.lists : d > dstate - Keep}
  BY <1>1, <1>2 DEF Shapes
<1>4. Shapes'
  BY <1>1, <1>2, <1>3 DEF Shapes, Document
<1>5. Positions'
  BY <1>1 DEF Inv, Positions
<1>6. Packages'
  BY <1>1, <1>3 DEF Inv, Packages, In
<1>7. Lists'
  <2>1. pointer.list > 0 => dstate \in objects.lists
    BY <1>2 DEF Inv, Lists
  <2>2. dstate > dstate - Keep
    BY <1>2 DEF Grace
  <2>3. pointer.list > 0 => dstate \in objects'.lists
    BY <1>3, <2>1, <2>2
  <2> QED
    BY <1>1, <1>2, <2>3 DEF Lists
<1> QED
  BY <1>4, <1>5, <1>6, <1>7 DEF Inv

LEMMA RunDiesKeeps ==
  ASSUME Inv, RunDies
  PROVE  Inv'
<1>1. run' = [at |-> "idle"] /\ UNCHANGED <<pstate, dstate, pointer, objects, before>>
  BY DEF RunDies, Resting
<1>2. Shapes'
  BY <1>1 DEF Inv, Shapes, Document
<1>3. Positions' /\ Packages' /\ Lists'
  BY <1>1 DEF Inv, Positions, Packages, Lists
<1> QED
  BY <1>2, <1>3 DEF Inv

----------------------------------------------------------------------------

\* The invariant of the aggregator, whatever the machines do (index.js publish,
\* runDomains, prune).
THEOREM Invariance ==
  ASSUME Grace
  PROVE  Spec => []Inv
<1>1. FeedsInit => Inv
  BY Initially
<1>2. Inv /\ [Next]_vars => Inv'
  <2> SUFFICES ASSUME Inv, [Next]_vars PROVE Inv'
    OBVIOUS
  <2>1. CASE Publish
    <3>1. CASE \E index \in Indexes : Put(index)
      BY <3>1, PutKeeps
    <3>2. CASE PointPackages
      BY <3>2, PointPackagesKeeps
    <3>3. CASE SaveState
      BY <3>3, SaveStateKeeps
    <3>4. CASE Prune
      BY <3>4, PruneKeeps
    <3>5. CASE PutList
      BY <3>5, PutListKeeps
    <3>6. CASE PointList
      BY <3>6, PointListKeeps
    <3>7. CASE PruneLists
      BY <3>7, PruneListsKeeps
    <3>8. CASE RunDies
      BY <3>8, RunDiesKeeps
    <3> QED
      BY <2>1, <3>1, <3>2, <3>3, <3>4, <3>5, <3>6, <3>7, <3>8 DEF Publish
  <2>2. CASE UNCHANGED pvars
    BY <2>2, Untouched
  <2>3. Tick => UNCHANGED pvars
    BY DEF Tick, Fetch, InstallList, KeepList, ApplyDelta, ApplyFull, GiveUp, SameSeq, Commit,
           Save
  <2>4. NothingNew \/ RefreshDies \/ UNCHANGED vars => UNCHANGED pvars
    BY DEF NothingNew, RefreshDies, vars
  <2> QED
    BY <2>1, <2>2, <2>3, <2>4 DEF Next
<1> QED
  BY <1>1, <1>2, PTL DEF Spec

\* What the pointer and the one before it name is in the bucket at every point of
\* every run, for any window and any deaths (index.js prune, writePointer).
THEOREM NamesWhatIsThereAlways ==
  ASSUME Grace
  PROVE  Spec => []NamesWhatIsThere
  BY Invariance, Enough, PTL

----------------------------------------------------------------------------
(* Deltas.  A machine may hold an index that no run published: the rows that a delta  *)
(* or a pointer gave it before it died, over those of an older sequence.  What the    *)
(* invariant below says of it is said row by row.                                      *)

\* Every set of numbers that is not empty has a least element.  The initial segments
\* 0 .. n are finite sets, whose strict inclusion is well founded.
LEMMA LeastNat ==
  ASSUME NEW T, T \subseteq Nat, T # {}
  PROVE  \E x \in T : \A y \in T : x <= y
<1> DEFINE C == {0 .. n : n \in T}
<1>1. C \subseteq FiniteSubsetsOf(Nat)
  <2> SUFFICES ASSUME NEW n \in T PROVE IsFiniteSet(0 .. n) /\ 0 .. n \subseteq Nat
    BY DEF FiniteSubsetsOf
  <2> QED BY FS_Interval
<1>2. C # {}
  OBVIOUS
<1>3. IsWellFoundedOn(StrictSubsetOrdering(Nat), FiniteSubsetsOf(Nat))
  BY FS_StrictSubsetOrderingWellFounded
<1>4. PICK c \in C : \A d \in C : ~ (<<d, c>> \in StrictSubsetOrdering(Nat))
  <2> HIDE DEF C
  <2> QED BY <1>1, <1>2, <1>3, WFMin
<1>5. PICK x \in T : c = 0 .. x
  OBVIOUS
<1>6. ASSUME NEW y \in T, y < x PROVE FALSE
  <2>1. 0 .. y \subseteq 0 .. x /\ 0 .. x \subseteq Nat /\ x \in 0 .. x /\ x \notin 0 .. y
    BY <1>6
  <2>2. <<0 .. y, 0 .. x>> \in StrictSubsetOrdering(Nat)
    BY <2>1 DEF StrictSubsetOrdering
  <2> QED BY <2>2, <1>4, <1>5
<1> QED
  BY <1>6

\* A set of places in a sequence has a last one.
LEMMA LastPlace ==
  ASSUME NEW n \in Nat, NEW S, S \subseteq 1 .. n, S # {}
  PROVE  Max(S) \in S /\ \A y \in S : y <= Max(S)
<1> DEFINE T == {m \in Nat : \E x \in S : m = n - x}
<1>1. \A x \in S : x \in Int /\ n - x \in Nat
  <2> SUFFICES ASSUME NEW x \in S PROVE x \in Int /\ n - x \in Nat
    OBVIOUS
  <2>1. x \in 1 .. n
    OBVIOUS
  <2> QED BY <2>1
<1>2. T \subseteq Nat /\ T # {}
  <2>1. PICK x \in S : TRUE
    OBVIOUS
  <2>2. n - x \in T
    BY <1>1
  <2> QED BY <2>2
<1>3. PICK d \in T : \A e \in T : d <= e
  <2> HIDE DEF T
  <2> QED BY <1>2, LeastNat
<1>4. PICK x \in S : d = n - x
  OBVIOUS
<1>5. \A y \in S : x >= y
  <2> SUFFICES ASSUME NEW y \in S PROVE x >= y
    OBVIOUS
  <2>1. n - y \in T
    BY <1>1
  <2>2. d <= n - y
    BY <1>3, <2>1
  <2>3. x \in Int /\ y \in Int
    BY <1>1
  <2> QED BY <1>4, <2>2, <2>3
<1>6. Max(S) \in S /\ \A y \in S : Max(S) >= y
  BY <1>5 DEF Max
<1> QED BY <1>1, <1>6

\* What an index says of a package.
Row(x, k) == IF k \in DOMAIN x THEN x[k] ELSE Removed

\* A delta gives every package it names its new row and leaves the others alone.
LEMMA Applied ==
  ASSUME NEW x, NEW ops, NEW k
  PROVE  Row(Apply(x, ops), k) = IF k \in DOMAIN ops THEN ops[k] ELSE Row(x, k)
  BY DEF Row, Apply

\* What it names is what differs.
LEMMA DiffRows ==
  ASSUME NEW x, NEW y, NEW k
  PROVE  /\ k \in DOMAIN Diff(x, y) => Diff(x, y)[k] = Row(y, k)
         /\ k \notin DOMAIN Diff(x, y) => Row(x, k) = Row(y, k)
  BY DEF Row, Diff

\* An index as a client can hold it.
Plain(x) == x = [k \in DOMAIN x |-> x[k]] /\ \A k \in DOMAIN x : x[k] # Removed

\* Two indexes with the same rows are the same.
LEMMA SameRows ==
  ASSUME NEW x, NEW y, Plain(x), Plain(y), \A k : Row(x, k) = Row(y, k)
  PROVE  x = y
<1>1. \A k : k \in DOMAIN x <=> k \in DOMAIN y
  BY DEF Row, Plain
<1>2. DOMAIN x = DOMAIN y
  BY <1>1
<1>3. \A k \in DOMAIN x : x[k] = y[k]
  BY <1>2 DEF Row
<1> QED
  BY <1>2, <1>3 DEF Plain

LEMMA PlainIndexes ==
  /\ Plain(NoIndex)
  /\ \A x \in Indexes : Plain(x)
  /\ \A x, ops : Plain(Apply(x, ops))
<1>1. Plain(NoIndex)
  BY DEF Plain, NoIndex
<1>2. \A x \in Indexes : Plain(x)
  BY PublisherAssumption DEF Plain
<1>3. ASSUME NEW x, NEW ops
      PROVE  Plain(Apply(x, ops))
  <2> DEFINE left(k) == IF k \in DOMAIN ops THEN ops[k] ELSE x[k]
             D == {k \in DOMAIN x \cup DOMAIN ops : left(k) # Removed}
             y == [k \in D |-> left(k)]
  <2>1. Apply(x, ops) = y
    BY DEF Apply
  <2>2. DOMAIN y = D /\ \A k \in D : y[k] # Removed
    OBVIOUS
  <2>3. y = [k \in D |-> y[k]]
    OBVIOUS
  <2> HIDE DEF y
  <2>4. Plain(y)
    BY <2>2, <2>3 DEF Plain
  <2> QED
    BY <2>1, <2>4
<1> QED
  BY <1>1, <1>2, <1>3

----------------------------------------------------------------------------
(* The window of steps.  H is what the sequences stood for: H[s] the index of s.      *)

\* The last n steps that lead to `top`.
Step(H, s) == [from |-> s, ops |-> Diff(H[s], H[s + 1])]
StepsOf(H) == {Step(H, s) : s \in Int}
Chain(H, n, top) == [i \in 1 .. n |-> Step(H, (top - n) + i - 1)]

LEMMA ChainFacts ==
  ASSUME NEW H, NEW n \in Nat, NEW top \in Nat
  PROVE  /\ Chain(H, n, top) \in Seq(StepsOf(H))
         /\ Len(Chain(H, n, top)) = n /\ DOMAIN Chain(H, n, top) = 1 .. n
         /\ \A i \in 1 .. n : Chain(H, n, top)[i] = Step(H, (top - n) + i - 1)
<1> DEFINE c == Chain(H, n, top)
<1>1. c \in [1 .. n -> StepsOf(H)]
  <2>1. \A i \in 1 .. n : Step(H, (top - n) + i - 1) \in StepsOf(H)
    BY DEF StepsOf
  <2> QED BY <2>1 DEF Chain
<1>2. c \in Seq(StepsOf(H)) /\ Len(c) = n /\ DOMAIN c = 1 .. n
  <2> HIDE DEF c
  <2> QED BY <1>1
<1> QED
  BY <1>2 DEF Chain

\* What the operators on sequences do to one.
LEMMA Appended ==
  ASSUME NEW S, NEW q \in Seq(S), NEW e \in S
  PROVE  /\ Append(q, e) \in Seq(S) /\ Len(Append(q, e)) = Len(q) + 1
         /\ \A i \in 1 .. Len(q) : Append(q, e)[i] = q[i]
         /\ Append(q, e)[Len(q) + 1] = e
  OBVIOUS

LEMMA Cut ==
  ASSUME NEW S, NEW q \in Seq(S), NEW m \in 1 .. Len(q)
  PROVE  /\ SubSeq(q, m, Len(q)) \in Seq(S) /\ Len(SubSeq(q, m, Len(q))) = (Len(q) - m) + 1
         /\ \A i \in 1 .. (Len(q) - m) + 1 : SubSeq(q, m, Len(q))[i] = q[m + i - 1]
  OBVIOUS

LEMMA SameSeqs ==
  ASSUME NEW S, NEW q \in Seq(S), NEW r \in Seq(S), Len(q) = Len(r),
         \A i \in 1 .. Len(q) : q[i] = r[i]
  PROVE  q = r
  OBVIOUS

\* One more step.
LEMMA ChainGrows ==
  ASSUME NEW H, NEW n \in Nat, NEW top \in Nat
  PROVE  Append(Chain(H, n, top), Step(H, top)) = Chain(H, n + 1, top + 1)
<1>1. PICK c, l, t : c = Chain(H, n, top) /\ l = n + 1 /\ t = top + 1
  OBVIOUS
<1>2. PICK d, e : d = Chain(H, l, t) /\ e = Step(H, top)
  OBVIOUS
<1>3. l \in Nat /\ t \in Nat
  BY <1>1
<1>4. /\ c \in Seq(StepsOf(H)) /\ Len(c) = n
      /\ \A i \in 1 .. n : c[i] = Step(H, (top - n) + i - 1)
  BY <1>1, ChainFacts
<1>5. /\ d \in Seq(StepsOf(H)) /\ Len(d) = l
      /\ \A i \in 1 .. l : d[i] = Step(H, (t - l) + i - 1)
  BY <1>2, <1>3, ChainFacts
<1>6. e \in StepsOf(H)
  BY <1>2 DEF StepsOf
<1>7. /\ Append(c, e) \in Seq(StepsOf(H)) /\ Len(Append(c, e)) = Len(c) + 1
      /\ \A i \in 1 .. Len(c) : Append(c, e)[i] = c[i]
      /\ Append(c, e)[Len(c) + 1] = e
  BY <1>4, <1>6, Appended
<1>8. ASSUME NEW i \in 1 .. l
      PROVE  Append(c, e)[i] = d[i]
  <2>1. (t - l) + i - 1 = (top - n) + i - 1 /\ (i = n + 1 \/ i \in 1 .. n)
    BY <1>1
  <2>2. CASE i \in 1 .. n
    BY <1>4, <1>5, <1>7, <2>1, <2>2
  <2>3. CASE i = n + 1
    <3>1. (t - l) + i - 1 = top
      BY <1>1, <2>3
    <3> QED BY <1>2, <1>4, <1>5, <1>7, <2>3, <3>1
  <2> QED BY <2>1, <2>2, <2>3
<1>9. Append(c, e) = d
  <2>1. Len(Append(c, e)) = l
    BY <1>1, <1>4, <1>7
  <2> QED BY <1>5, <1>7, <1>8, <2>1, SameSeqs
<1> QED BY <1>1, <1>2, <1>9

\* The last of the steps.
LEMMA ChainCut ==
  ASSUME NEW H, NEW n \in Nat, NEW top \in Nat, NEW m \in 1 .. n
  PROVE  SubSeq(Chain(H, n, top), m, n) = Chain(H, (n - m) + 1, top)
<1>1. PICK c, l : c = Chain(H, n, top) /\ l = (n - m) + 1
  OBVIOUS
<1>2. PICK d : d = Chain(H, l, top)
  OBVIOUS
<1>3. l \in Nat
  BY <1>1
<1>4. /\ c \in Seq(StepsOf(H)) /\ Len(c) = n
      /\ \A i \in 1 .. n : c[i] = Step(H, (top - n) + i - 1)
  BY <1>1, ChainFacts
<1>5. /\ d \in Seq(StepsOf(H)) /\ Len(d) = l
      /\ \A i \in 1 .. l : d[i] = Step(H, (top - l) + i - 1)
  BY <1>2, <1>3, ChainFacts
<1>6. /\ SubSeq(c, m, n) \in Seq(StepsOf(H)) /\ Len(SubSeq(c, m, n)) = l
      /\ \A i \in 1 .. l : SubSeq(c, m, n)[i] = c[m + i - 1]
  BY <1>1, <1>4, Cut
<1>7. ASSUME NEW i \in 1 .. l
      PROVE  SubSeq(c, m, n)[i] = d[i]
  <2>1. m + i - 1 \in 1 .. n /\ (top - n) + (m + i - 1) - 1 = (top - l) + i - 1
    BY <1>1
  <2>2. c[m + i - 1] = Step(H, (top - n) + (m + i - 1) - 1)
    BY <1>4, <2>1
  <2> QED BY <1>5, <1>6, <2>1, <2>2
<1>8. SubSeq(c, m, n) = d
  BY <1>5, <1>6, <1>7, SameSeqs
<1> QED BY <1>1, <1>2, <1>8

\* Rows that no step from one sequence to a later one touches are the same in both.
Still(H, low, high, k) == \A s \in low .. high - 1 : Row(H[s], k) = Row(H[s + 1], k)
Same(H, low, high, k) == \A s \in low .. high : Row(H[s], k) = Row(H[high], k)

LEMMA Unchanged ==
  ASSUME NEW H, NEW low \in Nat, NEW high \in Nat, NEW k, Still(H, low, high, k)
  PROVE  Same(H, low, high, k)
<1> USE DEF Still, Same
<1> DEFINE Differs == {n \in Nat : n <= high /\ low <= high - n
                                   /\ Row(H[high - n], k) # Row(H[high], k)}
<1>1. Differs = {}
  <2> SUFFICES ASSUME Differs # {} PROVE FALSE
    OBVIOUS
  <2>1. PICK n \in Differs : \A m \in Differs : n <= m
    <3>1. Differs \subseteq Nat
      OBVIOUS
    <3> HIDE DEF Differs
    <3> QED BY <3>1, LeastNat
  <2>2. n \in Nat /\ n <= high /\ low <= high - n /\ Row(H[high - n], k) # Row(H[high], k)
    OBVIOUS
  <2>3. n # 0
    BY <2>2
  <2>4. n - 1 \in Nat /\ n - 1 <= high /\ low <= high - (n - 1) /\ ~(n <= n - 1)
    BY <2>2, <2>3
  <2>5. Row(H[high - (n - 1)], k) = Row(H[high], k)
    BY <2>1, <2>4
  <2>6. high - n \in low .. high - 1 /\ (high - n) + 1 = high - (n - 1)
    BY <2>2, <2>3
  <2>7. Row(H[high - n], k) = Row(H[(high - n) + 1], k)
    BY <2>6
  <2> QED BY <2>2, <2>5, <2>6, <2>7
<1>2. ASSUME NEW s \in low .. high
      PROVE  Row(H[s], k) = Row(H[high], k)
  <2>1. high - s \in Nat /\ high - s <= high /\ low <= high - (high - s) /\ high - (high - s) = s
    OBVIOUS
  <2>2. high - s \notin Differs
    BY <1>1
  <2> QED BY <2>1, <2>2
<1> QED BY <1>2

\* A delta composed from the steps i .. on leads from the sequence they start at to
\* `top`: what it names has the row of `top`, what it does not name has had that row
\* ever since.
LEMMA ComposeChain ==
  ASSUME NEW H, NEW n \in Nat, NEW top \in Nat, n <= top, NEW i \in 1 .. n, NEW k,
         NEW ops, ops = Compose(Chain(H, n, top), i)
  PROVE  /\ k \in DOMAIN ops => ops[k] = Row(H[top], k)
         /\ k \notin DOMAIN ops =>
              \A s \in (top - n) + i - 1 .. top : Row(H[s], k) = Row(H[top], k)
<1>1. PICK c : c = Chain(H, n, top)
  OBVIOUS
<1>2. Len(c) = n /\ \A j \in 1 .. n : c[j] = Step(H, (top - n) + j - 1)
  BY <1>1, ChainFacts
<1> DEFINE touching == {j \in i .. n : k \in DOMAIN c[j].ops}
<1>3. /\ k \in DOMAIN ops <=> touching # {}
      /\ k \in DOMAIN ops => ops[k] = c[Max(touching)].ops[k]
  BY <1>1, <1>2 DEF Compose
<1>4. ASSUME NEW j \in i .. n
      PROVE  /\ (top - n) + j - 1 \in Nat
             /\ c[j].ops = Diff(H[(top - n) + j - 1], H[(top - n) + j])
  <2>1. j \in 1 .. n /\ (top - n) + j - 1 \in Nat /\ ((top - n) + j - 1) + 1 = (top - n) + j
    OBVIOUS
  <2>2. c[j] = Step(H, (top - n) + j - 1)
    BY <1>2, <2>1
  <2> QED BY <2>1, <2>2 DEF Step
\* From a sequence on that no step touches, the rows are those of `top`.
<1>5. ASSUME NEW m \in i .. n + 1, \A j \in m .. n : j \notin touching
      PROVE  \A s \in (top - n) + m - 1 .. top : Row(H[s], k) = Row(H[top], k)
  <2>1. PICK low : low = (top - n) + m - 1
    OBVIOUS
  <2>2. low \in Nat
    BY <2>1
  <2>3. ASSUME NEW s \in low .. top - 1
        PROVE  Row(H[s], k) = Row(H[s + 1], k)
    <3>1. PICK j : j = (s - (top - n)) + 1
      OBVIOUS
    <3>2. j \in i .. n /\ j \in m .. n /\ (top - n) + j - 1 = s /\ (top - n) + j = s + 1
      BY <2>1, <3>1
    <3>3. c[j].ops = Diff(H[s], H[s + 1])
      BY <1>4, <3>2
    <3>4. k \notin DOMAIN c[j].ops
      BY <1>5, <3>2
    <3> QED BY <3>3, <3>4, DiffRows
  <2>4. \A s \in low .. top : Row(H[s], k) = Row(H[top], k)
    <3>1. Still(H, low, top, k)
      BY <2>3 DEF Still
    <3>2. Same(H, low, top, k)
      BY <2>2, <3>1, Unchanged
    <3> QED BY <3>2 DEF Same
  <2> QED BY <2>1, <2>4
<1>6. ASSUME touching # {}
      PROVE  ops[k] = Row(H[top], k)
  <2>1. PICK T, m : T = touching /\ m = Max(T)
    OBVIOUS
  <2>2. T \subseteq 1 .. n /\ T # {}
    BY <2>1, <1>6
  <2>3. m \in T /\ \A y \in T : y <= m
    BY <2>1, <2>2, LastPlace
  <2>4. m \in i .. n /\ k \in DOMAIN c[m].ops
    BY <2>1, <2>3
  <2>5. \A j \in m + 1 .. n : j \notin touching
    <3> SUFFICES ASSUME NEW j \in m + 1 .. n PROVE j \notin T
      BY <2>1
    <3>1. ~(j <= m)
      BY <2>4
    <3> QED BY <2>3, <3>1
  <2>6. PICK l : l = m + 1
    OBVIOUS
  <2>7. l \in i .. n + 1 /\ \A j \in l .. n : j \notin touching
    BY <2>4, <2>5, <2>6
  <2>8. \A s \in (top - n) + l - 1 .. top : Row(H[s], k) = Row(H[top], k)
    <3> HIDE DEF touching
    <3> QED BY <1>5, <2>7
  <2>9. Row(H[(top - n) + m], k) = Row(H[top], k)
    <3>1. (top - n) + m \in (top - n) + l - 1 .. top
      BY <2>4, <2>6
    <3> QED BY <2>8, <3>1
  <2>10. c[m].ops[k] = Row(H[(top - n) + m], k)
    <3>1. c[m].ops = Diff(H[(top - n) + m - 1], H[(top - n) + m])
      BY <1>4, <2>4
    <3> QED BY <2>4, <3>1, DiffRows
  <2>11. ops[k] = c[m].ops[k]
    <3>1. k \in DOMAIN ops /\ m = Max(touching)
      BY <1>3, <1>6, <2>1
    <3> HIDE DEF touching
    <3> QED BY <1>3, <3>1
  <2> QED BY <2>9, <2>10, <2>11
<1>7. ASSUME touching = {}
      PROVE  \A s \in (top - n) + i - 1 .. top : Row(H[s], k) = Row(H[top], k)
  <2>1. i \in i .. n + 1 /\ \A j \in i .. n : j \notin touching
    BY <1>7
  <2> HIDE DEF touching
  <2> QED BY <1>5, <2>1
<1> QED
  <2> HIDE DEF touching
  <2> QED BY <1>3, <1>6, <1>7

\* The deltas of a document lead to its sequence.
Leads(H, deltas, top) ==
  \A s \in DOMAIN deltas :
    /\ s \in Nat /\ s < top
    /\ \A k \in DOMAIN deltas[s] : deltas[s][k] = Row(H[top], k)
    /\ \A k : k \notin DOMAIN deltas[s] => \A j \in s .. top : Row(H[j], k) = Row(H[top], k)

LEMMA ChainLeads ==
  ASSUME NEW H, NEW n \in Nat, NEW top \in Nat, n <= top
  PROVE  Leads(H, DeltasOf(Chain(H, n, top)), top)
<1>1. PICK c : c = Chain(H, n, top)
  OBVIOUS
<1>2. DOMAIN c = 1 .. n /\ \A j \in 1 .. n : c[j].from = (top - n) + j - 1
  <2>1. DOMAIN c = 1 .. n /\ \A j \in 1 .. n : c[j] = Step(H, (top - n) + j - 1)
    BY <1>1, ChainFacts
  <2> QED BY <2>1 DEF Step
<1>3. PICK d : d = DeltasOf(c)
  OBVIOUS
<1> SUFFICES ASSUME NEW s \in DOMAIN d
             PROVE  /\ s \in Nat /\ s < top
                    /\ \A k \in DOMAIN d[s] : d[s][k] = Row(H[top], k)
                    /\ \A k : k \notin DOMAIN d[s] =>
                         \A j \in s .. top : Row(H[j], k) = Row(H[top], k)
  BY <1>1, <1>3 DEF Leads
<1>4. /\ \E i \in 1 .. n : c[i].from = s
      /\ d[s] = Compose(c, CHOOSE i \in 1 .. n : c[i].from = s)
  BY <1>2, <1>3 DEF DeltasOf
<1>5. PICK i \in 1 .. n : c[i].from = s /\ d[s] = Compose(c, i)
  BY <1>4
<1>6. s = (top - n) + i - 1
  BY <1>2, <1>5
<1>7. s \in Nat /\ s < top
  BY <1>6
<1>8. ASSUME NEW k
      PROVE  /\ k \in DOMAIN d[s] => d[s][k] = Row(H[top], k)
             /\ k \notin DOMAIN d[s] => \A j \in s .. top : Row(H[j], k) = Row(H[top], k)
  <2>1. PICK ops : ops = d[s]
    OBVIOUS
  <2>2. ops = Compose(Chain(H, n, top), i)
    BY <1>1, <1>5, <2>1
  <2>3. /\ k \in DOMAIN ops => ops[k] = Row(H[top], k)
        /\ k \notin DOMAIN ops =>
             \A j \in (top - n) + i - 1 .. top : Row(H[j], k) = Row(H[top], k)
    BY <2>2, ComposeChain
  <2> QED BY <1>6, <2>1, <2>3
<1> QED
  BY <1>7, <1>8

\* What is said of the sequences up to `top` stays true when a later one is published.
LEMMA SameHistory ==
  ASSUME NEW H, NEW G, NEW top \in Nat, \A s \in 0 .. top : G[s] = H[s]
  PROVE  /\ \A n \in 0 .. top : Chain(G, n, top) = Chain(H, n, top)
         /\ \A deltas : Leads(H, deltas, top) => Leads(G, deltas, top)
<1>1. ASSUME NEW n \in 0 .. top
      PROVE  Chain(G, n, top) = Chain(H, n, top)
  <2>1. ASSUME NEW i \in 1 .. n
        PROVE  Step(G, (top - n) + i - 1) = Step(H, (top - n) + i - 1)
    <3>1. PICK s : s = (top - n) + i - 1
      OBVIOUS
    <3>2. s \in 0 .. top /\ s + 1 \in 0 .. top
      BY <3>1
    <3>3. G[s] = H[s] /\ G[s + 1] = H[s + 1]
      BY <3>2
    <3> QED BY <3>1, <3>3 DEF Step
  <2> QED BY <2>1 DEF Chain
<1>2. ASSUME NEW deltas, Leads(H, deltas, top)
      PROVE  Leads(G, deltas, top)
  <2> SUFFICES ASSUME NEW s \in DOMAIN deltas
               PROVE  /\ s \in Nat /\ s < top
                      /\ \A k \in DOMAIN deltas[s] : deltas[s][k] = Row(G[top], k)
                      /\ \A k : k \notin DOMAIN deltas[s] =>
                           \A j \in s .. top : Row(G[j], k) = Row(G[top], k)
    BY DEF Leads
  <2>1. /\ s \in Nat /\ s < top
        /\ \A k \in DOMAIN deltas[s] : deltas[s][k] = Row(H[top], k)
        /\ \A k : k \notin DOMAIN deltas[s] =>
             \A j \in s .. top : Row(H[j], k) = Row(H[top], k)
    BY <1>2 DEF Leads
  <2>2. G[top] = H[top] /\ \A j \in s .. top : G[j] = H[j]
    BY <2>1
  <2> QED BY <2>1, <2>2
<1> QED BY <1>1, <1>2

----------------------------------------------------------------------------
(* The machine.                                                                        *)

\* Every row of the index x is that of one of the sequences s .. top.
Within(H, x, s, top) == \A k : \E j \in s .. top : Row(x, k) = Row(H[j], k)

\* A delta from the oldest of them leads to its own.
LEMMA DeltaAdvances ==
  ASSUME NEW H, NEW x, NEW deltas, NEW top \in Nat, NEW t \in 0 .. top,
         Leads(H, deltas, t), NEW s \in DOMAIN deltas, Within(H, x, s, top)
  PROVE  Within(H, Apply(x, deltas[s]), t, top)
<1>1. PICK ops : ops = deltas[s]
  OBVIOUS
<1>2. /\ s \in Nat /\ s < t
      /\ \A k \in DOMAIN ops : ops[k] = Row(H[t], k)
      /\ \A k : k \notin DOMAIN ops => \A j \in s .. t : Row(H[j], k) = Row(H[t], k)
  BY <1>1 DEF Leads
<1>3. ASSUME NEW k
      PROVE  \E j \in t .. top : Row(Apply(x, ops), k) = Row(H[j], k)
  <2>1. Row(Apply(x, ops), k) = IF k \in DOMAIN ops THEN ops[k] ELSE Row(x, k)
    BY Applied
  <2>2. t \in t .. top
    OBVIOUS
  <2>3. CASE k \in DOMAIN ops
    BY <1>2, <2>1, <2>2, <2>3
  <2>4. CASE k \notin DOMAIN ops
    <3>1. PICK j \in s .. top : Row(x, k) = Row(H[j], k)
      BY DEF Within
    <3>2. CASE j \in t .. top
      BY <2>1, <2>4, <3>1, <3>2
    <3>3. CASE j \in s .. t
      <4>1. Row(H[j], k) = Row(H[t], k)
        BY <1>2, <2>4, <3>3
      <4> QED BY <2>1, <2>2, <2>4, <3>1, <4>1
    <3>4. j \in t .. top \/ j \in s .. t
      BY <1>2
    <3> QED BY <3>2, <3>3, <3>4
  <2> QED BY <2>3, <2>4
<1> QED
  BY <1>1, <1>3 DEF Within

\* A document of a run: its index is that of its sequence, its deltas lead there.
Pointed(H, p, top) == p.seq \in 0 .. top /\ p.index = H[p.seq] /\ Leads(H, p.deltas, p.seq)

\* The steps are the last ones that lead to `top`.
Chained(H, steps, top) == \E n \in 0 .. top : steps = Chain(H, n, top)

\* What the aggregator keeps, and the run, which the history may not know yet.
Desk(H, ps, r) ==
  /\ ps.index = H[ps.seq]
  /\ Chained(H, ps.steps, ps.seq)
  /\ r.at = "pointer" =>
       /\ r.next.index \in Indexes
       /\ r.next.deltas = DeltasOf(r.steps)
       /\ Chained([H EXCEPT ![r.next.seq] = r.next.index], r.steps, r.next.seq)
  /\ r.at = "state" =>
       /\ r.next.index = H[r.next.seq]
       /\ Chained(H, r.steps, r.next.seq)

\* The files of the machine: the index is somewhere from the sequence in state.json on.
Held(H, d, top) ==
  /\ Plain(d.index)
  /\ d.state.seq \in 0 .. top
  /\ Within(H, d.index, d.state.seq, top)

\* A refresh under way read state.json and a document, and before it commits the index
\* is at least at the document's.
Reading(H, d, c, top) ==
  c.at # "idle" =>
    /\ c.state.seq = d.state.seq
    /\ Pointed(H, c.pointer, top)
    /\ d.state.seq <= c.pointer.seq
    /\ c.at = "commit" => Within(H, d.index, c.pointer.seq, top)

\* Nothing of it depends on the sequences still to come.
LEMMA Later ==
  ASSUME NEW H, NEW G, NEW top \in Nat, NEW new \in Nat, top <= new,
         \A s \in 0 .. top : G[s] = H[s]
  PROVE  /\ \A p : Pointed(H, p, top) => Pointed(G, p, new)
         /\ \A d : Held(H, d, top) => Held(G, d, new)
         /\ \A d, c : Held(H, d, top) /\ Reading(H, d, c, top) => Reading(G, d, c, new)
<1>1. ASSUME NEW p, Pointed(H, p, top)
      PROVE  Pointed(G, p, new)
  <2>1. p.seq \in 0 .. top /\ p.index = H[p.seq] /\ Leads(H, p.deltas, p.seq)
    BY <1>1 DEF Pointed
  <2>2. PICK t \in 0 .. top : t = p.seq
    BY <2>1
  <2>3. t \in Nat /\ \A s \in 0 .. t : G[s] = H[s]
    OBVIOUS
  <2>4. \A deltas : Leads(H, deltas, t) => Leads(G, deltas, t)
    BY <2>3, SameHistory
  <2>5. p.seq \in 0 .. new /\ G[p.seq] = H[p.seq]
    BY <2>1
  <2> QED BY <2>1, <2>2, <2>4, <2>5 DEF Pointed
<1>2. ASSUME NEW x, NEW s \in 0 .. top, Within(H, x, s, top)
      PROVE  Within(G, x, s, new)
  <2>1. ASSUME NEW k
        PROVE  \E j \in s .. new : Row(x, k) = Row(G[j], k)
    <3>1. PICK j \in s .. top : Row(x, k) = Row(H[j], k)
      BY <1>2 DEF Within
    <3>2. j \in s .. new /\ G[j] = H[j]
      OBVIOUS
    <3> QED BY <3>1, <3>2
  <2> QED BY <2>1 DEF Within
<1>3. ASSUME NEW d, Held(H, d, top)
      PROVE  Held(G, d, new)
  <2>1. d.state.seq \in 0 .. new
    BY <1>3 DEF Held
  <2> QED BY <1>2, <1>3, <2>1 DEF Held
<1>4. ASSUME NEW d, NEW c, Held(H, d, top), Reading(H, d, c, top)
      PROVE  Reading(G, d, c, new)
  <2>1. ASSUME Pointed(H, c.pointer, top)
        PROVE  Pointed(G, c.pointer, new) /\ c.pointer.seq \in 0 .. top
    BY <1>1, <2>1 DEF Pointed
  <2> QED BY <1>2, <1>4, <2>1 DEF Reading
<1> QED
  BY <1>1, <1>3, <1>4

\* A machine whose sequence is the last published one has its index.
LEMMA NoneLeft ==
  ASSUME NEW H, NEW d, NEW top \in Nat, Held(H, d, top), d.state.seq = top, Plain(H[top])
  PROVE  d.index = H[top]
<1>1. \A k : Row(d.index, k) = Row(H[top], k)
  <2> SUFFICES ASSUME NEW k PROVE Row(d.index, k) = Row(H[top], k)
    OBVIOUS
  <2>1. PICK j \in top .. top : Row(d.index, k) = Row(H[j], k)
    BY DEF Held, Within
  <2>2. j = top
    OBVIOUS
  <2> QED BY <2>1, <2>2
<1>2. PICK x, y : x = d.index /\ y = H[top]
  OBVIOUS
<1>3. Plain(x) /\ Plain(y) /\ \A k : Row(x, k) = Row(y, k)
  BY <1>1, <1>2 DEF Held
<1>4. x = y
  BY <1>3, SameRows
<1> QED
  BY <1>2, <1>4

----------------------------------------------------------------------------
(* The history.  It ends, for this proof, where a sequence is published twice.         *)

Histories == [Nat -> Indexes \cup {NoIndex}]

MachineShapes ==
  /\ disk = [index |-> disk.index, list |-> disk.list, state |-> disk.state]
  /\ disk.state = [seq |-> disk.state.seq, list |-> disk.state.list, tag |-> disk.state.tag]
  /\ \/ client = Waiting
     \/ /\ client = [at |-> client.at, state |-> client.state, pointer |-> client.pointer]
        /\ client.at \in {"domains", "packages", "commit"}
        /\ client.state = [seq |-> client.state.seq, list |-> client.state.list,
                           tag |-> client.state.tag]

History(H) ==
  /\ Desk(H, pstate, run)
  /\ Pointed(H, pointer, pointer.seq) /\ Pointed(H, before, pointer.seq)
  /\ Held(H, disk, pointer.seq)
  /\ Reading(H, disk, client, pointer.seq)

Story == MachineShapes /\ (forked \/ \E H \in Histories : History(H))

LEMMA Empty ==
  ASSUME NEW H, NEW top \in Nat
  PROVE  Chained(H, <<>>, top) /\ Leads(H, <<>>, top)
<1>1. Chain(H, 0, top) = <<>>
  BY DEF Chain
<1>2. Leads(H, <<>>, top)
  BY DEF Leads
<1> QED
  BY <1>1, <1>2 DEF Chained

LEMMA StoryBegins == FeedsInit => Story
<1> SUFFICES ASSUME FeedsInit PROVE Story
  OBVIOUS
<1>1. PICK H : H = [s \in Nat |-> NoIndex]
  OBVIOUS
<1>2. H \in Histories /\ H[0] = NoIndex /\ 0 \in 0 .. 0
  BY <1>1 DEF Histories
<1>3. /\ pstate = [seq |-> 0, index |-> NoIndex, steps |-> <<>>]
      /\ pointer = NoPointer /\ before = NoPointer /\ run = Resting
      /\ disk = NoFiles /\ client = Waiting
  BY DEF FeedsInit, Init
<1>4. Chained(H, <<>>, 0) /\ Leads(H, <<>>, 0)
  BY Empty
<1>5. Desk(H, pstate, run)
  BY <1>2, <1>3, <1>4 DEF Desk, Resting
<1>6. Pointed(H, pointer, pointer.seq) /\ Pointed(H, before, pointer.seq)
  BY <1>2, <1>3, <1>4 DEF Pointed, NoPointer
<1>7. Within(H, NoIndex, 0, 0)
  BY <1>2 DEF Within
<1>8. Held(H, disk, pointer.seq)
  BY <1>2, <1>3, <1>7, PlainIndexes DEF Held, NoPointer, NoFiles
<1>9. Reading(H, disk, client, pointer.seq)
  BY <1>3 DEF Reading, Waiting
<1>10. MachineShapes
  BY <1>3 DEF MachineShapes, NoFiles
<1> QED
  BY <1>2, <1>5, <1>6, <1>8, <1>9, <1>10 DEF Story, History

LEMMA MaxOfTwo ==
  ASSUME NEW a \in Int, NEW b \in Int
  PROVE  Max({a, b}) = IF a >= b THEN a ELSE b
<1>1. PICK m : m = IF a >= b THEN a ELSE b
  OBVIOUS
<1>2. m \in {a, b} /\ \A y \in {a, b} : m >= y
  BY <1>1
<1>3. \A x \in {a, b} : (\A y \in {a, b} : x >= y) => x = m
  BY <1>1
<1>4. Max({a, b}) = m
  BY <1>2, <1>3 DEF Max
<1> QED
  BY <1>1, <1>4

\* The window with one more step is the window of the next sequence.
LEMMA WindowSlides ==
  ASSUME NEW H \in Histories, NEW t \in Nat, NEW n \in 0 .. t, NEW index \in Indexes,
         NEW all, all = Append(Chain(H, n, t), [from |-> t, ops |-> Diff(H[t], index)]),
         NEW G, G = [H EXCEPT ![t + 1] = index]
  PROVE  Chained(G, SubSeq(all, Max({1, Len(all) - Window + 1}), Len(all)), t + 1)
<1>1. /\ \A s \in 0 .. t : G[s] = H[s]
      /\ G[t + 1] = index
  BY DEF Histories
<1>2. Chain(G, n, t) = Chain(H, n, t)
  BY <1>1, SameHistory
<1>3. Step(G, t) = [from |-> t, ops |-> Diff(H[t], index)]
  BY <1>1 DEF Step
<1>4. PICK l, u : l = n + 1 /\ u = t + 1
  OBVIOUS
<1>5. l \in Nat /\ u \in Nat /\ l <= u /\ l >= 1
  BY <1>4
<1>6. all = Chain(G, l, u)
  <2>1. n \in Nat
    OBVIOUS
  <2>2. Append(Chain(G, n, t), Step(G, t)) = Chain(G, n + 1, t + 1)
    BY <2>1, ChainGrows
  <2> QED BY <1>2, <1>3, <1>4, <2>2
<1>7. Len(all) = l
  <2>1. Len(Chain(G, l, u)) = l
    BY <1>5, ChainFacts
  <2> QED BY <1>6, <2>1
<1>8. PICK m : m = Max({1, l - Window + 1})
  OBVIOUS
<1>9. m \in 1 .. l
  <2>1. Window \in Nat /\ Window >= 1 /\ l - Window + 1 \in Int /\ l - Window + 1 <= l
    BY <1>5, PublisherAssumption
  <2>2. m = IF 1 >= l - Window + 1 THEN 1 ELSE l - Window + 1
    BY <1>8, <2>1, MaxOfTwo
  <2> QED BY <1>5, <2>1, <2>2
<1>10. SubSeq(Chain(G, l, u), m, l) = Chain(G, (l - m) + 1, u)
  BY <1>5, <1>9, ChainCut
<1>11. (l - m) + 1 \in 0 .. u
  BY <1>5, <1>9
<1>12. Chained(G, SubSeq(all, m, l), u)
  BY <1>6, <1>10, <1>11 DEF Chained
<1> QED
  BY <1>4, <1>7, <1>8, <1>12

\* A step that leaves the sequences alone.
LEMMA SameSequences ==
  ASSUME Inv, NEW H \in Histories, History(H), UNCHANGED <<disk, client>>,
         Desk(H, pstate', run'),
         pointer'.seq = pointer.seq, pointer'.index = pointer.index,
         pointer'.deltas = pointer.deltas, before' \in {before, pointer}
  PROVE  History(H)'
<1>1. /\ Pointed(H, pointer, pointer.seq) /\ Pointed(H, before, pointer.seq)
      /\ Held(H, disk, pointer.seq) /\ Reading(H, disk, client, pointer.seq)
  BY DEF History
<1>2. Pointed(H, pointer', pointer'.seq)
  BY <1>1 DEF Pointed
<1>3. Pointed(H, before', pointer'.seq)
  BY <1>1
<1>4. Held(H, disk', pointer'.seq) /\ Reading(H, disk', client', pointer'.seq)
  BY <1>1
<1> QED
  BY <1>2, <1>3, <1>4 DEF History

LEMMA PutTold ==
  ASSUME Inv, NEW H \in Histories, History(H), NEW index \in Indexes, Put(index),
         UNCHANGED <<disk, client>>
  PROVE  History(H)'
<1>1. PICK steps, t, deltas : steps = Steps(index) /\ t = pstate.seq + 1 /\ deltas = DeltasOf(steps)
  OBVIOUS
<1>2. /\ run' = [at |-> "pointer",
                 next |-> [tag |-> 0, seq |-> t, index |-> index, deltas |-> deltas, list |-> 0],
                 steps |-> steps]
      /\ pstate' = pstate /\ pointer' = pointer /\ before' = before
  BY <1>1 DEF Put
<1>3. pstate.seq \in Nat /\ t \in Nat
  <2>1. pstate.seq \in Nat
    BY DEF Inv, Shapes
  <2> QED BY <1>1, <2>1
<1>4. pstate.index = H[pstate.seq] /\ Chained(H, pstate.steps, pstate.seq)
  BY DEF History, Desk
<1>5. PICK G : G = [H EXCEPT ![t] = index]
  OBVIOUS
<1>6. Chained(G, steps, t)
  <2>1. CASE PreviousHere
    <3>1. PICK n \in 0 .. pstate.seq : pstate.steps = Chain(H, n, pstate.seq)
      BY <1>4 DEF Chained
    <3>2. PICK all : all = Append(pstate.steps,
                                  [from |-> pstate.seq, ops |-> Diff(pstate.index, index)])
      OBVIOUS
    <3>3. steps = SubSeq(all, Max({1, Len(all) - Window + 1}), Len(all))
      BY <1>1, <2>1, <3>2 DEF Steps
    <3>4. PICK s : s = pstate.seq
      OBVIOUS
    <3>5. /\ s \in Nat /\ n \in 0 .. s
          /\ all = Append(Chain(H, n, s), [from |-> s, ops |-> Diff(H[s], index)])
          /\ G = [H EXCEPT ![s + 1] = index]
      BY <1>1, <1>3, <1>4, <1>5, <3>1, <3>2, <3>4
    <3>6. Chained(G, SubSeq(all, Max({1, Len(all) - Window + 1}), Len(all)), s + 1)
      BY <3>5, WindowSlides
    <3> QED BY <1>1, <3>3, <3>4, <3>6
  <2>2. CASE ~PreviousHere
    <3>1. steps = <<>>
      BY <1>1, <2>2 DEF Steps
    <3> QED BY <1>3, <3>1, Empty
  <2> QED BY <2>1, <2>2
<1>7. Desk(H, pstate', run')
  <2>1. /\ run'.at = "pointer" /\ run'.next.index = index /\ run'.next.deltas = deltas
        /\ run'.next.seq = t /\ run'.steps = steps
    BY <1>2
  <2> QED BY <1>1, <1>2, <1>4, <1>5, <1>6, <2>1 DEF Desk
<1> QED
  BY <1>2, <1>7, SameSequences

\* A sequence that is published once more with the index it had changes nothing either.
LEMMA PointPackagesTold ==
  ASSUME Inv, NEW H \in Histories, History(H), PointPackages, ~forked',
         UNCHANGED <<disk, client>>
  PROVE  \E G \in Histories : History(G)'
<1>1. PICK next, t, top : next = run.next /\ t = run.next.seq /\ top = pointer.seq
  OBVIOUS
<1>2. PICK G : G = [H EXCEPT ![t] = next.index]
  OBVIOUS
<1>3. /\ run.at = "pointer"
      /\ run' = [run EXCEPT !.at = "state"]
      /\ pointer' = [[next EXCEPT !.list = pointer.list] EXCEPT !.tag = pointer.tag + 1]
      /\ before' = pointer /\ pstate' = pstate
      /\ t = top => next.index = pointer.index
  BY <1>1 DEF PointPackages, Point
<1>4. /\ pstate.seq \in Nat /\ top \in Nat /\ t \in Nat /\ t = pstate.seq + 1
      /\ top \in {pstate.seq, pstate.seq + 1}
      /\ run = [at |-> run.at, next |-> next, steps |-> run.steps]
      /\ Document(next)
  BY <1>1, <1>3 DEF Inv, Shapes, Positions, Resting, Document
<1>5. /\ run'.at = "state" /\ run'.next = next /\ run'.steps = run.steps
      /\ pointer'.seq = t /\ pointer'.index = next.index /\ pointer'.deltas = next.deltas
  <2>1. run'.at = "state" /\ run'.next = next /\ run'.steps = run.steps
    BY <1>3, <1>4
  <2>2. pointer'.seq = t /\ pointer'.index = next.index /\ pointer'.deltas = next.deltas
    BY <1>1, <1>3, <1>4 DEF Document
  <2> QED BY <2>1, <2>2
<1>6. /\ next.index \in Indexes /\ next.deltas = DeltasOf(run.steps)
      /\ Chained(G, run.steps, t)
      /\ pstate.index = H[pstate.seq] /\ Chained(H, pstate.steps, pstate.seq)
  BY <1>1, <1>2, <1>3 DEF History, Desk
<1>7. /\ Pointed(H, pointer, top) /\ Pointed(H, before, top)
      /\ Held(H, disk, top) /\ Reading(H, disk, client, top)
  BY <1>1 DEF History
<1>8. G \in Histories /\ G[t] = next.index
  BY <1>2, <1>4, <1>6 DEF Histories
<1>9. \A s \in 0 .. top : G[s] = H[s]
  <2> SUFFICES ASSUME NEW s \in 0 .. top PROVE G[s] = H[s]
    OBVIOUS
  <2>1. CASE s = t
    <3>1. t = top
      BY <1>4, <2>1
    <3>2. pointer.index = H[top]
      BY <1>1, <1>7 DEF Pointed
    <3> QED BY <1>3, <1>8, <2>1, <3>1, <3>2
  <2>2. CASE s # t
    BY <1>2, <2>2 DEF Histories
  <2> QED BY <2>1, <2>2
<1>10. top <= t
  BY <1>4
<1>11. Pointed(G, before', t) /\ Held(G, disk', t) /\ Reading(G, disk', client', t)
  <2>1. /\ \A p : Pointed(H, p, top) => Pointed(G, p, t)
        /\ \A d : Held(H, d, top) => Held(G, d, t)
        /\ \A d, c : Held(H, d, top) /\ Reading(H, d, c, top) => Reading(G, d, c, t)
    BY <1>4, <1>9, <1>10, Later
  <2> QED BY <1>3, <1>7, <2>1
<1>12. Pointed(G, pointer', t)
  <2>1. PICK n \in 0 .. t : run.steps = Chain(G, n, t)
    BY <1>6 DEF Chained
  <2>2. n \in Nat /\ n <= t
    BY <1>4
  <2>3. Leads(G, DeltasOf(Chain(G, n, t)), t)
    BY <1>4, <2>2, ChainLeads
  <2>4. t \in 0 .. t
    BY <1>4
  <2> QED BY <1>5, <1>6, <1>8, <2>1, <2>3, <2>4 DEF Pointed
<1>13. Desk(G, pstate', run')
  <2>1. PICK s : s = pstate.seq
    OBVIOUS
  <2>2. s \in Nat /\ s \in 0 .. top /\ \A j \in 0 .. s : G[j] = H[j]
    BY <1>4, <1>9, <2>1
  <2>3. \A n \in 0 .. s : Chain(G, n, s) = Chain(H, n, s)
    BY <2>2, SameHistory
  <2>4. Chained(G, pstate.steps, s)
    BY <1>6, <2>1, <2>3 DEF Chained
  <2> QED BY <1>1, <1>3, <1>5, <1>6, <1>8, <1>9, <2>1, <2>2, <2>4 DEF Desk
<1> QED
  BY <1>5, <1>8, <1>11, <1>12, <1>13 DEF History

LEMMA PublishTold ==
  ASSUME Inv, Story, Publish, UNCHANGED <<disk, client>>
  PROVE  Story'
<1>1. MachineShapes'
  BY DEF Story, MachineShapes
<1>2. SUFFICES ASSUME ~forked' PROVE \E H \in Histories : History(H)'
  BY <1>1 DEF Story
<1>3. forked' = forked \/ PointPackages
  BY DEF Publish, Put, SaveState, Prune, PutList, PointList, PruneLists, RunDies
<1>4. ~forked
  BY <1>2, <1>3 DEF PointPackages
<1>5. PICK H \in Histories : History(H)
  BY <1>4 DEF Story
<1>6. Desk(H, pstate, run)
  BY <1>5 DEF History
<1>7. ASSUME pstate' = pstate, run'.at \notin {"pointer", "state"}
      PROVE  Desk(H, pstate', run')
  BY <1>6, <1>7 DEF Desk
<1>8. ASSUME NEW index \in Indexes, Put(index)
      PROVE  History(H)'
  BY <1>5, <1>8, PutTold
<1>9. ASSUME PointPackages
      PROVE  \E G \in Histories : History(G)'
  BY <1>2, <1>5, <1>9, PointPackagesTold
<1>10. ASSUME SaveState
       PROVE  History(H)'
  <2>1. /\ run.at = "state" /\ run'.at = "prune" /\ pstate'.seq = run.next.seq
        /\ pstate'.index = run.next.index /\ pstate'.steps = run.steps
        /\ pointer' = pointer /\ before' = before
    BY <1>10 DEF SaveState
  <2>2. Desk(H, pstate', run')
    BY <1>6, <2>1 DEF Desk
  <2> QED BY <1>5, <2>1, <2>2, SameSequences
<1>11. ASSUME Prune \/ PutList \/ PruneLists \/ RunDies
       PROVE  History(H)'
  <2>1. /\ pstate' = pstate /\ pointer' = pointer /\ before' = before
        /\ run'.at \notin {"pointer", "state"}
    <3>1. /\ pstate' = pstate /\ pointer' = pointer /\ before' = before
          /\ run' = Resting \/ run' = [at |-> "list"]
      BY <1>11 DEF Prune, PutList, PruneLists, RunDies
    <3>2. run'.at = "idle" \/ run'.at = "list"
      BY <3>1 DEF Resting
    <3> QED BY <3>1, <3>2
  <2> QED BY <1>5, <1>7, <2>1, SameSequences
<1>12. ASSUME PointList
       PROVE  History(H)'
  <2>1. /\ pstate' = pstate /\ before' = pointer /\ run'.at = "prune lists"
        /\ pointer' = [[pointer EXCEPT !.list = dstate] EXCEPT !.tag = pointer.tag + 1]
    BY <1>12 DEF PointList, Point
  <2>2. Document(pointer)
    BY DEF Inv, Shapes
  <2>3. /\ pointer'.seq = pointer.seq /\ pointer'.index = pointer.index
        /\ pointer'.deltas = pointer.deltas
    BY <2>1, <2>2 DEF Document
  <2> QED BY <1>5, <1>7, <2>1, <2>3, SameSequences
<1> QED
  BY <1>5, <1>8, <1>9, <1>10, <1>11, <1>12 DEF Publish

\* A step of the machine that leaves the index alone, and either ends the refresh or
\* goes on with the same sequence and document.
LEMMA SameIndex ==
  ASSUME NEW H, NEW d, NEW c, NEW e, NEW f, NEW top, Held(H, d, top), Reading(H, d, c, top),
         e.index = d.index, e.state.seq = d.state.seq,
         \/ f.at = "idle"
         \/ /\ c.at # "idle" /\ f.at = "packages"
            /\ f.pointer = c.pointer /\ f.state.seq = c.state.seq
  PROVE  Held(H, e, top) /\ Reading(H, e, f, top)
  BY DEF Held, Reading

\* One that writes an index that is at the document's sequence.
LEMMA NewIndex ==
  ASSUME NEW H, NEW d, NEW c, NEW e, NEW f, NEW top \in Nat,
         Held(H, d, top), Reading(H, d, c, top), c.at # "idle",
         e.state.seq = d.state.seq, Plain(e.index), Within(H, e.index, c.pointer.seq, top),
         f.pointer = c.pointer, f.state.seq = c.state.seq
  PROVE  Held(H, e, top) /\ Reading(H, e, f, top)
<1>1. d.state.seq \in 0 .. top /\ c.pointer.seq \in 0 .. top /\ d.state.seq <= c.pointer.seq
  BY DEF Held, Reading, Pointed
<1>2. PICK s, t, x : s = d.state.seq /\ t = c.pointer.seq /\ x = e.index
  OBVIOUS
<1>3. Within(H, x, s, top)
  <2> SUFFICES ASSUME NEW k PROVE \E j \in s .. top : Row(x, k) = Row(H[j], k)
    BY DEF Within
  <2>1. PICK j \in t .. top : Row(x, k) = Row(H[j], k)
    BY <1>2 DEF Within
  <2>2. j \in s .. top
    BY <1>1, <1>2
  <2> QED BY <2>1, <2>2
<1> QED
  BY <1>2, <1>3 DEF Held, Reading

\* One that notes that sequence and ends the refresh.
LEMMA NewSequence ==
  ASSUME NEW H, NEW d, NEW c, NEW e, NEW f, NEW top,
         Held(H, d, top), Reading(H, d, c, top), c.at = "commit",
         e.index = d.index, e.state.seq = c.pointer.seq, f.at = "idle"
  PROVE  Held(H, e, top) /\ Reading(H, e, f, top)
  BY DEF Held, Reading, Pointed

LEMMA TickTold ==
  ASSUME Inv, Story, Tick
  PROVE  Story'
<1>1. /\ pointer' = pointer /\ before' = before /\ pstate' = pstate /\ run' = run
      /\ forked' = forked
  BY DEF Tick, Fetch, InstallList, KeepList, ApplyDelta, ApplyFull, GiveUp, SameSeq, Commit,
         Save, pvars
<1>2. MachineShapes
  BY DEF Story
<1>3. PICK top : top = pointer.seq
  OBVIOUS
<1>4. top \in Nat
  BY <1>3 DEF Inv, Shapes, Document
<1> DEFINE Told(H) == Held(H, disk, top) /\ Reading(H, disk, client, top)
           Kept(H) == Held(H, disk', top) /\ Reading(H, disk', client', top)
\* It is enough that every history of which disk and client were true stays one.
<1>5. SUFFICES MachineShapes' /\ \A H \in Histories : History(H) /\ Told(H) => Kept(H)
  <2>1. ASSUME NEW H \in Histories, History(H), Held(H, disk', top),
               Reading(H, disk', client', top)
        PROVE  History(H)'
    BY <1>1, <1>3, <2>1 DEF History
  <2>2. \A H \in Histories : History(H) => Told(H)
    BY <1>3 DEF History
  <2> HIDE DEF Told
  <2> QED BY <1>1, <2>1, <2>2 DEF Story
<1>6. CASE Fetch
  <2>1. PICK p \in {pointer, before} :
          /\ p.seq >= disk.state.seq
          /\ client' = [at |-> "domains", state |-> disk.state, pointer |-> p]
    BY <1>6 DEF Fetch, Accepted
  <2>2. disk' = disk
    BY <1>6 DEF Fetch
  <2>3. MachineShapes'
    BY <1>2, <2>1, <2>2 DEF MachineShapes
  <2>4. client'.at = "domains" /\ client'.state = disk.state /\ client'.pointer = p
    BY <2>1
  <2>5. ASSUME NEW H, History(H), Told(H)
        PROVE  Kept(H)
    <3>1. Pointed(H, p, top)
      BY <1>3, <2>5 DEF History
    <3> QED BY <2>1, <2>2, <2>4, <2>5, <3>1 DEF Reading
  <2> HIDE DEF Told, Kept
  <2> QED BY <2>3, <2>5
<1>7. CASE InstallList \/ KeepList
  <2>1. /\ client.at = "domains"
        /\ disk' = disk \/ disk' = [disk EXCEPT !.list = client.pointer.list]
        /\ \/ client' = [client EXCEPT !.at = "packages"]
           \/ client' = [client EXCEPT !.at = "packages", !.state.list = client.pointer.list]
    BY <1>7 DEF InstallList, KeepList
  <2>2. /\ client = [at |-> client.at, state |-> client.state, pointer |-> client.pointer]
        /\ client.state = [seq |-> client.state.seq, list |-> client.state.list,
                           tag |-> client.state.tag]
        /\ disk = [index |-> disk.index, list |-> disk.list, state |-> disk.state]
    BY <1>2, <2>1 DEF MachineShapes, Waiting
  <2>3. /\ disk' = [index |-> disk'.index, list |-> disk'.list, state |-> disk'.state]
        /\ disk'.index = disk.index /\ disk'.state = disk.state
    BY <2>1, <2>2
  <2>4. /\ client' = [at |-> client'.at, state |-> client'.state, pointer |-> client'.pointer]
        /\ client'.at = "packages" /\ client'.pointer = client.pointer
        /\ client'.state = [seq |-> client'.state.seq, list |-> client'.state.list,
                            tag |-> client'.state.tag]
        /\ client'.state.seq = client.state.seq
    BY <2>1, <2>2
  <2>5. MachineShapes'
    BY <1>2, <2>3, <2>4 DEF MachineShapes
  <2>6. ASSUME NEW H, Told(H)
        PROVE  Kept(H)
    BY <2>1, <2>3, <2>4, <2>6, SameIndex
  <2> HIDE DEF Told, Kept
  <2> QED BY <2>5, <2>6
<1>8. CASE ApplyDelta \/ ApplyFull
  <2>1. /\ client.at = "packages" /\ client' = [client EXCEPT !.at = "commit"]
        /\ \E x : disk' = [disk EXCEPT !.index = x]
    BY <1>8 DEF ApplyDelta, ApplyFull, Write
  <2>2. /\ client = [at |-> client.at, state |-> client.state, pointer |-> client.pointer]
        /\ disk = [index |-> disk.index, list |-> disk.list, state |-> disk.state]
    BY <1>2, <2>1 DEF MachineShapes, Waiting
  <2>3. /\ disk' = [index |-> disk'.index, list |-> disk'.list, state |-> disk'.state]
        /\ disk'.state = disk.state
    BY <2>1, <2>2
  <2>4. /\ client' = [at |-> client'.at, state |-> client'.state, pointer |-> client'.pointer]
        /\ client'.at = "commit" /\ client'.pointer = client.pointer
        /\ client'.state = client.state
    BY <2>1, <2>2
  <2>5. MachineShapes'
    BY <1>2, <2>1, <2>3, <2>4 DEF MachineShapes, Waiting
  <2>6. CASE ApplyDelta
    <3>1. PICK deltas, s : deltas = client.pointer.deltas /\ s = client.state.seq
      OBVIOUS
    <3>2. s \in DOMAIN deltas /\ disk' = [disk EXCEPT !.index = Apply(disk.index, deltas[s])]
      BY <2>6, <3>1 DEF ApplyDelta, DeltaHere, Write
    <3>3. disk'.index = Apply(disk.index, deltas[s])
      BY <2>2, <3>2
    <3>4. ASSUME NEW H, Told(H)
          PROVE  Kept(H)
      <4>1. PICK t : t = client.pointer.seq
        OBVIOUS
      <4>2. /\ t \in 0 .. top /\ Leads(H, deltas, t)
            /\ Within(H, disk.index, s, top)
        BY <2>1, <3>1, <3>4, <4>1 DEF Held, Reading, Pointed
      <4>3. Within(H, Apply(disk.index, deltas[s]), t, top)
        BY <1>4, <3>2, <4>2, DeltaAdvances
      <4>4. Plain(disk'.index) /\ Within(H, disk'.index, client.pointer.seq, top)
        BY <3>3, <4>1, <4>3, PlainIndexes
      <4> QED BY <1>4, <2>1, <2>3, <2>4, <3>4, <4>4, NewIndex
    <3> HIDE DEF Told, Kept
    <3> QED BY <2>5, <3>4
  <2>7. CASE ApplyFull
    <3>1. disk'.index = client.pointer.index
      BY <2>2, <2>7 DEF ApplyFull, Write
    <3>2. ASSUME NEW H \in Histories, Told(H)
          PROVE  Kept(H)
      <4>1. PICK t : t = client.pointer.seq
        OBVIOUS
      <4>2. t \in 0 .. top /\ disk'.index = H[t]
        BY <2>1, <3>1, <3>2, <4>1 DEF Reading, Pointed
      <4>3. H[t] \in Indexes \cup {NoIndex} /\ t \in t .. top
        BY <1>4, <4>2 DEF Histories
      <4>4. Plain(disk'.index)
        BY <4>2, <4>3, PlainIndexes
      <4>5. Within(H, disk'.index, client.pointer.seq, top)
        BY <4>1, <4>2, <4>3 DEF Within
      <4> QED BY <1>4, <2>1, <2>3, <2>4, <3>2, <4>4, <4>5, NewIndex
    <3> HIDE DEF Told, Kept
    <3> QED BY <2>5, <3>2
  <2> QED BY <1>8, <2>6, <2>7
<1>9. CASE GiveUp
  <2>1. disk' = disk /\ client' = Waiting /\ client'.at = "idle"
    BY <1>9 DEF GiveUp, Waiting
  <2>2. MachineShapes'
    BY <1>2, <2>1 DEF MachineShapes
  <2>3. ASSUME NEW H, Told(H)
        PROVE  Kept(H)
    BY <2>1, <2>3, SameIndex
  <2> HIDE DEF Told, Kept
  <2> QED BY <2>2, <2>3
<1>10. CASE SameSeq \/ Commit
  <2>1. /\ client' = Waiting /\ client'.at = "idle" /\ client.at \in {"packages", "commit"}
        /\ \/ disk' = disk
           \/ SameSeq /\ disk' = [disk EXCEPT !.state =
                                    [client.state EXCEPT !.tag = client.pointer.tag]]
           \/ Commit /\ disk' = [disk EXCEPT !.state =
                [client.state EXCEPT !.seq = client.pointer.seq, !.tag = client.pointer.tag]]
    BY <1>10 DEF SameSeq, Commit, Save, Waiting
  <2>2. /\ client.state = [seq |-> client.state.seq, list |-> client.state.list,
                           tag |-> client.state.tag]
        /\ disk = [index |-> disk.index, list |-> disk.list, state |-> disk.state]
    BY <1>2, <2>1 DEF MachineShapes, Waiting
  <2>3. /\ disk' = [index |-> disk'.index, list |-> disk'.list, state |-> disk'.state]
        /\ disk'.index = disk.index
        /\ disk'.state = [seq |-> disk'.state.seq, list |-> disk'.state.list,
                          tag |-> disk'.state.tag]
        /\ \/ disk'.state = disk.state
           \/ disk'.state.seq = client.state.seq
           \/ client.at = "commit" /\ disk'.state.seq = client.pointer.seq
    <3>1. CASE disk' = disk
      BY <1>2, <3>1 DEF MachineShapes
    <3>2. CASE SameSeq /\ disk' = [disk EXCEPT !.state =
                                     [client.state EXCEPT !.tag = client.pointer.tag]]
      BY <2>2, <3>2
    <3>3. CASE Commit /\ disk' = [disk EXCEPT !.state =
                [client.state EXCEPT !.seq = client.pointer.seq, !.tag = client.pointer.tag]]
      <4>1. client.at = "commit"
        BY <3>3 DEF Commit
      <4> QED BY <2>2, <3>3, <4>1
    <3> QED BY <2>1, <3>1, <3>2, <3>3
  <2>4. MachineShapes'
    BY <2>1, <2>3 DEF MachineShapes
  <2>5. ASSUME NEW H, Told(H)
        PROVE  Kept(H)
    <3>1. client.state.seq = disk.state.seq
      BY <2>1, <2>5 DEF Reading
    <3>2. CASE disk'.state.seq = disk.state.seq
      BY <2>1, <2>3, <2>5, <3>2, SameIndex
    <3>3. CASE client.at = "commit" /\ disk'.state.seq = client.pointer.seq
      BY <2>1, <2>3, <2>5, <3>3, NewSequence
    <3> QED BY <2>3, <3>1, <3>2, <3>3
  <2> HIDE DEF Told, Kept
  <2> QED BY <2>4, <2>5
<1> QED
  BY <1>6, <1>7, <1>8, <1>9, <1>10 DEF Tick

\* A machine that says it has the published sequence has the published index, package
\* by package, for any indexes, any window of deltas, any deaths of the aggregator and
\* of the refresh, and any stale pointers (feeds.rs refresh, apply_delta; delta.js
\* composeOps).
THEOREM PackagesExactAlways ==
  ASSUME Grace
  PROVE  Spec => []PackagesExact
<1>1. FeedsInit => Story
  BY StoryBegins
<1>2. Inv /\ Story /\ [Next]_vars => Story'
  <2> SUFFICES ASSUME Inv, Story, [Next]_vars PROVE Story'
    OBVIOUS
  <2>1. CASE Publish /\ UNCHANGED <<disk, client>>
    BY <2>1, PublishTold
  <2>2. CASE Tick
    BY <2>2, TickTold
  <2>3. CASE RefreshDies
    <3>1. disk' = disk /\ client' = Waiting /\ client'.at = "idle" /\ UNCHANGED pvars
      BY <2>3 DEF RefreshDies, Waiting
    <3>2. MachineShapes'
      BY <3>1 DEF Story, MachineShapes
    <3>3. ASSUME NEW H \in Histories, History(H)
          PROVE  History(H)'
      <4>1. Reading(H, disk', client', pointer'.seq)
        BY <3>1 DEF Reading
      <4> QED BY <3>1, <3>3, <4>1 DEF History, pvars
    <3>4. forked' = forked
      BY <3>1 DEF pvars
    <3> QED BY <3>2, <3>3, <3>4 DEF Story
  <2>4. CASE NothingNew \/ UNCHANGED vars
    <3>1. UNCHANGED <<pstate, pointer, run, before, forked, disk, client>>
      BY <2>4 DEF NothingNew, vars, pvars
    <3> QED BY <3>1 DEF Story, MachineShapes, History
  <2> QED
    BY <2>1, <2>2, <2>3, <2>4 DEF Next
<1>3. Inv /\ Story => PackagesExact
  <2> SUFFICES ASSUME Inv, Story, ~forked, disk.state.seq = pointer.seq
               PROVE  disk.index = pointer.index
    BY DEF PackagesExact
  <2>1. PICK H \in Histories : History(H)
    BY DEF Story
  <2>2. PICK d, top : d = disk /\ top = pointer.seq
    OBVIOUS
  <2>3. top \in Nat
    BY <2>2 DEF Inv, Shapes, Document
  <2>4. Held(H, d, top) /\ pointer.index = H[top] /\ d.state.seq = top
    BY <2>1, <2>2 DEF History, Pointed
  <2>5. Plain(H[top])
    <3>1. H[top] \in Indexes \cup {NoIndex}
      BY <2>3 DEF Histories
    <3> QED BY <3>1, PlainIndexes
  <2>6. d.index = H[top]
    BY <2>3, <2>4, <2>5, NoneLeft
  <2> QED
    BY <2>2, <2>4, <2>6
<1>4. Spec => []Inv
  BY Invariance
<1> QED
  BY <1>1, <1>2, <1>3, <1>4, PTL DEF Spec

=============================================================================
