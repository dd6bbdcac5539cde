----------------------------- MODULE AlertStore -----------------------------
(***************************************************************************)
(* The alert log (moatd/src/store.rs, and the records of alert.rs).        *)
(*                                                                         *)
(* alerts.jsonl is append only.  A line is an alert in full or an update   *)
(* of one, and what readers see is the fold of the rotated file and the    *)
(* live one.  The store keeps that fold in memory and adds each line to it *)
(* as it writes it.  A rotation carries the rows that must survive a flood *)
(* into the next file, within a cap, by writing them to a staging file and *)
(* renaming twice; a chain travels once, on the row of its first step.     *)
(*                                                                         *)
(* A file is a sequence of lines, and a crash may fall between any two of  *)
(* the steps that change the directory.                                    *)
(***************************************************************************)
EXTENDS Integers, Sequences, FiniteSetsExt, Functions

CONSTANTS
  LastAlert,   \* bound: alerts are 1 .. LastAlert, in the order of their ids
  Kinds,       \* what a new alert may be: [shown, grave, meta : BOOLEAN]
  MaxLines,    \* max_bytes, in lines
  CarryMax,    \* carry_max
  LastWrite,   \* bound: how many lines moatd writes
  MaxMarks     \* bound: how many of those change the flags of one row

ASSUME AlertStoreAssumption ==
  /\ LastAlert \in Nat \ {0}
  /\ Kinds \subseteq [shown : BOOLEAN, grave : BOOLEAN, meta : BOOLEAN]
  /\ MaxLines \in Nat /\ CarryMax \in Nat \ {0} /\ CarryMax < MaxLines
  /\ LastWrite \in Nat /\ MaxMarks \in Nat

Alerts == 1 .. LastAlert

VARIABLES
  up,        \* moatd runs
  rotated,   \* alerts.1.jsonl
  live,      \* alerts.jsonl, Absent between the two renames
  staging,   \* alerts.new, or Absent
  cache,     \* AlertStore.cache: the fold, and the files it was built from
  rotating,  \* where AlertStore::rotate is: "no", "staged" or "renamed"
  story,     \* the chain as the correlator has it
  raised,    \* ChainStamp.raised: the chain has been high
  todo,      \* the lines write_chain has still to write
  booted,    \* Daemon::next_id when moatd started
  nextId,    \* Daemon::next_id
  writes,    \* bound: lines written so far
  whole,     \* history: every line ever written
  dropped    \* history: the rows that rotations have left in neither file

vars == <<up, rotated, live, staging, cache, rotating, story, raised, todo, booted, nextId, writes, whole, dropped>>

-----------------------------------------------------------------------------
(* Rows, lines, and the fold every reader makes of the files. *)

\* In a row, `shown` is `surface: alerts` with no allowlist entry that covers it,
\* `acted` that action_taken is not "none" (so of a file that was restored, too),
\* `story` the inline chain, `anchor` the chain_id.  A change is what an update says of
\* them: {} of a flag it does not name and else the value, and no anchor or no chain
\* where it gives none (moatd writes neither as null).
NoStory == [id |-> 0, total |-> 0, high |-> FALSE, members |-> {}]

FullLine(a, row) == [kind |-> "full", id |-> a, set |-> row]
UpdateLine(a, change) == [kind |-> "update", id |-> a, set |-> change]
NoLine == [kind |-> "absent", id |-> 0, set |-> NoStory]
Absent == <<NoLine>>  \* no such file

NoChange == [acked |-> {}, acted |-> {}, shown |-> {}, anchor |-> 0, story |-> NoStory]

NewRow(k) ==
  [shown |-> k.shown, grave |-> k.grave, meta |-> k.meta, acked |-> FALSE,
   acted |-> FALSE, story |-> NoStory, anchor |-> 0]

\* Variant that believes any copy of the anchor, however old.
HydrateNothing(m, a) == m

\* Cache::hydrate: row a takes the chain its anchor carries, unless its own
\* copy has grown further.
Hydrate(m, a) ==
  LET c == m[a].anchor
  IN  IF c \in DOMAIN m \ {a} /\ m[c].story.id = c /\ m[a].story.total <= m[c].story.total
      THEN [m EXCEPT ![a].story = m[c].story]
      ELSE m

\* Variant that leaves the members with the copy they have.
PropagateNothing(m, a) == m

\* Cache::propagate: the anchor's chain goes to the members that name it.
Propagate(m, a) ==
  LET told == {x \in DOMAIN m \ {a} : x \in m[a].story.members /\ m[x].anchor = a}
  IN  IF m[a].story.id = a
      THEN [x \in DOMAIN m |-> IF x \in told THEN [m[x] EXCEPT !.story = m[a].story] ELSE m[x]]
      ELSE m

Assigned(old, new) == IF new = {} THEN old ELSE TRUE \in new

\* alert::fold
Updated(row, u) ==
  [row EXCEPT !.acked = Assigned(@, u.acked), !.acted = Assigned(@, u.acted),
              !.shown = Assigned(@, u.shown),
              !.anchor = IF u.anchor = 0 THEN @ ELSE u.anchor,
              !.story = IF u.story = NoStory THEN @ ELSE u.story]

Inserted(m, a, row) == [x \in DOMAIN m \cup {a} |-> IF x = a THEN row ELSE m[x]]

\* Cache::fold_line.  An update of a row that is gone changes nothing.
FoldLine(m, l) ==
  CASE l.kind = "full" -> Propagate(Hydrate(Inserted(m, l.id, l.set), l.id), l.id)
    [] l.kind = "update" /\ l.id \in DOMAIN m ->
         LET u == [m EXCEPT ![l.id] = Updated(@, l.set)]
             h == IF l.set.anchor # 0 THEN Hydrate(u, l.id) ELSE u
         IN  IF l.set.story # NoStory THEN Propagate(h, l.id) ELSE h
    [] OTHER -> m

Fold(lines) ==
  LET upTo[n \in 0 .. Len(lines)] ==
        IF n = 0 THEN <<>> ELSE FoldLine(upTo[n - 1], lines[n])
  IN  upTo[Len(lines)]

\* AlertStore::fold_from_disk: the rotated file first, so that an update in the
\* live file lands on a row that was rotated out.
FoldFiles(old, new) == Fold(old \o new)

Fresh == cache.held /\ cache.old = rotated /\ cache.new = live
NoCache == [held |-> FALSE, fold |-> <<>>, old |-> <<>>, new |-> <<>>]
CacheOf(fold, old, new) == [held |-> TRUE, fold |-> fold, old |-> old, new |-> new]

-----------------------------------------------------------------------------
(* What a rotation carries. *)

InHighStory(r) == r.story.high
StillWanted(r) == r.shown /\ ~r.acked

\* Alert::is_protected
IsProtected(r) ==
  \/ StillWanted(r) \/ r.acted \/ InHighStory(r) \/ r.meta
  \/ r.shown /\ r.grave

\* Variant that takes what was acted on for more important.
ActedFirst(r) ==
  IF r.acted \/ InHighStory(r) THEN 3 ELSE IF StillWanted(r) THEN 2 ELSE 0

\* store::carry_priority
CarryPriority(r) ==
  IF StillWanted(r) THEN 3
  ELSE IF r.acted \/ InHighStory(r) THEN 2
  ELSE IF r.meta THEN 1 ELSE 0

\* strip_shared_chains: whose row travels without its chain, because the row of
\* the anchor travels with it.
Stripped(rows, a) ==
  LET c == rows[a].anchor
  IN  /\ c \in DOMAIN rows \ {a}
      /\ rows[a].story.id = c /\ rows[c].story.id = c

StripShared(rows) ==
  [a \in DOMAIN rows |->
     IF Stripped(rows, a) THEN [rows[a] EXCEPT !.story = NoStory] ELSE rows[a]]

\* Variant in which an anchor has no better claim than its own.
OwnKey(rows, a) == <<CarryPriority(StripShared(rows)[a]), a, 0>>

\* The order of eviction: priority, then age, with an anchor behind every member
\* that was stripped against it.  The priority is that of the row as written.
CarryKey(rows, a) ==
  LET written == StripShared(rows)
      dependants == {x \in DOMAIN rows : rows[x].anchor = a /\ Stripped(rows, x)}
      own == CarryPriority(written[a])
  IN  IF dependants # {}
      THEN <<Max({own} \cup {CarryPriority(written[x]) : x \in dependants}),
             Max({a} \cup dependants), 1>>
      ELSE <<own, a, 0>>

Before(k, l) ==
  \/ k[1] < l[1]
  \/ k[1] = l[1] /\ k[2] < l[2]
  \/ k[1] = l[1] /\ k[2] = l[2] /\ k[3] < l[3]

\* protected_carry_set, apply_carry_caps
Candidates(m) == {a \in DOMAIN m : IsProtected(m[a])}
Carried(m) ==
  LET rows == [a \in Candidates(m) |-> m[a]]
      key == [a \in Candidates(m) |-> CarryKey(rows, a)]
  IN  {a \in DOMAIN key :
         Cardinality({x \in DOMAIN key : Before(key[a], key[x])}) < CarryMax}

\* Ids in their order.
InOrder(S) ==
  LET upTo[n \in 0 .. LastAlert] ==
        IF n = 0 THEN <<>>
        ELSE IF n \in S THEN Append(upTo[n - 1], n) ELSE upTo[n - 1]
  IN  upTo[LastAlert]

\* write_carried: the rows as folded lines, in the order of their ids.
CarriedLines(m) ==
  LET written == StripShared([a \in Candidates(m) |-> m[a]])
      ids == InOrder(Carried(m))
  IN  [i \in DOMAIN ids |-> FullLine(ids[i], written[ids[i]])]

-----------------------------------------------------------------------------
(* Writing. *)

Init ==
  /\ up = TRUE
  /\ rotated = Absent /\ live = <<>> /\ staging = Absent
  /\ cache = NoCache
  /\ rotating = "no"
  /\ story = NoStory /\ raised = FALSE /\ todo = <<>>
  /\ booted = 1 /\ nextId = 1 /\ writes = 0
  /\ whole = <<>> /\ dropped = {}

\* Variant that leaves the fold as it was and takes the new stamp.
CacheStamped(l, file) == [cache EXCEPT !.old = rotated, !.new = file]

\* write_line keeps a fold it holds current, and takes it to be that of the file.
CacheAfter(l, file) ==
  IF cache.held THEN CacheOf(FoldLine(cache.fold, l), rotated, file) ELSE cache

\* AlertStore::write_line, with the part of rotate that leaves the live file alone.
WriteLine(l) ==
  LET file == Append(live, l)
      after == CacheAfter(l, file)
  IN  /\ up /\ rotating = "no" /\ writes < LastWrite
      /\ live' = file
      /\ whole' = Append(whole, l)
      /\ writes' = writes + 1
      /\ IF Len(file) < MaxLines
         THEN cache' = after /\ UNCHANGED <<staging, rotating>>
         ELSE /\ staging' = CarriedLines(IF after.held THEN after.fold
                                         ELSE FoldFiles(rotated, file))
              /\ cache' = NoCache
              /\ rotating' = "staged"
      /\ UNCHANGED <<up, rotated, dropped>>

Ids(file) == {l.id : l \in {m \in Range(file) : m.kind = "full"}}

\* rotate, the first rename
RenameLive ==
  /\ rotating = "staged"
  /\ rotated' = live /\ live' = Absent
  /\ rotating' = "renamed"
  /\ dropped' = dropped \cup (Ids(rotated) \ (Ids(live) \cup Ids(staging)))
  /\ UNCHANGED <<up, staging, cache, story, raised, todo, booted, nextId, writes, whole>>

\* rotate, the second rename, and reopen
RenameStaging ==
  /\ rotating = "renamed"
  /\ live' = staging /\ staging' = Absent
  /\ rotating' = "no"
  /\ UNCHANGED <<up, rotated, cache, story, raised, todo, booted, nextId, writes, whole, dropped>>

Idle == todo = <<>> /\ rotating = "no"

\* append_alert
Raise ==
  /\ Idle /\ nextId <= LastAlert
  /\ \E k \in Kinds : WriteLine(FullLine(nextId, NewRow(k)))
  /\ nextId' = nextId + 1
  /\ UNCHANGED <<story, raised, todo, booted>>

\* The lines that neither tell a chain nor tie a row to one.
Marks(lines) ==
  {i \in DOMAIN lines : /\ lines[i].kind = "update"
                        /\ lines[i].set.anchor = 0 /\ lines[i].set.story = NoStory}

\* append_update: by `moatctl ack`, by an action moatd took, and for a row that goes to
\* the timeline (quieten_backlog, a triage that demotes) or to the badge (a triage that
\* raises, or is undone).
MarkRow(a, change) ==
  /\ Idle /\ a < nextId /\ Cardinality(Marks(whole)) < MaxMarks
  /\ WriteLine(UpdateLine(a, change))
  /\ UNCHANGED <<story, raised, todo, booted, nextId>>

Ack(a) == MarkRow(a, [NoChange EXCEPT !.acked = {TRUE}])
Act(a) == MarkRow(a, [NoChange EXCEPT !.acted = {TRUE}])
Surface(a, badge) == MarkRow(a, [NoChange EXCEPT !.shown = {badge}])

\* write_chain: the chain, once, on its anchor, and then a line for each member
\* that is new to it, or that the chain raises to the badge.  Only alerts of this
\* run of moatd are in its memory, and the anchor is the oldest.
Tie(a, anchor, new, raise) ==
  UpdateLine(a, [NoChange EXCEPT !.anchor = IF new THEN anchor ELSE 0,
                                 !.shown = {raise} \ {FALSE}])

Grow(high) ==
  /\ Idle
  /\ \E a, b \in booted .. nextId - 1 :
       /\ a < b /\ b \notin story.members
       /\ story # NoStory => a = story.id
       /\ LET members == story.members \cup {a, b}
              grown == [id |-> a, total |-> Cardinality(members), high |-> high,
                        members |-> members]
              toRaise == high /\ ~raised
              others == InOrder(IF toRaise THEN members \ {a} ELSE {b})
              anchorLine == Tie(a, a, story = NoStory, toRaise)
          IN  /\ WriteLine([anchorLine EXCEPT !.set.story = grown])
              /\ story' = grown
              /\ raised' = (raised \/ high)
              /\ todo' = [i \in DOMAIN others |->
                            Tie(others[i], a, others[i] \notin story.members, high)]
  /\ UNCHANGED <<booted, nextId>>

Stamp ==
  /\ todo # <<>>
  /\ WriteLine(Head(todo))
  /\ todo' = Tail(todo)
  /\ UNCHANGED <<story, raised, booted, nextId>>

\* with_fold, for any reader in moatd.
Read ==
  /\ up /\ Idle /\ ~Fresh
  /\ cache' = CacheOf(FoldFiles(rotated, live), rotated, live)
  /\ UNCHANGED <<up, rotated, live, staging, rotating, story, raised, todo, booted, nextId, writes, whole, dropped>>

-----------------------------------------------------------------------------
(* Faults. *)

\* A crash, and the chains the correlator held go with it.
Crash ==
  /\ up
  /\ up' = FALSE
  /\ cache' = NoCache /\ rotating' = "no"
  /\ story' = NoStory /\ raised' = FALSE /\ todo' = <<>>
  /\ UNCHANGED <<rotated, live, staging, booted, nextId, writes, whole, dropped>>

\* Variant that takes a staged file for a rotation to be finished, whatever is
\* in the live one.
FinishAlways ==
  IF staging = Absent THEN live ELSE staging

\* reconcile_staging: the file alerts.jsonl is after it.
Reconciled == IF live # Absent THEN live ELSE staging

\* AlertStore::open
Restart ==
  /\ ~up
  /\ up' = TRUE
  /\ booted' = nextId
  /\ live' = Reconciled
  /\ staging' = Absent
  /\ UNCHANGED <<rotated, cache, rotating, story, raised, todo, nextId, writes, whole, dropped>>

Next ==
  \/ Raise \/ Stamp \/ Read \/ RenameLive \/ RenameStaging
  \/ \E a \in Alerts : Ack(a) \/ Act(a) \/ \E badge \in BOOLEAN : Surface(a, badge)
  \/ \E high \in BOOLEAN : Grow(high)
  \/ Crash \/ Restart

Spec == Init /\ [][Next]_vars

-----------------------------------------------------------------------------
(* Properties. *)

Seen == FoldFiles(rotated, Reconciled)

\* A fold whose stamp matches the files is the fold of the files: adding a line
\* to it is the same as reading everything again (write_line, with_fold).
CacheIsDisk == Fresh => cache.fold = FoldFiles(rotated, live)

\* Rotation shows nowhere: but for the rows that one of them left behind in a file
\* that is gone, and the chains told on those rows, readers see what they would in a
\* file that was never rotated, whatever crashed in between (rotate, reconcile_staging).
RotationIsUnseen ==
  LET all == Fold(whole)
      seen == Seen
  IN  \A a \in DOMAIN all \ dropped :
        /\ a \in DOMAIN seen
        /\ seen[a] = [all[a] EXCEPT !.story =
             IF all[a].anchor \in dropped THEN seen[a].story ELSE all[a].story]

\* A member never holds an earlier copy of its chain than the anchor, which is
\* what `moatctl ack --chain` relies on (Cache::propagate, Cache::hydrate).
MembersHoldTheStory ==
  \A a \in DOMAIN Seen :
    LET c == Seen[a].anchor
    IN  c \in DOMAIN Seen /\ a \in Seen[c].story.members => Seen[a].story = Seen[c].story

\* What a rotation carries is complete by itself: the staged rows alone fold to what
\* each of them was, though a chain is written once, and whatever the cap evicted
\* ("a chain's record outlives its last surviving member"; strip_shared_chains,
\* apply_carry_caps).
CarriedIsWhole ==
  rotating = "staged" =>
    \A a \in Ids(staging) : a \in DOMAIN Fold(staging) /\ Fold(staging)[a] = Seen[a]

\* An alert that waits for a person is evicted only for others that do, and for the
\* anchors of their chains (carry_priority, apply_carry_caps).
WantedFirst ==
  rotating = "staged" =>
    \A a \in DOMAIN Seen \ Ids(staging), x \in Ids(staging) :
      StillWanted(Seen[a]) =>
        \E y \in DOMAIN Seen : StillWanted(Seen[y]) /\ (y = x \/ Seen[y].anchor = x)

=============================================================================
