------------------------------ MODULE Baseline ------------------------------
(***************************************************************************)
(* The learning window, the proposals and the noise guard                  *)
(* (moatd/src/baseline.rs), with the handlers of the daemon and of the     *)
(* control socket that drive them and the file baseline.toml they write.   *)
(*                                                                         *)
(* A pattern (a tuple of rule, actor, parent and directory) that keeps     *)
(* raising ordinary alerts becomes an allowlist block: by itself while the *)
(* learning window is open, through a proposal once it is closed.  One     *)
(* that floods is demoted for a day.  A block whose actor stops being      *)
(* official is disabled again.  baseline.json is written now and then, the *)
(* block at once: a crash falls between the two.                           *)
(*                                                                         *)
(* The clock counts buckets of the noise window (hours in the code).  All  *)
(* patterns are of one rule; the thousands of others appear only as what   *)
(* crowds these out of the map (Crowd).                                    *)
(***************************************************************************)
EXTENDS Integers, Sequences, FiniteSets, FiniteSetsExt, SequencesExt

CONSTANTS
  Tuples,          \* the keys of the patterns
  Interpreters,    \* those whose exe is an interpreter
  Grades,          \* what an alert of each pattern may score: [base, severity]
  HoursPerDay,     \* buckets in DAY
  LastHour,        \* bound: the clock stops here
  LearningDays,    \* learning_days
  LearnMinDays,    \* learn_min_days
  NoisyPerDay,     \* noisy_rule_per_day
  RedemoteAt,      \* REDEMOTE_PROPOSE_AT
  MaxWindow,       \* bound: alerts counted in one window
  MaxProposals,    \* bound: proposals open at once
  MaxBlocks,       \* bound: live blocks of one pattern
  MaxCrashes,      \* bound: crashes of moatd
  MaxCommands      \* bound: commands given and packages changed

Medium == 1
High == 2
Critical == 3
Hours == 0 .. LastHour
Days == 0 .. LastHour \div HoursPerDay

ASSUME BaselineAssumption ==
  /\ Interpreters \subseteq Tuples
  /\ Grades \in [Tuples -> SUBSET [base : Medium .. Critical, severity : Medium .. Critical]]
  /\ {HoursPerDay, RedemoteAt} \subseteq Nat \ {0}
  /\ {LastHour, LearningDays, LearnMinDays, NoisyPerDay, MaxWindow, MaxProposals,
      MaxBlocks, MaxCrashes, MaxCommands} \subseteq Nat

VARIABLES
  hour,      \* the clock
  b,         \* Baseline.state
  disk,      \* baseline.json
  blocks,    \* the live blocks of baseline.toml by pattern, first to last
  official,  \* the patterns whose actor the package database calls official
  moved,     \* the package database has changed since it was last read
  crashes,   \* crashes so far
  commands,  \* commands and package changes so far
  past       \* history: what really happened, see Past

vars == <<hour, b, disk, blocks, official, moved, crashes, commands, past>>

Nothing == [none |-> TRUE]
NoWindow == [h \in Hours |-> 0]

\* TupleStat, of which eligible and prune_tuples read no more than this
TupleStat == [days : SUBSET Days, maxRank : 0 .. Critical, maxBaseRank : 0 .. Critical,
              official : BOOLEAN, learned : BOOLEAN, proposed : BOOLEAN,
              dismissed : BOOLEAN]
Unseen == [days |-> {}, maxRank |-> 0, maxBaseRank |-> 0, official |-> FALSE,
           learned |-> FALSE, proposed |-> FALSE, dismissed |-> FALSE]

\* Proposal: `redemoted` is a reason that is not empty
Proposal == [key : Tuples, redemoted : BOOLEAN]

\* LearnedEntry
LearnedEntry == [revoked : BOOLEAN, accepted : BOOLEAN]

\* What really happened, kept through crashes: `grave` the patterns that scored high
\* (or critical) since their record was begun or reset, as far as memory or the file
\* can know, `graveSaved` the same for the file; `refused` those dismissed and not
\* asked for since; `tally` the alerts on the badge since the last undemote.
Past == [grave : SUBSET Tuples, graveSaved : SUBSET Tuples, refused : SUBSET Tuples,
         tally : [Tuples -> [Hours -> 0 .. NoisyPerDay + 1]]]

Empty == [until |-> LearningDays * HoursPerDay,
          tuples |-> [t \in {} |-> Unseen],
          proposals |-> <<>>,
          demoted |-> [t \in Tuples |-> Nothing],
          redemotions |-> [t \in Tuples |-> 0],
          windows |-> [t \in Tuples |-> NoWindow],
          learned |-> [t \in Tuples |-> Nothing]]

Init ==
  /\ hour = 0
  /\ b = Empty
  /\ disk = Empty
  /\ blocks = [t \in Tuples |-> <<>>]
  /\ official \in SUBSET Tuples
  /\ moved = FALSE
  /\ crashes = 0
  /\ commands = 0
  /\ past = [grave |-> {}, graveSaved |-> {}, refused |-> {},
             tally |-> [t \in Tuples |-> NoWindow]]

-----------------------------------------------------------------------------
(* Observing an alert *)

Learning(s) == hour < s.until
Known(s) == DOMAIN s.tuples
Open(s, t) == {i \in DOMAIN s.proposals : s.proposals[i].key = t}

\* An entry of `learned` that learned_entries returns
InForce(s, t) == s.learned[t] # Nothing /\ ~s.learned[t].revoked

\* blocked_by returns None
Eligible(t, e, common) ==
  /\ ~e.learned /\ ~e.proposed /\ ~e.dismissed
  /\ e.maxBaseRank <= Medium
  /\ e.maxRank < Critical
  /\ e.official
  /\ t \notin Interpreters
  /\ Cardinality(e.days) >= LearnMinDays
  /\ common

\* A variant for a mutant, as are MarkRevokedOnly, UndemotedOnly and DismissedOnly
NotedLatest(s, t, g) ==
  LET e == IF t \in Known(s) THEN s.tuples[t] ELSE Unseen IN
  [e EXCEPT !.maxRank = g.severity, !.maxBaseRank = g.base,
            !.official = t \in official, !.days = @ \cup {hour \div HoursPerDay}]

\* What is recorded of the alert, whatever is decided about it
Noted(s, t, g) ==
  LET e == IF t \in Known(s) THEN s.tuples[t] ELSE Unseen IN
  [e EXCEPT !.maxRank = Max({@, g.severity}),
            !.maxBaseRank = Max({@, g.base}),
            !.official = t \in official,
            !.days = @ \cup {hour \div HoursPerDay}]

\* prune_tuples: who may go, and who goes before whom
Prunable(s) ==
  {t \in Known(s) :
    /\ ~s.tuples[t].learned /\ ~s.tuples[t].proposed /\ ~s.tuples[t].dismissed
    /\ s.learned[t] = Nothing /\ s.demoted[t] = Nothing /\ Open(s, t) = {}}

Warmth(s, t) ==
  LET e == s.tuples[t] IN
  Cardinality(e.days)
    + IF e.official /\ e.maxBaseRank <= Medium /\ e.maxRank < Critical
      THEN LastHour + 1 ELSE 0

SetTuple(s, t, e) == [s EXCEPT !.tuples = [x \in Known(s) \cup {t} |->
                                            IF x = t THEN e ELSE s.tuples[x]]]

\* observe: what it decides, and the state it leaves
Decision(t, e, common) ==
  IF ~Eligible(t, e, common) THEN "none"
  ELSE IF Learning(b) THEN "entry" ELSE "proposed"

Observed(t, g, common) ==
  LET e == Noted(b, t, g) IN
  CASE Decision(t, e, common) = "none" -> SetTuple(b, t, e)
    [] Decision(t, e, common) = "entry" ->
         [SetTuple(b, t, [e EXCEPT !.learned = TRUE]) EXCEPT
            !.learned[t] = [revoked |-> FALSE, accepted |-> FALSE]]
    [] OTHER ->
         [SetTuple(b, t, [e EXCEPT !.proposed = TRUE]) EXCEPT
            !.proposals = Append(@, [key |-> t, redemoted |-> FALSE])]

MarkRevokedOnly(s, t) ==
  IF s.learned[t] = Nothing THEN s ELSE [s EXCEPT !.learned[t].revoked = TRUE]

\* mark_revoked
MarkRevoked(s, t) ==
  LET noted == IF s.learned[t] = Nothing THEN s
               ELSE [s EXCEPT !.learned[t].revoked = TRUE] IN
  IF t \in Known(noted) THEN [noted EXCEPT !.tuples[t].learned = FALSE] ELSE noted

-----------------------------------------------------------------------------
(* The noise guard *)

\* The buckets of the rolling day that ends now
Window == (hour - HoursPerDay + 1) .. hour
Rolled(w) == [h \in Hours |-> IF h \in Window THEN w[h] ELSE 0]
Alerts(w) ==
  LET upto[h \in Hours] == w[h] + IF h = 0 THEN 0 ELSE upto[h - 1] IN upto[LastHour]

\* propose_redemoted
ProposeRedemoted(s, t) ==
  IF Open(s, t) # {} THEN s
  ELSE [s EXCEPT !.proposals = Append(@, [key |-> t, redemoted |-> TRUE])]

\* note_alert
NoteAlert(s, t) ==
  LET w == [Rolled(s.windows[t]) EXCEPT ![hour] = @ + 1]
      counted == [s EXCEPT !.windows[t] = w]
      times == Min({s.redemotions[t] + 1, RedemoteAt})
      quiet == [counted EXCEPT !.demoted[t] = [since |-> hour], !.redemotions[t] = times]
  IN IF s.demoted[t] # Nothing \/ Alerts(w) <= NoisyPerDay THEN counted
     ELSE IF times >= RedemoteAt THEN ProposeRedemoted(quiet, t)
     ELSE quiet

\* clear_stale_demotions
ClearStale(s) ==
  LET rolled == [t \in Tuples |-> Rolled(s.windows[t])] IN
  [s EXCEPT !.windows = rolled,
            !.demoted = [t \in Tuples |->
              IF /\ @[t] # Nothing
                 /\ Alerts(rolled[t]) <= NoisyPerDay
                 /\ hour - @[t].since >= HoursPerDay
              THEN Nothing ELSE @[t]]]

\* undemote
UndemotedOnly(s) == [s EXCEPT !.demoted = [t \in Tuples |-> Nothing]]
Undemoted(s) ==
  LET hit == {t \in Tuples : s.demoted[t] # Nothing} IN
  [s EXCEPT !.demoted = [t \in Tuples |-> Nothing],
            !.windows = [t \in Tuples |-> IF t \in hit THEN NoWindow ELSE @[t]]]

-----------------------------------------------------------------------------
(* The steps *)

Command == commands < MaxCommands /\ commands' = commands + 1

\* Daemon::emit, from the allowlist on.  `quiet` is a repeat folded into its alert, or
\* an alert of a building block: noted, but not counted by the noise guard.
Emit(t, g, common, quiet) ==
  LET decision == Decision(t, Noted(b, t, g), common)
      counted == blocks[t] = <<>> /\ ~quiet /\ g.severity >= High
      fresh == IF g.base > Medium \/ g.severity = Critical THEN {t} ELSE {}
  IN
  /\ counted => Alerts(b.windows[t]) < MaxWindow
  /\ \E written \in BOOLEAN :
       /\ written \/ decision = "entry"
       /\ LET seen == Observed(t, g, common)
              told == IF written THEN seen ELSE MarkRevoked(seen, t) IN
          b' = IF counted THEN NoteAlert(told, t) ELSE told
       /\ blocks' = IF decision = "entry" /\ written
                    THEN [blocks EXCEPT ![t] = Append(@, "learned")] ELSE blocks
  /\ Len(b'.proposals) <= MaxProposals
  /\ Len(blocks'[t]) <= MaxBlocks
  /\ past' = [past EXCEPT
       !.grave = @ \cup fresh,
       !.tally[t][hour] = IF counted THEN Min({@ + 1, NoisyPerDay + 1}) ELSE @]
  /\ UNCHANGED <<hour, disk, official, moved, crashes, commands>>

\* Some other pattern is observed while the map is at MAX_TUPLES: the coldest of those
\* that may go make room for it
Crowd(gone) ==
  /\ gone \subseteq Prunable(b) /\ gone # {}
  /\ \A x \in gone, y \in Prunable(b) \ gone : Warmth(b, x) <= Warmth(b, y)
  /\ b' = [b EXCEPT !.tuples = [t \in Known(b) \ gone |-> b.tuples[t]]]
  /\ past' = [past EXCEPT !.grave = @ \ gone]
  /\ UNCHANGED <<hour, disk, blocks, official, moved, crashes, commands>>

Advance ==
  /\ hour < LastHour
  /\ hour' = hour + 1
  /\ UNCHANGED <<b, disk, blocks, official, moved, crashes, commands, past>>

\* baseline_tick; `due` is save_if_due finding a minute gone by
Tick(due) ==
  /\ b' = ClearStale(b)
  /\ disk' = IF due THEN b' ELSE disk
  /\ past' = IF due THEN [past EXCEPT !.graveSaved = past.grave] ELSE past
  /\ UNCHANGED <<hour, blocks, official, moved, crashes, commands>>

\* revoke_stale_learned_entries, over the state s: an approval found in the file is
\* noted and left alone, what is not to be trusted any more has its first block
\* disabled, and is revoked only if that worked
Backfilled(s, f, t) ==
  /\ InForce(s, t) /\ ~s.learned[t].accepted
  /\ t \in Known(s) /\ f[t] # <<>> /\ Head(f[t]) = "accepted"
Stale(s, f, t) ==
  /\ InForce(s, t) /\ ~Backfilled(s, f, t)
  /\ t \notin official \/ (t \in Interpreters /\ ~s.learned[t].accepted)
Granting(s, f, t) == t \in Known(s) /\ f[t] # <<>>

Rechecked(s, f, fails) ==
  LET gone == {t \in Tuples : Stale(s, f, t) /\ ~(fails /\ Granting(s, f, t))} IN
  /\ b' = [s EXCEPT
       !.learned = [t \in Tuples |->
          IF Backfilled(s, f, t) THEN [@[t] EXCEPT !.accepted = TRUE]
          ELSE IF t \in gone THEN [@[t] EXCEPT !.revoked = TRUE] ELSE @[t]],
       !.tuples = [t \in Known(s) |->
          IF t \in gone THEN [@[t] EXCEPT !.learned = FALSE] ELSE @[t]]]
  /\ blocks' = [t \in Tuples |->
       IF t \in gone /\ Granting(s, f, t) THEN Tail(f[t]) ELSE f[t]]
  /\ moved' = FALSE

\* An upgrade makes the actor of a pattern official, or stops it being so
PackageChange(t) ==
  /\ Command
  /\ official' = IF t \in official THEN official \ {t} ELSE official \cup {t}
  /\ moved' = TRUE
  /\ UNCHANGED <<hour, b, disk, blocks, crashes, past>>

OnPacmanChange(fails) ==
  /\ moved
  /\ Rechecked(b, blocks, fails)
  /\ UNCHANGED <<hour, disk, official, crashes, commands, past>>

\* A crash and a restart: what is not in the file is gone, load rolls the windows, and
\* the startup re-checks the learned entries against `f`, the blocks on disk
Restarted(f, fails) ==
  /\ crashes < MaxCrashes
  /\ crashes' = crashes + 1
  /\ Rechecked([disk EXCEPT !.windows = [t \in Tuples |-> Rolled(@[t])]], f, fails)
  /\ past' = [past EXCEPT !.grave = past.graveSaved]
  /\ UNCHANGED <<hour, disk, official>>

Crash(fails) == Restarted(blocks, fails) /\ UNCHANGED commands

-----------------------------------------------------------------------------
(* `moatctl baseline ...`: each command saves at once *)

\* relearn, with 0 days: the window is closed now
Relearn(days) ==
  /\ Command
  /\ b' = [b EXCEPT
       !.until = hour + days * HoursPerDay,
       !.tuples = [t \in Known(b) |-> [@[t] EXCEPT
          !.proposed = FALSE, !.dismissed = FALSE, !.days = {},
          !.maxRank = 0, !.maxBaseRank = 0]],
       !.proposals = <<>>]
  /\ disk' = b'
  /\ past' = [past EXCEPT !.grave = {}, !.graveSaved = {}, !.refused = {}]
  /\ UNCHANGED <<hour, blocks, official, moved, crashes>>

\* baseline_accept: the proposal is taken and the pattern marked before the block is
\* written, and the state is saved only after
Accepted(i) ==
  LET t == b.proposals[i].key
      taken == [b EXCEPT !.proposals = RemoveAt(@, i),
                         !.learned[t] = [revoked |-> FALSE, accepted |-> TRUE]]
  IN IF t \in Known(b)
     THEN [taken EXCEPT !.tuples[t].learned = TRUE, !.tuples[t].proposed = FALSE]
     ELSE taken

Accept(i) ==
  LET t == b.proposals[i].key IN
  /\ Command
  /\ Len(blocks[t]) < MaxBlocks
  /\ b' = Accepted(i)
  /\ \/ /\ blocks' = [blocks EXCEPT ![t] = Append(@, "accepted")]
        /\ disk' = b'
        /\ past' = [past EXCEPT !.graveSaved = past.grave]
     \/ UNCHANGED <<blocks, disk, past>>       \* append_rule failed
  /\ UNCHANGED <<hour, official, moved, crashes>>

\* The process ends between the block and the save
AcceptCut(i) ==
  LET t == b.proposals[i].key IN
  /\ Len(blocks[t]) < MaxBlocks
  /\ Command
  /\ Restarted([blocks EXCEPT ![t] = Append(@, "accepted")], FALSE)

DismissedOnly(i) ==
  LET t == b.proposals[i].key
      taken == [b EXCEPT !.proposals = RemoveAt(@, i)]
  IN IF t \in Known(b) THEN [taken EXCEPT !.tuples[t].proposed = FALSE] ELSE taken

Dismissed(i) ==
  LET t == b.proposals[i].key
      taken == [b EXCEPT !.proposals = RemoveAt(@, i)]
  IN IF t \in Known(b)
     THEN [taken EXCEPT !.tuples[t].proposed = FALSE, !.tuples[t].dismissed = TRUE]
     ELSE taken

Dismiss(i) ==
  LET t == b.proposals[i].key IN
  /\ Command
  /\ b' = Dismissed(i)
  /\ disk' = b'
  /\ past' = [past EXCEPT !.graveSaved = past.grave,
                          !.refused = IF t \in Known(b) THEN @ \cup {t} ELSE @]
  /\ UNCHANGED <<hour, blocks, official, moved, crashes>>

\* propose_keys over the rule's top tuples (which those are is left open)
Propose(top) ==
  LET asked == {t \in top : ~b.tuples[t].learned /\ ~b.tuples[t].proposed} IN
  /\ Command
  /\ Len(b.proposals) + Cardinality(asked) <= MaxProposals
  /\ b' = [b EXCEPT
       !.tuples = [t \in Known(b) |->
          IF t \in asked THEN [@[t] EXCEPT !.proposed = TRUE, !.dismissed = FALSE]
          ELSE @[t]],
       !.proposals = @ \o [i \in 1 .. Cardinality(asked) |->
                            [key |-> SetToSeq(asked)[i], redemoted |-> FALSE]]]
  /\ disk' = b'
  /\ past' = [past EXCEPT !.graveSaved = past.grave, !.refused = @ \ asked]
  /\ UNCHANGED <<hour, blocks, official, moved, crashes>>

Undemote ==
  /\ Command
  /\ \E t \in Tuples : b.demoted[t] # Nothing
  /\ b' = Undemoted(b)
  /\ disk' = b'
  /\ past' = [past EXCEPT
       !.graveSaved = past.grave,
       !.tally = [t \in Tuples |-> IF b.demoted[t] # Nothing THEN NoWindow ELSE @[t]]]
  /\ UNCHANGED <<hour, blocks, official, moved, crashes>>

Next ==
  \/ \E t \in Tuples, common, quiet \in BOOLEAN : \E g \in Grades[t] : Emit(t, g, common, quiet)
  \/ \E gone \in SUBSET Known(b) : Crowd(gone)
  \/ Advance
  \/ \E due \in BOOLEAN : Tick(due)
  \/ \E t \in Tuples : PackageChange(t)
  \/ \E fails \in BOOLEAN : OnPacmanChange(fails)
  \/ \E fails \in BOOLEAN : Crash(fails)
  \/ \E days \in {0, LearningDays} : Relearn(days)
  \/ \E i \in DOMAIN b.proposals : Accept(i) \/ AcceptCut(i) \/ Dismiss(i)
  \/ \E top \in SUBSET Known(b) \ {{}} : Propose(top)
  \/ Undemote

Spec == Init /\ [][Next]_vars

-----------------------------------------------------------------------------
(* Properties *)

\* Types; and a pattern marked learned has an entry that is still in force, so that its
\* actor is checked again (observe, accept, mark_revoked).
TypeOK ==
  /\ hour \in Hours /\ crashes \in 0 .. MaxCrashes
  /\ commands \in 0 .. MaxCommands /\ moved \in BOOLEAN
  /\ official \subseteq Tuples
  /\ past \in Past
  /\ \A s \in {b, disk} :
       /\ Known(s) \subseteq Tuples
       /\ \A t \in Known(s) : s.tuples[t] \in TupleStat
       /\ \A i \in DOMAIN s.proposals : s.proposals[i] \in Proposal
       /\ \A t \in Tuples : s.learned[t] \in LearnedEntry \cup {Nothing}
       /\ \A t \in Tuples : s.redemotions[t] \in 0 .. RedemoteAt
  /\ \A t \in Tuples : blocks[t] \in BoundedSeq({"learned", "accepted"}, MaxBlocks)
  /\ \A t \in Known(b) : b.tuples[t].learned => InForce(b, t)

\* "High and critical are never learned": the learner writes no block for a pattern
\* that has ever scored high (or critical) since its record was begun or reset, however
\* often it scores medium afterwards, and whatever was saved when (observe, blocked_by).
GraveNeverLearned ==
  [][\A t \in Tuples :
       /\ Len(blocks'[t]) > Len(blocks[t])
       /\ Last(blocks'[t]) = "learned"
       => t \notin past'.grave]_vars

\* "Dismissed means do not ask me again": a pattern that was refused is not proposed by
\* the learner until somebody restarts the window or asks for it by name, restarts of
\* moatd or not (dismiss, observe, relearn, propose_keys).  The restart itself may bring
\* back a proposal whose acceptance was not saved.
Ordinary(s, t) == {i \in Open(s, t) : ~s.proposals[i].redemoted}
RefusalStands ==
  [][crashes' = crashes => \A t \in Tuples :
       Cardinality(Ordinary(b', t)) > Cardinality(Ordinary(b, t))
         => t \notin past'.refused]_vars

\* A pattern that is demoted raised more than noisy_rule_per_day alerts on the badge
\* within one day, all of them after somebody last asked to see it again; no older
\* alert counts, from memory or from the file (note_alert, undemote, load).
DemotionEarned ==
  \A t \in Tuples : b.demoted[t] # Nothing =>
    LET since == b.demoted[t].since IN
    Alerts([h \in Hours |-> IF since - HoursPerDay < h /\ h <= since
                            THEN past.tally[t][h] ELSE 0]) > NoisyPerDay

=============================================================================
