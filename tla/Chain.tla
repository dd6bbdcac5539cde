------------------------------- MODULE Chain -------------------------------
(***************************************************************************)
(* The correlator (moatd/src/chain.rs) and what Daemon::note_chain writes  *)
(* of it to the alert log.                                                 *)
(*                                                                         *)
(* Alerts of one process tree that no rule would report alone are kept in a *)
(* ring; when together they qualify they become a chain, and from then on   *)
(* everything that tree does joins it until the chain ages out.  A chain    *)
(* shows MaxSteps of its steps, judges all of them, and is published again  *)
(* only when what a reader would see of it has changed.                     *)
(*                                                                         *)
(* Which tree an alert belongs to (tree_key) is data here.                  *)
(***************************************************************************)
EXTENDS Integers, Sequences, FiniteSets, Functions

CONSTANTS
  Trees,       \* the keys of process trees
  Kinds,       \* what an alert may be: records of Kind
  LastAlert,   \* bound: alerts are 1 .. LastAlert, in the order of their ids
  LastTime,    \* bound: the clock stops here
  Window,      \* WINDOW_SECS
  MaxSpan,     \* MAX_SPAN_SECS
  DedupeSecs,  \* thresholds.dedupe_secs
  MaxSteps,    \* MAX_STEPS
  MaxChains,   \* MAX_CHAINS
  MaxRecent    \* MAX_RECENT

Families ==
  {"cred", "net", "persist", "exec", "priv", "rootkit", "pkg", "shell", "ransom"}
Medium == 1
High == 2
Critical == 3
Ranks == 0 .. Critical

\* Observation.  `trigger` is not context_only; `striking` is a rarity that is not
\* common, or a rule that need not be rare; `launch` is one of the four rules that
\* only start a program or open a connection.
Kind == [family : Families, rank : Ranks, trigger : BOOLEAN, striking : BOOLEAN,
         launch : BOOLEAN]

Alerts == 1 .. LastAlert

ASSUME ChainAssumption ==
  /\ Kinds \subseteq Kind
  /\ \A n \in {LastAlert, LastTime, Window, MaxSpan, DedupeSecs, MaxSteps} : n \in Nat
  /\ MaxChains \in Nat \ {0} /\ MaxRecent \in Nat \ {0}

VARIABLES
  now,      \* the clock
  alerts,   \* the alerts so far: tree, kind, and when they were first seen
  recent,   \* ChainStore.recent, oldest slot first
  live,     \* ChainStore.live
  stamps,   \* Daemon::chain_stamps
  told,     \* the chain the anchor's row holds on disk, for every open chain
  named,    \* the chain_id on each alert's row, or 0
  badge,    \* the alerts a chain has raised to the badge
  joined    \* history: the alerts that have been in a chain

vars == <<now, alerts, recent, live, stamps, told, named, badge, joined>>

-----------------------------------------------------------------------------
(* Escalation: what is remembered of the triggers, whatever their number. *)

Unseen == -1

NoEscalation ==
  [rank |-> [f \in Families |-> Unseen], maxRank |-> 0, triggers |-> 0,
   last |-> "none", cred |-> FALSE, credNet |-> FALSE, credNetPersist |-> FALSE]

Greater(a, b) == IF a >= b THEN a ELSE b

\* Escalation::observe
Observe(e, k) ==
  [rank |-> [e.rank EXCEPT ![k.family] = Greater(@, k.rank)],
   maxRank |-> Greater(e.maxRank, k.rank),
   triggers |-> e.triggers + 1,
   last |-> k.family,
   cred |-> e.cred \/ (k.family = "cred" /\ k.rank >= Medium),
   credNet |-> e.credNet \/ (k.family = "net" /\ e.cred),
   credNetPersist |->
     e.credNetPersist \/ (k.family = "persist" /\ k.rank >= Medium /\ e.credNet)]

Crossed(e) == {f \in Families : e.rank[f] # Unseen}

\* rung_is_real
RungIsReal(e, fs) == \E f \in fs : e.rank[f] >= Medium

Ceiling(n) == IF n > Critical THEN Critical ELSE n

\* escalate_state
Severity(e) ==
  Ceiling(
    IF e.credNetPersist THEN Critical
    ELSE IF e.credNet THEN Greater(e.maxRank + 1, High)
    ELSE IF \/ Cardinality(Crossed(e)) >= 2 /\ RungIsReal(e, {"rootkit", "priv"})
            \/ e.triggers >= 2 /\ e.last = "persist" /\ RungIsReal(e, {"persist"})
         THEN e.maxRank + 1
         ELSE e.maxRank)

\* qualifies
Qualifies(ks) ==
  LET triggers == {k \in ks : k.trigger}
      fs == {k.family : k \in triggers}
  IN  /\ \E f, g \in fs : f # g
      /\ ~(fs = {"exec", "net"} /\ \A k \in triggers : k.launch)
      /\ ~(fs = {"cred", "exec"} /\ \A k \in triggers : k.rank <= Medium)
      /\ \E k \in triggers : k.rank >= Medium
      /\ \E k \in triggers : k.striking

-----------------------------------------------------------------------------
(* The store. *)

\* The elements of q at the places in I, in their order.
Those(q, I) ==
  LET upTo[n \in 0 .. Len(q)] ==
        IF n = 0 THEN <<>>
        ELSE IF n \in I THEN Append(upTo[n - 1], q[n]) ELSE upTo[n - 1]
  IN  upTo[Len(q)]

\* The escalation of the triggers ks, in order.
Folded(ks) ==
  LET upTo[n \in 0 .. Len(ks)] ==
        IF n = 0 THEN NoEscalation ELSE Observe(upTo[n - 1], ks[n])
  IN  upTo[Len(ks)]

\* ChainStore::prune
FreshSlots == Those(recent, {i \in DOMAIN recent : now - recent[i].at <= Window})
OpenChains == {c \in live : now - c.lastAt <= Window /\ now - c.firstAt <= MaxSpan}

\* push_recent: one slot for an alert, and the oldest slot goes.
Push(ring, slot) ==
  IF \E i \in DOMAIN ring : ring[i].alert = slot.alert
  THEN [i \in DOMAIN ring |-> IF ring[i].alert = slot.alert THEN slot ELSE ring[i]]
  ELSE Append(IF Len(ring) >= MaxRecent THEN Tail(ring) ELSE ring, slot)

Slot(tree, a, k, chained) ==
  [tree |-> tree, alert |-> a, kind |-> k, at |-> now, chained |-> chained]

\* What the anchor's row says of a chain.
Record(c) ==
  [severity |-> Severity(c.state), families |-> Crossed(c.state), shown |-> c.shown,
   total |-> Len(c.members)]

\* write_chain, when chains are those still open: the record on the anchor, the
\* chain_id on the members that have none, and, once the chain is high, the badge
\* for the triggers among the steps it shows.
NoStamp == [stamped |-> 0, raised |-> FALSE]

Unstamped(c, st) == {c.members[i] : i \in {j \in DOMAIN c.members : j > st.stamped}}

WriteChain(c, chains) ==
  LET st == IF c.id \in DOMAIN stamps THEN stamps[c.id] ELSE NoStamp
      raise == Severity(c.state) >= High
      new == Unstamped(c, st)
      kept == {c.id} \cup {x.id : x \in chains}
  IN  /\ told' = [x \in kept |-> IF x = c.id THEN Record(c) ELSE told[x]]
      /\ named' = [a \in DOMAIN named |-> IF a \in new THEN c.id ELSE named[a]]
      /\ badge' = badge \cup
           (IF raise THEN c.triggers \cap (IF st.raised THEN new ELSE Range(c.members))
                     ELSE {})
      /\ stamps' =
           [x \in kept \cap (DOMAIN stamps \cup {c.id}) |->
              IF x = c.id THEN [stamped |-> Len(c.members), raised |-> st.raised \/ raise]
                          ELSE stamps[x]]

WriteNothing(chains) ==
  /\ told' = [x \in {c.id : c \in chains} |-> told[x]]
  /\ UNCHANGED <<stamps, named, badge>>

IsPowerOfTwo(n) ==
  LET power[i \in 0 .. n] == IF i = 0 THEN 1 ELSE 2 * power[i - 1]
  IN  \E i \in 0 .. n : power[i] = n

\* Variant that judges only the steps the chain shows.
JoinShown(c, a, k) ==
  LET room == Cardinality(c.shown) < MaxSteps
  IN  [c EXCEPT !.lastAt = now,
                !.members = Append(@, a),
                !.shown = IF room THEN @ \cup {a} ELSE @,
                !.triggers = IF room /\ k.trigger THEN @ \cup {a} ELSE @,
                !.heard = IF k.trigger THEN Append(@, k) ELSE @,
                !.state = IF room /\ k.trigger THEN Observe(@, k) ELSE @]

\* note, a step of a chain there is: it is judged, and shown when there is room.
Join(c, a, k) ==
  LET room == Cardinality(c.shown) < MaxSteps
  IN  [c EXCEPT !.lastAt = now,
                !.members = Append(@, a),
                !.shown = IF room THEN @ \cup {a} ELSE @,
                !.triggers = IF room /\ k.trigger THEN @ \cup {a} ELSE @,
                !.heard = IF k.trigger THEN Append(@, k) ELSE @,
                !.state = IF k.trigger THEN Observe(@, k) ELSE @]

\* Variant that publishes only what adds a step to the story.
ChangedShown(c, d) == d.shown # c.shown

\* What makes a grown chain worth writing again.
Changed(c, d) ==
  \/ d.shown # c.shown
  \/ Severity(d.state) # Severity(c.state)
  \/ Crossed(d.state) # Crossed(c.state)
  \/ IsPowerOfTwo(Len(d.members))

Grow(c, a, k) ==
  LET d == IF a \in Range(c.members) THEN [c EXCEPT !.lastAt = now] ELSE Join(c, a, k)
      chains == (OpenChains \ {c}) \cup {d}
  IN  /\ recent' = Push(FreshSlots, Slot(c.tree, a, k, TRUE))
      /\ live' = chains
      /\ joined' = joined \cup {a}
      /\ IF Changed(c, d) THEN WriteChain(d, chains) ELSE WriteNothing(chains)

\* note, the alerts waiting in the tree.
Waiting(ring, tree) ==
  Those(ring, {i \in DOMAIN ring : ring[i].tree = tree /\ ~ring[i].chained})

\* Variant that takes the slots of every tree.
MarkAll(ring, tree) == [i \in DOMAIN ring |-> [ring[i] EXCEPT !.chained = TRUE]]

\* A chain takes every slot of its tree.
Mark(ring, tree) ==
  [i \in DOMAIN ring |->
     IF ring[i].tree = tree THEN [ring[i] EXCEPT !.chained = TRUE] ELSE ring[i]]

\* Slots in the order of their alerts' ids, those of one alert as they were.
ById(slots) ==
  LET Precedes(j, i) ==
        \/ slots[j].alert < slots[i].alert
        \/ slots[j].alert = slots[i].alert /\ j < i
      place(i) == 1 + Cardinality({j \in DOMAIN slots : Precedes(j, i)})
  IN  [m \in DOMAIN slots |-> slots[CHOOSE i \in DOMAIN slots : place(i) = m]]

Formed(tree, slots) ==
  LET n == Len(slots)
      ids == [i \in 1 .. n |-> slots[i].alert]
      heard == Those([i \in 1 .. n |-> slots[i].kind], {i \in 1 .. n : slots[i].kind.trigger})
  IN  [tree |-> tree, id |-> ids[1], members |-> ids, shown |-> Range(ids),
       triggers |-> {s.alert : s \in {q \in Range(slots) : q.kind.trigger}},
       heard |-> heard, state |-> Folded(heard),
       firstAt |-> slots[1].at, lastAt |-> now]

\* The cap on live chains takes the one least lately touched.
Evict(chains) ==
  IF Cardinality(chains) < MaxChains THEN {chains}
  ELSE {chains \ {c} : c \in {x \in chains : \A y \in chains : x.lastAt <= y.lastAt}}

Form(tree, a, k) ==
  LET fresh == FreshSlots
      slots == ById(Append(Waiting(fresh, tree), Slot(tree, a, k, FALSE)))
      ring == Push(fresh, Slot(tree, a, k, FALSE))
      c == Formed(tree, slots)
  IN  IF ~Qualifies({s.kind : s \in Range(slots)})
      THEN /\ recent' = ring
           /\ live' = OpenChains
           /\ UNCHANGED joined
           /\ WriteNothing(OpenChains)
      ELSE \E others \in Evict(OpenChains) :
             /\ recent' = Mark(ring, tree)
             /\ live' = others \cup {c}
             /\ joined' = joined \cup Range(c.members)
             /\ WriteChain(c, others \cup {c})

\* ChainStore::note, and note_chain with what it returns.
Note(tree, a, k) ==
  LET mine == {c \in OpenChains : c.tree = tree}
  IN  IF mine # {} THEN \E c \in mine : Grow(c, a, k) ELSE Form(tree, a, k)

Init ==
  /\ now = 0 /\ alerts = <<>>
  /\ recent = <<>> /\ live = {} /\ stamps = <<>> /\ told = <<>>
  /\ named = [a \in Alerts |-> 0] /\ badge = {} /\ joined = {}

\* emit, a new alert.
Raise(tree, k) ==
  /\ Len(alerts) < LastAlert
  /\ alerts' = Append(alerts, [tree |-> tree, kind |-> k, at |-> now])
  /\ Note(tree, Len(alerts) + 1, k)
  /\ UNCHANGED now

\* emit, a finding that folds into an alert: it may be graded anew, since a name
\* resolves or an allowlist changes in between.
Repeat(a, k) ==
  /\ now - alerts[a].at < DedupeSecs
  /\ k.family = alerts[a].kind.family
  /\ Note(alerts[a].tree, a, k)
  /\ UNCHANGED <<now, alerts>>

\* Daemon::tick
Tick ==
  /\ now < LastTime
  /\ now' = now + 1
  /\ recent' = Those(recent, {i \in DOMAIN recent : now + 1 - recent[i].at <= Window})
  /\ live' = {c \in live : now + 1 - c.lastAt <= Window /\ now + 1 - c.firstAt <= MaxSpan}
  /\ told' = [x \in {c.id : c \in live'} |-> told[x]]
  /\ UNCHANGED <<alerts, stamps, named, badge, joined>>

Next ==
  \/ \E tree \in Trees, k \in Kinds : Raise(tree, k)
  \/ \E a \in DOMAIN alerts, k \in Kinds : Repeat(a, k)
  \/ Tick

Spec == Init /\ [][Next]_vars

-----------------------------------------------------------------------------
(* Properties. *)

\* The verdict over a sequence of triggers, as the table above escalate_state has
\* it: over all of them, in order, with nothing remembered in between.
Verdict(ks) ==
  LET base == IF ks = <<>> THEN 0
              ELSE CHOOSE r \in Ranks : /\ \E i \in DOMAIN ks : ks[i].rank = r
                                        /\ \A i \in DOMAIN ks : ks[i].rank <= r
      After(i, f) == {j \in DOMAIN ks : j > i /\ ks[j].family = f}
      creds == {i \in DOMAIN ks : ks[i].family = "cred" /\ ks[i].rank >= Medium}
      nets == UNION {After(i, "net") : i \in creds}
      persists == {j \in UNION {After(i, "persist") : i \in nets} : ks[j].rank >= Medium}
      crossed == {ks[i].family : i \in DOMAIN ks}
      Real(fs) == \E i \in DOMAIN ks : ks[i].family \in fs /\ ks[i].rank >= Medium
      up == \/ Cardinality(crossed) >= 2 /\ Real({"rootkit", "priv"})
            \/ Len(ks) >= 2 /\ ks[Len(ks)].family = "persist" /\ Real({"persist"})
  IN  CASE persists # {} -> Critical
        [] persists = {} /\ nets # {} -> Ceiling(Greater(base + 1, High))
        [] persists = {} /\ nets = {} /\ up -> Ceiling(base + 1)
        [] OTHER -> base

\* The thirteenth step judges like the first: a chain's severity and families are
\* those of every trigger that ever joined it, shown or not (Escalation).
VerdictIsOfAll ==
  \A c \in live :
    /\ Severity(c.state) = Verdict(c.heard)
    /\ Crossed(c.state) = {c.heard[i].family : i \in DOMAIN c.heard}

\* No sequence waits unseen: what is in the ring of one tree and has not been in a
\* chain does not qualify as one (note, qualifies).
NothingMissed ==
  \A tree \in Trees :
    ~Qualifies({r.kind : r \in {q \in Range(recent) :
                                  q.tree = tree /\ q.alert \notin joined}})

\* What the log says of an open chain is what the correlator has concluded; only
\* the count may lag behind, by less than a factor of two, and every alert it counts
\* says whose chain it is in (note, `changed`; write_chain, ChainStamp).
RecordIsCurrent ==
  \A c \in live :
    LET r == told[c.id]
    IN  /\ r = [Record(c) EXCEPT !.total = r.total]
        /\ r.total <= Len(c.members) /\ Len(c.members) < 2 * r.total
        /\ \A i \in 1 .. r.total : named[c.members[i]] = c.id

=============================================================================
