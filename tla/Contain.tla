------------------------------- MODULE Contain -------------------------------
(***************************************************************************)
(* Temporary containment driven by correlation (moatd/src/contain.rs and   *)
(* the containment half of moatd/src/engine.rs and control.rs).            *)
(*                                                                         *)
(* When the correlator rates a chain `high`, moatd loads a deny policy     *)
(* into the sensor (`tetra tp add`) under one of `Max` fixed slot names,   *)
(* records it in memory, and writes the records to state.json.  The record *)
(* is what expires, what `moatctl contain` lists and what `moatctl         *)
(* release` names, so the specification is about three copies of one fact: *)
(* the kernel's policies, the daemon's records, and the file.              *)
(*                                                                         *)
(* Every handler runs under Mutex<Daemon>, so each is one action; a crash  *)
(* inside a handler is an action of its own that keeps the external        *)
(* effects the handler had already had and loses its memory.               *)
(***************************************************************************)
EXTENDS Integers, FiniteSets

CONSTANTS
  Chains,       \* chains the correlator may form
  NoChain,      \* no chain: the slot's policy is not loaded
  Max,          \* [contain] max: how many slot names exist
  TTL,          \* [contain] ttl_secs, in clock units
  Horizon,      \* bound: no chain step arrives after this time
  FileEnabled,  \* [contain] enabled in moat.toml
  Faults        \* which failures the environment may produce

ASSUME ContainAssumption ==
  /\ Max \in Nat \ {0}
  /\ TTL \in Nat \ {0}
  /\ Horizon \in Nat
  /\ FileEnabled \in BOOLEAN
  /\ NoChain \notin Chains
  /\ Faults \subseteq {"tetra", "crash", "sensor"}

VARIABLES
  up,        \* moatd is running
  enabled,   \* Daemon.cfg.contain.enabled
  live,      \* Daemon.contain: the set of containment records
  verdict,   \* the severity each live chain currently has in the correlator
  kernel,    \* the sensor: the chain whose policy is loaded in each slot
  disk,      \* state.json: `contain` and `contain_enabled`
  clock,     \* unix_secs(), taken never to step back
  orphaned,  \* history: slots whose policy lost its record to a failure
  reverted   \* history: a SIGHUP has changed the containment switch

vars == <<up, enabled, live, verdict, kernel, disk, clock, orphaned, reverted>>

Slots == 0 .. Max - 1
Clock == 0 .. Horizon + TTL
Verdicts == {"none", "low", "high"}
Record == [chain : Chains, slot : Slots, since : Clock, expires : Nat]

TypeOK ==
  /\ up \in BOOLEAN
  /\ enabled \in BOOLEAN
  /\ live \in SUBSET Record
  /\ verdict \in [Chains -> Verdicts]
  /\ kernel \in [Slots -> Chains \cup {NoChain}]
  /\ disk \in [enabled : BOOLEAN, live : SUBSET Record]
  /\ clock \in Clock
  /\ orphaned \in SUBSET Slots
  /\ reverted \in BOOLEAN

Init ==
  /\ up = TRUE
  /\ enabled = FileEnabled
  /\ live = {}
  /\ verdict = [c \in Chains |-> "none"]
  /\ kernel = [s \in Slots |-> NoChain]
  /\ disk = [enabled |-> FileEnabled, live |-> {}]
  /\ clock = 0
  /\ orphaned = {}
  /\ reverted = FALSE

-----------------------------------------------------------------------------
(* Records. *)

ChainsIn(records) == {r.chain : r \in records}
SlotsIn(records) == {r.slot : r \in records}

\* ContainStore::is_contained
Contained(c) == c \in ChainsIn(live)

\* The Vec is in insertion order and the clock does not step back, so its
\* head is one of the records with the least `since`.
Oldest(records) == {r \in records : \A q \in records : r.since <= q.since}

NoRecord == [chain |-> NoChain, slot |-> 0, since |-> 0, expires |-> 0]
Heads == IF live = {} THEN {NoRecord} ELSE Oldest(live)

NewRecord(c, s) ==
  [chain |-> c, slot |-> s, since |-> clock, expires |-> clock + TTL]

\* ContainStore::insert: what recording chain c pushes out.
Dropped(c, head) ==
  {r \in live : r.chain = c}
    \cup (IF Cardinality(live) + 1 > Max THEN {head} ELSE {})

FreeSlots == Slots \ SlotsIn(live)

\* Variant that numbers slots by how many are in use.
SlotByCount(head) == {Cardinality(live) % Max}

\* Daemon::contain_slot_for, for a chain that holds no slot yet: the lowest
\* free slot, or the slot of the oldest record.
SlotFor(head) ==
  IF FreeSlots = {} THEN {head.slot}
  ELSE {s \in FreeSlots : \A t \in FreeSlots : s <= t}

-----------------------------------------------------------------------------
(* The sensor, through the `tetra` command. *)

\* `tetra tp delete` for a set of slot names.
Unloaded(k, slots) == [s \in Slots |-> IF s \in slots THEN NoChain ELSE k[s]]

\* The deletes that fail: the command's result is not looked at.
Refusals(slots) == IF "tetra" \in Faults THEN SUBSET slots ELSE {{}}

\* `tetra tp add` fails when the name is already loaded.
CanLoad(k, s) == k[s] = NoChain

\* The history variable: of the slots in `lost`, those still loaded.
StillLoaded(k, lost) == {s \in lost : k[s] # NoChain}

\* Variant that deletes policies only while containment is on.
ReleaseIfOn(records) ==
  /\ kernel' = Unloaded(kernel, IF enabled THEN SlotsIn(records) ELSE {})
  /\ orphaned' = StillLoaded(kernel', orphaned)

\* Daemon::release_contain for a set of records whose records are going too.
Release(records) ==
  \E refused \in Refusals(SlotsIn(records)) :
    /\ kernel' = Unloaded(kernel, SlotsIn(records) \ refused)
    /\ orphaned' = StillLoaded(kernel', orphaned \cup refused)

\* Daemon::write_state
Saved(records, switch) == [enabled |-> switch, live |-> records]

-----------------------------------------------------------------------------
(* A step joins chain c and the correlator rates the chain: note_chain,    *)
(* which calls maybe_contain.  `sev` is whether the chain now reads `high`. *)

Running == up /\ clock <= Horizon
Judged(c, sev) == verdict' = [verdict EXCEPT ![c] = sev]

\* Variant that returns for a low chain before asking whether it is contained.
JudgeEarly(c, sev) ==
  /\ Running
  /\ Judged(c, sev)
  /\ UNCHANGED <<up, enabled, live, kernel, disk, clock, orphaned, reverted>>

\* maybe_contain returns without acting: containment is off, the chain is low
\* and holds nothing, is high and already contained, or is high with nothing
\* outbound worth refusing.
JudgeOnly(c, sev) ==
  /\ Running
  /\ Judged(c, sev)
  /\ \/ ~enabled
     \/ sev = "low" /\ ~Contained(c)
     \/ sev = "high"
  /\ UNCHANGED <<up, enabled, live, kernel, disk, clock, orphaned, reverted>>

\* Variant that forgets the record and leaves the policy loaded.
WithdrawRecordOnly(c) ==
  /\ Running /\ enabled /\ Contained(c)
  /\ Judged(c, "low")
  /\ live' = {r \in live : r.chain # c}
  /\ UNCHANGED <<up, enabled, kernel, disk, clock, orphaned, reverted>>

\* The chain no longer reads `high`: its containment goes, and the file is
\* left for the next tick to rewrite.
Withdraw(c) ==
  /\ Running
  /\ enabled
  /\ Contained(c)
  /\ Judged(c, "low")
  /\ \E r \in live :
       /\ r.chain = c
       /\ Release({r})
       /\ live' = live \ {r}
  /\ UNCHANGED <<up, enabled, disk, clock, reverted>>

Containable(c) == Running /\ enabled /\ ~Contained(c)

\* contain_slot_for: with every slot in use the oldest policy is deleted first.
AfterSlotFor(s, refused) ==
  IF FreeSlots = {} /\ ~refused THEN Unloaded(kernel, {s}) ELSE kernel

MayFail == IF "tetra" \in Faults THEN BOOLEAN ELSE {FALSE}

\* The policy is loaded and recorded, and whatever the insert pushed out is
\* unloaded by name, which is the name just loaded when it was an eviction.
Contain(c) ==
  /\ Containable(c)
  /\ Judged(c, "high")
  /\ \E head \in Heads, refused \in MayFail : \E s \in SlotFor(head) :
       LET free == AfterSlotFor(s, refused)
           loaded == [free EXCEPT ![s] = c]
           dropped == Dropped(c, head)
       IN  /\ CanLoad(free, s)
           /\ live' = (live \ dropped) \cup {NewRecord(c, s)}
           /\ \E kept \in Refusals(SlotsIn(dropped)) :
                /\ kernel' = Unloaded(loaded, SlotsIn(dropped) \ kept)
                /\ orphaned' = StillLoaded(kernel', orphaned \cup (kept \ SlotsIn(live')))
  /\ disk' = Saved(live', enabled)
  /\ UNCHANGED <<up, enabled, clock, reverted>>

\* The policy file or `tetra tp add` failed: the handler returns, after
\* contain_slot_for has already released the oldest policy.
ContainFails(c) ==
  /\ Containable(c)
  /\ Judged(c, "high")
  /\ \E head \in Heads, refused \in MayFail : \E s \in SlotFor(head) :
       LET free == AfterSlotFor(s, refused)
       IN  /\ CanLoad(free, s) => "tetra" \in Faults
           /\ kernel' = free
  /\ orphaned' = StillLoaded(kernel', orphaned)
  /\ UNCHANGED <<up, enabled, live, disk, clock, reverted>>

\* The correlator forgets a chain outside its window (ChainStore::prune).
ChainCloses(c) ==
  /\ up
  /\ verdict[c] # "none"
  /\ Judged(c, "none")
  /\ UNCHANGED <<up, enabled, live, kernel, disk, clock, orphaned, reverted>>

-----------------------------------------------------------------------------
(* The periodic tick and the user's commands. *)

\* Variant that keeps a containment while its chain is still open.
ExpiredClosed == {r \in live : r.expires <= clock /\ verdict[r.chain] = "none"}

Expired == {r \in live : r.expires <= clock}

\* contain_tick, and the write_state that ends the run loop's tick.
Tick ==
  /\ up
  /\ Release(Expired)
  /\ live' = live \ Expired
  /\ disk' = Saved(live', enabled)
  /\ UNCHANGED <<up, enabled, verdict, clock, reverted>>

\* `moatctl release <chain>`: Daemon::release_chain.
ReleaseChain(c) ==
  /\ up
  /\ \E r \in live :
       /\ r.chain = c
       /\ Release({r})
       /\ live' = live \ {r}
  /\ disk' = Saved(live', enabled)
  /\ UNCHANGED <<up, enabled, verdict, clock, reverted>>

\* `moatctl set contain on`
SetContainOn ==
  /\ up
  /\ enabled' = TRUE
  /\ disk' = Saved(live, TRUE)
  /\ UNCHANGED <<up, live, verdict, kernel, clock, orphaned, reverted>>

\* `moatctl set contain off` releases everything live.
SetContainOff ==
  /\ up
  /\ enabled' = FALSE
  /\ Release(live)
  /\ live' = {}
  /\ disk' = Saved({}, FALSE)
  /\ UNCHANGED <<up, verdict, clock, reverted>>

\* SIGHUP: Daemon::reload replaces the configuration with moat.toml's.  The
\* thresholds set from the command line are put back; this switch is not.
Reload ==
  /\ up
  /\ enabled' = FileEnabled
  /\ reverted' = (reverted \/ enabled # FileEnabled)
  /\ UNCHANGED <<up, live, verdict, kernel, disk, clock, orphaned>>

-----------------------------------------------------------------------------
(* Crashes, restarts, and time. *)

\* Memory is lost; the file and the kernel are not.
LoseMemory ==
  /\ "crash" \in Faults
  /\ up
  /\ up' = FALSE
  /\ live' = {}
  /\ verdict' = [c \in Chains |-> "none"]
  /\ UNCHANGED <<enabled, disk, clock, reverted>>

Crash ==
  /\ LoseMemory
  /\ UNCHANGED <<kernel, orphaned>>

\* A crash inside Contain(c), before its write_state: with the oldest policy
\* deleted, with the new one loaded, or with the dropped ones deleted as well.
CrashContaining(c) ==
  /\ LoseMemory
  /\ Containable(c)
  /\ \E head \in Heads : \E s \in SlotFor(head) :
       LET free == AfterSlotFor(s, FALSE)
           loaded == [free EXCEPT ![s] = c]
       IN  /\ kernel' \in IF CanLoad(free, s)
                          THEN {free, loaded, Unloaded(loaded, SlotsIn(Dropped(c, head)))}
                          ELSE {free}
           /\ orphaned' = StillLoaded(kernel', orphaned \cup {s})

\* A crash inside a releasing handler, before its write_state, with the
\* policies of some of its records already deleted.
CrashReleasing ==
  /\ LoseMemory
  /\ \E gone \in SUBSET live :
       /\ gone # {}
       /\ kernel' = Unloaded(kernel, SlotsIn(gone))
       /\ orphaned' = StillLoaded(kernel', orphaned)

\* Restart=always: Daemon::new reads state.json back.
Restart ==
  /\ ~up
  /\ up' = TRUE
  /\ enabled' = disk.enabled
  /\ live' = disk.live
  /\ UNCHANGED <<verdict, kernel, disk, clock, orphaned, reverted>>

\* tetragon restarts: policies added at runtime are gone.
SensorRestart ==
  /\ "sensor" \in Faults
  /\ kernel' = [s \in Slots |-> NoChain]
  /\ orphaned' = {}
  /\ UNCHANGED <<up, enabled, live, verdict, disk, clock, reverted>>

Advance ==
  /\ clock < Horizon + TTL
  /\ clock' = clock + 1
  /\ UNCHANGED <<up, enabled, live, verdict, kernel, disk, orphaned, reverted>>

StepJoins(c) ==
  \/ \E sev \in {"low", "high"} : JudgeOnly(c, sev)
  \/ Withdraw(c)
  \/ Contain(c)
  \/ ContainFails(c)

Next ==
  \/ \E c \in Chains :
       StepJoins(c) \/ ChainCloses(c) \/ ReleaseChain(c) \/ CrashContaining(c)
  \/ Tick \/ SetContainOn \/ SetContainOff \/ Reload
  \/ Crash \/ CrashReleasing \/ Restart \/ SensorRestart \/ Advance

\* Time passes, systemd restarts the daemon, and a daemon that does not crash
\* inside every state interval ticks.
Fairness ==
  /\ WF_vars(Advance)
  /\ WF_vars(Restart)
  /\ SF_vars(Tick)

Spec == Init /\ [][Next]_vars
FairSpec == Spec /\ Fairness

-----------------------------------------------------------------------------
(* Properties. *)

\* The slot names are fixed and shared, so a containment must never be recorded
\* under a name another record holds, nor a chain be contained twice, nor the
\* cap be exceeded, across evictions, failures and restarts
\* (contain_slot_for, ContainStore::insert, from_state).
SlotsConsistent ==
  /\ \A r, q \in live : (r.slot = q.slot \/ r.chain = q.chain) => r = q
  /\ Cardinality(live) <= Max

\* What moatd refuses it can also undo: a policy in the kernel has a record, in
\* memory while moatd runs and in state.json while it does not, unless a
\* refused delete or a crash inside a handler lost it.
Books == IF up THEN live ELSE disk.live

KernelAccounted ==
  \A s \in Slots : kernel[s] # NoChain /\ s \notin orphaned =>
    \E r \in Books : r.slot = s /\ r.chain = kernel[s]

\* A record the daemon holds is already in state.json, so a crash at any point
\* between handlers forgets no containment.
RecordsOnDisk == up => live \subseteq disk.live

\* A containment does not outlive the conclusion that justified it: a chain that
\* reads low is not contained, unless a SIGHUP switched containment under it.
LowIsReleased ==
  \A c \in Chains : verdict[c] = "low" /\ Contained(c) => reverted

\* A chain stays contained no longer than its TTL: every record, in memory or in
\* the file, is eventually gone, whatever crashes, restarts and refused
\* deletes happen in between (contain_tick, from_state).
OnRecord(c) == c \in ChainsIn(live \cup disk.live)
RecordsExpire == \A c \in Chains : OnRecord(c) ~> ~OnRecord(c)

\* ... and so is the refusal itself, unless its record was lost.
BlocksLifted ==
  \A s \in Slots : (kernel[s] # NoChain /\ s \notin orphaned)
                   ~> (kernel[s] = NoChain \/ s \in orphaned)

\* "doing it here just means the kernel and the record agree": every record
\* names a policy that is loaded (contain_slot_for, engine.rs).
RecordsLoaded == up => \A r \in live : kernel[r.slot] = r.chain

=============================================================================
