# omarchy-moat: specifications

omarchy-moat watches a workstation through the Tetragon kernel sensor, correlates
what it sees, and acts: it refuses connections, kills, quarantines.  This
directory holds TLA+ specifications of its core, the TLC configurations that
check them, and theorems that TLAPS proves.  Line numbers refer to the sources
under `moatd/src`.

## Inventory

`moatd` is one process: a run loop (`engine.rs`, `run`) and the threads of the
control socket (`control.rs`) share one `Mutex<Daemon>`.  A handler holds the
mutex from beginning to end, so handlers are atomic to each other; what is not
atomic is a handler against a crash, and its effects outside the process: the
kernel (through the `tetra` command, whose result is often ignored), the files,
the signals it sends.  `moat-ship` and `moat-feeds` are processes of their own and
meet moatd only in files.

| component | state | operations | hard part | correct when |
|---|---|---|---|---|
| containment (`contain.rs`, `engine.rs`) | records, slot names, `state.json`, kernel policies | contain, withdraw, expire, release, switch, SIGHUP | fixed names reused, refused deletes, crashes between two copies | kernel, records and file agree; nothing blocked for ever |
| log shipper (`ship.rs`) | cursor file, frontier, buffer, back-off | poll, send, settle, save | rotation by another process, outages, restart | nothing skipped uncounted, nothing re-sent without cause |
| alert store (`store.rs`) | live and rotated file, fold | append, update, rotate, recover | two renames with a crash between, caps on what is carried | no protected alert lost, fold equals the files |
| tailer (`tail.rs`) | open file, offset | poll, reopen | rotation by the sensor | lines in order, none twice |
| arming (`engine.rs`) | desired and kernel modes, back-off | arm, verify, exclude | the sensor loads policies after it has started | status never claims what the kernel does not do |
| correlator (`chain.rs`) | open chains, recent steps | note, prune | window and span, growth, severity up and down | a chain closes; severity follows its steps |
| killing (`engine.rs`, `control.rs`, `contain.rs`) | targets, handles, which chains were decided | enforce, tree kill, `moatctl kill` | pid reuse, exec and fork between two system calls, a chain that grows | only what was judged is signalled, once, and all of it |
| quarantine (`control.rs`, `engine.rs`) | held copies, manifests | take, list, restore | a path its owner rewrites meanwhile, crashes between two calls | what was taken is held until it is back |
| baseline, rarity (`baseline.rs`, `rarity.rs`) | patterns, proposals, noise windows, blocks | observe, learn, propose, demote, re-check | two files written at different times, restarts | nothing grave learned, a refusal stands |
| names (`names.rs`) | bounded channel, cache | drain, resolve, prune | reader thread, expiry against order | an event is resolved by an earlier answer |
| feeds (`feeds.rs`) | the two lists, `state.json` | fetch the pointer, install the list, apply a delta or the artifact, commit | deaths between files, stale pointers, failed downloads | who claims a sequence has its packages, and everyone gets there |
| aggregator (`aggregator/src`) | bucket: artifacts, deltas, pointer, state | publish, point, save, prune | a run that dies between two writes | the pointer names what is there, deltas compose |
| incidents, receipts, canaries, triage, rules, provenance, content, shell, scanner, sandbox | files, or none | | little concurrency of their own | |

`PROJECT.json` lists them all with their status, and the hazards of the code at the
lines where they bite.

## Modules

* `Contain` - containment.  `ContainProofs` - its theorems.  `MCContain` - its
  instance for TLC, with the symmetry of chains.
* `Delivery` - what the shipper promises, without how.
* `Ship` - the shipper, which implements `Delivery`.  `ShipProofs` - its theorems.
* `Arming` - enforcement as recorded and as it is.  `MCArming` - its instance for TLC.
* `AlertStore`, `MCAlertStore` - alerts.jsonl, its fold and its rotation.
  `AlertStoreProofs` - its theorems.
* `Chain`, `MCChain` - the correlator and what it writes to the log.  `ChainProofs` -
  its theorems.
* `Baseline`, `MCBaseline` - the learner.  `BaselineProofs` - its theorems.
* `Respond`, `MCRespond` - ending processes.  `RespondProofs` - its theorems.
* `Quarantine`, `MCQuarantine` - holding files.
* `ActionProofs` - the theorems of `Arming` and of `Quarantine`, one after the other.
  It extends both, so `Quarantine` names its formulas apart (`QuarantineSpec`, `qvars`).
* `Publisher` - the aggregator.  `Feeds` - one machine that follows it, and what must
  hold of the two together.  `FeedsProofs` - their theorems.  `MCFeeds` - their
  instance for TLC.

How they fit together.  An alert is appended (`AlertStore`), counted against its
pattern (`Baseline`) and noted by the correlator (`Chain`); a chain that is high is
contained (`Contain`), and its processes and files may be taken (`Respond`,
`Quarantine`).  Each module takes what the others decide as an input that may be
anything they can produce: `Contain` any verdict, `Respond` any chain of alerts,
`AlertStore` any growing chain, `Ship` a file that rotates as `AlertStore` has it.
`Feeds` extends `Publisher`, and the two share the bucket: the only composition in
which both sides are modelled step by step.

### Contain

State.  `live` is `ContainStore.live`, as a set: the order of the Vec is that of
`since`, and the only use of the order is "the oldest", which may be any record
with the least `since`.  `kernel` is what the sensor has loaded under each of the
`Max` names, `disk` the two fields of `state.json` that matter, `enabled` the
switch in the running configuration, `verdict` what the correlator last said of
each chain.  `orphaned` and `reverted` are history: the slots whose policy lost its
record to a refused delete or a crash, and whether a SIGHUP ever changed the
switch.  No action reads either; they only let the properties say "unless".

Actions.  `maybe_contain` is four actions by outcome: `JudgeOnly`, `Withdraw`,
`Contain`, `ContainFails`.  `Tick`, `ReleaseChain`, `SetContainOn`, `SetContainOff`,
`Reload` are the handlers of the same names.  A handler is atomic, so a crash
inside one is an action of its own (`CrashContaining`, `CrashReleasing`) that
keeps a prefix of the handler's external effects.  `Faults` says which failures the
environment may produce: a refused `tetra` command, a crash, a restart of the
sensor.

Left out: which binaries and destinations a policy names, so `JudgeOnly` may
decline any high chain; a failing write of `state.json`; `ttl_secs` and `max`
changing on SIGHUP; the wall clock stepping back, which would make the oldest
record by `since` another one than the head of the Vec.

Bounds.  `Horizon` stops new steps, not time: the clock runs `TTL` further, so
every record can expire.

### Ship

State.  A record is a number, an offset counts lines, an inode counts
generations.  `file` and `old` are the live file and its rotated sibling, `saved`
the cursor file, `cursor`, `frontier`, `buffer`, `pending`, `uncounted` the fields
of `Shipper`, `pc` where its pass is, `copies` how often the collector has taken
each record.  `lost` and `faults` are history.

Actions.  A pass is `Collect` (poll, heartbeat, evictions), then any number of
`SendOk`, at most one `SendFails` or `SendRefused`, then `Save` (settle, count,
write); while backing off it is `Collect` and `Save`.  moatd's `Write` interleaves
anywhere and may rotate, carrying protected rows as `store.rs` does.  `Stop` is a
crash at any point, or SIGTERM between two passes.  A failed `send` may leave any
prefix of the batch with the collector.  A save may fail.  `SendRefused` is the
permanent error of `pass`; over HTTPS only an answer that the agent hands back and that
is no success leads there (a redirect of a POST, say): every 4xx and 5xx is an error of
the agent, and `SendFails`.

Environment.  `MayTurn` states what the passing runs assume of rotation: the cursor
file is in the live file when it is renamed, and (`TailFits`) at most
`read_max_records` lines of it are unread.  Outside of that records are lost: a
second rotation while the cursor is still in the rotated file makes the file in
between unreachable, and a tail longer than that is left behind.  A shipper
started for the first time does not read the rotated file.

Left out: the class filter, the redaction guard and its `withheld` count, byte
limits beside the record limits, the clock behind `next_attempt`, more than one
source, partial lines, and a rotation between the `stat` and the `open` of one poll.
The drop counters saturate at `Last`, which is read as "at least `Last`".

### Arming

State.  The record (`mode`, `enforcing_rules`, with `saved` the copy in `state.json`);
`rendered` and `policies`, the policies directory and what `Daemon.policies` last read
of it; the state of `arm_tick`; the verdict and the alarm memory of
`verify_enforcement`; `sensor`, `loading` and `kernel`, which are tetragon.  `recent` is
what `Daemon.dedupe` has of the alarms of the last `DedupeFor`: the names on the row, the
total in its title, the time left.  `told` and `how` are history: the names on the row of
the open gap's alarm, and what became of that alarm.

The alarm.  `raise_enforcement_gap` goes through `emit`, which does one of three things
(`Raise`): count up a row of the same title (`Folded`; a title has the numbers and no
names), append a row (`NewRow`), or lose it with a failing append (`Lost`).
`last_arm_alert_set` is the new gap in every case, so it is not tried again.

Actions.  A tick is `arm_tick` then `verify_tick`: `ArmLater`, `ArmNow`, `ArmNothing` are
the outcomes of the first, `VerifyTick` is the second when nothing is being armed.
`VerifyEnforcement` is told apart by whether the kernel answered.  `SetModeAll` and
`SetModeRule` are `set_mode`; `Exclude` stands for `exclude_binary` and
`remove_exclusion`, which reload one policy with another text, `ExcludeFails` for their
early return, `PlantCanaries` and `RemoveCanaries` for `set_canaries`.  Any `tetra` call
may take effect on some of the policies it was for, and report what it likes, except
that arming a policy that is not loaded fails.  A policy that carries no enforcement, on which `set-mode` never
takes, is one of those outcomes.

Time.  Ages and times to go instead of instants: `sinceVerify` stops at `VerifyEvery`,
which is also what `invalidate_verification` makes of it, and the times of
`Arming::Waiting` stop at zero.  The model is finite without a horizon, so its
temporal properties are about behaviours that go on.

Left out: userland rules (they enforce in moatd and need no arming), which binaries
are excluded, a failing write of `state.json`, the alert that `set mode monitor` itself
raises, failures to render.

### AlertStore

State.  A file is a sequence of lines, a line an alert in full or an update, and an
update a record of what it says: the flags it sets, the anchor and the chain it gives.
`Absent` is a file that is not there.  `Fold` is what every reader makes of a file, one
line at a time (`FoldLine`: `fold_line`, `hydrate`, `propagate`), and `FoldFiles` that of
the rotated file and the live one; `cache` is the fold moatd keeps, with the stamp of the
files it was made from.  `whole` and `dropped` are history: every line ever written, and
the rows that a rotation left in neither file.

Actions.  `Raise`, `Ack`, `Act`, `Surface` are `append_alert` and `append_update`
(`Surface` is `quieten_backlog`, and a triage that demotes, raises or is undone: an
update assigns, so a badge may go and come back); `Grow` and `Stamp` are `write_chain`, the anchor's line and then one line per member.  A line
that overfills the file begins a rotation, which goes on in three steps (staging file,
two renames) between any two of which `Crash` may fall; `Restart` is `open` with
`reconcile_staging`.  What is staged is `CarriedLines`: the protected rows that the cap
leaves, in the order of their ids, those of a chain stripped of it if the row of its
anchor is staged too.

`acted` is that `action_taken` says anything but `none`, `restored` included, which is
all the rotation asks of it.  An ack is not taken back in moatd, nor is `action_taken`
set to `none` again; the theorems are for updates that say anything of any flag.

Left out: the formats; a triage that changes the severity of a row, so that a rotation
would class it anew; a line is written whole or not at all.

### Chain

State.  `recent` is the ring, `live` the open chains, `stamps` `Daemon::chain_stamps`;
`told`, `named` and `badge` are what the log holds of a chain, of its members and of
what was raised.  A chain keeps `heard`, the grades it folded, as history.

Actions.  `Raise` is a new alert and `Repeat` a finding that folds into one, perhaps
graded anew; both are `ChainStore::note` followed by `note_chain`.  `Tick` ages.

Sequences are cut and ordered by functions one can reason about: `Those` keeps the
places of a set (`retain`), `ById` puts slots in the order of their alerts' ids
(`sort_by`), `IsPowerOfTwo` is `is_power_of_two`.

`Verdict`, against which the escalation is checked, is the table above
`escalate_state` over the whole sequence, with nothing remembered in between.

### Baseline

State.  `b` is `Baseline.state`, `disk` baseline.json, `blocks` the live blocks of
baseline.toml, `official` and `moved` the package database.  `past` is history: what
scored high, what was refused and what was counted, through crashes.

Actions.  `Emit` is `note_baseline` for one alert, `Crowd` the pruning of the map by
patterns that are not modelled, `Tick` the save and the noise windows,
`OnPacmanChange` the re-check of what was granted, `Crash` a restart from whichever
files were saved, and the commands of `moatctl baseline`.

Left out: a failing save of baseline.json; a failing write of a block writes nothing.

### Respond

State.  `proc` says which process has a pid, when it started, what it has run, in
order, and whether it is stopped; a handle (`PidFd`) is a pid and a start, which is what the
kernel holds.  `steps` is the chain with the alert of each step, `task` what moatd is
doing, `hits` the history of signals.

Actions.  The world starts (fork), execs, changes user and exits.  moatd goes on one
system call at a time: `Raise` notes an alert, `EnforceVerify` and `EnforceSignal` are
`maybe_enforce`, `KillPin`, `KillVerify`, `Decide`, `Stop`, `Kill` are
`maybe_kill_tree`, the `Command` actions `cmd_kill`.  The clock is the count of what
the world did, so every process has a start of its own and `Tolerance` 1 lets one
reused pid pass for another.

Left out: decisions.jsonl; kills by the kernel and their confirmation; a kernel
without pidfd; a restart elsewhere than in a tree kill; alerts past the shown steps
are not enforced singly; a SIGCONT from someone else and a SIGSTOP that fails (its
result is ignored, engine.rs:1655), so that `NoStartingPistol` is about a stop that
stops; a process that survives SIGKILL (engine.rs:1661), which moatd, with CAP_KILL,
should not meet.  Severity is not asked for: that the chain is high is
`Chain`'s business.

### Quarantine

State.  One path, what it holds, and for each alert that names it the held copy, the
manifest and `action_taken`.  `owed` and `spent` are history: contents that moatd
removed and has not put back, and those of them a second taking wrote over.

Actions.  The owner of the path replaces, writes and deletes.  `Hash`, `Open`, `Create`,
`Copy`, `Unlink`, `Meta`, `Mark` are the calls of `quarantine_file`; `Restore` is the
checks of `quarantine_restore`, `Rename` or `CopyBack` with `Drop`, and `Tidy` the rest
of it.  Each may fail, and `Killed` may fall between any two.  `Restorable` is what would
come back if one asked: owed, held, in a manifest, and what that manifest has the hash of.

Left out: modes and owners of files; which directories may be touched.

### Publisher and Feeds

State.  The bucket: `objects`, `pointer`, `pstate` (state.json) and `dstate`
(domains.json); `run` is how far the run of the worker has come.  The machine: `disk`,
its two lists and its state.json, and `client`, how far the refresh has come with its
copies of the state and the pointer.  `before` is the last pointer, which the edge may
still serve; `forked` says that one sequence went out with two contents.  An index is a
function from packages to their specs, a delta a function from packages to a spec or
`Removed`.  An object is named by its sequence and the hash of its content, so the
record of both stands for the name and for the object, and an etag is a count of the
writes of the pointer.

Actions.  `Put`, `PointPackages`, `SaveState`, `Prune` are `publish`; `PutList`,
`PointList`, `PruneLists` are `runDomains`; `RunDies` between any two.  A refresh is
`Fetch`, `InstallList` or `KeepList`, then `SameSeq`, or `ApplyDelta` or `ApplyFull`
and `Commit`, or `GiveUp`; `RefreshDies` between any two.  A download and a save may
fail.  `Steps`, `Compose` and `DeltasOf` are the window and its composition.

Left out: two runs of the worker at once and two refreshes at once, which nothing in
the code excludes (the two crons and `/admin/*`; the timer and `moatctl feeds
refresh`): see the observations.  Signatures, hashes and the sequences inside the
signed bytes are taken to hold.  How the sources fold to an index, and when a domain
list is refused, is data: any index and any list may come next.  `meta.json` only
reports.

## Runs

| run | cfg | distinct states | what it shows |
|---|---|---|---|
| contain_safety | `MCContain.cfg` | 237,908 | three chains, two slots, every fault: slots, cap, kernel, file and verdicts |
| contain_live | `MCContainLive.cfg` | 4,722 | every record expires; every accounted block is lifted |
| contain_slots | `MCContainSlots.cfg` | violation | an eviction unloads the policy it made room for |
| ship_safety | `MCShip.cfg` | 185,391 | no record skipped or forgotten, the pending count exact, duplicates bounded; `Ship` implements `Delivery` |
| arming_safety | `MCArming.cfg` | 246,534 | verdicts true when given, a gap is told of but for what emit folds or loses, arming ends, nothing stays down without being shown |
| store_safety | `MCAlertStore.cfg` | 1,384,374 | the fold in memory is the file's; rotations show nowhere but in what they drop; what is carried is complete by itself, and what waits for a person goes first |
| chain_safety | `MCChain.cfg` | 1,166,477 | a chain is judged by all of its steps, and no sequence goes unseen |
| baseline_safety | `MCBaseline.cfg` | 476,558 | nothing grave is learned, a refusal stands, a demotion is earned |
| respond_safety | `MCRespond.cfg` | 2,179,626 | who is implicated is signalled, no one else, once, and nobody is left out or left stopped |
| quarantine_safety | `MCQuarantine.cfg` | 3,427,653 | what was taken is held until it is back, what could be given back goes on being so, and moatd claims nothing else |
| feed_safety | `MCFeeds.cfg` | 2,206,703 | the published packages exactly, names of what is there, and in the end the published lists |
| quarantine_deleted | `MCQuarantineDeleted.cfg` | violation | a second quarantine of an alert writes over what it holds |

Deadlock is checked for `Contain`, `Ship`, `Arming` and `Feeds`: moatd can always tick, reload or
be started again, moat-ship can always poll, and a refresh can always find nothing new.
The other models stop at their
bounds (alerts, time, what the world does), and their runs do not check it.

Why the bounds suffice.  Containment: three chains over two slots is the least
instance in which the cap bites with a slot to spare; TTL and horizon of two let
records of different ages meet.  Shipping: two records, a copy that a rotation
carries and heartbeats overflow a buffer of two, batches of one make a pass send
several, a memory of one id forgets, a tail and a carried record fill a read of two
with a line still to come, and two rotations put one record on three lines.  Arming:
two policies give every relation of one gap to the next (smaller, larger, other), one of
them comes and goes with the decoys; two tries pass through the back-off and into its
last step, and the deadline falls before, at and after a try; one row at a time may be
younger than `DedupeFor`, which is enough for the next gap to fold into it, with its names
or with another.

The store: three alerts and six lines over a file of three make four rotations, of
which the later ones carry what earlier ones carried; two of the lines may be of a flag
(`MaxMarks`), so that one is set and taken back; two rows may be carried, so a
chain of three does not fit.  Alerts of moatd about itself (`meta`) are not in the instance;
the theorems are for any kinds.  Chains: four alerts in two trees are a chain, one more
step than it shows, and an eviction by a second one.  The learner: one pattern, two
hours that are also two days (a bucket is a day long), so that windows, days and
demotion meet with few alerts.  Ending processes: three pids, of which one is the
trunk and at most one starts in a container, two programs, two moves of the world,
three alerts: enough for a pid to be freed and taken again, for a kill of two targets
of which one fails, and for a third alert after the decision.  A chain of three rarely
has more targets than the `MaxTargets` of two; `OneBurstAlways` is for any number.  Files: two alerts that
share a path, three contents, two faults.  Feeds: two packages, one of which comes and
goes, three sequences with a window of two, so that a machine can be one behind, two
behind and out of the window; two artifacts kept, so that the third publication prunes;
three faults between the worker, the machine and the network.

### Fairness

`Contain`: time passes (`Advance`), systemd restarts moatd (`Restart=always`, no start
limit), and `Tick` is strongly fair: crashes may recur, but not inside every
interval of the tick for ever.  Nothing is assumed of the `tetra` command, of
users, or of the correlator.

`Ship`: the loop keeps passing, the back-off ends, a stopped shipper is started
again (its crashes are bounded), and a collector that is asked for ever takes a
batch now and then (`SF` on `SendOk`); without the last there is no delivery to
speak of.  It says that the head batch is taken in the end, whatever is in it:
`KeepsPromise` is silent about a batch the collector will never take, and the
observations tell what the shipper does with one.

`Arming`: time passes, the run loop ticks, and a sensor that stays up is not silent at
every verification (`SF` on the answered ones).  That a `set-mode` ever takes is not
assumed: `EnforcedOrShown` is about what happens when it does not.

`Feeds`: the timer goes on starting refreshes and one of them goes on (`WF` on `Tick`);
downloads, saves and deaths fail `MaxFaults` times at most.  Nothing is assumed of the
aggregator, which may stop at any point.

## What the violations say

* `contain_slots`: with all slots in use, `contain_slot_for` deletes the oldest
  policy and hands out its name, but leaves its record in the store; `insert` evicts
  that record, and the loop after it deletes "its" policy by name - the one just
  loaded.  A containment is then listed that refuses nothing.
* `quarantine_deleted`: the held copy is named by the alert and the file, and created
  with `File::create`.  `moatctl quarantine <id>` does not ask whether the alert holds
  a file already: when the path has one again, the second copy takes the place of the
  first.  docs/CLI.md says that nothing is ever deleted.

## Observations without a run

What the models showed and the properties therefore make an exception for.

Containment.

* `tp add` comes before the record and the record before `write_state`.  A crash in
  between leaves a policy no record names ("Every containment expires on its own",
  contain.rs:30).  Later `tp add`s of that name fail, so the slot is gone too, until
  the sensor restarts.  `KernelAccounted` and `BlocksLifted` except `orphaned` slots.
* `reload` assigns the file's configuration and restores only the threshold
  overrides, so a SIGHUP undoes `moatctl set contain` ("A SIGHUP must not quietly undo
  a decision the user made from the CLI", engine.rs:625).  `[contain] kill` is lost in
  the same way.  `LowIsReleased` excepts `reverted`.

Shipping.

* A poll that fills its budget inside the renamed file moves on to the new file at
  offset 0 ("a rotation must not lose the tail of the old file", ship.rs:1418).
  `TailFits` keeps the runs from it.
* The cursor is saved once per pass, and a pass sends until the buffer is empty, so a
  crash re-sends every batch of the pass, not "at worst one" (ship.rs:18).
  `OncePerFault` counts records, not batches.
* `HttpsTransport` sorts the statuses of answers into "later" and "never", since
  "retrying one forever would wedge the whole stream behind it" (ship.rs:1126).  But the
  agent is built without `http_status_as_error(false)`, and ureq 3 then makes an `Err` of
  every 4xx, which is retried.  A batch the collector refuses stays at the head until a
  full buffer evicts it.

Arming.

* After `set mode enforce --rule p`, `set mode monitor` sets every policy to monitor,
  tells the user that nothing enforces any more, and leaves `p` in `enforcing_rules`;
  the verification it makes due arms `p` again ("every policy moves with it",
  control.rs:2398).  In the same way `set mode monitor --rule p` does not outlive a
  daemon-wide `enforce`.
* The alarm of a gap may never be seen.  `emit` folds it into a row of the last
  `dedupe_secs` with the same title, and the title has the numbers only: a gap of other
  names, or one that closed and is back, counts up a row that names the old ones and may
  be acked.  Nor is an alarm tried again whose append failed: `last_arm_alert_set` has it.
  "Clearing this is what lets the NEXT gap raise its own alert" (engine.rs:2328), and
  alerts of this family are keyed by title so that different statements stay apart
  (explain.rs:175).  `GapsAreTold` states both exceptions; `status` shows the right names
  in either case, which is `EnforcedOrShown`.
* An exclusion whose `tp add` fails, and the removal of decoys whose rule is armed, take
  a policy out of the kernel without `invalidate_verification`, so `status` calls it
  verified for up to a minute; the second goes on to raise an alarm for a policy that
  was removed on request, since `Daemon.policies` still lists it.

The correlator and the log.

* A repeat that is graded anew completes a chain whose ring already holds its alert:
  the formation path copies every waiting slot of the tree and appends the repeat, so
  the alert is in the chain twice ("an alert appears once", chain.rs).
* `dedupe_secs` may be set above the ten minutes a chain lives without a step (up to an
  hour, engine.rs:6612).  The stamp of a chain that aged out stays until the next
  `write_chain`; a repeat of its first alert may then start another chain of the same
  name, and the members below the old `stamped` never learn their chain.
  `RecordAlways` is proved where alerts fold for no longer than that.
* A chain that was high, falls, takes a trigger and is high again does not raise that
  trigger to the badge: `ChainStamp.raised` is set already.
* When the anchor of a chain has been rotated out, `fold_line` ignores the updates of
  its chain, and its growth is lost to readers (`dropped`).
* The rows a rotation carries are classed after `strip_shared_chains` has taken the
  chain out of every member whose anchor is carried (store.rs:385, 397).  A member of a
  high chain that the user has answered is protected for its chain alone, and without it
  has priority 0: an alert of moatd about itself, priority 1, is carried in its place
  ("it is evicted only as its best claim allows", store.rs:652).  `WantedFirst` is of
  the highest class, which does not rest on a chain.
* If the second rename of a rotation fails while moatd goes on, the reopen finds no
  staging to reconcile; the rows that were staged are discarded.
* A line of which only a part is written swallows the next one on disk, while the fold
  in memory keeps it and takes the new stamp.

The learner.

* The block is appended at once and baseline.json saved up to a minute later.  A crash
  in between makes the learner earn and append the block again; the re-check then
  disables one of the two, reports the grant withdrawn and never looks again, while
  the other goes on suppressing ("Marked revoked ONLY if the block is actually gone",
  engine.rs).  Accepting both a re-demotion proposal and an ordinary one does the same.
* `accept` marks a pattern learned before the block is written, and keeps it so if the
  writing fails.
* Dismissing an ordinary proposal leaves a re-demotion proposal for the same pattern
  open, and the reverse.  A re-demotion proposal that was dismissed is offered again at
  the next demotion (baseline.rs:675, 767: only a pattern with a record remembers, and
  `propose_redemoted` does not ask it), against "Dismissed means do not ask me again".
  `RefusalStands` is about ordinary proposals.
* Pruning the map forgets that a pattern once scored high.

Killing and quarantine.

* A chain names a pid by the first step that has it.  A process that execs after its
  first alert no longer runs the program of that step; `verify_pid` refuses, and the
  payload, which has alerts of its own, lives on.  `NoneImplicatedLeft` is therefore
  about first steps.
* `maybe_enforce` verifies and then signals by number, and `cmd_kill` pins the
  descendants in batches after the walk: a pid reused in between is killed unverified.
  `OnlyTheImplicated` is about tree kills and the target of a command.
* In `log` mode a chain that would have been killed is decided, so `set kill kill`
  does not reach it; `killed_chains` does not outlive a restart, so a chain that forms
  again may be killed again.
* moatd dying between the two passes leaves processes stopped (`cut`).
* A failing meta.json or a crash after the removal leaves a file that is held and
  listed nowhere; a file written between the hash and the open is held and never given
  back, since its hash cannot match; a held file that cannot be read is given back
  unchecked; the rename of a restore goes over a file that appeared since the check
  ("Refuses rather than guesses in every ambiguous case", control.rs:1472);
  what has the name when the copy is complete is removed, whether it was copied or not.
* `maybe_contain` runs first and marks the triggers, and
  `quarantine_chain_artifacts` skips what was acted on: the files of a contained chain
  are not taken.

Feeds.

* `refresh` saves the pointer's etag also when the domain list could not be fetched.
  The next pointer is then a 304, "neither wing moved", and the list is not tried again
  until something else is published.  `FeedsArrive` excepts a machine in that state.
* A refresh that installs the list and then fails on the packages returns without
  saving, and forgets `domains_seq`; a stale pointer may then put an older list in its
  place.  `state.domains_seq`, which is there to refuse that, never got to the file.
* A run of the worker that dies between pointer.json and state.json (`forked`), or two
  that overlap, publish one sequence twice.  A machine that has the first is told by the
  second that nothing is new, and the next delta is made for an index it does not have.
* `runDomains` saves its state before the pointer: a death in between leaves the list
  unpublished until the next one differs.
* Two refreshes that overlap, on pointers of two ages, may leave the older index under
  the newer sequence: files are replaced one by one and nothing locks them.
* A pointer without a package half does not parse, so a domain list published before any
  package reaches nobody.
* `Feeds::load` takes the stamp of the files after it has read them: one that is
  replaced in between is not read again until it changes once more.

## Proofs

`ContainProofs` proves for every value of the constants, from `ContainAssumption`
and the finiteness of `0 .. Max - 1`:

* `TypeCorrect`: `Spec => []TypeOK`;
* `Invariance`: the inductive invariant `IInv`;
* `SlotsConsistentAlways`, `KernelAccountedAlways`, `RecordsOnDiskAlways`,
  `LowIsReleasedAlways`: safety properties of `Contain`, of which `contain_safety`
  checks all but `RecordsOnDisk`.

The argument.  `SlotsConsistent` has a cardinality in it, which no step-by-step
reasoning wants: `IInv` replaces it by `Distinct` (records with the same slot or the
same chain are the same record), for memory and for the file, and `SlotCount`
derives the cap from it, the slots being an injective image of the records.
`Distinct` survives `Contain` because a free slot is free and, with no free slot,
the head that gives its slot up is the record that is dropped (`ContainDistinct`).
`KernelAccounted` needs `RecordsOnDisk`: when memory is lost the books move to the
file, which holds at least the same records.  `LowIsReleased` needs to know that
containment is only off with records live if a SIGHUP made it so, in memory and in
the file that a restart reads (`Quiet`).  Then one step per action.

`ActionProofs` proves from `ArmingAssumption`, for any set of policies, any times and
back-off:

* `TypeCorrect`, and `Invariance` of its `IInv`;
* `GapsAreToldAlways`, `AlarmsAreTrueAndNewAlways`, `VerdictsAreTrueAlways`,
  `RestartsForgetNothingAlways`: safety properties of `Arming`, of which a run checks the
  first three.

The argument.  `IInv` adds to `GapsAreTold` that `last_arm_alert_set` is the gap that
`status` shows: the memory is cleared whenever a verification finds no gap, so a gap equal
to it is one whose alarm was raised, and one that differs raises its own.  What emit made
of that one is in `how`; a row it was counted up in has as many names, since the title
has their number (`AlarmStep`).  `VerifyStep` is the
centre: from any kernel that the pushes before it have left, the verdict is what the
second reading says.  Every other action leaves verdict and alarm alone or, on a
restart, empties both; for a restart `IInv` holds the file equal to the record.

`ActionProofs` also proves from `QuarantineAssumption`, for any alerts, contents and
number of faults:

* `QuarantineTypeCorrect`, and `QuarantineInvariance` of its `QInv`;
* `TakenIsKeptAlways`, `StaysRestorableAlways`, `ClaimsAreTrue`: the three properties of
  `quarantine_safety`.

The argument.  `StagesOK` says what each stage of a taking or a giving back may rely on:
the copy is empty while it is written and complete from then on, the file is only
removed with a complete copy, a copy is dropped only when nothing is owed on it.  Each
call moves on by one stage, and what the owner of the path does touches no stage.  For
`StaysRestorable` each step says which alerts it leaves their copy and manifest (`Kept`):
all of them, or all but the one a taking is for, or the one whose file has just been put
back, and that is not owed any more.

`RespondProofs` proves from `RespondAssumption`, for any pids, programs, chains and
limits:

* `TypeCorrect`, and `Invariance` of `Guarded`, with `OnlyTheImplicatedAlways`;
* `StopInvariance`, with `NothingLeftStoppedAlways` and `NoStartingPistolAlways`.

The argument.  A handle is a pid and a start, and every process started later has a
later start, so a handle whose process has ended never holds again.  `Guarded` says of
every handle that waits for a signal by what it was judged: for a tree by a step that
names its pid, its program and its start, for the command by the alert.  `StopOK` says
that what is stopped is still to be killed, and that the first pass has stopped all it
went through; a step that is none of the pass (`Aside`) leaves both alone.

* `BurstInvariance` of `BurstOK`, with `OneBurstAlways`: a chain that is not decided has
  had no signal, one look pins `MaxTargets` handles at most, and each hit of the tree is
  one of those handles, so the hits are no more than the handles were.
* `MeantInvariance` of `MeantOK`, with `NoneImplicatedLeftAlways`: what a tree kill is
  meant for is, as long as it has done nothing since, either still to be pinned or has
  its handle among the doomed, not yet passed by the signals.  A process that did
  something shows it: what it has run only grows (`Ages`).

`FeedsProofs` proves for any indexes and window, and any `Keep` from two up (`Grace`):

* `Invariance` of its `Inv`, and `NamesWhatIsThereAlways`;
* `PackagesExactAlways`, from the invariant `Story`.

The argument.  Between any two writes the pointer is at the sequence of the saved state
or one ahead of it, and the pointer before at most one behind; what is pruned lies
further back.  For the packages there is no variable that says which index a sequence
stood for, so `Story` supposes one: there is a history of indexes, a number for each
sequence, such that the pointers, the saved state, the machine's list and what the
refresh holds in its hands each agree with it at their sequence.  A list of steps
`Leads` if it turns the index of its first sequence into that of its last; two that
lead compose to one that leads, hence so does every delta published.  A publication
extends the history by one; where one sequence goes out twice (`forked`) the story ends,
and `PackagesExact` excepts it.

`ShipProofs` proves from `ShipAssumption`, for any number of records and rotations, any
limits and any faults:

* `BaseInvariant`, with `PendingIsExact`;
* `SentOncePerFault`, from the invariant `Once`;
* `AccountInvariant`, with `CursorSkipsNothing` and `ShipperForgetsNothing`, where
  `TailFits`, which is what `ship_safety` supposes of rotation too;
* `ShipImplementsDelivery`: every behaviour of `Ship` is one of `Delivery` without its
  fairness, under the mapping of `Promised`.

The argument.  Everything is counting the places of a record: `Count` of a
concatenation, of a tail and of what is left after an offset is worked out once, and the
drop counter, which saturates, is compared with the size of a set.  `Base` places the
three positions in the two files, in order, and has each file hold a record once at
most.  `Once`: what a run of the shipper has still to read or send of a record is no
more than the generations of the file, and a crash or a lost answer gives it one more
run.  `Account`: at each of the three positions, what is not ahead of it and was never
taken is lost, and in the count; what the frontier has passed may also be in the buffer.

`BaselineProofs` proves from `BaselineAssumption`, for any patterns, limits and bounds:

* `Soundness` of its `Inv`, and `TypeCorrectness`;
* `DemotionEarnedAlways`, `GraveNeverLearnedAlways`, `RefusalStandsAlways`.

The argument.  Two files are written at different times and a crash takes one back, so
`Sound` is stated of memory and of baseline.json, each with the history it should have:
of the file, only what had scored high when it was saved.  A refusal stands because both
have the pattern as dismissed.  For demotion, a window counts no alert that was not shown,
and the sums over a day are compared hour by hour.

`ChainProofs` proves from `ChainAssumption`, for any trees, kinds of findings and limits:

* `StoreInvariant`, with `VerdictAlways` and `NothingMissedAlways`;
* `RecordAlways`, from the invariant `Ledger`, where alerts fold for no longer than a slot
  waits and a slot for no longer than a chain may span (`Times`; by default a minute, ten
  minutes and an hour).

The argument.  `Remembered` says that the few fields a chain keeps, folded by
`Escalation` one trigger at a time, are the `Summary` of all it has heard; what
`Verdict` asks of the whole sequence can be read from a summary.  `Taken`: a slot that
is marked has been in a chain, so the slots that count for a new one are those nothing
has seen.  `Ledger`: a tree has one open chain, and the anchor's row, the stamp and the
members' rows of it agree; the count on the anchor lags, but a power of two between it
and the truth would have been written.  A stamp without its chain is `Spent`: its alert
repeats no more and nothing of it waits, so no chain will take its name.

`AlertStoreProofs` proves from `AlertStoreAssumption`, for any number of alerts, any
kinds, any file size and any cap on what is carried:

* `StoreInvariant`, the inductive invariant;
* `CacheIsDiskAlways`, `RotationIsUnseenAlways`, `MembersHoldTheStoryAlways`;
* `CarriedIsWholeAlways`, `WantedFirstAlways`, which with the three before are all that
  `store_safety` checks;
* `AnswersStandAlways`, `NothingReturnsAlways`: what a step may never do to the rows that
  readers see.  What was said of an alert stands until a line about that alert says
  otherwise, and is then what the line says; no row changes its anchor; and a row that is
  gone does not come back.  No run checks these two.

The argument.  Three folds are compared: `Whole`, of every line ever written; what readers
see; and what they would see without the rotated file, which is what will be left of it
after the next rotation.  `Whole` is `True`: a row that names an anchor holds the chain of
the anchor's row and is one of its members.  A fold of less `Agrees` with it if its rows
are those of `Whole`, but for an earlier copy of a chain where the row of the anchor is not
there.  A line that moatd writes keeps `Agrees` between a fold and `Whole` if it fits
`Whole` (`NewAgrees`, `MarkAgrees`, `TellAgrees`, `NameAgrees`: a new alert, a flag, a
chain on its anchor, an anchor on a member), and it fits because what moatd remembers of
the chain is what is on the anchor's row (`Memory`).  A line that a rotation writes keeps
`Agrees` on top of anything that agrees already, although it says less than `Whole` of a
stripped row (`CarriedAgrees`, `StagedAgrees`): the anchor's row is among those written,
and whichever of the two comes first, `hydrate` or `propagate` puts the chain back.  That
is why the renames may be cut anywhere: before the first, between the two and after, what
readers find is a fold of some lines of `Whole` followed by carried ones.

What is carried.  `KeyFacts` gives the place of a row in the order of eviction, and
`AheadIsCarried` that whoever is ahead of a carried row is carried.  An anchor takes the
best claim and the youngest age of its dependants and stands ahead of each of them
(`AnchorIsCarried`), so a row that was stripped is never carried without its anchor, and
the carried rows fold to what they were (`CarriedFold`).  For `WantedFirst`, priority 3 is
that of rows that wait for a person, and an anchor can have it only of itself or of a
dependant (`WantedStay`).

What a step does.  A step writes a line that says no row has another anchor than it has
(`Writes`), or no line, and then `Whole` stays and readers find no more rows (`Fewer`);
the steps of the invariant's proof give this too.  A line of the first sort changes in
`Whole` only what it says of its own row, beside chains (`WritesKeep`), and `Agrees`
carries that to what readers see.

Induction.  What a recursive function returns is proved where it is needed.  The
induction theorems of the library take operators, but a set of numbers that is not empty
has a least element (`LeastNat`, from the well-foundedness of inclusion of finite sets),
so a set that holds 0 and every successor is all of them (`NumbersByInduction`), and the
cases that hold form such a set.  `Recursion` gives the functions themselves, and
`SequencesByInduction` the folds over the lines of a file.

Model-checked only.

* Liveness, and with it all that rests on fairness or ENABLED: `RecordsExpire`,
  `BlocksLifted`, `KeepsPromise` (of which `ShipImplementsDelivery` has the safety part),
  `ArmingEnds`, `EnforcedOrShown`, `FeedsArrive`.
* The two violations, which are of this code with these constants.

Every other property that a passing run checks is a theorem.

## Plan

Done: `Contain`, `Delivery`, `Ship`, `Arming`, `AlertStore`, `Chain`, `Baseline`,
`Respond`, `Quarantine`, `Publisher`, `Feeds`, and the proofs above, which state every
safety property of all of them.

Left, in this order:

1. A failing write of `state.json` in `Contain` and `Arming`; the wall clock stepping
   back in `Contain`.
2. `Chain` composed with `Contain`, in place of its nondeterministic verdicts.
3. The tailer against the file that the sensor rotates, and the name cache.

## Not modelled

* The event engine's dispatch, the detection rules, provenance, content analysis,
  triage, rendering: functions of one event, of bytes or of text.  Their state is a
  table or a counter that one handler under the mutex reads and writes, and what they
  decide is an input of the models, which take any decision.
* The control socket and `moatctl`: the commands are actions of the modules whose state
  they change; parsing and printing have no state.
* Rarity, scoring, allowlist matching: pure, and graded alerts are inputs of `Chain` and
  `Baseline`.
* Telemetry, incidents, evidence bundles, receipts, canaries, agents: files that one
  thread writes and prunes.  `Ship` has the rotation of telemetry as its reader sees it,
  `Arming` the reload that canaries cause.
* The sensor log tailer and the name cache: concurrent, and in the plan.
* The desktop shell, the scanner and sandbox scripts: other languages, no shared state.

These are most of the lines of the program, which is why the models cover a small share
of them; what they cover is the part whose steps interleave, fail half-way or must agree
with something outside the process.
