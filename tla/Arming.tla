------------------------------- MODULE Arming -------------------------------
(***************************************************************************)
(* Enforcement, as recorded and as it is: moatd/src/engine.rs from          *)
(* enforcement_to_apply to remove_exclusion, and set_mode of control.rs.    *)
(*                                                                         *)
(* What should enforce is a record moatd keeps in memory and in state.json; *)
(* what does enforce is the mode each policy has in the kernel, which moatd *)
(* sets and reads through `tetra` and which the sensor forgets whenever it  *)
(* or the policy is loaded again.  moatd arms after a start, verifies once  *)
(* a minute, re-arms what slipped, and publishes a verdict and an alarm.    *)
(* Every call of tetra may fail, and one that reports success need not have *)
(* taken effect.                                                           *)
(*                                                                         *)
(* Policies are those no userland rule owns (armable_userland_rules):       *)
(* nothing here happens to the others.  One handler runs at a time, under   *)
(* the daemon's mutex.  Time is counted down in units, so that it need not  *)
(* be bounded.                                                             *)
(***************************************************************************)
EXTENDS Integers, FiniteSets

CONSTANTS
  Policies,     \* every policy there is a template for
  Canary,       \* the one whose template renders only while decoys are planted
  VerifyEvery,  \* EVERY of verify_tick
  ArmWait,      \* thresholds.arm_wait_secs
  Backoff,      \* arm_backoff, by tries
  DedupeFor,    \* thresholds.dedupe_secs
  MaxTries,     \* bound: tries are not told apart from here on
  MaxRows,      \* bound: new alarms within DedupeFor
  OtherPins,    \* bound: loaded moat-* policies that are not rendered ones
  MaxRestarts   \* bound: restarts of moatd

ASSUME ArmingAssumption ==
  /\ IsFiniteSet(Policies)
  /\ Canary \in Policies
  /\ {VerifyEvery, ArmWait} \subseteq Nat \ {0}
  /\ {DedupeFor, MaxTries, MaxRows, OtherPins, MaxRestarts} \subseteq Nat
  /\ Backoff \in [0 .. MaxTries -> Nat \ {0}]

VARIABLES
  mode,                  \* Daemon.mode
  enforcing_rules,       \* Daemon.enforcing_rules
  saved,                 \* the two above as state.json has them
  rendered,              \* the policies directory
  policies,              \* Daemon.policies: that directory as last read
  arming,                \* Daemon.arming, its times as units still to pass
  enforcing_verified,    \* the verdict that `status` publishes
  enforcing_unverified,
  last_arm_alert_set,
  recent,                \* Daemon.dedupe: rows that alarms of their title fold into
  sinceVerify,           \* now - last_verify, no more than VerifyEvery
  sensor,                \* tetragon answers
  loading,               \* policies tetragon has still to load after its start
  kernel,                \* the mode of each policy in the kernel
  told,                  \* history: the names on the row of the open gap's alarm
  how,                   \* history: what emit made of that alarm
  restarts               \* history: restarts so far

record == <<mode, enforcing_rules>>
verdict == <<enforcing_verified, enforcing_unverified>>
alarm == <<last_arm_alert_set, recent, told, how>>
env == <<sensor, loading>>
vars == <<record, saved, rendered, policies, arming, verdict, alarm,
          sinceVerify, env, kernel, restarts>>

Modes == {"monitor", "enforce"}
Idle == [st |-> "idle"]
Waiting(left, wait, tries) ==
  [st |-> "waiting", left |-> left, wait |-> wait, tries |-> tries]

TypeOK ==
  /\ mode \in Modes
  /\ enforcing_rules \subseteq Policies
  /\ saved \in [mode : Modes, rules : SUBSET Policies]
  /\ rendered \subseteq Policies
  /\ policies \subseteq Policies
  /\ \/ arming = Idle
     \/ arming \in [st : {"waiting"}, left : 0 .. ArmWait, wait : Nat,
                    tries : 0 .. MaxTries]
  /\ enforcing_verified \subseteq Policies
  /\ enforcing_unverified \subseteq Policies \ enforcing_verified
  /\ last_arm_alert_set \subseteq Policies
  /\ sinceVerify \in 0 .. VerifyEvery
  /\ sensor \in BOOLEAN
  /\ loading \subseteq Policies
  /\ kernel \in [Policies -> Modes \cup {"absent"}]
  /\ recent \subseteq [names : SUBSET Policies, total : Nat, left : 1 .. DedupeFor]
  /\ told \subseteq Policies
  /\ how \in {"none", "new", "folded", "lost"}
  /\ restarts \in 0 .. MaxRestarts

\* A fresh machine: monitor, no decoys, the sensor loaded, nothing verified.
Init ==
  /\ mode = "monitor" /\ enforcing_rules = {}
  /\ saved = [mode |-> "monitor", rules |-> {}]
  /\ rendered = Policies \ {Canary} /\ policies = rendered
  /\ arming = Idle
  /\ enforcing_verified = {} /\ enforcing_unverified = {}
  /\ last_arm_alert_set = {} /\ recent = {}
  /\ told = {} /\ how = "none"
  /\ sinceVerify = VerifyEvery
  /\ sensor = TRUE /\ loading = {}
  /\ kernel = [n \in Policies |-> IF n \in rendered THEN "monitor" ELSE "absent"]
  /\ restarts = 0

------------------------------------------------------------------------------
(* What should enforce, and how the kernel is asked to.                      *)

ModeFor(rules, m, n) == IF n \in rules THEN "enforce" ELSE m

EnforcementToApply == {n \in policies : ModeFor(enforcing_rules, mode, n) = "enforce"}

Loaded(k) == {n \in Policies : k[n] # "absent"}
Enforcing(k) == {n \in Policies : k[n] = "enforce"}

\* Variant to which a name the kernel has never heard of does not disagree.
DisagreeingKnown(want, k) == {n \in want : k[n] = "monitor"}

Disagreeing(want, k) == want \ Enforcing(k)

\* `tetra tp set-mode` on some of asked: only a loaded policy can take it.
Took(asked, k) == IF sensor THEN SUBSET (asked \cap Loaded(k)) ELSE {{}}
Set(k, took, m) == [n \in Policies |-> IF n \in took THEN m ELSE k[n]]

Record == [mode |-> mode, rules |-> enforcing_rules]

\* write_state, of the record as the handler leaves it.
WriteState == saved' = Record'

\* invalidate_verification: the next tick verifies.
Invalidate == sinceVerify' = VerifyEvery

------------------------------------------------------------------------------
(* verify_enforcement, in the kernel k that the pushes before it have left.  *)

NoGap == last_arm_alert_set' = {} /\ told' = {} /\ how' = "none"

NothingArmed(k) ==
  /\ EnforcementToApply = {}
  /\ enforcing_verified' = {} /\ enforcing_unverified' = {}
  /\ NoGap
  /\ kernel' = k
  /\ UNCHANGED recent

\* The kernel did not say what the modes are: the last verdict stands, whether
\* it is the first reading that fails or, after re-arming, the second.
CannotAsk(k) ==
  /\ EnforcementToApply # {}
  /\ \E took \in Took(Disagreeing(EnforcementToApply, k), k) :
       kernel' = Set(k, took, "enforce")
  /\ UNCHANGED <<verdict, alarm>>

\* The rows of the last DedupeFor with this alarm's title, which has the number of
\* policies but not their names.
SameTitle(gap) ==
  {r \in recent : /\ Cardinality(r.names) = Cardinality(gap)
                  /\ r.total = Cardinality(EnforcementToApply)}

\* The count of that row goes up: its names stay, and an ack of it does.
Folded(gap) ==
  /\ \E r \in SameTitle(gap) : told' = r.names
  /\ how' = "folded"
  /\ UNCHANGED recent

NewRow(gap) ==
  /\ SameTitle(gap) = {} /\ Cardinality(recent) < MaxRows
  /\ recent' = recent \cup [names : {gap}, total : {Cardinality(EnforcementToApply)},
                           left : {DedupeFor} \ {0}]
  /\ told' = gap /\ how' = "new"

\* append_alert fails.
Lost(gap) ==
  /\ SameTitle(gap) = {}
  /\ told' = {} /\ how' = "lost"
  /\ UNCHANGED recent

\* raise_enforcement_gap, by way of emit.
Raise(gap) ==
  /\ last_arm_alert_set' = gap
  /\ Folded(gap) \/ NewRow(gap) \/ Lost(gap)

\* Variants with no memory of the last alarm, and with one that nothing clears.
AlarmEveryTime(gap) ==
  \/ gap = {} /\ NoGap /\ UNCHANGED recent
  \/ gap # {} /\ Raise(gap)

AlarmNeverCleared(gap) ==
  \/ gap = {} /\ told' = {} /\ how' = "none" /\ UNCHANGED <<last_arm_alert_set, recent>>
  \/ gap # {} /\ gap = last_arm_alert_set /\ UNCHANGED alarm
  \/ gap \notin {{}, last_arm_alert_set} /\ Raise(gap)

\* An alarm, unless the last one raised was for this very gap, whatever emit made
\* of that one.
Alarm(gap) ==
  \/ gap = {} /\ NoGap /\ UNCHANGED recent
  \/ gap # {} /\ gap = last_arm_alert_set /\ UNCHANGED alarm
  \/ gap \notin {{}, last_arm_alert_set} /\ Raise(gap)

\* Variant that goes by the first reading.
PublishedFirst(want, k, took) == Disagreeing(want, k)

\* The second reading decides, never what set-mode reported.
Published(want, k, took) == Disagreeing(want, Set(k, took, "enforce"))

\* Variant that leaves what is unverified in the verified set.
PublishAll(k) ==
  /\ sensor /\ EnforcementToApply # {}
  /\ \E took \in Took(Disagreeing(EnforcementToApply, k), k) :
       LET gap == Published(EnforcementToApply, k, took) IN
       /\ kernel' = Set(k, took, "enforce")
       /\ enforcing_unverified' = gap
       /\ enforcing_verified' = EnforcementToApply
       /\ Alarm(gap)

Publish(k) ==
  LET want == EnforcementToApply IN
  /\ sensor /\ want # {}
  /\ \E took \in Took(Disagreeing(want, k), k) :
       LET gap == Published(want, k, took) IN
       /\ kernel' = Set(k, took, "enforce")
       /\ enforcing_unverified' = gap
       /\ enforcing_verified' = want \ gap
       /\ Alarm(gap)

VerifyEnforcement(k, answered) ==
  /\ sinceVerify' = 0
  /\ IF answered THEN NothingArmed(k) \/ Publish(k) ELSE CannotAsk(k)

------------------------------------------------------------------------------
(* The tick: arm_tick, then verify_tick unless arming is still under way.    *)

\* Variant that renews the deadline with every try.
RetryRenewed(a) == Waiting(ArmWait, Backoff[a.tries], a.tries)

Retry(a) == Waiting(a.left, Backoff[a.tries],
                    IF a.tries < MaxTries THEN a.tries + 1 ELSE MaxTries)

ArmDue == arming.st = "waiting" /\ arming.wait = 0
OutOfTime == arming.left = 0

\* sensor_ready_for: enough pins, whosever they are, or, when the pins cannot
\* be read, every wanted name in the kernel's list.
ReadyAnswers ==
  {Cardinality(Loaded(kernel)) + e >= Cardinality(policies) : e \in 0 .. OtherPins}
    \cup {FALSE, sensor /\ EnforcementToApply \subseteq Loaded(kernel)}

\* Not ready, and time left: only the next try is set.
ArmLater ==
  /\ ArmDue /\ EnforcementToApply # {}
  /\ FALSE \in ReadyAnswers /\ ~OutOfTime
  /\ arming' = Retry(arming)
  /\ UNCHANGED <<record, saved, rendered, policies, verdict, alarm, sinceVerify,
                 env, kernel, restarts>>

\* reapply_enforcement: arming ends when every call reported success, true or
\* not, and at the deadline whatever they reported.
ArmNow(answered) ==
  /\ ArmDue /\ EnforcementToApply # {}
  /\ TRUE \in ReadyAnswers \/ OutOfTime
  /\ \E took \in Took(EnforcementToApply, kernel), ok \in BOOLEAN :
       /\ ok => sensor /\ EnforcementToApply \subseteq Loaded(kernel)
       /\ arming' = IF ok \/ OutOfTime THEN Idle ELSE Retry(arming)
       /\ VerifyEnforcement(Set(kernel, took, "enforce"), answered)
  /\ UNCHANGED <<record, saved, rendered, policies, env, restarts>>

\* Nothing is armed any more; verify_tick follows in the same tick.
ArmNothing ==
  /\ ArmDue /\ EnforcementToApply = {}
  /\ arming' = Idle
  /\ IF sinceVerify = VerifyEvery THEN VerifyEnforcement(kernel, TRUE)
     ELSE UNCHANGED <<verdict, alarm, sinceVerify, kernel>>
  /\ UNCHANGED <<record, saved, rendered, policies, env, restarts>>

VerifyTick(answered) ==
  /\ arming = Idle /\ sinceVerify = VerifyEvery
  /\ VerifyEnforcement(kernel, answered)
  /\ UNCHANGED <<record, saved, rendered, policies, arming, env, restarts>>

Tick == ArmLater \/ ArmNothing
          \/ \E answered \in BOOLEAN : ArmNow(answered) \/ VerifyTick(answered)

------------------------------------------------------------------------------
(* What a user asks for.                                                     *)

\* set_mode, on every policy or on one: tetra is asked for each, the record is
\* changed whatever it answered.
SetMode(names, m) ==
  /\ \E took \in Took(names, kernel) : kernel' = Set(kernel, took, m)
  /\ Invalidate
  /\ WriteState
  /\ UNCHANGED <<rendered, policies, arming, verdict, alarm, env, restarts>>

SetModeAll(m) ==
  /\ mode' = m
  /\ UNCHANGED enforcing_rules
  /\ SetMode(policies, m)

SetModeRule(n, m) ==
  /\ n \in policies
  /\ enforcing_rules' = IF m = "enforce" THEN enforcing_rules \cup {n}
                                         ELSE enforcing_rules \ {n}
  /\ UNCHANGED mode
  /\ SetMode({n}, m)

\* tp delete and tp add of one rendered policy.  A delete that is refused
\* makes the add fail, for a loaded policy is not overwritten.
ReloadFails(n) ==
  /\ kernel' \in {kernel} \cup
                 IF sensor THEN {[kernel EXCEPT ![n] = "absent"]} ELSE {}
  /\ loading' \in {loading, loading \ {n}} /\ UNCHANGED sensor

ReloadWorks(n) ==
  /\ sensor
  /\ \E m \in {"monitor", ModeFor(enforcing_rules, mode, n)} :
       kernel' = [kernel EXCEPT ![n] = m]
  /\ loading' = loading \ {n} /\ UNCHANGED sensor

\* exclude_binary and remove_exclusion, which differ in the text they render.
Exclude(n) ==
  /\ n \in rendered
  /\ ReloadWorks(n)
  /\ policies' = rendered
  /\ Invalidate
  /\ UNCHANGED <<record, rendered, arming, verdict, alarm, restarts>>
  /\ WriteState

\* Both return at once: neither the verification nor the file learns of it.
ExcludeFails(n) ==
  /\ n \in rendered
  /\ ReloadFails(n)
  /\ UNCHANGED <<record, saved, rendered, policies, arming, verdict, alarm,
                 sinceVerify, restarts>>

\* set_canaries(true): the policy is rendered, then loaded again.
PlantCanaries ==
  /\ rendered' = rendered \cup {Canary}
  /\ ReloadWorks(Canary) \/ ReloadFails(Canary)
  /\ UNCHANGED <<record, saved, policies, arming, verdict, alarm, sinceVerify,
                 restarts>>

\* set_canaries(false): the policy is deleted, then no longer rendered.
RemoveCanaries ==
  /\ rendered' = rendered \ {Canary}
  /\ ReloadFails(Canary)
  /\ UNCHANGED <<record, saved, policies, arming, verdict, alarm, sinceVerify,
                 restarts>>

\* SIGHUP.
Reload ==
  /\ policies' = rendered
  /\ Invalidate
  /\ UNCHANGED <<record, saved, rendered, arming, verdict, alarm, env, kernel,
                 restarts>>

------------------------------------------------------------------------------
(* What happens to moatd and around it.                                      *)

\* Daemon::new, then on_start, whose begin_arming only starts the clock.
Restart ==
  /\ restarts < MaxRestarts /\ restarts' = restarts + 1
  /\ mode' = saved.mode /\ enforcing_rules' = saved.rules
  /\ policies' = rendered
  /\ enforcing_verified' = {} /\ enforcing_unverified' = {}
  /\ NoGap /\ recent' = {}
  /\ Invalidate
  /\ arming' = IF EnforcementToApply' = {} THEN Idle ELSE Waiting(ArmWait, 0, 0)
  /\ UNCHANGED <<saved, rendered, env, kernel>>

\* tetragon ends, or starts and loads its policies, each in its file's mode.
SensorDies ==
  /\ sensor /\ sensor' = FALSE
  /\ loading' = {}
  /\ kernel' = [n \in Policies |-> "absent"]

SensorStarts ==
  /\ ~sensor /\ sensor' = TRUE
  /\ loading' = rendered
  /\ UNCHANGED kernel

Load(n) ==
  /\ n \in loading /\ loading' = loading \ {n}
  /\ kernel' = [kernel EXCEPT ![n] = "monitor"]
  /\ UNCHANGED sensor

\* A person with `tetra`.
Outside(n) ==
  /\ sensor /\ kernel[n] # "absent"
  /\ \E m \in Modes \ {kernel[n]} : kernel' = [kernel EXCEPT ![n] = m]
  /\ UNCHANGED env

Environment ==
  /\ SensorDies \/ SensorStarts \/ \E n \in Policies : Load(n) \/ Outside(n)
  /\ UNCHANGED <<record, saved, rendered, policies, arming, verdict, alarm,
                 sinceVerify, restarts>>

Less(t) == IF t = 0 THEN 0 ELSE t - 1

\* One unit of time.
Passes ==
  /\ sinceVerify' = IF sinceVerify < VerifyEvery THEN sinceVerify + 1
                                                 ELSE VerifyEvery
  /\ arming' = IF arming = Idle THEN Idle
               ELSE Waiting(Less(arming.left), Less(arming.wait), arming.tries)
  /\ recent' = {[r EXCEPT !.left = @ - 1] : r \in {x \in recent : x.left > 1}}
  /\ UNCHANGED <<record, saved, rendered, policies, verdict, last_arm_alert_set,
                 told, how, env, kernel, restarts>>

User ==
  \/ \E m \in Modes : SetModeAll(m) \/ \E n \in Policies : SetModeRule(n, m)
  \/ \E n \in Policies : Exclude(n) \/ ExcludeFails(n)
  \/ PlantCanaries \/ RemoveCanaries \/ Reload

Next == Tick \/ User \/ Restart \/ Environment \/ Passes

Spec == Init /\ [][Next]_vars

------------------------------------------------------------------------------
(* Fairness: time passes and the run loop ticks.  A tick of a sensor that    *)
(* stays up is answered now and then, however often it is not.               *)

FairSpec ==
  /\ Spec
  /\ WF_vars(Passes) /\ WF_vars(Tick)
  /\ SF_vars(ArmNow(TRUE) \/ VerifyTick(TRUE))

------------------------------------------------------------------------------
(* Properties.                                                               *)

\* The gap that `status` shows has an alert that says how many policies it is of, and
\* names exactly those, also when it had been alarmed, closed and has come back ("lets
\* the NEXT gap raise its own alert", engine.rs:2328).  Two exceptions emit makes, and
\* no other: a row of the same title from within DedupeFor is counted up in its place,
\* with the names it had (engine.rs:3441), and an append that fails leaves no alert and
\* is not tried again (engine.rs:3559).
GapsAreTold ==
  enforcing_unverified # {} /\ how # "lost" =>
    /\ Cardinality(told) = Cardinality(enforcing_unverified)
    /\ how # "folded" => told = enforcing_unverified

RowAdded == \E r \in recent' \ recent : r.left = DedupeFor

\* Alarms are neither false nor repeated: what the user has been told of the gap changes,
\* and an alert is added, only for a gap not shown before, of policies that were to
\* enforce and do not after all re-arming (verify_enforcement).
AlarmsAreTrueAndNew ==
  [][how' # "none" /\ (<<told, how>>' # <<told, how>> \/ RowAdded) =>
       /\ enforcing_unverified' \notin {{}, enforcing_unverified}
       /\ enforcing_unverified' \subseteq EnforcementToApply \ Enforcing(kernel')]_vars

\* A verdict is what the kernel says at that moment, both ways, and never what
\* a call of tetra reported (verify_enforcement reads the kernel back).
VerdictsAreTrue ==
  [][verdict' # verdict =>
       /\ enforcing_verified' \subseteq Enforcing(kernel')
       /\ enforcing_unverified' \cap Enforcing(kernel') = {}]_vars

\* What the user asked for survives a restart at any moment: set_mode records
\* it "so a restart does not silently forget" (control.rs:2498).
RestartsForgetNothing == [][restarts' # restarts => UNCHANGED record]_vars

\* Waiting for the sensor is bounded: arming, during which nothing is
\* verified, comes to an end whatever the sensor does (arm_wait_secs).
ArmingEnds == arming.st = "waiting" ~> arming = Idle

\* A policy that is to enforce, with a sensor that is there, either goes on being seen
\* enforcing or `status` shows for good that it does not: never `recorded but not
\* running' in silence (reapply_enforcement's comment), whatever became of the alarm.
EnforcedOrShown ==
  \A n \in Policies :
    <>[](sensor /\ n \in EnforcementToApply)
      => []<>(kernel[n] = "enforce") \/ <>[](n \in enforcing_unverified)

=============================================================================
