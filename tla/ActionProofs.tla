---------------------------- MODULE ActionProofs ----------------------------
(***************************************************************************)
(* Machine-checked proofs about two things moatd does to the machine:      *)
(* Arming, for any set of policies, any waiting times and any answers of   *)
(* tetra, and Quarantine, for any alerts, contents and number of failures. *)
(* The two share nothing and are proved one after the other.               *)
(*                                                                         *)
(* Arming: what an alarm is compared with is the gap that is shown, since  *)
(* last_arm_alert_set is cleared when a gap closes; so a gap that is shown  *)
(* has been raised, and the row it went to has its number of policies.     *)
(* What an alarm and a verdict say is then a property of one step, for     *)
(* which the invariant says what the alarm is compared with.               *)
(*                                                                         *)
(* Quarantine: the invariant says of each stage of a task what the calls   *)
(* before it have made true: the copy is empty while it is written,        *)
(* complete from then on, and not owed any more once it is back.           *)
(***************************************************************************)
EXTENDS Arming, Quarantine, FiniteSetTheorems, TLAPS

(* Arming *)

KernelStates == [Policies -> Modes \cup {"absent"}]

Rows == [names : SUBSET Policies, total : Nat, left : 1 .. DedupeFor]

\* The verifier's variables, and the gap it remembers to have raised.
Verifier ==
  /\ enforcing_verified \subseteq Policies
  /\ enforcing_unverified \subseteq Policies \ enforcing_verified
  /\ sinceVerify \in 0 .. VerifyEvery
  /\ recent \subseteq Rows
  /\ told \subseteq Policies
  /\ how \in {"none", "new", "folded", "lost"}
  /\ last_arm_alert_set = enforcing_unverified
  /\ GapsAreTold

\* What a step may say, the two action properties of Arming without their box.
AlarmTrueAndNew ==
  how' # "none" /\ (<<told, how>>' # <<told, how>> \/ RowAdded) =>
    /\ enforcing_unverified' \notin {{}, enforcing_unverified}
    /\ enforcing_unverified' \subseteq EnforcementToApply \ Enforcing(kernel')

VerdictTrue ==
  verdict' # verdict =>
    /\ enforcing_verified' \subseteq Enforcing(kernel')
    /\ enforcing_unverified' \cap Enforcing(kernel') = {}

Honest == AlarmTrueAndNew /\ VerdictTrue

\* The other variables.
Waits == [st : {"waiting"}, left : 0 .. ArmWait, wait : Nat, tries : 0 .. MaxTries]

Others ==
  /\ mode \in Modes /\ enforcing_rules \subseteq Policies
  /\ rendered \subseteq Policies /\ policies \subseteq Policies
  /\ arming = Idle \/ arming \in Waits
  /\ sensor \in BOOLEAN /\ loading \subseteq Policies
  /\ kernel \in KernelStates
  /\ restarts \in 0 .. MaxRestarts

IInv == Verifier /\ Others /\ saved = Record

-----------------------------------------------------------------------------

\* Setting modes leaves a kernel.
LEMMA SetFacts ==
  ASSUME NEW k \in KernelStates, NEW took, NEW m \in Modes
  PROVE  Set(k, took, m) \in KernelStates
  BY DEF Set, KernelStates

\* A step that leaves the alarm alone tells nothing.
LEMMA Silent ==
  ASSUME UNCHANGED <<told, how, recent>>
  PROVE  AlarmTrueAndNew
  BY DEF AlarmTrueAndNew, RowAdded

\* What is remembered of an alarm is its gap, and the row has its number of names.
LEMMA AlarmStep ==
  ASSUME Verifier, policies \subseteq Policies, NEW gap \in SUBSET Policies, Alarm(gap)
  PROVE  /\ recent' \subseteq Rows /\ told' \subseteq Policies
         /\ how' \in {"none", "new", "folded", "lost"}
         /\ last_arm_alert_set' = gap
         /\ gap # {} /\ how' # "lost" =>
              Cardinality(told') = Cardinality(gap) /\ (how' # "folded" => told' = gap)
         /\ \/ how' = "none"
            \/ UNCHANGED <<told, how, recent>>
            \/ gap \notin {{}, enforcing_unverified}
  <1>1. CASE gap = {} /\ NoGap /\ UNCHANGED recent
    BY <1>1 DEF NoGap, Verifier
  <1>2. CASE gap # {} /\ gap = last_arm_alert_set /\ UNCHANGED alarm
    BY <1>2 DEF Verifier, alarm, GapsAreTold
  <1>3. CASE gap \notin {{}, last_arm_alert_set} /\ Raise(gap)
    <2>1. last_arm_alert_set' = gap /\ gap \notin {{}, enforcing_unverified}
      BY <1>3 DEF Raise, Verifier
    <2>2. CASE Folded(gap)
      <3>1. PICK r \in SameTitle(gap) : told' = r.names
        BY <2>2 DEF Folded
      <3>2. r \in Rows /\ Cardinality(r.names) = Cardinality(gap)
        BY <3>1 DEF SameTitle, Verifier
      <3> QED
        BY <2>1, <2>2, <3>1, <3>2 DEF Folded, Verifier, Rows
    <2>3. CASE NewRow(gap)
      <3>1. EnforcementToApply \subseteq Policies
        BY DEF EnforcementToApply
      <3>2. Cardinality(EnforcementToApply) \in Nat
        BY <3>1, ArmingAssumption, FS_Subset, FS_CardinalityType
      <3>3. {DedupeFor} \ {0} \subseteq 1 .. DedupeFor
        BY ArmingAssumption
      <3>4. [names : {gap}, total : {Cardinality(EnforcementToApply)}, left : {DedupeFor} \ {0}]
              \subseteq Rows
        BY <3>2, <3>3 DEF Rows
      <3> QED
        BY <2>1, <2>3, <3>4 DEF NewRow, Verifier
    <2>4. CASE Lost(gap)
      BY <2>1, <2>4 DEF Lost, Verifier
    <2> QED
      BY <1>3, <2>2, <2>3, <2>4 DEF Raise
  <1> QED
    BY <1>1, <1>2, <1>3 DEF Alarm

\* Whatever verify_enforcement finds, its memory of the alarm fits its verdict,
\* and what it says is true.
LEMMA VerifyStep ==
  ASSUME Verifier, policies \subseteq Policies, NEW k \in KernelStates, NEW answered \in BOOLEAN,
         VerifyEnforcement(k, answered)
  PROVE  /\ Verifier' /\ kernel' \in KernelStates
         /\ Honest
  <1> USE ArmingAssumption
  <1>1. sinceVerify' \in 0 .. VerifyEvery
    BY DEF VerifyEnforcement
  <1>2. EnforcementToApply \subseteq Policies
    BY DEF EnforcementToApply
  <1>3. CASE NothingArmed(k)
    BY <1>1, <1>3 DEF NothingArmed, NoGap, Verifier, GapsAreTold, Honest,
                      AlarmTrueAndNew, VerdictTrue
  <1>4. CASE CannotAsk(k)
    <2>1. PICK took : kernel' = Set(k, took, "enforce")
      BY <1>4 DEF CannotAsk
    <2>2. kernel' \in KernelStates
      BY <2>1, SetFacts DEF Modes
    <2>3. UNCHANGED <<verdict, alarm>>
      BY <1>4 DEF CannotAsk
    <2> QED
      BY <1>1, <2>2, <2>3, Silent DEF Verifier, GapsAreTold, Honest, VerdictTrue,
                                      verdict, alarm
  <1>5. CASE Publish(k)
    <2>1. PICK took : /\ kernel' = Set(k, took, "enforce")
                      /\ enforcing_unverified' =
                           Published(EnforcementToApply, k, took)
                      /\ enforcing_verified' = EnforcementToApply
                           \ Published(EnforcementToApply, k, took)
                      /\ Alarm(Published(EnforcementToApply, k, took))
      BY <1>5 DEF Publish
    <2> DEFINE gap == Published(EnforcementToApply, k, took)
    <2>2. kernel' \in KernelStates
      BY <2>1, SetFacts DEF Modes
    <2>3. gap = EnforcementToApply \ Enforcing(kernel')
      BY <2>1 DEF Published, Disagreeing, Enforcing
    <2>4. Alarm(gap) /\ enforcing_unverified' = gap
          /\ enforcing_verified' = EnforcementToApply \ gap
      BY <2>1
    <2> HIDE DEF gap
    <2>5. gap \in SUBSET Policies
      BY <1>2, <2>3
    <2>6. Verifier'
      BY <1>1, <1>2, <2>3, <2>4, <2>5, AlarmStep DEF Verifier, GapsAreTold
    <2>7. how' = "none" \/ UNCHANGED <<told, how, recent>> \/ gap \notin {{}, enforcing_unverified}
      BY <2>4, <2>5, AlarmStep
    <2>8. AlarmTrueAndNew
      BY <2>3, <2>4, <2>7, Silent DEF AlarmTrueAndNew
    <2>9. VerdictTrue
      BY <2>3, <2>4 DEF VerdictTrue
    <2> QED
      BY <2>2, <2>6, <2>8, <2>9 DEF Honest
  <1> QED
    BY <1>3, <1>4, <1>5 DEF VerifyEnforcement

-----------------------------------------------------------------------------
(* The actions of Next.                                                      *)

\* A retry counts its tries and keeps the deadline.
LEMMA RetryFacts ==
  ASSUME Others, ArmDue
  PROVE  Retry(arming) \in Waits
  <1>1. arming \in Waits
    BY DEF Others, ArmDue, Idle
  <1>2. Backoff[arming.tries] \in Nat
    BY <1>1, ArmingAssumption DEF Waits
  <1> QED
    BY <1>1, <1>2, ArmingAssumption DEF Retry, Waiting, Waits

LEMMA TickStep ==
  ASSUME IInv, Tick
  PROVE  IInv' /\ Honest
  <1>0. Verifier /\ Others /\ kernel \in KernelStates /\ policies \subseteq Policies
    BY DEF IInv, Others
  <1>1. CASE ArmLater
    <2>1. arming' \in Waits
      BY <1>0, <1>1, RetryFacts DEF ArmLater
    <2> QED
      BY <1>1, <2>1 DEF ArmLater, IInv, Verifier, Others, GapsAreTold, Record,
           Honest, AlarmTrueAndNew, RowAdded, VerdictTrue, record, verdict, alarm, env
  <1>2. ASSUME NEW answered \in BOOLEAN, ArmNow(answered)
        PROVE  IInv' /\ Honest
    <2>1. PICK took \in Took(EnforcementToApply, kernel), ok \in BOOLEAN :
            /\ arming' = IF ok \/ OutOfTime THEN Idle ELSE Retry(arming)
            /\ VerifyEnforcement(Set(kernel, took, "enforce"), answered)
      BY <1>2 DEF ArmNow
    <2>2. Set(kernel, took, "enforce") \in KernelStates
      BY <1>0, SetFacts DEF Modes
    <2>3. Verifier' /\ kernel' \in KernelStates /\ Honest
      BY <1>0, <2>1, <2>2, VerifyStep
    <2>4. arming' = Idle \/ arming' \in Waits
      BY <1>0, <1>2, <2>1, RetryFacts DEF ArmNow
    <2> QED
      BY <1>2, <2>3, <2>4 DEF ArmNow, IInv, Others, Record, record, env
  <1>3. CASE ArmNothing
    <2>1. CASE sinceVerify = VerifyEvery
      <3>1. Verifier' /\ kernel' \in KernelStates /\ Honest
        BY <1>0, <1>3, <2>1, VerifyStep DEF ArmNothing
      <3> QED
        BY <1>3, <3>1 DEF ArmNothing, IInv, Others, Record, record, env
    <2>2. CASE sinceVerify # VerifyEvery
      BY <1>3, <2>2 DEF ArmNothing, IInv, Verifier, Others, GapsAreTold, Record,
           Honest, AlarmTrueAndNew, RowAdded, VerdictTrue, record, verdict, alarm, env
    <2> QED
      BY <2>1, <2>2
  <1>4. ASSUME NEW answered \in BOOLEAN, VerifyTick(answered)
        PROVE  IInv' /\ Honest
    <2>1. Verifier' /\ kernel' \in KernelStates /\ Honest
      BY <1>0, <1>4, VerifyStep DEF VerifyTick
    <2> QED
      BY <1>4, <2>1 DEF VerifyTick, IInv, Others, Record, record, env
  <1> QED
    BY <1>1, <1>2, <1>3, <1>4 DEF Tick

\* set_mode changes the record and the file together, and no verdict.
LEMMA SetModeStep ==
  ASSUME IInv, NEW names, NEW m \in Modes, SetMode(names, m),
         mode' \in Modes, enforcing_rules' \subseteq Policies
  PROVE  IInv' /\ Honest
  <1>1. kernel' \in KernelStates
    BY SetFacts DEF SetMode, IInv, Others
  <1>2. VerifyEvery \in 0 .. VerifyEvery
    BY ArmingAssumption
  <1> QED
    BY <1>1, <1>2 DEF SetMode, Invalidate, WriteState, IInv, Verifier, Others,
         GapsAreTold, Record, Honest, AlarmTrueAndNew, RowAdded, VerdictTrue, verdict,
         alarm, env

\* Loading one policy again leaves a kernel.
LEMMA ReloadFacts ==
  ASSUME Others, NEW n \in Policies, ReloadWorks(n) \/ ReloadFails(n)
  PROVE  /\ kernel' \in KernelStates
         /\ loading' \subseteq Policies /\ sensor' = sensor
  BY DEF Others, ReloadWorks, ReloadFails, KernelStates, Modes, ModeFor

LEMMA UserStep ==
  ASSUME IInv, User
  PROVE  IInv' /\ Honest
  <1>0. Others /\ Canary \in Policies /\ VerifyEvery \in 0 .. VerifyEvery
    BY ArmingAssumption DEF IInv
  <1>1. ASSUME NEW m \in Modes, SetModeAll(m)
        PROVE  IInv' /\ Honest
    BY <1>0, <1>1, SetModeStep DEF SetModeAll, Others
  <1>2. ASSUME NEW m \in Modes, NEW n \in Policies, SetModeRule(n, m)
        PROVE  IInv' /\ Honest
    BY <1>0, <1>2, SetModeStep DEF SetModeRule, Others
  <1>3. ASSUME NEW n \in Policies, Exclude(n)
        PROVE  IInv' /\ Honest
    <2>1. kernel' \in KernelStates /\ loading' \subseteq Policies /\ sensor' = sensor
      BY <1>0, <1>3, ReloadFacts DEF Exclude
    <2> QED
      BY <1>0, <1>3, <2>1 DEF Exclude, Invalidate, WriteState, IInv, Verifier,
           Others, GapsAreTold, Record, Honest, AlarmTrueAndNew, RowAdded, VerdictTrue,
           record, verdict, alarm
  <1>4. ASSUME NEW n \in Policies, ExcludeFails(n)
        PROVE  IInv' /\ Honest
    <2>1. kernel' \in KernelStates /\ loading' \subseteq Policies /\ sensor' = sensor
      BY <1>0, <1>4, ReloadFacts DEF ExcludeFails
    <2> QED
      BY <1>4, <2>1 DEF ExcludeFails, IInv, Verifier, Others, GapsAreTold, Record,
           Honest, AlarmTrueAndNew, RowAdded, VerdictTrue, record, verdict, alarm
  <1>5. CASE PlantCanaries
    <2>1. kernel' \in KernelStates /\ loading' \subseteq Policies /\ sensor' = sensor
      BY <1>0, <1>5, ReloadFacts DEF PlantCanaries
    <2> QED
      BY <1>0, <1>5, <2>1 DEF PlantCanaries, IInv, Verifier, Others, GapsAreTold,
           Record, Honest, AlarmTrueAndNew, RowAdded, VerdictTrue, record, verdict, alarm
  <1>6. CASE RemoveCanaries
    <2>1. kernel' \in KernelStates /\ loading' \subseteq Policies /\ sensor' = sensor
      BY <1>0, <1>6, ReloadFacts DEF RemoveCanaries
    <2> QED
      BY <1>6, <2>1 DEF RemoveCanaries, IInv, Verifier, Others, GapsAreTold,
           Record, Honest, AlarmTrueAndNew, RowAdded, VerdictTrue, record, verdict, alarm
  <1>7. CASE Reload
    BY <1>0, <1>7 DEF Reload, Invalidate, IInv, Verifier, Others, GapsAreTold,
         Record, Honest, AlarmTrueAndNew, RowAdded, VerdictTrue, record, verdict, alarm, env
  <1> QED
    BY <1>1, <1>2, <1>3, <1>4, <1>5, <1>6, <1>7 DEF User

\* A restart reads back what the record was, and says nothing.
LEMMA RestartStep ==
  ASSUME IInv, Restart
  PROVE  /\ IInv' /\ Honest
         /\ UNCHANGED record
  <1>1. mode' = mode /\ enforcing_rules' = enforcing_rules
    BY DEF Restart, IInv, Record
  <1>2. arming' = Idle \/ arming' \in Waits
    BY ArmingAssumption DEF Restart, Waiting, Waits
  <1>3. VerifyEvery \in 0 .. VerifyEvery
    BY ArmingAssumption
  <1>4. restarts' \in 0 .. MaxRestarts
    BY ArmingAssumption DEF Restart, IInv, Others
  <1> QED
    BY <1>1, <1>2, <1>3, <1>4 DEF Restart, NoGap, Invalidate, IInv, Verifier, Others,
         GapsAreTold, Record, Honest, AlarmTrueAndNew, RowAdded, VerdictTrue, record, env

LEMMA EnvironmentStep ==
  ASSUME IInv, Environment
  PROVE  IInv' /\ Honest
  <1>1. /\ kernel' \in KernelStates
        /\ loading' \subseteq Policies /\ sensor' \in BOOLEAN
    BY DEF Environment, SensorDies, SensorStarts, Load, Outside, env, IInv, Others,
         KernelStates, Modes
  <1> QED
    BY <1>1 DEF Environment, IInv, Verifier, Others, GapsAreTold, Record, Honest,
         AlarmTrueAndNew, RowAdded, VerdictTrue, record, verdict, alarm

\* Time moves only the timers, those of the rows too.
LEMMA PassesStep ==
  ASSUME IInv, Passes
  PROVE  IInv' /\ Honest
  <1>1. arming' = Idle \/ arming' \in Waits
    BY ArmingAssumption DEF Passes, Less, Waiting, Waits, IInv, Others
  <1>2. sinceVerify' \in 0 .. VerifyEvery
    BY ArmingAssumption DEF Passes, IInv, Verifier
  <1>3. \A r \in recent' : r \in Rows /\ r.left < DedupeFor
    <2> SUFFICES ASSUME NEW r \in recent'
                 PROVE  r \in Rows /\ r.left < DedupeFor
      OBVIOUS
    <2>1. PICK x \in recent : x.left > 1 /\ r = [x EXCEPT !.left = @ - 1]
      BY DEF Passes
    <2>2. x \in Rows
      BY DEF IInv, Verifier
    <2> QED
      BY <2>1, <2>2, ArmingAssumption DEF Rows
  <1>4. UNCHANGED <<told, how>> /\ ~RowAdded
    BY <1>3, ArmingAssumption DEF Passes, RowAdded, Rows
  <1>5. Verifier'
    BY <1>2, <1>3 DEF Passes, IInv, Verifier, GapsAreTold, verdict
  <1>6. Honest
    BY <1>4 DEF Honest, AlarmTrueAndNew, VerdictTrue, Passes, verdict
  <1> QED
    BY <1>1, <1>5, <1>6 DEF Passes, IInv, Others, Record, record, env

-----------------------------------------------------------------------------

LEMMA InitIInv ==
  Init => IInv
  BY ArmingAssumption DEF Init, IInv, Verifier, Others, GapsAreTold, Record,
       KernelStates, Modes

\* Only a restart counts as one.
LEMMA OnlyRestarts ==
  ASSUME Tick \/ User \/ Environment \/ Passes
  PROVE  restarts' = restarts
  BY DEF Tick, ArmLater, ArmNow, ArmNothing, VerifyTick, User, SetModeAll,
       SetModeRule, SetMode, Exclude, ExcludeFails, PlantCanaries,
       RemoveCanaries, Reload, Environment, Passes

\* Every step keeps the invariant, says only what is true, and starts moatd
\* again with the record it had.
LEMMA Step ==
  ASSUME IInv, [Next]_vars
  PROVE  /\ IInv' /\ Honest
         /\ restarts' # restarts => UNCHANGED record
  <1>1. CASE Tick
    BY <1>1, TickStep, OnlyRestarts
  <1>2. CASE User
    BY <1>2, UserStep, OnlyRestarts
  <1>3. CASE Restart
    BY <1>3, RestartStep
  <1>4. CASE Environment
    BY <1>4, EnvironmentStep, OnlyRestarts
  <1>5. CASE Passes
    BY <1>5, PassesStep, OnlyRestarts
  <1>6. CASE UNCHANGED vars
    BY <1>6 DEF vars, record, verdict, alarm, env, IInv, Verifier, Others,
         GapsAreTold, Record, Honest, AlarmTrueAndNew, RowAdded, VerdictTrue
  <1> QED
    BY <1>1, <1>2, <1>3, <1>4, <1>5, <1>6 DEF Next

LEMMA IInvTypeOK ==
  IInv => TypeOK
  BY DEF IInv, Verifier, Others, TypeOK, Record, KernelStates, Waits, Rows

\* The inductive invariant of the verifier and the record.
THEOREM Invariance == Spec => []IInv
  <1>1. IInv /\ [Next]_vars => IInv'
    BY Step
  <1> QED
    BY <1>1, InitIInv, PTL DEF Spec

\* Type correctness.
THEOREM TypeCorrect == Spec => []TypeOK
  BY Invariance, IInvTypeOK, PTL

\* A gap `status` shows has an alert of its number of policies, and of their names
\* unless emit counted up a row of the same title or lost the alert.
THEOREM GapsAreToldAlways == Spec => []GapsAreTold
  <1>1. IInv => GapsAreTold
    BY DEF IInv, Verifier
  <1> QED
    BY <1>1, Invariance, PTL

\* No alarm is false when raised, and none repeats the gap shown before.
THEOREM AlarmsAreTrueAndNewAlways == Spec => AlarmsAreTrueAndNew
  <1>1. IInv /\ [Next]_vars =>
          (how' # "none" /\ (<<told, how>>' # <<told, how>> \/ RowAdded) =>
             /\ enforcing_unverified' \notin {{}, enforcing_unverified}
             /\ enforcing_unverified' \subseteq
                  EnforcementToApply \ Enforcing(kernel'))
    BY Step DEF Honest, AlarmTrueAndNew
  <1> QED
    BY <1>1, Invariance, PTL DEF Spec, AlarmsAreTrueAndNew

\* What `status` comes to say of the kernel is so at that moment.
THEOREM VerdictsAreTrueAlways == Spec => VerdictsAreTrue
  <1>1. IInv /\ [Next]_vars =>
          (verdict' # verdict =>
             /\ enforcing_verified' \subseteq Enforcing(kernel')
             /\ enforcing_unverified' \cap Enforcing(kernel') = {})
    BY Step DEF Honest, VerdictTrue
  <1> QED
    BY <1>1, Invariance, PTL DEF Spec, VerdictsAreTrue

\* A restart forgets nothing that `set mode` was asked for.
THEOREM RestartsForgetNothingAlways == Spec => RestartsForgetNothing
  <1>1. IInv /\ [Next]_vars => (restarts' # restarts => UNCHANGED record)
    BY Step
  <1> QED
    BY <1>1, Invariance, PTL DEF Spec, RestartsForgetNothing

-----------------------------------------------------------------------------
(* Quarantine *)

\* What is known when a task has come to a stage.
StagesOK ==
  /\ Taking("copy") => copy[task.id] = Torn
  /\ (\E s \in {"unlink", "meta", "mark"} : Taking(s)) =>
       copy[task.id] = task.fd /\ task.fd # None
  /\ Taking("mark") => meta[task.id].listed /\ meta[task.id].removed
  /\ Giving("drop") => copy[task.id] \notin owed
  /\ Giving("tidy") => copy[task.id] = None

QInv == QuarantineTypeOK /\ TakenIsKept /\ StagesOK

\* ClaimIsTrue without its box.
Claim ==
  \A a \in Alerts :
    action[a] # "quarantined" /\ action'[a] = "quarantined" =>
      copy'[a] # None /\ meta'[a].listed /\ meta'[a].removed

\* StaysRestorable without its box, for one alert that holds the content.
Stays(a) ==
  meta[a].listed /\ Matches(a) /\ copy[a] \in owed =>
    \/ copy'[a] = copy[a] /\ meta'[a] = meta[a]
    \/ copy[a] \notin owed'
    \/ task.op = "take" /\ a = task.id

Kept == \A a \in Alerts : Stays(a)

-----------------------------------------------------------------------------

\* The three forms of a task that is not idle.
Early == [op : {"take"}, id : Alerts, stage : {"hash", "open"},
          sha : {None, Torn} \cup Files, fd : {None}, removed : {FALSE}]
Late == [op : {"take"}, id : Alerts, stage : {"create", "copy", "unlink", "meta", "mark"},
         sha : {None, Torn} \cup Files, fd : {Torn} \cup Files, removed : BOOLEAN]
Give == [op : {"give"}, id : Alerts, stage : {"move", "drop", "tidy"}, read : BOOLEAN]

LEMMA Tasks == Task = {NoTask} \cup Early \cup Late \cup Give
  BY DEF Task, Early, Late, Give

\* A stage tells the form.
LEMMA Forms ==
  ASSUME task \in Task
  PROVE  /\ task = NoTask <=> task.op \notin {"take", "give"}
         /\ (Taking("hash") \/ Taking("open")) => task \in Early
         /\ (\E s \in {"create", "copy", "unlink", "meta", "mark"} : Taking(s)) => task \in Late
         /\ task.op = "give" => task \in Give
         /\ task.op \in {"take", "give"} => task.id \in Alerts
  <1>1. CASE task = NoTask
    BY <1>1 DEF NoTask, Taking
  <1>2. CASE task \in Early
    <2>1. task.op = "take" /\ task.stage \in {"hash", "open"} /\ task.id \in Alerts
      BY <1>2 DEF Early
    <2>2. task # NoTask
      BY <2>1 DEF NoTask
    <2> QED
      BY <1>2, <2>1, <2>2 DEF Taking
  <1>3. CASE task \in Late
    BY <1>3 DEF Late, NoTask, Taking
  <1>4. CASE task \in Give
    BY <1>4 DEF Give, NoTask, Taking
  <1> QED
    BY <1>1, <1>2, <1>3, <1>4, Tasks

\* Contents are numbers, and no content is None or Torn.
LEMMA Contents == None \notin Files /\ Torn \notin Files /\ None # Torn
  BY QuarantineAssumption DEF None, Torn, Files

\* An idle moatd has no stage to answer for.
LEMMA IdleIsFine ==
  ASSUME task' = NoTask
  PROVE  /\ StagesOK' /\ task' \in Task
         /\ \A s \in STRING : ~Taking(s)' /\ ~Giving(s)'
  BY Tasks DEF StagesOK, Taking, Giving, NoTask

-----------------------------------------------------------------------------

\* A change to one alert's entry leaves those of the others.
LEMMA OneEntry ==
  ASSUME NEW a \in Alerts, Stays(a),
         \A b \in Alerts \ {a} : copy'[b] = copy[b] /\ meta'[b] = meta[b]
  PROVE  Kept
  BY DEF Kept, Stays

LEMMA FaultsCounted ==
  ASSUME QuarantineTypeOK, Fault \/ NoFault
  PROVE  faults' \in 0 .. MaxFaults
  BY QuarantineAssumption DEF QuarantineTypeOK, Fault, NoFault

\* The owner of the path touches neither copies nor manifests.
LEMMA OwnerStep ==
  ASSUME QInv, Replace \/ Scribble \/ Delete
  PROVE  QInv' /\ Claim /\ Kept
  <1>1. /\ place' \in {None, Torn} \cup Files /\ next' \in 0 .. MaxFiles
        /\ UNCHANGED <<copy, meta, action, owed, spent, faults>>
        /\ next' # next => next' \in Files
    BY QuarantineAssumption DEF QInv, QuarantineTypeOK, Replace, Scribble, Delete, OwnerKeeps, Files
  <1>2. CASE UNCHANGED task
    BY <1>1, <1>2 DEF QInv, QuarantineTypeOK, TakenIsKept, Held, StagesOK,
                      Taking, Giving, Claim, Kept, Stays, Matches
  <1>3. CASE ~ UNCHANGED task
    <2>1. Copying /\ task' = [task EXCEPT !.fd = next'] /\ next' \in Files
      BY <1>1, <1>3 DEF Replace, Scribble, Delete, QInv, QuarantineTypeOK
    <2>2. task \in Late /\ task.op = "take" /\ task.stage \in {"create", "copy"}
      BY <2>1, Forms DEF Copying, Taking, QInv, QuarantineTypeOK
    <2>3. task' \in Late /\ task'.op = "take" /\ task'.stage = task.stage /\ task'.id = task.id
      BY <2>1, <2>2 DEF Late
    <2>4. QuarantineTypeOK'
      BY <1>1, <2>3, Tasks DEF QInv, QuarantineTypeOK
    <2>5. StagesOK'
      BY <1>1, <2>2, <2>3 DEF QInv, StagesOK, Taking, Giving
    <2> QED
      BY <1>1, <2>4, <2>5 DEF QInv, TakenIsKept, Held, Claim, Kept, Stays, Matches
  <1> QED
    BY <1>2, <1>3

\* What an idle moatd may begin.
LEMMA IdleStep ==
  ASSUME QInv, NEW a \in Alerts, Begin(a) \/ Contain(a) \/ Restore(a)
  PROVE  QInv' /\ Claim /\ Kept
  <1>1. CASE Begin(a)
    <2>1. /\ task' \in Early /\ task'.op = "take" /\ task'.stage = "hash"
          /\ UNCHANGED <<place, copy, meta, action, next, owed, spent, faults>>
      BY <1>1 DEF Begin, Early
    <2>2. QuarantineTypeOK'
      BY <2>1, Tasks DEF QInv, QuarantineTypeOK
    <2>3. StagesOK'
      BY <2>1 DEF StagesOK, Taking, Giving
    <2> QED
      BY <2>1, <2>2, <2>3 DEF QInv, TakenIsKept, Held, Claim, Kept, Stays, Matches
  <1>2. CASE Contain(a)
    <2>1. QuarantineTypeOK'
      BY <1>2 DEF QInv, QuarantineTypeOK, Contain
    <2>2. StagesOK'
      BY <1>2, IdleIsFine DEF Contain
    <2> QED
      BY <1>2, <2>1, <2>2 DEF QInv, QuarantineTypeOK, TakenIsKept, Held, Contain, Claim, Kept, Stays, Matches
  <1>3. CASE Restore(a)
    <2>1. PICK read \in BOOLEAN :
            /\ task' = [op |-> "give", id |-> a, stage |-> "move", read |-> read]
            /\ read => Matches(a)
            /\ Fault \/ NoFault
      BY <1>3 DEF Restore
    <2>2. /\ task' \in Give /\ task'.op = "give" /\ task'.stage = "move" /\ task'.id = a
          /\ task'.read = read
          /\ UNCHANGED <<place, copy, meta, action, next, owed, spent>>
      BY <1>3, <2>1 DEF Restore, GiveKeeps, Give
    <2>3. QuarantineTypeOK'
      BY <2>1, <2>2, Tasks, FaultsCounted DEF QInv, QuarantineTypeOK
    <2>4. StagesOK'
      BY <2>1, <2>2 DEF StagesOK, Taking, Giving, Matches
    <2> QED
      BY <2>2, <2>3, <2>4 DEF QInv, TakenIsKept, Held, Claim, Kept, Stays, Matches
  <1> QED
    BY <1>1, <1>2, <1>3

\* Reading leaves the store alone, and what is open is a file.
LEMMA ReadStep ==
  ASSUME QInv, Hash \/ Open
  PROVE  QInv' /\ Claim /\ Kept
  <1>1. /\ UNCHANGED <<place, copy, meta, action, next, owed, spent>>
        /\ faults' \in 0 .. MaxFaults
    BY FaultsCounted DEF QInv, Hash, Open, TakeKeeps
  <1>2. task \in Early /\ task \in Task
    BY Forms DEF QInv, QuarantineTypeOK, Hash, Open
  <1>3. \/ task' = NoTask
        \/ /\ task' \in Early \cup Late
           /\ task'.op = "take" /\ task'.stage \in {"open", "create"}
    <2>1. CASE Hash
      <3>1. place \in {None, Torn} \cup Files /\ task.op = "take" /\ task.id \in Alerts
        BY <1>2 DEF QInv, QuarantineTypeOK, Early
      <3>2. \/ task' = [task EXCEPT !.stage = "open", !.sha = place]
            \/ task' = [task EXCEPT !.stage = "open"]
        <4>1. [To("open") EXCEPT !.sha = place] = [task EXCEPT !.stage = "open", !.sha = place]
          BY <1>2 DEF To, Early
        <4> QED
          BY <2>1, <4>1 DEF Hash, To
      <3>3. task' \in Early /\ task'.op = "take" /\ task'.stage = "open"
        BY <1>2, <3>1, <3>2 DEF Early
      <3> QED
        BY <3>3
    <2>2. CASE Open
      BY <1>2, <2>2 DEF Open, To, Early, Late, QInv, QuarantineTypeOK
    <2> QED
      BY <2>1, <2>2
  <1>4. task' \in Task /\ StagesOK'
    <2>1. CASE task' = NoTask
      BY <2>1, IdleIsFine
    <2>2. CASE task' # NoTask
      BY <1>3, <2>2, Tasks DEF StagesOK, Taking, Giving
    <2> QED
      BY <2>1, <2>2
  <1> QED
    BY <1>1, <1>4 DEF QInv, QuarantineTypeOK, TakenIsKept, Held, Claim, Kept, Stays, Matches

\* A copy that is emptied is owed no more, or held for another alert too.
LEMMA CreateStep ==
  ASSUME QInv, Create
  PROVE  QInv' /\ Claim /\ Kept
  <1>1. /\ UNCHANGED <<place, meta, action, next>>
        /\ faults' \in 0 .. MaxFaults
    BY FaultsCounted DEF QInv, Create, TakeKeeps
  <1>2. task \in Late /\ task.op = "take" /\ task.id \in Alerts
    BY Forms DEF QInv, QuarantineTypeOK, Create, Taking
  <1>3. CASE task' = NoTask /\ UNCHANGED <<copy, owed, spent>>
    BY <1>1, <1>3, IdleIsFine DEF QInv, QuarantineTypeOK, TakenIsKept, Held, Claim, Kept, Stays, Matches
  <1>4. CASE /\ copy' = [copy EXCEPT ![task.id] = Torn]
             /\ Overwrite(task.id)
             /\ task' = To("copy")
    <2>1. task' \in Late /\ task'.op = "take" /\ task'.stage = "copy" /\ task'.id = task.id
      BY <1>2, <1>4 DEF To, Late
    <2>2. copy \in [Alerts -> {None, Torn} \cup Files] /\ owed \subseteq Files
      BY DEF QInv, QuarantineTypeOK
    <2> DEFINE over == ({copy[task.id]} \cap owed) \ {copy[b] : b \in Alerts \ {task.id}}
    <2>3. owed' = owed \ over /\ spent' = spent \cup over
      BY <1>4 DEF Overwrite
    <2>4. copy' \in [Alerts -> {None, Torn} \cup Files] /\ copy'[task.id] = Torn
      BY <1>2, <1>4, <2>2
    <2>5. QuarantineTypeOK'
      BY <1>1, <2>1, <2>2, <2>3, <2>4, Tasks DEF QInv, QuarantineTypeOK
    <2>6. ASSUME NEW f \in owed' PROVE f \in Held'
      <3>1. f \in owed /\ f \notin over
        BY <2>3
      <3>2. PICK b \in Alerts : f = copy[b]
        BY <3>1 DEF QInv, TakenIsKept, Held
      <3>3. PICK c \in Alerts \ {task.id} : f = copy[c]
        BY <3>1, <3>2
      <3>4. copy'[c] = copy[c]
        BY <1>4, <2>2, <3>3
      <3> QED
        BY <3>3, <3>4 DEF Held
    <2>7. StagesOK'
      BY <2>1, <2>4 DEF StagesOK, Taking, Giving
    <2>8. Kept
      BY <1>1, <1>2, <1>4, <2>2, OneEntry DEF Stays
    <2> QED
      BY <1>1, <2>5, <2>6, <2>7, <2>8 DEF QInv, TakenIsKept, Claim
  <1> QED
    BY <1>3, <1>4 DEF Create

\* What is written over by the copy is the empty file of this taking.
LEMMA CopyStep ==
  ASSUME QInv, Copy
  PROVE  QInv' /\ Claim /\ Kept
  <1>1. /\ UNCHANGED <<place, meta, action, next, owed, spent>>
        /\ faults' \in 0 .. MaxFaults
    BY FaultsCounted DEF QInv, Copy, TakeKeeps
  <1>2. /\ task \in Late /\ task.op = "take" /\ task.id \in Alerts /\ copy[task.id] = Torn
        /\ task.fd \in {Torn} \cup Files
    BY Forms DEF QInv, QuarantineTypeOK, StagesOK, Copy, Taking, Late
  <1>3. copy' = copy \/ copy' = [copy EXCEPT ![task.id] = task.fd]
    BY DEF Copy
  <1>4. copy' \in [Alerts -> {None, Torn} \cup Files]
    BY <1>2, <1>3 DEF QInv, QuarantineTypeOK
  <1>5. TakenIsKept'
    <2> SUFFICES ASSUME NEW f \in owed
                 PROVE  f \in Held'
      BY <1>1 DEF TakenIsKept
    <2>1. PICK b \in Alerts : f = copy[b]
      BY DEF QInv, TakenIsKept, Held
    <2>2. copy'[b] = copy[b]
      BY <1>2, <1>3, <2>1, Contents DEF QInv, QuarantineTypeOK
    <2> QED
      BY <2>1, <2>2 DEF Held
  <1>6. task' \in Task /\ StagesOK'
    <2>1. CASE task' = NoTask
      BY <2>1, IdleIsFine
    <2>2. CASE task' # NoTask
      <3>1. task' = To("unlink") /\ copy' = [copy EXCEPT ![task.id] = task.fd]
        BY <2>2 DEF Copy
      <3>2. /\ task' \in Late /\ task'.op = "take" /\ task'.stage = "unlink"
            /\ task'.id = task.id /\ task'.fd = task.fd
        BY <1>2, <3>1 DEF To, Late
      <3>3. copy'[task.id] = task.fd /\ task.fd # None
        BY <1>2, <3>1, Contents DEF QInv, QuarantineTypeOK
      <3> QED
        BY <3>2, <3>3, Tasks DEF StagesOK, Taking, Giving
    <2> QED
      BY <2>1, <2>2
  <1>7. Kept
    BY <1>1, <1>2, <1>3, OneEntry DEF Stays, QInv, QuarantineTypeOK
  <1> QED
    BY <1>1, <1>4, <1>5, <1>6, <1>7 DEF QInv, QuarantineTypeOK, Claim

\* Only what has been copied is owed.
LEMMA UnlinkStep ==
  ASSUME QInv, Unlink
  PROVE  QInv' /\ Claim /\ Kept
  <1>1. UNCHANGED <<copy, meta, action, next, spent>> /\ faults' \in 0 .. MaxFaults
    BY FaultsCounted DEF QInv, Unlink
  <1>2. /\ task \in Late /\ task.op = "take" /\ task.id \in Alerts
        /\ copy[task.id] = task.fd /\ task.fd # None
    BY Forms DEF QInv, QuarantineTypeOK, StagesOK, Unlink, Taking
  <1>3. /\ task' \in Late /\ task'.op = "take" /\ task'.stage = "meta"
        /\ task'.id = task.id /\ task'.fd = task.fd
    BY <1>2 DEF Unlink, To, Late
  <1>4. /\ place' \in {place, None}
        /\ owed' = owed \/ (place = task.fd /\ owed' = owed \cup ({place} \cap Files))
    BY DEF Unlink
  <1>5. QuarantineTypeOK'
    BY <1>1, <1>3, <1>4, Tasks DEF QInv, QuarantineTypeOK
  <1>6. TakenIsKept'
    BY <1>1, <1>2, <1>4 DEF QInv, TakenIsKept, Held
  <1>7. StagesOK'
    BY <1>1, <1>2, <1>3 DEF StagesOK, Taking, Giving
  <1> QED
    BY <1>1, <1>5, <1>6, <1>7 DEF QInv, Claim, Kept, Stays, Matches

\* The mark is reached only by way of a manifest that says the file is gone.
LEMMA ListStep ==
  ASSUME QInv, Meta \/ Mark
  PROVE  QInv' /\ Claim /\ Kept
  <1>1. UNCHANGED <<place, copy, next, owed, spent>> /\ faults' \in 0 .. MaxFaults
    BY FaultsCounted DEF QInv, Meta, Mark, TakeKeeps, QuarantineTypeOK
  <1>2. /\ task \in Late /\ task.op = "take" /\ task.id \in Alerts
        /\ copy[task.id] = task.fd /\ task.fd # None
    BY Forms DEF QInv, QuarantineTypeOK, StagesOK, Meta, Mark, Taking
  <1>3. CASE Meta
    <2>1. UNCHANGED action
      BY <1>3 DEF Meta, TakeKeeps
    <2>2. CASE task' = NoTask /\ UNCHANGED meta
      BY <1>1, <2>1, <2>2, IdleIsFine DEF QInv, QuarantineTypeOK, TakenIsKept, Held, Claim, Kept, Stays, Matches
    <2>3. CASE /\ meta' = [meta EXCEPT ![task.id] =
                             [listed |-> TRUE, sha |-> task.sha, removed |-> task.removed]]
               /\ task' = AfterMeta
      <3>1. /\ [listed |-> TRUE, sha |-> task.sha, removed |-> task.removed] \in
                 [listed : BOOLEAN, sha : {None, Torn} \cup Files, removed : BOOLEAN]
            /\ task.removed \in BOOLEAN
        BY <1>2 DEF Late
      <3>2. /\ meta' \in [Alerts -> [listed : BOOLEAN, sha : {None, Torn} \cup Files,
                                     removed : BOOLEAN]]
            /\ meta'[task.id].listed /\ meta'[task.id].removed = task.removed
        BY <1>2, <2>3, <3>1 DEF QInv, QuarantineTypeOK
      <3>5. Kept
        BY <1>1, <1>2, <2>3, OneEntry DEF Stays, QInv, QuarantineTypeOK
      <3>3. CASE task.removed
        <4>1. task' = To("mark")
          BY <2>3, <3>3 DEF AfterMeta
        <4>2. /\ task' \in Late /\ task'.op = "take" /\ task'.stage = "mark"
              /\ task'.id = task.id /\ task'.fd = task.fd
          BY <1>2, <4>1 DEF To, Late
        <4>3. StagesOK'
          BY <1>1, <1>2, <3>2, <3>3, <4>2
          DEF StagesOK, Taking, Giving
        <4> QED
          BY <1>1, <2>1, <3>2, <3>5, <4>2, <4>3, Tasks DEF QInv, QuarantineTypeOK, TakenIsKept, Held, Claim
      <3>4. CASE ~ task.removed
        BY <1>1, <2>1, <2>3, <3>2, <3>4, <3>5, IdleIsFine
        DEF AfterMeta, QInv, QuarantineTypeOK, TakenIsKept, Held, Claim
      <3> QED
        BY <3>3, <3>4
    <2> QED
      BY <1>3, <2>2, <2>3 DEF Meta
  <1>4. CASE Mark
    <2>1. /\ meta[task.id].listed /\ meta[task.id].removed /\ copy[task.id] # None
          /\ UNCHANGED meta /\ task' = NoTask
          /\ action' = [action EXCEPT ![task.id] = "quarantined"]
      BY <1>2, <1>4 DEF QInv, StagesOK, Mark, Taking
    <2>2. Claim
      BY <1>1, <1>2, <2>1 DEF Claim, QInv, QuarantineTypeOK
    <2>3. QuarantineTypeOK'
      BY <1>1, <1>2, <2>1, IdleIsFine DEF QInv, QuarantineTypeOK
    <2>4. Kept
      BY <1>1, <2>1 DEF Kept, Stays
    <2> QED
      BY <1>1, <2>1, <2>2, <2>3, <2>4, IdleIsFine DEF QInv, TakenIsKept, Held
  <1> QED
    BY <1>3, <1>4

\* A held copy goes only when it is not owed any more.
LEMMA GiveStep ==
  ASSUME QInv, Rename \/ CopyBack \/ Drop \/ Tidy
  PROVE  QInv' /\ Claim /\ Kept
  <1> DEFINE a == task.id
  <1>1. task \in Give /\ task.op = "give" /\ a \in Alerts /\ copy[a] \in {None, Torn} \cup Files
    BY Forms DEF QInv, QuarantineTypeOK, Rename, CopyBack, Drop, Tidy, Giving
  <1>2. UNCHANGED <<next, spent>> /\ faults' \in 0 .. MaxFaults
    BY FaultsCounted DEF QInv, Rename, CopyBack, Drop, Tidy, GiveKeeps
  <1>3. CASE Rename
    <2>1. /\ copy' = [copy EXCEPT ![a] = None] /\ place' = copy[a] /\ owed' = owed \ {copy[a]}
          /\ task' = [task EXCEPT !.stage = "tidy"] /\ UNCHANGED <<meta, action>>
      BY <1>3 DEF Rename, PutBack
    <2>2. task' \in Give /\ task'.op = "give" /\ task'.stage = "tidy"
      BY <1>1, <2>1 DEF Give
    <2>3. QuarantineTypeOK'
      BY <1>1, <1>2, <2>1, <2>2, Tasks DEF QInv, QuarantineTypeOK
    <2>4. TakenIsKept'
      BY <1>1, <2>1 DEF QInv, QuarantineTypeOK, TakenIsKept, Held
    <2>5. StagesOK'
      BY <1>1, <2>1, <2>2 DEF StagesOK, Taking, Giving, QInv, QuarantineTypeOK
    <2>6. Kept
      BY <1>1, <2>1, OneEntry DEF Stays, QInv, QuarantineTypeOK
    <2> QED
      BY <2>1, <2>3, <2>4, <2>5, <2>6 DEF QInv, Claim
  <1>4. CASE CopyBack
    <2>1. UNCHANGED <<copy, meta, action>>
      BY <1>4 DEF CopyBack
    <2>2. CASE PutBack(a) /\ task' = [task EXCEPT !.stage = "drop"]
      <3>1. task' \in Give /\ task'.op = "give" /\ task'.stage = "drop" /\ task'.id = a
        BY <1>1, <2>2 DEF Give
      <3>2. place' = copy[a] /\ owed' = owed \ {copy[a]}
        BY <2>2 DEF PutBack
      <3>3. StagesOK'
        BY <2>1, <3>1, <3>2 DEF StagesOK, Taking, Giving
      <3> QED
        BY <1>1, <1>2, <2>1, <3>1, <3>2, <3>3, Tasks DEF QInv, QuarantineTypeOK, TakenIsKept, Held, Claim, Kept, Stays, Matches
    <2>3. CASE place' = Torn /\ task' = NoTask /\ UNCHANGED owed
      BY <1>2, <2>1, <2>3, IdleIsFine DEF QInv, QuarantineTypeOK, TakenIsKept, Held, Claim, Kept, Stays, Matches
    <2> QED
      BY <1>4, <2>2, <2>3 DEF CopyBack
  <1>5. CASE Drop
    <2>1. /\ copy' = [copy EXCEPT ![a] = None] /\ copy[a] \notin owed
          /\ task' = [task EXCEPT !.stage = "tidy"] /\ UNCHANGED <<place, meta, action, owed>>
      BY <1>5 DEF Drop, QInv, StagesOK
    <2>2. task' \in Give /\ task'.op = "give" /\ task'.stage = "tidy"
      BY <1>1, <2>1 DEF Give
    <2>3. QuarantineTypeOK'
      BY <1>1, <1>2, <2>1, <2>2, Tasks DEF QInv, QuarantineTypeOK
    <2>4. TakenIsKept'
      BY <1>1, <2>1 DEF QInv, QuarantineTypeOK, TakenIsKept, Held
    <2>5. StagesOK'
      BY <1>1, <2>1, <2>2 DEF StagesOK, Taking, Giving, QInv, QuarantineTypeOK
    <2>6. Kept
      BY <1>1, <2>1, OneEntry DEF Stays, QInv, QuarantineTypeOK
    <2> QED
      BY <2>1, <2>3, <2>4, <2>5, <2>6 DEF QInv, Claim
  <1>6. CASE Tidy
    <2>1. /\ meta' = [meta EXCEPT ![a] = NoMeta]
          /\ action' = [action EXCEPT ![a] = "restored"] /\ task' = NoTask
          /\ UNCHANGED <<place, copy, owed>>
      BY <1>6 DEF Tidy
    <2>2. NoMeta \in [listed : BOOLEAN, sha : {None, Torn} \cup Files, removed : BOOLEAN]
      BY DEF NoMeta
    <2>3. QuarantineTypeOK'
      BY <1>1, <1>2, <2>1, <2>2, IdleIsFine DEF QInv, QuarantineTypeOK
    <2>4. Claim
      BY <1>1, <2>1 DEF Claim, QInv, QuarantineTypeOK
    <2>5. copy[a] \notin owed
      BY <1>6, Contents DEF Tidy, Giving, QInv, StagesOK, QuarantineTypeOK
    <2>6. Kept
      BY <1>1, <2>1, <2>5, OneEntry DEF Stays, QInv, QuarantineTypeOK
    <2> QED
      BY <2>1, <2>3, <2>4, <2>6, IdleIsFine DEF QInv, TakenIsKept, Held
  <1> QED
    BY <1>3, <1>4, <1>5, <1>6

LEMMA KilledStep ==
  ASSUME QInv, Killed
  PROVE  QInv' /\ Claim /\ Kept
  BY FaultsCounted, IdleIsFine DEF Killed, QInv, QuarantineTypeOK, TakenIsKept, Held, Claim, Kept, Stays, Matches

-----------------------------------------------------------------------------

LEMMA Initially ==
  ASSUME QuarantineInit
  PROVE  QInv
  <1>1. place \in {None, 1} /\ next \in 0 .. MaxFiles /\ place \in {None} \cup Files
    BY QuarantineAssumption DEF QuarantineInit, None, Files
  <1>2. NoMeta \in [listed : BOOLEAN, sha : {None, Torn} \cup Files, removed : BOOLEAN]
    BY DEF NoMeta
  <1>3. QuarantineTypeOK
    BY <1>1, <1>2, QuarantineAssumption, Tasks DEF QuarantineInit, QuarantineTypeOK
  <1> QED
    BY <1>3 DEF QuarantineInit, QInv, TakenIsKept, StagesOK, Taking, Giving, NoTask

LEMMA QuarantineStep ==
  ASSUME QInv, [QuarantineNext]_qvars
  PROVE  QInv' /\ [Claim /\ Kept]_qvars
  <1>1. CASE UNCHANGED qvars
    BY <1>1 DEF qvars, QInv, QuarantineTypeOK, TakenIsKept, Held, StagesOK,
                Taking, Giving
  <1>2. CASE \E a \in Alerts : Command(a) \/ Chain(a) \/ Contain(a) \/ Restore(a)
    BY <1>2, IdleStep DEF Command, Chain
  <1> QED
    BY <1>1, <1>2, OwnerStep, ReadStep, CreateStep, CopyStep, UnlinkStep, ListStep, GiveStep,
       KilledStep DEF QuarantineNext

\* The strengthened invariant.
THEOREM QuarantineInvariance == QuarantineSpec => []QInv
  <1>1. QInv /\ [QuarantineNext]_qvars => QInv'
    BY QuarantineStep
  <1> QED
    BY <1>1, Initially, PTL DEF QuarantineSpec

\* The store stays well formed, whatever fails and whenever moatd dies.
THEOREM QuarantineTypeCorrect == QuarantineSpec => []QuarantineTypeOK
  <1>1. QInv => QuarantineTypeOK
    BY DEF QInv
  <1> QED
    BY <1>1, QuarantineInvariance, PTL

\* What moatd has removed from its place it holds until it has put it back
\* (quarantine_file, quarantine_restore), for any alerts that share the path.
THEOREM TakenIsKeptAlways == QuarantineSpec => []TakenIsKept
  <1>1. QInv => TakenIsKept
    BY DEF QInv
  <1> QED
    BY <1>1, QuarantineInvariance, PTL

\* What moatd holds and would give back it goes on holding and listing until it is back
\* (quarantine_restore), for any alerts that share the path.
THEOREM StaysRestorableAlways == QuarantineSpec => StaysRestorable
  <1>1. QInv /\ [QuarantineNext]_qvars =>
          [\A c \in Restorable \ Restorable' :
             c \notin owed' \/ (task.op = "take" /\ c = copy[task.id])]_qvars
    <2> SUFFICES ASSUME QInv, [QuarantineNext]_qvars, qvars' # qvars,
                        NEW c \in Restorable \ Restorable', c \in owed'
                 PROVE  task.op = "take" /\ c = copy[task.id]
      OBVIOUS
    <2>1. PICK a \in Alerts : c = copy[a] /\ meta[a].listed /\ Matches(a) /\ c \in owed
      BY DEF Restorable
    <2>2. Stays(a)
      BY QuarantineStep DEF Kept
    <2>3. ~ (copy'[a] = copy[a] /\ meta'[a] = meta[a])
      BY <2>1 DEF Restorable, Matches
    <2> QED
      BY <2>1, <2>2, <2>3 DEF Stays
  <1> QED
    BY <1>1, QuarantineInvariance, PTL DEF QuarantineSpec, StaysRestorable

\* An alert says "quarantined" only with a listed copy and the file gone (cmd_quarantine).
THEOREM ClaimsAreTrue == QuarantineSpec => ClaimIsTrue
  <1>1. QInv /\ [QuarantineNext]_qvars => [Claim]_qvars
    BY QuarantineStep
  <1> QED
    BY <1>1, QuarantineInvariance, PTL DEF QuarantineSpec, ClaimIsTrue, Claim, Kept, Stays, Matches

=============================================================================
