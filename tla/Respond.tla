------------------------------ MODULE Respond ------------------------------
(***************************************************************************)
(* Ending processes (engine.rs maybe_kill_tree, maybe_enforce; control.rs  *)
(* cmd_kill, verify_pid; contain.rs tree_targets, worth_killing_for;       *)
(* util.rs PidFd).                                                         *)
(*                                                                         *)
(* An alert names a process by a pid and the time it started.  Between the *)
(* alert and the signal processes exit, run other programs, start others   *)
(* and get each other's pids, while moatd goes on one system call at a     *)
(* time.  moatd itself does one thing at a time (its state is locked): it  *)
(* notes an alert, and with it the one chain modelled here, or it serves a *)
(* command.                                                                *)
(*                                                                         *)
(* How severe the chain is, is the correlator's business (Chain).          *)
(***************************************************************************)
EXTENDS Integers, Sequences, FiniteSets, Functions, SequencesExt

CONSTANTS
  Pids,        \* process ids other than 1
  Trunk,       \* the pid of the chain's ancestor
  Exes,        \* the programs a process may run
  First,       \* the program everything runs at first
  Boxes,       \* the sets of pids that may be in a container at first
  Kinds,       \* what a step of the chain may be: records of Kind
  Nobody,      \* a pid that is free
  Tolerance,   \* how far start times may be apart (2 s)
  MaxSteps,    \* chain::MAX_STEPS
  MaxTargets,  \* MAX_TARGETS
  Batch,       \* BATCH
  LastStep,    \* bound: alerts
  MaxWorld,    \* bound: what other processes do
  MaxCommands, \* bound: commands
  MaxFaults    \* bound: failures to pin, alerts no longer kept, crashes

\* `novel` is a rarity of first seen or rare, `armed` a rule in enforce mode.
Kind == [family : STRING, novel : BOOLEAN, trigger : BOOLEAN, armed : BOOLEAN]

\* CONSEQUENCE
Consequence == {"net", "cred", "persist", "priv", "rootkit", "ransom"}

Init1 == 0      \* the parent of an orphan

\* A process: `ran` are the programs it has run, in order, `guarded` is of another user
\* than the alert says or in system.slice.  No two that have a pid one after the other
\* start at the same time; verify_pid tells them apart beyond Tolerance only.
Process ==
  [start : 0 .. MaxWorld, exe : Exes, ran : Seq(Exes), boxed : BOOLEAN,
   guarded : BOOLEAN, stopped : BOOLEAN, parent : Pids \cup {Init1}]

ASSUME RespondAssumption ==
  /\ Trunk \in Pids /\ First \in Exes /\ Boxes \subseteq SUBSET Pids
  /\ Nobody \notin Process /\ Init1 \notin Pids
  /\ Kinds \subseteq Kind
  /\ {Tolerance, MaxSteps, MaxTargets, LastStep, MaxWorld, MaxCommands, MaxFaults} \subseteq Nat
  /\ Batch \in Nat \ {0}

VARIABLES
  proc,     \* pid -> the process that has it, or Nobody
  steps,    \* the triggers and context steps of the chain, first MaxSteps of them
  truncated,\* Chain.truncated
  gone,     \* the steps whose alert the store no longer keeps
  mode,     \* contain.kill
  decided,  \* the chain is in Daemon::killed_chains
  killed,   \* the steps whose alert has action_taken "killed"
  task,     \* what moatd is doing
  hits,     \* history: the processes moatd has sent a signal, and why
  cut,      \* history: moatd died while it was killing
  world,    \* count of what other processes did, which is also the clock
  asked,    \* count of commands
  faults    \* count of failures

daemon == <<steps, truncated, gone, mode, decided, killed>>
bounds == <<cut, world, asked, faults>>
vars == <<proc, daemon, task, hits, bounds>>

-----------------------------------------------------------------------------
(* Processes. *)

Live == {p \in Pids : proc[p] # Nobody}
Awake == {p \in Live : ~proc[p].stopped}

\* A process ends: its pid is free, and its children are orphans.
Ended(p) ==
  [q \in Pids |->
     IF q = p THEN Nobody
     ELSE IF proc[q] # Nobody /\ proc[q].parent = p THEN [proc[q] EXCEPT !.parent = Init1]
     ELSE proc[q]]

\* PidFd: a process, not a number.
Handle(p) == [pid |-> p, start |-> proc[p].start]

\* Variant that signals a number.
HoldsNumber(h) == proc[h.pid] # Nobody

Holds(h) == proc[h.pid] # Nobody /\ proc[h.pid].start = h.start

Smaller(a, b) == IF a <= b THEN a ELSE b
Distance(a, b) == IF a >= b THEN a - b ELSE b - a

\* verify_pid
Verified(s) ==
  /\ s.pid \in Live
  /\ Distance(proc[s.pid].start, s.start) <= Tolerance
  /\ proc[s.pid].exe = s.exe

\* refuse_to_kill
Refused(s) == s.pid \notin Live \/ proc[s.pid].guarded

\* proc_descendants
Descendants(p) ==
  LET children(S) == {q \in Live : proc[q].parent \in S}
      within[n \in 0 .. Cardinality(Pids)] ==
        IF n = 0 THEN children({p}) ELSE within[n - 1] \cup children(within[n - 1])
  IN  within[Cardinality(Pids)] \ {p}

Hit(by, p) ==
  [by |-> by, pid |-> p, start |-> proc[p].start, ran |-> proc[p].ran,
   when |-> <<Len(steps), truncated>>]

-----------------------------------------------------------------------------
(* The gate. *)

Idle == [op |-> "idle"]

Triggers(ss) == {i \in DOMAIN ss : ss[i].trigger}

\* The alert of a step, if it can be read, and whether it was in a container.
Readable(i) == i \notin gone
OnHost(ss, i) == Readable(i) => ~ss[i].boxed

\* worth_killing_for, of a chain that is high
Worth(ss) ==
  LET facts == {i \in Triggers(ss) : Readable(i)}
      novel == {i \in facts : ss[i].novel}
      FamiliesOf(is) == {ss[i].family : i \in is}
  IN  /\ Cardinality(facts) >= 2
      /\ Cardinality(FamiliesOf(facts)) >= 2
      /\ FamiliesOf(facts) \cap Consequence # {}
      /\ Cardinality(novel) >= 2
      /\ Cardinality(FamiliesOf(novel)) >= 2

\* chain_gate, the namespace boundary: an exemption wants complete evidence.
AllBoxed(ss, cutShort) ==
  /\ Triggers(ss) # {} /\ ~cutShort
  /\ \A i \in Triggers(ss) : Readable(i) /\ ss[i].boxed

\* The ancestor is spared unless it is itself the actor.
SpareTrunk(ss) ==
  Cardinality({ss[i].family : i \in {j \in Triggers(ss) : Readable(j) /\ ss[j].pid = Trunk}}) < 2

\* tree_targets, and host_targets of them: a pid once, by its first step.
Targets(ss) ==
  LET aimed == {i \in Triggers(ss) : ~(SpareTrunk(ss) /\ ss[i].pid = Trunk)}
      first == {i \in aimed : \A j \in aimed : ss[j].pid = ss[i].pid => i <= j}
  IN  {i \in first : OnHost(ss, i)}

\* The first n steps of a set of steps.
FirstOf(is, n) == {i \in is : Cardinality({j \in is : j <= i}) <= n}

\* The processes the first trigger of their pid names as they run now (what the kill
\* is about).
Implicated(ss) ==
  {i \in Triggers(ss) :
     /\ \A j \in Triggers(ss) : ss[j].pid = ss[i].pid => i <= j
     /\ Readable(i) /\ ~ss[i].boxed /\ Verified(ss[i]) /\ ~Refused(ss[i])
     /\ ~(SpareTrunk(ss) /\ ss[i].pid = Trunk)}

TreeKill(ss) ==
  [op |-> "tree", stage |-> "pin", todo |-> FirstOf(Targets(ss), MaxTargets),
   now |-> 0, at |-> 1, doomed |-> <<>>, missed |-> FALSE,
   meant |-> {<<ss[i].pid, proc[ss[i].pid]>> : i \in Implicated(ss)}]

\* maybe_kill_tree up to its first target, if note_chain gets that far.
Consider(ss, cutShort) ==
  \/ task' = Idle
  \/ /\ mode # "off" /\ ~decided
     /\ Worth(ss) /\ ~AllBoxed(ss, cutShort)
     /\ task' = TreeKill(ss)

-----------------------------------------------------------------------------
(* What other processes do. *)

Quiet == UNCHANGED <<daemon, task, hits, cut, asked, faults>>

Acts == world < MaxWorld /\ world' = world + 1 /\ Quiet

\* A pid that is free goes to a new process, which runs what its parent runs.
Start(p, q) ==
  /\ proc[p] = Nobody /\ q \in Awake
  /\ proc' = [proc EXCEPT ![p] =
        [start |-> world + 1, exe |-> proc[q].exe, ran |-> <<proc[q].exe>>, boxed |-> proc[q].boxed,
         guarded |-> proc[q].guarded, stopped |-> FALSE, parent |-> q]]
  /\ Acts

Exec(p, e) ==
  /\ p \in Awake /\ proc[p].exe # e
  /\ proc' = [proc EXCEPT ![p].exe = e, ![p].ran = Append(@, e)]
  /\ Acts

\* A process becomes one of another user, or of system.slice.
Become(p) ==
  /\ p \in Awake /\ ~proc[p].guarded
  /\ proc' = [proc EXCEPT ![p].guarded = TRUE]
  /\ Acts

Exit(p) == p \in Live /\ proc' = Ended(p) /\ Acts

-----------------------------------------------------------------------------
(* Noting an alert. *)

StepOf(p, k) ==
  [pid |-> p, start |-> proc[p].start, exe |-> proc[p].exe, boxed |-> proc[p].boxed,
   family |-> k.family, novel |-> k.novel, trigger |-> k.trigger, armed |-> k.armed]

Shown(s) == IF Len(steps) < MaxSteps THEN Append(steps, s) ELSE steps

\* emit: a rule that is armed ends the process of its finding first (maybe_enforce).
Raise(p, k) ==
  LET s == StepOf(p, k)
      i == Len(Shown(s))
  IN  /\ task = Idle /\ p \in Live
      /\ Len(steps) < LastStep /\ ~truncated
      /\ steps' = Shown(s)
      /\ truncated' = (Len(steps) = MaxSteps)
      /\ IF s.armed /\ s.trigger /\ ~s.boxed /\ i > Len(steps)
         THEN task' = [op |-> "enforce", stage |-> "verify", step |-> i]
         ELSE Consider(steps', truncated')
      /\ UNCHANGED <<proc, gone, mode, decided, killed, hits, bounds>>

\* maybe_enforce verifies, and then signals by number.
EnforceVerify ==
  /\ task.op = "enforce" /\ task.stage = "verify"
  /\ IF Verified(steps[task.step])
     THEN task' = [task EXCEPT !.stage = "signal"]
     ELSE Consider(steps, truncated)
  /\ UNCHANGED <<proc, steps, truncated, gone, mode, decided, killed, hits, bounds>>

EnforceSignal ==
  LET p == steps[task.step].pid IN
  /\ task.op = "enforce" /\ task.stage = "signal"
  /\ IF p \in Live
     THEN /\ proc' = Ended(p)
          /\ hits' = hits \cup {Hit("enforce", p)}
          /\ killed' = killed \cup {task.step}
     ELSE UNCHANGED <<proc, hits, killed>>
  /\ Consider(steps, truncated)
  /\ UNCHANGED <<steps, truncated, gone, mode, decided, bounds>>

-----------------------------------------------------------------------------
(* maybe_kill_tree *)

Tree(stage) == task.op = "tree" /\ task.stage = stage

KillKeeps == UNCHANGED <<steps, truncated, gone, mode, killed, cut, world, asked>>

\* The targets one after the other.
Turn(i) == Tree("pin") /\ i \in task.todo /\ \A j \in task.todo : i <= j

\* A target whose alert cannot be read is spared; so is one whose pid is free.
KillPass(i) ==
  /\ Turn(i)
  /\ Readable(i) => steps[i].pid \notin Live
  /\ task' = [task EXCEPT !.todo = @ \ {i}]
  /\ UNCHANGED <<proc, decided, hits, faults>> /\ KillKeeps

KillPin(i) ==
  /\ Turn(i) /\ Readable(i) /\ steps[i].pid \in Live
  /\ task' = [task EXCEPT !.stage = "verify", !.todo = @ \ {i}, !.now = i,
                          !.doomed = Append(@, Handle(steps[i].pid))]
  /\ UNCHANGED <<proc, decided, hits, faults>> /\ KillKeeps

\* PinFailure other than Gone: the process runs on.
KillPinFails(i) ==
  /\ Turn(i) /\ Readable(i) /\ steps[i].pid \in Live
  /\ faults < MaxFaults /\ faults' = faults + 1
  /\ task' = [task EXCEPT !.todo = @ \ {i}, !.missed = TRUE]
  /\ UNCHANGED <<proc, decided, hits>> /\ KillKeeps

\* Variant that lets go of the oldest handle instead of the last.
KillVerifyDropsFirst ==
  LET s == steps[task.now] IN
  /\ Tree("verify")
  /\ task' = [task EXCEPT !.stage = "pin",
                          !.doomed = IF Verified(s) /\ ~Refused(s) THEN @ ELSE Tail(@)]
  /\ UNCHANGED <<proc, decided, hits, faults>> /\ KillKeeps

\* What is verified is what has the pid now, by number; what was pinned is kept if
\* that passes.
KillVerify ==
  LET s == steps[task.now] IN
  /\ Tree("verify")
  /\ task' = [task EXCEPT !.stage = "pin",
                          !.doomed = IF Verified(s) /\ ~Refused(s) THEN @ ELSE Front(@)]
  /\ UNCHANGED <<proc, decided, hits, faults>> /\ KillKeeps

\* Variant that forgets the decision it has carried out.
DecideLogged ==
  /\ Tree("pin") /\ task.todo = {}
  /\ decided' = (decided \/ (task.doomed # <<>> /\ mode # "kill"))
  /\ task' = IF task.doomed # <<>> /\ mode = "kill" THEN [task EXCEPT !.stage = "stop"]
             ELSE Idle
  /\ UNCHANGED <<proc, hits, faults>> /\ KillKeeps

\* One decision per chain, if there was anything to decide.
Decide ==
  /\ Tree("pin") /\ task.todo = {}
  /\ decided' = (decided \/ task.doomed # <<>>)
  /\ task' = IF task.doomed # <<>> /\ mode = "kill" THEN [task EXCEPT !.stage = "stop"]
             ELSE Idle
  /\ UNCHANGED <<proc, hits, faults>> /\ KillKeeps

\* The signals, each to what is pinned or to nothing.
Next1(last) == IF task.at < Len(task.doomed) THEN [task EXCEPT !.at = @ + 1] ELSE last

\* Variant that does not stop what it is about to kill.
StopNothing ==
  /\ Tree("stop")
  /\ UNCHANGED <<proc, hits>>
  /\ task' = Next1([task EXCEPT !.stage = "kill", !.at = 1])
  /\ UNCHANGED <<decided, faults>> /\ KillKeeps

Stop ==
  LET h == task.doomed[task.at] IN
  /\ Tree("stop")
  /\ IF Holds(h)
     THEN /\ proc' = [proc EXCEPT ![h.pid].stopped = TRUE]
          /\ hits' = hits \cup {Hit("tree", h.pid)}
     ELSE UNCHANGED <<proc, hits>>
  /\ task' = Next1([task EXCEPT !.stage = "kill", !.at = 1])
  /\ UNCHANGED <<decided, faults>> /\ KillKeeps

\* Variant whose second pass leaves the last one out.
KillButLast ==
  LET h == task.doomed[task.at] IN
  /\ Tree("kill")
  /\ IF Holds(h) /\ task.at < Len(task.doomed)
     THEN /\ proc' = Ended(h.pid)
          /\ hits' = hits \cup {Hit("tree", h.pid)}
     ELSE UNCHANGED <<proc, hits>>
  /\ task' = Next1(Idle)
  /\ UNCHANGED <<decided, faults>> /\ KillKeeps

Kill ==
  LET h == task.doomed[task.at] IN
  /\ Tree("kill")
  /\ IF Holds(h)
     THEN /\ proc' = Ended(h.pid)
          /\ hits' = hits \cup {Hit("tree", h.pid)}
     ELSE UNCHANGED <<proc, hits>>
  /\ task' = Next1(Idle)
  /\ UNCHANGED <<decided, faults>> /\ KillKeeps

-----------------------------------------------------------------------------
(* cmd_kill *)

Command(stage) == task.op = "kill" /\ task.stage = stage

CommandKeeps ==
  UNCHANGED <<steps, truncated, gone, mode, decided, cut, world>>

\* The target is pinned before it is verified.  A target that is gone by then is
\* refused by verify_pid, unless another that passes has taken its pid since.
Begin(i, h) ==
  task' = [op |-> "kill", stage |-> "verify", step |-> i, target |-> h, todo |-> {},
           held |-> {}, got |-> FALSE]

CommandKill(i) ==
  /\ task = Idle /\ asked < MaxCommands /\ asked' = asked + 1 /\ i \in DOMAIN steps /\ Readable(i)
  /\ \/ steps[i].pid \in Live /\ Begin(i, {Handle(steps[i].pid)}) /\ UNCHANGED faults
     \/ steps[i].pid \notin Live /\ Begin(i, {}) /\ UNCHANGED faults
     \/ faults < MaxFaults /\ Begin(i, {}) /\ faults' = faults + 1
  /\ UNCHANGED <<proc, killed, hits>> /\ CommandKeeps

CommandVerify ==
  LET s == steps[task.step] IN
  /\ Command("verify")
  /\ task' = IF Verified(s) THEN [task EXCEPT !.stage = "pin", !.todo = Descendants(s.pid)]
             ELSE Idle
  /\ UNCHANGED <<proc, killed, hits, faults, asked>> /\ CommandKeeps

\* The descendants, a batch of handles at a time.
CommandPin ==
  /\ Command("pin") /\ task.todo # {}
  /\ \E chunk \in SUBSET task.todo :
       /\ Cardinality(chunk) = Smaller(Batch, Cardinality(task.todo))
       /\ task' = [task EXCEPT !.stage = "signal", !.todo = @ \ chunk,
                               !.held = {Handle(p) : p \in chunk \cap Live}]
  /\ UNCHANGED <<proc, killed, hits, faults, asked>> /\ CommandKeeps

\* The processes hs ends, one signal after the other.
EndAll(hs) ==
  LET ended == {h.pid : h \in {x \in hs : Holds(x)}}
  IN  [q \in Pids |->
         IF q \in ended THEN Nobody
         ELSE IF proc[q] # Nobody /\ proc[q].parent \in ended
              THEN [proc[q] EXCEPT !.parent = Init1]
              ELSE proc[q]]

CommandSignal ==
  LET ended == {h \in task.held : Holds(h)} IN
  /\ Command("signal")
  /\ proc' = EndAll(task.held)
  /\ hits' = hits \cup {Hit("child", h.pid) : h \in ended}
  /\ task' = [task EXCEPT !.stage = "pin", !.held = {}, !.got = @ \/ ended # {}]
  /\ UNCHANGED <<killed, faults, asked>> /\ CommandKeeps

\* The target last, and the alert says killed if anything was.
CommandFinish ==
  LET ended == {h \in task.target : Holds(h)} IN
  /\ Command("pin") /\ task.todo = {}
  /\ proc' = EndAll(task.target)
  /\ hits' = hits \cup {Hit("target", h.pid) : h \in ended}
  /\ killed' = IF task.got \/ ended # {} THEN killed \cup {task.step} ELSE killed
  /\ task' = Idle
  /\ UNCHANGED <<faults, asked>> /\ CommandKeeps

-----------------------------------------------------------------------------
(* The rest. *)

\* `set kill`
SetKill(m) ==
  /\ task = Idle /\ mode' = m /\ m # mode /\ asked < MaxCommands /\ asked' = asked + 1
  /\ UNCHANGED <<proc, steps, truncated, gone, decided, killed, task, hits,
                 cut, world, faults>>

\* The store rotates an alert out.
Lose(i) ==
  /\ task = Idle /\ i \in DOMAIN steps \ gone
  /\ faults < MaxFaults /\ faults' = faults + 1
  /\ gone' = gone \cup {i}
  /\ UNCHANGED <<proc, steps, truncated, mode, decided, killed, task, hits,
                 cut, world, asked>>

\* moatd dies and is started again: its chains and what it decided about them are
\* gone.  (The alerts from before are not followed further.  Elsewhere than in a tree
\* kill a restart leads to nothing that cannot be had without.)
Restart ==
  /\ task.op = "tree" /\ faults < MaxFaults /\ faults' = faults + 1
  /\ steps' = <<>> /\ truncated' = FALSE /\ gone' = {} /\ decided' = FALSE
  /\ killed' = {} /\ task' = Idle /\ hits' = {}
  /\ cut' = (cut \/ Tree("stop") \/ Tree("kill"))
  /\ UNCHANGED <<proc, mode, world, asked>>

Init ==
  /\ \E boxes \in Boxes :
       proc = [p \in Pids |->
         [start |-> 0, exe |-> First, ran |-> <<First>>, boxed |-> p \in boxes,
          guarded |-> FALSE, stopped |-> FALSE,
          parent |-> IF p = Trunk THEN Init1 ELSE Trunk]]
  /\ steps = <<>> /\ truncated = FALSE /\ gone = {}
  /\ mode = "log"
  /\ decided = FALSE /\ killed = {} /\ task = Idle /\ hits = {}
  /\ cut = FALSE /\ world = 0 /\ asked = 0 /\ faults = 0

World ==
  \/ \E p, q \in Pids : Start(p, q)
  \/ \E p \in Pids, e \in Exes : Exec(p, e)
  \/ \E p \in Pids : Become(p) \/ Exit(p)

Next ==
  \/ World
  \/ \E p \in Pids, k \in Kinds : Raise(p, k)
  \/ EnforceVerify \/ EnforceSignal
  \/ \E i \in 1 .. LastStep : KillPass(i) \/ KillPin(i) \/ KillPinFails(i)
  \/ KillVerify \/ Decide \/ Stop \/ Kill
  \/ \E i \in 1 .. LastStep : CommandKill(i)
  \/ CommandVerify \/ CommandPin \/ CommandSignal \/ CommandFinish
  \/ \E m \in {"off", "log", "kill"} : SetKill(m)
  \/ \E i \in 1 .. LastStep : Lose(i)
  \/ Restart

Spec == Init /\ [][Next]_vars

-----------------------------------------------------------------------------
(* Properties. *)

\* The processes and moatd's task are well formed; the chain shows MaxSteps at most.
TypeOK ==
  /\ \A p \in Live : proc[p] \in Process
  /\ Len(steps) <= MaxSteps /\ gone \cup killed \subseteq DOMAIN steps
  /\ truncated \in BOOLEAN /\ decided \in BOOLEAN
  /\ mode \in {"off", "log", "kill"}
  /\ task.op \in {"idle", "enforce", "tree", "kill"}

\* A signal to a tree, or to the process of an alert, reaches that process and no
\* other, whatever has its pid by then: it started when the step says, and has run
\* the program the step names; and for the tree, the step is a trigger that was not
\* in a container (PidFd: open, verify, then signal what is open).
OnlyTheImplicated ==
  \A h \in hits : h.by \in {"tree", "target"} =>
    \E i \in DOMAIN steps :
      /\ steps[i].pid = h.pid /\ steps[i].exe \in Range(h.ran)
      /\ Distance(steps[i].start, h.start) <= Tolerance
      /\ h.by = "tree" => steps[i].trigger /\ ~steps[i].boxed

\* "One decision per chain": however long a chain grows after it, the tree kill
\* signals MaxTargets processes of it at most, after one look (killed_chains).
OneBurst ==
  LET burst == {h \in hits : h.by = "tree"}
  IN  Cardinality(burst) <= MaxTargets /\ \A h, g \in burst : h.when = g.when

\* From the first SIGKILL of a tree on, none of the tree starts anything (the whole
\* set is stopped before any of it is killed).
NoStartingPistol ==
  [][Tree("kill") =>
       \A p, q \in Pids :
         proc[q] = Nobody /\ proc'[q] # Nobody /\ proc'[q].parent = p
           => Handle(p) \notin Range(task.doomed)]_vars

\* What moatd stops it kills: nothing is left stopped, unless moatd died between the
\* two passes.
NothingLeftStopped ==
  \A p \in Live :
    proc[p].stopped => cut \/ (/\ task.op = "tree" /\ task.stage \in {"stop", "kill"}
                              /\ Handle(p) \in Range(task.doomed))

\* "kill the offending branch and leave the trunk": when a tree kill is over, no process
\* is left that the first trigger of its pid named as it ran, and that did nothing
\* meanwhile (unless it could not be pinned, or there were more than MaxTargets).
NoneImplicatedLeft ==
  [][task.op = "tree" /\ task' = Idle /\ mode = "kill" /\ ~task.missed /\ faults' = faults =>
       \A m \in task.meant :
         \/ Cardinality(Targets(steps)) > MaxTargets
         \/ proc'[m[1]] = Nobody
         \/ [proc'[m[1]] EXCEPT !.parent = m[2].parent, !.stopped = m[2].stopped] # m[2]]_vars

=============================================================================
