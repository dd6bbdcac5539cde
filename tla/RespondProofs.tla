--------------------------- MODULE RespondProofs ---------------------------
(***************************************************************************)
(* Machine-checked proofs about Respond, for any number of processes, any   *)
(* programs, tolerance, batch and bounds.                                  *)
(*                                                                         *)
(* The centre is that a handle, once its process has ended, never holds     *)
(* again: a later process with the same pid started later.  So whatever     *)
(* verify_pid looked at, a handle that still holds is a handle of what was  *)
(* looked at.                                                              *)
(***************************************************************************)
EXTENDS Respond, FiniteSetTheorems, WellFoundedInduction, TLAPS

HandleSet == [pid : Pids, start : 0 .. MaxWorld]
StepSet == [pid : Pids, start : 0 .. MaxWorld, exe : Exes, boxed : BOOLEAN, family : STRING,
            novel : BOOLEAN, trigger : BOOLEAN, armed : BOOLEAN]

\* Processes started in the past, and run one of the programs they have run.
ProcOK ==
  /\ world \in 0 .. MaxWorld
  /\ proc \in [Pids -> Process \cup {Nobody}]
  /\ \A p \in Live : proc[p].start <= world /\ proc[p].exe \in Range(proc[p].ran)

\* What a step may do to a process somebody may have a handle of: it ends, or it goes
\* on from what it was, and not at all when it is stopped.
Same(p) ==
  proc'[p] # Nobody =>
    /\ proc[p] \in Process /\ proc'[p] \in Process
    /\ proc'[p].start = proc[p].start
    /\ Range(proc[p].ran) \subseteq Range(proc'[p].ran) /\ proc'[p].exe \in Range(proc'[p].ran)
    /\ proc[p].stopped => proc'[p].stopped /\ proc'[p].ran = proc[p].ran

\* The same of a handle: what did not hold does not come to hold.
Kept ==
  \A h \in HandleSet :
    h.start <= world /\ Holds(h)' =>
      /\ Holds(h)
      /\ Range(proc[h.pid].ran) \subseteq Range(proc'[h.pid].ran)
      /\ proc[h.pid].stopped => proc'[h.pid].stopped /\ proc'[h.pid].ran = proc[h.pid].ran

\* A step that stops nothing.
StopsNone ==
  \A p \in Live' : proc'[p].stopped =>
    p \in Live /\ proc[p].stopped /\ proc[p].start = proc'[p].start

\* The chain.
ChainOK ==
  /\ steps \in Seq(StepSet) /\ Len(steps) <= MaxSteps
  /\ gone \cup killed \subseteq DOMAIN steps
  /\ truncated \in BOOLEAN /\ decided \in BOOLEAN
  /\ mode \in {"off", "log", "kill"}

\* A handle that holds is of what one of the steps names.
Justified(h, is) ==
  Holds(h) => \E i \in is : /\ steps[i].pid = h.pid /\ steps[i].exe \in Range(proc[h.pid].ran)
                           /\ Distance(steps[i].start, h.start) <= Tolerance

\* The steps a tree kill may be about.
Suspects == {i \in DOMAIN steps : steps[i].trigger /\ ~steps[i].boxed}

\* A tree kill: what has been verified is justified.
TreeOK ==
  /\ task = [op |-> "tree", stage |-> task.stage, todo |-> task.todo, now |-> task.now,
             at |-> task.at, doomed |-> task.doomed, missed |-> task.missed,
             meant |-> task.meant]
  /\ task.stage \in {"pin", "verify", "stop", "kill"}
  /\ task.todo \subseteq {i \in DOMAIN steps : steps[i].trigger /\ OnHost(steps, i)}
  /\ task.doomed \in Seq(HandleSet)
  /\ \A k \in 1 .. Len(task.doomed) :
       /\ task.doomed[k].start <= world
       /\ (task.stage = "verify" /\ k = Len(task.doomed)) \/ Justified(task.doomed[k], Suspects)
  /\ task.stage = "verify" =>
       /\ Len(task.doomed) > 0 /\ task.now \in Suspects
       /\ task.doomed[Len(task.doomed)].pid = steps[task.now].pid
  /\ IF task.stage \in {"stop", "kill"} THEN task.at \in 1 .. Len(task.doomed) ELSE task.at = 1

\* A command.
CommandOK ==
  /\ task = [op |-> "kill", stage |-> task.stage, step |-> task.step, target |-> task.target,
             todo |-> task.todo, held |-> task.held, got |-> task.got]
  /\ task.stage \in {"verify", "pin", "signal"}
  /\ task.step \in DOMAIN steps
  /\ task.target \subseteq HandleSet
  /\ \A h \in task.target :
       /\ h.start <= world
       /\ IF task.stage = "verify" THEN h.pid = steps[task.step].pid
          ELSE Justified(h, DOMAIN steps)

EnforceOK ==
  /\ task = [op |-> "enforce", stage |-> task.stage, step |-> task.step]
  /\ task.step \in DOMAIN steps

TaskOK ==
  \/ task = Idle
  \/ task.op = "enforce" /\ EnforceOK
  \/ task.op = "tree" /\ TreeOK
  \/ task.op = "kill" /\ CommandOK

Guarded == ProcOK /\ ChainOK /\ TaskOK /\ OnlyTheImplicated

-----------------------------------------------------------------------------
(* Processes *)

LEMMA Numbers ==
  /\ MaxWorld \in Nat /\ MaxSteps \in Nat /\ MaxTargets \in Nat /\ LastStep \in Nat
  /\ Tolerance \in Nat
  BY RespondAssumption

\* What a process that runs e first, or next, has run.
LEMMA RanFacts ==
  ASSUME NEW e \in Exes
  PROVE  /\ <<e>> \in Seq(Exes) /\ Range(<<e>>) = {e}
         /\ \A s \in Seq(Exes) : /\ Append(s, e) \in Seq(Exes)
                                 /\ Range(Append(s, e)) = Range(s) \cup {e}
  <1>1. <<e>> \in Seq(Exes) /\ Range(<<e>>) = {e}
    BY DEF Range
  <1>2. ASSUME NEW s \in Seq(Exes)
        PROVE  Append(s, e) \in Seq(Exes) /\ Range(Append(s, e)) = Range(s) \cup {e}
    <2> DEFINE t == Append(s, e)
    <2>1. /\ t \in Seq(Exes) /\ Len(t) = Len(s) + 1 /\ Len(s) \in Nat /\ t[Len(s) + 1] = e
          /\ \A k \in 1 .. Len(s) : t[k] = s[k]
      OBVIOUS
    <2> HIDE DEF t
    <2>2. Range(t) \subseteq Range(s) \cup {e}
      BY <2>1 DEF Range
    <2>3. Range(s) \cup {e} \subseteq Range(t)
      <3>1. DOMAIN t = 1 .. Len(s) + 1 /\ DOMAIN s = 1 .. Len(s)
        BY <2>1
      <3>2. e \in Range(t)
        BY <2>1, <3>1 DEF Range
      <3>3. \A k \in 1 .. Len(s) : s[k] \in Range(t)
        BY <2>1, <3>1 DEF Range
      <3> QED
        BY <3>1, <3>2, <3>3 DEF Range
    <2> QED
      BY <2>1, <2>2, <2>3 DEF t
  <1> QED
    BY <1>1, <1>2

LEMMA SameFacts ==
  ASSUME ProcOK, proc' = [q \in Pids |-> proc'[q]], \A q \in Pids : Same(q),
         world' \in world .. MaxWorld
  PROVE  ProcOK' /\ Kept
  <1>1. proc' \in [Pids -> Process \cup {Nobody}]
    BY DEF Same
  <1>2. \A q \in Live' : q \in Live /\ proc'[q].start <= world' /\ proc'[q].exe \in Range(proc'[q].ran)
    BY RespondAssumption DEF Live, ProcOK, Process, Same
  <1>3. ProcOK'
    BY <1>1, <1>2, RespondAssumption DEF ProcOK
  <1>4. Kept
    BY RespondAssumption DEF ProcOK, Kept, Holds, HandleSet, Same
  <1> QED
    BY <1>3, <1>4

LEMMA NothingHappens ==
  ASSUME ProcOK, UNCHANGED <<proc, world>>
  PROVE  ProcOK' /\ Kept /\ StopsNone
  BY DEF ProcOK, Live, Kept, Holds, StopsNone

\* A process that goes to somebody else, or on as it was.
Leaves(q) ==
  \/ proc'[q] = Nobody
  \/ proc[q] # Nobody /\ proc'[q] \in {proc[q], [proc[q] EXCEPT !.parent = Init1]}

LEMMA LeavesFacts ==
  ASSUME ProcOK, proc' = [q \in Pids |-> proc'[q]], \A q \in Pids : Leaves(q) \/ proc'[q] = proc[q],
         world' \in world .. MaxWorld
  PROVE  ProcOK' /\ Kept /\ StopsNone
  <1>1. ASSUME NEW q \in Pids, proc'[q] # Nobody
        PROVE  /\ proc[q] \in Process /\ proc'[q] \in Process
               /\ proc'[q].start = proc[q].start /\ proc'[q].exe = proc[q].exe
               /\ proc'[q].ran = proc[q].ran /\ proc'[q].stopped = proc[q].stopped
    <2>1. proc[q] \in Process
      BY <1>1 DEF ProcOK, Leaves
    <2>2. proc'[q] = proc[q] \/ proc'[q] = [proc[q] EXCEPT !.parent = Init1]
      BY <1>1 DEF Leaves
    <2> QED
      BY <2>1, <2>2 DEF Process
  <1>2. \A q \in Pids : Same(q)
    BY <1>1, RespondAssumption DEF Same, ProcOK, Live
  <1>3. StopsNone
    BY <1>1, RespondAssumption DEF StopsNone, Live
  <1> QED
    BY <1>2, <1>3, SameFacts

LEMMA EndedFacts ==
  ASSUME ProcOK, NEW p \in Pids, proc' = Ended(p), world' \in world .. MaxWorld
  PROVE  ProcOK' /\ Kept /\ StopsNone
  BY LeavesFacts DEF Ended, Leaves

LEMMA EndAllFacts ==
  ASSUME ProcOK, NEW hs, proc' = EndAll(hs), world' = world
  PROVE  ProcOK' /\ Kept /\ StopsNone
  <1>1. world' \in world .. MaxWorld
    BY Numbers DEF ProcOK
  <1> QED
    BY <1>1, LeavesFacts DEF EndAll, Leaves

LEMMA WorldFacts ==
  ASSUME ProcOK, World
  PROVE  ProcOK' /\ Kept /\ StopsNone
  <1>1. world' = world + 1 /\ world' \in world .. MaxWorld
    <2>1. Acts
      BY DEF World, Start, Exec, Become, Exit
    <2> QED
      BY <2>1, Numbers DEF Acts, ProcOK
  <1>2. ASSUME NEW p \in Pids, NEW q \in Pids, Start(p, q)
        PROVE  ProcOK' /\ Kept /\ StopsNone
    <2> DEFINE born == [start |-> world + 1, exe |-> proc[q].exe, ran |-> <<proc[q].exe>>,
                        boxed |-> proc[q].boxed, guarded |-> proc[q].guarded,
                        stopped |-> FALSE, parent |-> q]
    <2>1. proc[p] = Nobody /\ q \in Live /\ proc' = [proc EXCEPT ![p] = born]
      BY <1>2 DEF Start, Awake
    <2>2. proc[q] \in Process
      BY <2>1 DEF ProcOK, Live
    <2>3. born \in Process /\ born.start = world + 1 /\ born.exe \in Range(born.ran) /\ ~born.stopped
      <3>1. /\ proc[q].exe \in Exes /\ <<proc[q].exe>> \in Seq(Exes)
            /\ Range(<<proc[q].exe>>) = {proc[q].exe}
        BY <2>2, RanFacts DEF Process
      <3> QED
        BY <1>1, <2>2, <3>1, Numbers DEF Process, ProcOK
    <2>4. proc'[p] = born /\ \A x \in Pids \ {p} : proc'[x] = proc[x]
      BY <2>1 DEF ProcOK
    <2> HIDE DEF born
    <2>5. proc' \in [Pids -> Process \cup {Nobody}]
      BY <2>1, <2>3 DEF ProcOK
    <2>6. \A x \in Live' : proc'[x].start <= world' /\ proc'[x].exe \in Range(proc'[x].ran)
      <3> SUFFICES ASSUME NEW x \in Live' PROVE proc'[x].start <= world' /\ proc'[x].exe \in Range(proc'[x].ran)
        OBVIOUS
      <3>1. CASE x = p
        BY <1>1, <2>3, <2>4, <3>1 DEF ProcOK
      <3>2. CASE x # p
        <4>1. x \in Live /\ proc'[x] = proc[x] /\ proc[x] \in Process
          BY <2>4, <3>2 DEF Live, ProcOK
        <4> QED
          BY <1>1, <4>1 DEF ProcOK, Process
      <3> QED
        BY <3>1, <3>2
    <2>7. Kept
      BY <2>3, <2>4 DEF Kept, Holds, HandleSet, ProcOK
    <2>8. StopsNone
      BY <2>3, <2>4 DEF StopsNone, Live
    <2> QED
      BY <1>1, <2>5, <2>6, <2>7, <2>8 DEF ProcOK
  <1>3. ASSUME NEW p \in Pids, NEW e \in Exes, Exec(p, e)
        PROVE  ProcOK' /\ Kept /\ StopsNone
    <2>1. /\ proc[p] \in Process /\ p \in Live /\ ~proc[p].stopped
          /\ proc' = [proc EXCEPT ![p].exe = e, ![p].ran = Append(@, e)]
      BY <1>3 DEF Exec, Awake, Live, ProcOK
    <2>2. /\ proc'[p] = [proc[p] EXCEPT !.exe = e, !.ran = Append(proc[p].ran, e)]
          /\ \A x \in Pids \ {p} : proc'[x] = proc[x]
      BY <2>1 DEF ProcOK
    <2>3. /\ proc'[p] \in Process /\ proc'[p].start = proc[p].start
          /\ proc'[p].exe = e /\ proc'[p].ran = Append(proc[p].ran, e)
          /\ ~proc'[p].stopped
      <3> DEFINE r == proc[p]
                 n == proc'[p]
      <3>1. r \in Process /\ ~r.stopped /\ n = [r EXCEPT !.exe = e, !.ran = Append(r.ran, e)]
        BY <2>1, <2>2
      <3> HIDE DEF r, n
      <3> DEFINE then == Append(r.ran, e)
      <3>2. r.ran \in Seq(Exes) /\ then \in Seq(Exes)
        BY <3>1, RanFacts DEF Process
      <3>3. n = [r EXCEPT !.exe = e, !.ran = then]
        BY <3>1
      <3> HIDE DEF then
      <3>4. /\ n \in Process /\ n.start = r.start /\ n.exe = e /\ n.ran = then
            /\ ~n.stopped
        BY <3>1, <3>2, <3>3 DEF Process
      <3> QED
        BY <3>4 DEF r, n, then
    <2>4. Range(proc[p].ran) \subseteq Range(proc'[p].ran) /\ e \in Range(proc'[p].ran)
      <3>1. proc[p].ran \in Seq(Exes)
        BY <2>1 DEF Process
      <3>2. Range(Append(proc[p].ran, e)) = Range(proc[p].ran) \cup {e}
        BY <3>1, RanFacts
      <3> QED
        BY <2>3, <3>2
    <2>5. \A x \in Pids : Same(x)
      <3>1. Same(p)
        BY <2>1, <2>3, <2>4 DEF Same
      <3>2. \A x \in Pids \ {p} : Same(x)
        BY <2>2 DEF Same, ProcOK, Live
      <3> QED
        BY <3>1, <3>2
    <2>6. StopsNone
      BY <2>2, <2>3 DEF StopsNone, Live
    <2> QED
      BY <1>1, <2>1, <2>5, <2>6, SameFacts DEF ProcOK
  <1>4. ASSUME NEW p \in Pids, Become(p)
        PROVE  ProcOK' /\ Kept /\ StopsNone
    <2>1. /\ proc[p] \in Process /\ p \in Live /\ ~proc[p].stopped
          /\ proc' = [proc EXCEPT ![p].guarded = TRUE]
      BY <1>4 DEF Become, Awake, Live, ProcOK
    <2>2. /\ proc'[p] = [proc[p] EXCEPT !.guarded = TRUE]
          /\ \A x \in Pids \ {p} : proc'[x] = proc[x]
      BY <2>1 DEF ProcOK
    <2>3. /\ proc'[p] \in Process /\ proc'[p].start = proc[p].start
          /\ proc'[p].exe = proc[p].exe /\ proc'[p].ran = proc[p].ran
          /\ ~proc'[p].stopped
      <3> DEFINE r == proc[p]
                 n == proc'[p]
      <3>1. r \in Process /\ ~r.stopped /\ n = [r EXCEPT !.guarded = TRUE]
        BY <2>1, <2>2
      <3> HIDE DEF r, n
      <3>2. /\ n \in Process /\ n.start = r.start /\ n.exe = r.exe /\ n.ran = r.ran
            /\ ~n.stopped
        BY <3>1 DEF Process
      <3> QED
        BY <3>2 DEF r, n
    <2>4. \A x \in Pids : Same(x)
      BY <2>1, <2>2, <2>3 DEF Same, ProcOK, Live
    <2>5. StopsNone
      BY <2>2, <2>3 DEF StopsNone, Live
    <2> QED
      BY <1>1, <2>1, <2>4, <2>5, SameFacts DEF ProcOK
  <1>5. ASSUME NEW p \in Pids, Exit(p)
        PROVE  ProcOK' /\ Kept /\ StopsNone
    BY <1>1, <1>5, EndedFacts DEF Exit
  <1> QED
    BY <1>2, <1>3, <1>4, <1>5 DEF World

-----------------------------------------------------------------------------
(* What is known of a task lasts while the chain stands still. *)

LEMMA JustifiedLasts ==
  ASSUME Kept, UNCHANGED steps, NEW h \in HandleSet, NEW is,
         h.start <= world, Justified(h, is)
  PROVE  Justified(h, is)'
  BY DEF Kept, Justified

LEMMA SuspectsStay == UNCHANGED steps => UNCHANGED Suspects
  BY DEF Suspects

LEMMA JustifiedStays ==
  ASSUME UNCHANGED <<proc, steps>>
  PROVE  /\ \A h, is : Justified(h, is) => Justified(h, is)'
         /\ UNCHANGED Suspects
  BY DEF Justified, Suspects, Holds

LEMMA TaskLasts ==
  ASSUME TaskOK, Kept, world' \in {world, world + 1}, world \in Nat,
         UNCHANGED <<task, steps, gone>>
  PROVE  TaskOK'
  <1>1. CASE task = Idle
    BY <1>1 DEF TaskOK, Idle
  <1>2. CASE task.op = "enforce" /\ EnforceOK
    BY <1>2 DEF TaskOK, EnforceOK
  <1>3. CASE task.op = "tree" /\ TreeOK
    <2>1. \A k \in 1 .. Len(task.doomed) : task.doomed[k] \in HandleSet
      BY <1>3 DEF TreeOK
    <2>2. \A k \in 1 .. Len(task.doomed) : Justified(task.doomed[k], Suspects) =>
                                           Justified(task.doomed[k], Suspects)'
      BY <1>3, <2>1, JustifiedLasts, SuspectsStay DEF TreeOK
    <2>3. \A k \in 1 .. Len(task.doomed) : task.doomed[k].start <= world'
      BY <1>3, <2>1 DEF TreeOK, HandleSet
    <2>4. \A i \in DOMAIN steps : OnHost(steps, i)' = OnHost(steps, i)
      BY DEF OnHost, Readable
    <2>5. TreeOK'
      BY <1>3, <2>2, <2>3, <2>4, SuspectsStay DEF TreeOK
    <2> QED
      BY <1>3, <2>5 DEF TaskOK
  <1>4. CASE task.op = "kill" /\ CommandOK
    <2>1. \A h \in task.target : Justified(h, DOMAIN steps) => Justified(h, DOMAIN steps)'
      BY <1>4, JustifiedLasts DEF CommandOK
    <2>2. \A h \in task.target : h.start <= world'
      BY <1>4 DEF CommandOK, HandleSet
    <2>3. CommandOK'
      BY <1>4, <2>1, <2>2 DEF CommandOK
    <2> QED
      BY <1>4, <2>3 DEF TaskOK
  <1> QED
    BY <1>1, <1>2, <1>3, <1>4 DEF TaskOK

LEMMA HitsLast ==
  ASSUME OnlyTheImplicated, UNCHANGED <<steps, hits>>
  PROVE  OnlyTheImplicated'
  BY DEF OnlyTheImplicated

LEMMA WorldStep ==
  ASSUME Guarded, World
  PROVE  Guarded'
  <1>1. /\ UNCHANGED <<daemon, task, hits>> /\ world' = world + 1 /\ world \in Nat
    <2>1. Acts
      BY DEF World, Start, Exec, Become, Exit
    <2> QED
      BY <2>1, Numbers DEF Acts, Quiet, Guarded, ProcOK
  <1> QED
    BY <1>1, WorldFacts, TaskLasts, HitsLast DEF Guarded, daemon, ChainOK

-----------------------------------------------------------------------------
(* Noting an alert. *)

LEMMA ConsiderFacts ==
  ASSUME NEW ss, NEW cutShort, Consider(ss, cutShort), steps' = ss, UNCHANGED gone
  PROVE  /\ TaskOK'
         /\ task' = Idle \/ (task'.op = "tree" /\ task'.stage = "pin" /\ task'.doomed = <<>>
                             /\ ~decided)
  <1>1. CASE task' = Idle
    BY <1>1 DEF TaskOK
  <1>2. CASE task' = TreeKill(ss) /\ ~decided
    <2>1. FirstOf(Targets(ss), MaxTargets) \subseteq
            {i \in DOMAIN ss : ss[i].trigger /\ OnHost(ss, i)}
      BY DEF FirstOf, Targets, Triggers
    <2>2. \A i \in DOMAIN ss : OnHost(steps, i)' = OnHost(ss, i)
      BY DEF OnHost, Readable
    <2> DEFINE meant == {<<ss[i].pid, proc[ss[i].pid]>> : i \in Implicated(ss)}
    <2> HIDE DEF meant
    <2>3. task' = [op |-> "tree", stage |-> "pin", todo |-> FirstOf(Targets(ss), MaxTargets),
                   now |-> 0, at |-> 1, doomed |-> <<>>, missed |-> FALSE, meant |-> meant]
      BY <1>2 DEF TreeKill, meant
    <2>4. task'.op = "tree" /\ task'.stage = "pin" /\ task'.doomed = <<>>
      BY <2>3
    <2>5. TreeOK'
      BY <2>1, <2>2, <2>3 DEF TreeOK
    <2> QED
      BY <1>2, <2>4, <2>5 DEF TaskOK
  <1> QED
    BY <1>1, <1>2 DEF Consider

LEMMA RaiseStep ==
  ASSUME Guarded, NEW p \in Pids, NEW k \in Kinds, Raise(p, k)
  PROVE  Guarded'
  <1> DEFINE s == StepOf(p, k)
  <1>1. /\ p \in Live /\ task = Idle
        /\ steps' = Shown(s) /\ truncated' = (Len(steps) = MaxSteps)
        /\ UNCHANGED <<proc, gone, mode, decided, killed, hits, world>>
    BY DEF Raise, bounds
  <1>2. s \in StepSet
    <2>1. proc[p] \in Process /\ k \in Kind
      BY <1>1, RespondAssumption DEF Guarded, ProcOK, Live
    <2> QED
      BY <2>1 DEF StepOf, StepSet, Process, Kind
  <1> HIDE DEF s
  <1>3. steps \in Seq(StepSet) /\ Len(steps) <= MaxSteps
    BY DEF Guarded, ChainOK
  <1>4. steps' = steps \/ (steps' = Append(steps, s) /\ Len(steps) < MaxSteps)
    BY <1>1 DEF Shown
  <1>5. /\ steps' \in Seq(StepSet) /\ Len(steps') <= MaxSteps
        /\ DOMAIN steps \subseteq DOMAIN steps' /\ \A i \in DOMAIN steps : steps'[i] = steps[i]
        /\ Len(steps') >= Len(steps) /\ Len(steps') \in Nat
    BY <1>2, <1>3, <1>4, Numbers
  <1>6. ChainOK'
    BY <1>1, <1>5 DEF Guarded, ChainOK
  <1>7. ProcOK'
    BY <1>1, NothingHappens DEF Guarded
  <1>8. OnlyTheImplicated'
    BY <1>1, <1>5 DEF Guarded, OnlyTheImplicated
  <1>9. TaskOK'
    <2>1. CASE /\ Len(Shown(s)) > Len(steps)
               /\ task' = [op |-> "enforce", stage |-> "verify", step |-> Len(Shown(s))]
      <3>1. Len(steps') \in DOMAIN steps'
        BY <1>1, <1>3, <1>5, <2>1
      <3>2. task'.op = "enforce" /\ EnforceOK'
        BY <1>1, <2>1, <3>1 DEF EnforceOK
      <3> QED
        BY <3>2 DEF TaskOK
    <2>2. CASE Consider(steps', truncated')
      BY <1>1, <2>2, ConsiderFacts
    <2> QED
      BY <2>1, <2>2 DEF Raise, s
  <1> QED
    BY <1>6, <1>7, <1>8, <1>9 DEF Guarded

\* The processes after a signal by number.
LEMMA EnforceStep ==
  ASSUME Guarded, EnforceVerify \/ EnforceSignal
  PROVE  Guarded'
  <1>1. task.op = "enforce" /\ EnforceOK /\ task # Idle
    BY DEF Guarded, TaskOK, EnforceVerify, EnforceSignal, Idle, TreeOK, CommandOK
  <1>2. CASE EnforceVerify
    <2>1. UNCHANGED <<proc, steps, truncated, gone, mode, decided, killed, hits, world>>
      BY <1>2 DEF EnforceVerify, bounds
    <2>2. TaskOK'
      <3>1. CASE task' = [task EXCEPT !.stage = "signal"]
        <4>1. task' = [op |-> "enforce", stage |-> "signal", step |-> task.step]
          BY <1>1, <3>1 DEF EnforceOK
        <4> QED
          BY <1>1, <2>1, <4>1 DEF TaskOK, EnforceOK
      <3>2. CASE Consider(steps, truncated)
        BY <2>1, <3>2, ConsiderFacts
      <3> QED
        BY <1>2, <3>1, <3>2 DEF EnforceVerify
    <2> QED
      BY <2>1, <2>2, NothingHappens DEF Guarded, ChainOK, OnlyTheImplicated
  <1>3. CASE EnforceSignal
    <2>1. UNCHANGED <<steps, truncated, gone, mode, decided, world>> /\ Consider(steps, truncated)
      BY <1>3 DEF EnforceSignal, bounds
    <2>2. TaskOK'
      BY <2>1, ConsiderFacts
    <2> DEFINE p == steps[task.step].pid
    <2>3. CASE p \in Live
      <3>1. /\ proc' = Ended(p) /\ hits' = hits \cup {Hit("enforce", p)}
            /\ killed' = killed \cup {task.step}
        BY <1>3, <2>3 DEF EnforceSignal
      <3>2. p \in Pids /\ world' \in world .. MaxWorld
        BY <2>1, <2>3 DEF Live, Guarded, ProcOK
      <3>3. ProcOK'
        BY <3>1, <3>2, EndedFacts DEF Guarded
      <3>4. ChainOK'
        BY <1>1, <2>1, <3>1 DEF Guarded, ChainOK, EnforceOK
      <3>5. OnlyTheImplicated'
        BY <2>1, <3>1 DEF Guarded, OnlyTheImplicated, Hit
      <3> QED
        BY <2>2, <3>3, <3>4, <3>5 DEF Guarded
    <2>4. CASE p \notin Live
      <3>1. UNCHANGED <<proc, hits, killed>>
        BY <1>3, <2>4 DEF EnforceSignal
      <3> QED
        BY <2>1, <2>2, <3>1, NothingHappens DEF Guarded, ChainOK, OnlyTheImplicated
    <2> QED
      BY <2>3, <2>4
  <1> QED
    BY <1>2, <1>3

-----------------------------------------------------------------------------
(* The tree kill. *)

LEMMA InTree ==
  ASSUME TaskOK, task.op = "tree"
  PROVE  TreeOK
  BY DEF TaskOK, Idle

\* A handle of a live process is one.
LEMMA HandleFacts ==
  ASSUME ProcOK, NEW p \in Live
  PROVE  /\ Handle(p) \in HandleSet /\ Handle(p).pid = p /\ Handle(p).start = proc[p].start
         /\ Handle(p).start <= world
  <1>1. p \in Pids /\ proc[p] \in Process
    BY DEF Live, ProcOK
  <1> QED
    BY <1>1 DEF Handle, HandleSet, Process, ProcOK

\* verify_pid looks at what has the pid: if the handle still holds, at its process.
LEMMA VerifiedFacts ==
  ASSUME ProcOK, ChainOK, NEW h \in HandleSet, NEW i \in DOMAIN steps, h.pid = steps[i].pid,
         Verified(steps[i]), NEW is, i \in is
  PROVE  Justified(h, is)
  <1> SUFFICES ASSUME Holds(h)
               PROVE  /\ steps[i].exe \in Range(proc[h.pid].ran)
                      /\ Distance(steps[i].start, h.start) <= Tolerance
    BY DEF Justified
  <1>1. h.pid \in Live /\ proc[h.pid].start = h.start /\ proc[h.pid].exe = steps[i].exe
    BY DEF Verified, Holds
  <1>2. Distance(proc[h.pid].start, steps[i].start) <= Tolerance
    BY DEF Verified
  <1>3. steps[i].start \in Int /\ h.start \in Int
    <2>1. steps[i] \in StepSet
      BY DEF ChainOK
    <2> QED
      BY <2>1 DEF StepSet, HandleSet
  <1> QED
    BY <1>1, <1>2, <1>3 DEF ProcOK, Distance

LEMMA PinStep ==
  ASSUME Guarded, NEW i, KillPass(i) \/ KillPin(i) \/ KillPinFails(i)
  PROVE  Guarded'
  <1>1. /\ TreeOK /\ task.op = "tree" /\ task.stage = "pin" /\ i \in task.todo
        /\ UNCHANGED <<proc, decided, hits, steps, truncated, gone, mode, killed, world>>
    BY InTree DEF Guarded, KillPass, KillPin, KillPinFails, Turn, Tree, KillKeeps
  <1>2. ProcOK' /\ Kept /\ ChainOK' /\ OnlyTheImplicated'
    BY <1>1, NothingHappens DEF Guarded, ChainOK, OnlyTheImplicated
  <1>3. CASE task' = [task EXCEPT !.todo = @ \ {i}]
             \/ task' = [task EXCEPT !.todo = @ \ {i}, !.missed = TRUE]
    <2>1. \E m : task' = [op |-> "tree", stage |-> "pin", todo |-> task.todo \ {i},
                     now |-> task.now, at |-> task.at, doomed |-> task.doomed,
                     missed |-> m, meant |-> task.meant]
      <3>1. CASE task' = [task EXCEPT !.todo = @ \ {i}]
        <4>1. task' = [op |-> "tree", stage |-> "pin", todo |-> task.todo \ {i},
                       now |-> task.now, at |-> task.at, doomed |-> task.doomed,
                       missed |-> task.missed, meant |-> task.meant]
          BY <1>1, <3>1 DEF TreeOK
        <4> QED
          BY <4>1
      <3>2. CASE task' = [task EXCEPT !.todo = @ \ {i}, !.missed = TRUE]
        <4>1. task' = [op |-> "tree", stage |-> "pin", todo |-> task.todo \ {i},
                       now |-> task.now, at |-> task.at, doomed |-> task.doomed,
                       missed |-> TRUE, meant |-> task.meant]
          BY <1>1, <3>2 DEF TreeOK
        <4> QED
          BY <4>1
      <3> QED
        BY <1>3, <3>1, <3>2
    <2>2. \A h : Justified(h, Suspects) => Justified(h, Suspects)'
      BY <1>1, JustifiedStays
    <2>3. \A j \in DOMAIN steps : OnHost(steps, j)' = OnHost(steps, j)
      BY <1>1 DEF OnHost, Readable
    <2>4. TreeOK' /\ task'.op = "tree"
      BY <1>1, <2>1, <2>2, <2>3 DEF TreeOK
    <2> QED
      BY <1>2, <2>4 DEF Guarded, TaskOK
  <1>4. CASE KillPin(i)
    <2> DEFINE p == steps[i].pid
    <2>1. /\ p \in Live /\ Readable(i)
          /\ task' = [task EXCEPT !.stage = "verify", !.todo = @ \ {i}, !.now = i,
                                  !.doomed = Append(@, Handle(p))]
      BY <1>4 DEF KillPin
    <2>2. task' = [op |-> "tree", stage |-> "verify", todo |-> task.todo \ {i},
                   now |-> i, at |-> task.at, doomed |-> Append(task.doomed, Handle(p)),
                   missed |-> task.missed, meant |-> task.meant]
      BY <1>1, <2>1 DEF TreeOK
    <2>3. /\ Handle(p) \in HandleSet /\ Handle(p).pid = p /\ Handle(p).start <= world
      BY <2>1, HandleFacts DEF Guarded
    <2>4. i \in Suspects
      BY <1>1, <2>1 DEF TreeOK, OnHost, Suspects
    <2>5. \A h : Justified(h, Suspects) => Justified(h, Suspects)'
      BY <1>1, JustifiedStays
    <2>6. \A j \in DOMAIN steps : OnHost(steps, j)' = OnHost(steps, j)
      BY <1>1 DEF OnHost, Readable
    <2> DEFINE d == Append(task.doomed, Handle(p))
    <2>7. /\ task.doomed \in Seq(HandleSet) /\ d \in Seq(HandleSet)
          /\ Len(d) = Len(task.doomed) + 1 /\ Len(task.doomed) \in Nat
          /\ \A k \in 1 .. Len(task.doomed) : d[k] = task.doomed[k]
          /\ d[Len(d)] = Handle(p)
      BY <1>1, <2>3 DEF TreeOK
    <2> HIDE DEF d
    <2>8. /\ task'.op = "tree" /\ task'.stage = "verify" /\ task'.todo = task.todo \ {i}
          /\ task'.now = i /\ task'.doomed = d /\ task'.at = task.at
          /\ task' = [op |-> "tree", stage |-> task'.stage, todo |-> task'.todo,
                      now |-> task'.now, at |-> task'.at, doomed |-> task'.doomed,
                      missed |-> task'.missed, meant |-> task'.meant]
      BY <2>2 DEF d
    <2>9. \A k \in 1 .. Len(d) : \A h : h = d[k] =>
            /\ h.start <= world'
            /\ k = Len(d) \/ Justified(h, Suspects)'
      <3> SUFFICES ASSUME NEW k \in 1 .. Len(d)
                   PROVE  /\ d[k].start <= world
                          /\ k = Len(d) \/ Justified(d[k], Suspects)
        BY <1>1, <2>5
      <3>1. CASE k = Len(d)
        BY <2>3, <2>7, <3>1
      <3>2. CASE k # Len(d)
        <4>1. k \in 1 .. Len(task.doomed) /\ d[k] = task.doomed[k]
          BY <2>7, <3>2
        <4> QED
          BY <1>1, <4>1 DEF TreeOK
      <3> QED
        BY <3>1, <3>2
    <2>10. i \in Suspects' /\ steps' = steps
      BY <1>1, <2>4 DEF Suspects
    <2>11. TreeOK'
      BY <1>1, <2>3, <2>6, <2>7, <2>8, <2>9, <2>10 DEF TreeOK
    <2> QED
      BY <1>2, <2>8, <2>11 DEF Guarded, TaskOK
  <1> QED
    BY <1>3, <1>4 DEF KillPass, KillPinFails

LEMMA VerifyStep ==
  ASSUME Guarded, KillVerify
  PROVE  Guarded'
  <1>1. /\ TreeOK /\ task.op = "tree" /\ task.stage = "verify"
        /\ UNCHANGED <<proc, decided, hits, steps, truncated, gone, mode, killed, world>>
    BY InTree DEF Guarded, KillVerify, Tree, KillKeeps
  <1>2. ProcOK' /\ Kept /\ ChainOK' /\ OnlyTheImplicated'
    BY <1>1, NothingHappens DEF Guarded, ChainOK, OnlyTheImplicated
  <1> DEFINE s == steps[task.now]
             d == IF Verified(s) /\ ~Refused(s) THEN task.doomed ELSE Front(task.doomed)
  <1>3. task' = [op |-> "tree", stage |-> "pin", todo |-> task.todo, now |-> task.now,
                 at |-> task.at, doomed |-> d, missed |-> task.missed, meant |-> task.meant]
    <2>1. task' = [task EXCEPT !.stage = "pin", !.doomed = d]
      BY DEF KillVerify
    <2> HIDE DEF d
    <2> QED
      BY <1>1, <2>1 DEF TreeOK
  <1>4. /\ task.doomed \in Seq(HandleSet) /\ Len(task.doomed) > 0 /\ task.now \in Suspects
        /\ task.doomed[Len(task.doomed)] \in HandleSet
        /\ task.doomed[Len(task.doomed)].pid = s.pid
    BY <1>1 DEF TreeOK
  <1>5. /\ Front(task.doomed) \in Seq(HandleSet)
        /\ Len(Front(task.doomed)) = Len(task.doomed) - 1
        /\ \A k \in 1 .. Len(task.doomed) - 1 : Front(task.doomed)[k] = task.doomed[k]
    BY <1>4 DEF Front
  <1>6. d \in Seq(HandleSet) /\ \A k \in 1 .. Len(d) : d[k].start <= world'
    BY <1>1, <1>4, <1>5 DEF TreeOK
  <1>7. \A k \in 1 .. Len(d) : Justified(d[k], Suspects)
    <2>1. CASE Verified(s) /\ ~Refused(s)
      <3>1. Justified(task.doomed[Len(task.doomed)], Suspects)
        BY <1>4, <2>1, VerifiedFacts DEF Guarded, Suspects
      <3> QED
        BY <1>1, <1>4, <2>1, <3>1 DEF TreeOK
    <2>2. CASE ~(Verified(s) /\ ~Refused(s))
      BY <1>1, <1>4, <1>5, <2>2 DEF TreeOK
    <2> QED
      BY <2>1, <2>2
  <1>8. \A k \in 1 .. Len(d) : \A h : h = d[k] => Justified(h, Suspects)'
    BY <1>1, <1>7, JustifiedStays
  <1>9. \A j \in DOMAIN steps : OnHost(steps, j)' = OnHost(steps, j)
    BY <1>1 DEF OnHost, Readable
  <1> HIDE DEF d
  <1>10. TreeOK' /\ task'.op = "tree"
    BY <1>1, <1>3, <1>6, <1>8, <1>9 DEF TreeOK
  <1> QED
    BY <1>2, <1>10 DEF Guarded, TaskOK

LEMMA DecideStep ==
  ASSUME Guarded, Decide
  PROVE  Guarded'
  <1>1. /\ TreeOK /\ task.op = "tree" /\ task.stage = "pin"
        /\ UNCHANGED <<proc, hits, steps, truncated, gone, mode, killed, world>>
        /\ decided' = (decided \/ task.doomed # <<>>)
    BY InTree DEF Guarded, Decide, Tree, KillKeeps
  <1>2. ProcOK' /\ Kept /\ ChainOK' /\ OnlyTheImplicated'
    BY <1>1, NothingHappens DEF Guarded, ChainOK, OnlyTheImplicated
  <1>3. CASE task' = Idle
    BY <1>2, <1>3 DEF Guarded, TaskOK
  <1>4. CASE task.doomed # <<>> /\ task' = [task EXCEPT !.stage = "stop"]
    <2>1. task' = [op |-> "tree", stage |-> "stop", todo |-> task.todo, now |-> task.now,
                   at |-> 1, doomed |-> task.doomed, missed |-> task.missed,
                   meant |-> task.meant]
      BY <1>1, <1>4 DEF TreeOK
    <2>2. 1 \in 1 .. Len(task.doomed)
      BY <1>1, <1>4 DEF TreeOK
    <2>3. \A h : Justified(h, Suspects) => Justified(h, Suspects)'
      BY <1>1, JustifiedStays
    <2>4. \A j \in DOMAIN steps : OnHost(steps, j)' = OnHost(steps, j)
      BY <1>1 DEF OnHost, Readable
    <2>5. TreeOK' /\ task'.op = "tree"
      BY <1>1, <2>1, <2>2, <2>3, <2>4 DEF TreeOK
    <2> QED
      BY <1>2, <2>5 DEF Guarded, TaskOK
  <1> QED
    BY <1>3, <1>4 DEF Decide

\* A signal through a handle reaches what the handle is of, or nothing.
LEMMA SignalStep ==
  ASSUME Guarded, Stop \/ Kill
  PROVE  Guarded' /\ Kept
  <1> DEFINE h == task.doomed[task.at]
  <1>1. /\ TreeOK /\ task.op = "tree" /\ task.stage \in {"stop", "kill"}
        /\ UNCHANGED <<steps, truncated, gone, mode, decided, killed, world>>
    BY InTree DEF Guarded, Stop, Kill, Tree, KillKeeps
  <1>2. task.at \in 1 .. Len(task.doomed) /\ h \in HandleSet /\ Justified(h, Suspects)
    BY <1>1 DEF TreeOK
  <1>3. /\ proc' = proc /\ hits' = hits
        \/ /\ Holds(h) /\ hits' = hits \cup {Hit("tree", h.pid)}
           /\ proc' = Ended(h.pid) \/ proc' = [proc EXCEPT ![h.pid].stopped = TRUE]
    BY DEF Stop, Kill
  <1> HIDE DEF h
  <1>4. ProcOK' /\ Kept
    <2>1. CASE proc' = proc
      BY <1>1, <2>1, NothingHappens DEF Guarded
    <2>2. world' \in world .. MaxWorld /\ h.pid \in Pids
      BY <1>1, <1>2 DEF Guarded, ProcOK, HandleSet
    <2>3. CASE proc' = Ended(h.pid)
      BY <2>2, <2>3, EndedFacts DEF Guarded
    <2>4. CASE Holds(h) /\ proc' = [proc EXCEPT ![h.pid].stopped = TRUE]
      <3> DEFINE r == proc[h.pid]
                 n == proc'[h.pid]
      <3>1. r \in Process /\ n = [r EXCEPT !.stopped = TRUE] /\ r.exe \in Range(r.ran)
        BY <2>2, <2>4 DEF Guarded, ProcOK, Holds, Live
      <3> HIDE DEF r, n
      <3>2. /\ n \in Process /\ n.start = r.start /\ n.exe = r.exe /\ n.ran = r.ran
            /\ n.stopped
        BY <3>1 DEF Process
      <3>3. Same(h.pid)
        BY <3>1, <3>2 DEF Same, r, n
      <3>4. \A q \in Pids \ {h.pid} : proc'[q] = proc[q]
        BY <2>4 DEF Guarded, ProcOK
      <3>5. \A q \in Pids : Same(q)
        BY <3>3, <3>4 DEF Same, Guarded, ProcOK, Live
      <3> QED
        BY <2>2, <2>4, <3>5, SameFacts DEF Guarded, ProcOK
    <2> QED
      BY <1>3, <2>1, <2>3, <2>4
  <1>5. ChainOK'
    BY <1>1 DEF Guarded, ChainOK
  <1>6. OnlyTheImplicated'
    <2>1. CASE hits' = hits
      BY <1>1, <2>1 DEF Guarded, OnlyTheImplicated
    <2>2. CASE Holds(h) /\ hits' = hits \cup {Hit("tree", h.pid)}
      <3>1. PICK i \in Suspects : /\ steps[i].pid = h.pid /\ steps[i].exe \in Range(proc[h.pid].ran)
                                  /\ Distance(steps[i].start, h.start) <= Tolerance
        BY <1>2, <2>2 DEF Justified
      <3> DEFINE x == Hit("tree", h.pid)
      <3>2. x.by = "tree" /\ x.pid = h.pid /\ x.start = h.start /\ x.ran = proc[h.pid].ran
        BY <2>2 DEF Hit, Holds
      <3> HIDE DEF x
      <3>3. \A g \in hits' : g \in hits \/ g = x
        BY <2>2 DEF x
      <3> QED
        BY <1>1, <3>1, <3>2, <3>3 DEF Guarded, OnlyTheImplicated, Suspects
    <2> QED
      BY <1>3, <2>1, <2>2
  <1>7. TaskOK'
    <2>1. CASE task' = Idle
      BY <2>1 DEF TaskOK
    <2>2. CASE /\ task'.op = "tree" /\ task'.stage \in {"stop", "kill"}
               /\ task'.at \in 1 .. Len(task.doomed)
               /\ task' = [op |-> "tree", stage |-> task'.stage, todo |-> task.todo,
                           now |-> task.now, at |-> task'.at, doomed |-> task.doomed,
                           missed |-> task.missed, meant |-> task.meant]
      <3>1. \A k \in 1 .. Len(task.doomed) : \A g : g = task.doomed[k] =>
              Justified(g, Suspects)'
        BY <1>1, <1>4, JustifiedLasts, SuspectsStay DEF TreeOK
      <3>2. \A j \in DOMAIN steps : OnHost(steps, j)' = OnHost(steps, j)
        BY <1>1 DEF OnHost, Readable
      <3>3. TreeOK'
        BY <1>1, <2>2, <3>1, <3>2 DEF TreeOK
      <3> QED
        BY <2>2, <3>3 DEF TaskOK
    <2>3. \/ task' = Idle
          \/ task.at < Len(task.doomed) /\ task' = [task EXCEPT !.at = @ + 1]
          \/ task' = [task EXCEPT !.stage = "kill", !.at = 1]
      BY DEF Stop, Kill, Next1
    <2>4. CASE task.at < Len(task.doomed) /\ task' = [task EXCEPT !.at = @ + 1]
      <3>1. task' = [op |-> "tree", stage |-> task.stage, todo |-> task.todo,
                     now |-> task.now, at |-> task.at + 1, doomed |-> task.doomed,
                     missed |-> task.missed, meant |-> task.meant]
        BY <1>1, <2>4 DEF TreeOK
      <3>2. task.at + 1 \in 1 .. Len(task.doomed)
        BY <1>1, <1>2, <2>4 DEF TreeOK
      <3> QED
        BY <1>1, <2>2, <3>1, <3>2
    <2>5. CASE task' = [task EXCEPT !.stage = "kill", !.at = 1]
      <3>1. task' = [op |-> "tree", stage |-> "kill", todo |-> task.todo,
                     now |-> task.now, at |-> 1, doomed |-> task.doomed,
                     missed |-> task.missed, meant |-> task.meant]
        BY <1>1, <2>5 DEF TreeOK
      <3>2. 1 \in 1 .. Len(task.doomed)
        BY <1>1, <1>2 DEF TreeOK
      <3> QED
        BY <2>2, <3>1, <3>2
    <2> QED
      BY <2>1, <2>3, <2>4, <2>5
  <1> QED
    BY <1>4, <1>5, <1>6, <1>7 DEF Guarded

-----------------------------------------------------------------------------
(* moatctl kill *)

LEMMA InCommand ==
  ASSUME TaskOK, task.op = "kill"
  PROVE  CommandOK
  BY DEF TaskOK, Idle

LEMMA CommandKillStep ==
  ASSUME Guarded, NEW i, CommandKill(i)
  PROVE  Guarded'
  <1>1. /\ i \in DOMAIN steps
        /\ UNCHANGED <<proc, hits, killed, steps, truncated, gone, mode, decided, world>>
    BY DEF CommandKill, CommandKeeps
  <1>2. ProcOK' /\ ChainOK' /\ OnlyTheImplicated'
    BY <1>1, NothingHappens DEF Guarded, ChainOK, OnlyTheImplicated
  <1>3. PICK hs : Begin(i, hs) /\ (hs = {} \/ (steps[i].pid \in Live /\ hs = {Handle(steps[i].pid)}))
    BY DEF CommandKill
  <1>4. \A h \in hs : h \in HandleSet /\ h.pid = steps[i].pid /\ h.start <= world
    BY <1>3, HandleFacts DEF Guarded
  <1>5. CommandOK' /\ task'.op = "kill"
    BY <1>1, <1>3, <1>4 DEF Begin, CommandOK
  <1> QED
    BY <1>2, <1>5 DEF Guarded, TaskOK

LEMMA CommandVerifyStep ==
  ASSUME Guarded, CommandVerify
  PROVE  Guarded'
  <1> DEFINE s == steps[task.step]
  <1>1. /\ CommandOK /\ task.op = "kill" /\ task.stage = "verify"
        /\ UNCHANGED <<proc, hits, killed, steps, truncated, gone, mode, decided, world>>
    BY InCommand DEF Guarded, CommandVerify, Command, CommandKeeps
  <1>2. ProcOK' /\ ChainOK' /\ OnlyTheImplicated'
    BY <1>1, NothingHappens DEF Guarded, ChainOK, OnlyTheImplicated
  <1>3. CASE task' = Idle
    BY <1>2, <1>3 DEF Guarded, TaskOK
  <1>4. CASE Verified(s) /\ task' = [task EXCEPT !.stage = "pin", !.todo = Descendants(s.pid)]
    <2>1. PICK ps : task' = [task EXCEPT !.stage = "pin", !.todo = ps]
      BY <1>4
    <2>2. task' = [op |-> "kill", stage |-> "pin", step |-> task.step, target |-> task.target,
                   todo |-> ps, held |-> task.held, got |-> task.got]
      BY <1>1, <2>1 DEF CommandOK
    <2>3. \A h \in task.target : Justified(h, DOMAIN steps)
      BY <1>1, <1>4, VerifiedFacts DEF CommandOK, Guarded
    <2>4. \A h \in task.target : Justified(h, DOMAIN steps)'
      BY <1>1, <2>3, JustifiedStays
    <2>5. CommandOK' /\ task'.op = "kill"
      BY <1>1, <2>2, <2>4 DEF CommandOK
    <2> QED
      BY <1>2, <2>5 DEF Guarded, TaskOK
  <1> QED
    BY <1>3, <1>4 DEF CommandVerify

LEMMA CommandPinStep ==
  ASSUME Guarded, CommandPin
  PROVE  Guarded'
  <1>1. /\ CommandOK /\ task.op = "kill" /\ task.stage = "pin"
        /\ UNCHANGED <<proc, hits, killed, steps, truncated, gone, mode, decided, world>>
    BY InCommand DEF Guarded, CommandPin, Command, CommandKeeps
  <1>2. ProcOK' /\ ChainOK' /\ OnlyTheImplicated'
    BY <1>1, NothingHappens DEF Guarded, ChainOK, OnlyTheImplicated
  <1>3. PICK ps, hs : task' = [task EXCEPT !.stage = "signal", !.todo = ps, !.held = hs]
    BY DEF CommandPin
  <1>4. task' = [op |-> "kill", stage |-> "signal", step |-> task.step, target |-> task.target,
                 todo |-> ps, held |-> hs, got |-> task.got]
    BY <1>1, <1>3 DEF CommandOK
  <1>5. \A h \in task.target : Justified(h, DOMAIN steps)'
    BY <1>1, JustifiedStays DEF CommandOK
  <1>6. CommandOK' /\ task'.op = "kill"
    BY <1>1, <1>4, <1>5 DEF CommandOK
  <1> QED
    BY <1>2, <1>6 DEF Guarded, TaskOK

LEMMA CommandSignalStep ==
  ASSUME Guarded, CommandSignal
  PROVE  Guarded'
  <1>1. /\ CommandOK /\ task.op = "kill" /\ task.stage = "signal"
        /\ UNCHANGED <<killed, steps, truncated, gone, mode, decided, world>>
        /\ proc' = EndAll(task.held)
    BY InCommand DEF Guarded, CommandSignal, Command, CommandKeeps
  <1>2. ProcOK' /\ Kept
    BY <1>1, EndAllFacts DEF Guarded
  <1>3. ChainOK'
    BY <1>1 DEF Guarded, ChainOK
  <1>4. \A g \in hits' : g \in hits \/ g.by = "child"
    BY DEF CommandSignal, Hit
  <1>5. OnlyTheImplicated'
    BY <1>1, <1>4 DEF Guarded, OnlyTheImplicated
  <1>6. PICK got : task' = [task EXCEPT !.stage = "pin", !.held = {}, !.got = got]
    BY DEF CommandSignal
  <1>7. task' = [op |-> "kill", stage |-> "pin", step |-> task.step, target |-> task.target,
                 todo |-> task.todo, held |-> {}, got |-> got]
    BY <1>1, <1>6 DEF CommandOK
  <1>8. \A h \in task.target : Justified(h, DOMAIN steps)'
    BY <1>1, <1>2, JustifiedLasts DEF CommandOK
  <1>9. CommandOK' /\ task'.op = "kill"
    BY <1>1, <1>7, <1>8 DEF CommandOK
  <1> QED
    BY <1>2, <1>3, <1>5, <1>9 DEF Guarded, TaskOK

LEMMA CommandFinishStep ==
  ASSUME Guarded, CommandFinish
  PROVE  Guarded'
  <1>1. /\ CommandOK /\ task.op = "kill" /\ task.stage = "pin" /\ task' = Idle
        /\ UNCHANGED <<steps, truncated, gone, mode, decided, world>>
        /\ proc' = EndAll(task.target)
        /\ killed' = killed \/ killed' = killed \cup {task.step}
    BY InCommand DEF Guarded, CommandFinish, Command, CommandKeeps
  <1>2. ProcOK' /\ Kept
    BY <1>1, EndAllFacts DEF Guarded
  <1>3. ChainOK'
    BY <1>1 DEF Guarded, ChainOK, CommandOK
  <1>4. ASSUME NEW g \in hits', g \notin hits
        PROVE  \E i \in DOMAIN steps :
                 /\ steps[i].pid = g.pid /\ steps[i].exe \in Range(g.ran)
                 /\ Distance(steps[i].start, g.start) <= Tolerance
                 /\ g.by # "tree"
    <2>1. PICK h \in task.target : Holds(h) /\ g = Hit("target", h.pid)
      BY <1>4 DEF CommandFinish
    <2>2. g.by = "target" /\ g.pid = h.pid /\ g.start = h.start /\ g.ran = proc[h.pid].ran
      BY <2>1 DEF Hit, Holds
    <2>3. Justified(h, DOMAIN steps)
      BY <1>1 DEF CommandOK
    <2> QED
      BY <2>1, <2>2, <2>3 DEF Justified
  <1>5. OnlyTheImplicated'
    BY <1>1, <1>4 DEF Guarded, OnlyTheImplicated
  <1> QED
    BY <1>1, <1>2, <1>3, <1>5 DEF Guarded, TaskOK

-----------------------------------------------------------------------------

LEMMA RestStep ==
  ASSUME Guarded,
         \/ \E m \in {"off", "log", "kill"} : SetKill(m)
         \/ \E i \in 1 .. LastStep : Lose(i)
         \/ Restart
  PROVE  Guarded'
  <1>1. UNCHANGED <<proc, world>>
    BY DEF SetKill, Lose, Restart
  <1>2. ProcOK'
    BY <1>1, NothingHappens DEF Guarded
  <1>3. ChainOK' /\ task' = Idle
    <2>1. ASSUME NEW m \in {"off", "log", "kill"}, SetKill(m)
          PROVE  ChainOK' /\ task' = Idle
      BY <2>1 DEF SetKill, Guarded, ChainOK
    <2>2. ASSUME NEW i \in 1 .. LastStep, Lose(i)
          PROVE  ChainOK' /\ task' = Idle
      BY <2>2 DEF Lose, Guarded, ChainOK
    <2>3. CASE Restart
      <3>1. <<>> \in Seq(StepSet) /\ Len(<<>>) <= MaxSteps
        BY Numbers
      <3> QED
        BY <2>3, <3>1 DEF Restart, Guarded, ChainOK
    <2> QED
      BY <2>1, <2>2, <2>3
  <1>4. OnlyTheImplicated'
    BY DEF SetKill, Lose, Restart, Guarded, OnlyTheImplicated
  <1> QED
    BY <1>2, <1>3, <1>4 DEF Guarded, TaskOK

LEMMA Initially ==
  ASSUME Init
  PROVE  Guarded
  <1>1. PICK boxes \in Boxes :
          proc = [p \in Pids |->
            [start |-> 0, exe |-> First, ran |-> <<First>>, boxed |-> p \in boxes,
             guarded |-> FALSE, stopped |-> FALSE,
             parent |-> IF p = Trunk THEN Init1 ELSE Trunk]]
    BY DEF Init
  <1>2. \A p \in Pids : proc[p] \in Process /\ proc[p].start = 0 /\ proc[p].exe \in Range(proc[p].ran)
    BY <1>1, RespondAssumption, Numbers, RanFacts DEF Process
  <1>3. ProcOK
    BY <1>1, <1>2, Numbers DEF ProcOK, Live, Init
  <1>4. ChainOK
    <2>1. <<>> \in Seq(StepSet) /\ Len(<<>>) <= MaxSteps
      BY Numbers
    <2> QED
      BY <2>1 DEF Init, ChainOK
  <1>5. TaskOK /\ OnlyTheImplicated
    BY DEF Init, TaskOK, OnlyTheImplicated
  <1> QED
    BY <1>3, <1>4, <1>5 DEF Guarded

LEMMA Step ==
  ASSUME Guarded, [Next]_vars
  PROVE  Guarded'
  <1>1. CASE UNCHANGED vars
    <2>1. /\ UNCHANGED <<proc, steps, truncated, gone, mode, decided, killed, task, hits, world>>
          /\ world \in Nat
      BY <1>1, Numbers DEF vars, daemon, bounds, Guarded, ProcOK
    <2> QED
      BY <2>1, NothingHappens, TaskLasts DEF Guarded, ChainOK, OnlyTheImplicated
  <1> QED
    BY <1>1, WorldStep, RaiseStep, EnforceStep, PinStep, VerifyStep, DecideStep, SignalStep,
       CommandKillStep, CommandVerifyStep, CommandPinStep, CommandSignalStep,
       CommandFinishStep, RestStep DEF Next

\* The processes, the chain and moatd's task stay well formed, and what is verified is
\* what is signalled.
THEOREM Invariance == Spec => []Guarded
  <1>1. Guarded /\ [Next]_vars => Guarded'
    BY Step
  <1> QED
    BY <1>1, Initially, PTL DEF Spec

\* Every reachable state of Respond is well typed.
THEOREM TypeCorrect == Spec => []TypeOK
  <1>1. Guarded => TypeOK
    BY DEF Guarded, ProcOK, ChainOK, TaskOK, Idle, TypeOK, Live
  <1> QED
    BY <1>1, Invariance, PTL

\* A tree kill, and the kill of an alert's process, reach the process that was meant and
\* no other, however pids are reused meanwhile (PidFd, verify_pid).
THEOREM OnlyTheImplicatedAlways == Spec => []OnlyTheImplicated
  <1>1. Guarded => OnlyTheImplicated
    BY DEF Guarded
  <1> QED
    BY <1>1, Invariance, PTL

-----------------------------------------------------------------------------
(* What is stopped. *)

\* A tree kill has begun to signal.
Pursuit == task.op = "tree" /\ task.stage \in {"stop", "kill"}

\* Whatever is stopped is still to be killed; and what the first pass has been through
\* is stopped, for as long as it lives.
StopOK ==
  /\ \A p \in Live : proc[p].stopped =>
       cut \/ (/\ Pursuit
               /\ \E k \in 1 .. Len(task.doomed) :
                    task.doomed[k] = Handle(p) /\ (task.stage = "kill" => task.at <= k))
  /\ Pursuit =>
       \A k \in 1 .. Len(task.doomed) :
         (task.stage = "kill" \/ k < task.at) /\ Holds(task.doomed[k])
           => proc[task.doomed[k].pid].stopped

\* Every step but those of the two passes stops nothing, lets go of nothing, and leaves a
\* pursuit as it is, dies of it, or opens one.
Aside ==
  /\ Kept /\ StopsNone
  /\ \/ UNCHANGED <<task, cut>>
     \/ ~Pursuit /\ cut' = cut /\ ~Pursuit'
     \/ ~Pursuit /\ cut' = cut /\ Pursuit' /\ task'.stage = "stop" /\ task'.at = 1
     \/ task' = Idle /\ cut' = (cut \/ Pursuit)

LEMMA StillFacts ==
  ASSUME Guarded, UNCHANGED <<proc, world>>
  PROVE  Kept /\ StopsNone
  BY NothingHappens DEF Guarded

LEMMA IdleFacts == ASSUME task' = Idle PROVE ~Pursuit'
  BY DEF Pursuit, Idle

LEMMA AsideOfPin ==
  ASSUME Guarded, NEW i \in 1 .. LastStep, KillPass(i) \/ KillPin(i) \/ KillPinFails(i)
  PROVE  Aside
  <1>1. /\ TreeOK /\ task.stage = "pin"
        /\ UNCHANGED <<proc, cut, world>>
    BY InTree DEF Guarded, KillPass, KillPin, KillPinFails, Turn, Tree, KillKeeps
  <1>2. task'.stage \in {"pin", "verify"}
    <2>1. CASE task' = [task EXCEPT !.todo = @ \ {i}]
      BY <1>1, <2>1 DEF TreeOK
    <2>2. CASE task' = [task EXCEPT !.todo = @ \ {i}, !.missed = TRUE]
      BY <1>1, <2>2 DEF TreeOK
    <2>3. CASE KillPin(i)
      <3> DEFINE d == Append(task.doomed, Handle(steps[i].pid))
                 t == task.todo \ {i}
      <3>1. task' = [task EXCEPT !.stage = "verify", !.todo = t, !.now = i, !.doomed = d]
        BY <2>3 DEF KillPin
      <3> HIDE DEF d, t
      <3> QED
        BY <1>1, <3>1 DEF TreeOK
    <2> QED
      BY <2>1, <2>2, <2>3 DEF KillPass, KillPinFails
  <1> QED
    BY <1>1, <1>2, StillFacts DEF Aside, Pursuit

LEMMA AsideOfVerify ==
  ASSUME Guarded, KillVerify
  PROVE  Aside
  <1>1. /\ TreeOK /\ task.stage = "verify" /\ UNCHANGED <<proc, cut, world>>
    BY InTree DEF Guarded, KillVerify, Tree, KillKeeps
  <1>2. task'.stage = "pin"
    <2> DEFINE s == steps[task.now]
               d == IF Verified(s) /\ ~Refused(s) THEN task.doomed ELSE Front(task.doomed)
    <2>1. task' = [task EXCEPT !.stage = "pin", !.doomed = d]
      BY DEF KillVerify
    <2> HIDE DEF d
    <2> QED
      BY <1>1, <2>1 DEF TreeOK
  <1> QED
    BY <1>1, <1>2, StillFacts DEF Aside, Pursuit

LEMMA AsideOfDecide ==
  ASSUME Guarded, Decide
  PROVE  Aside
  <1>1. /\ TreeOK /\ task.stage = "pin" /\ UNCHANGED <<proc, cut, world>>
    BY InTree DEF Guarded, Decide, Tree, KillKeeps
  <1>2. CASE task' = Idle
    BY <1>1, <1>2, StillFacts, IdleFacts DEF Aside, Pursuit
  <1>3. CASE task' = [task EXCEPT !.stage = "stop"]
    <2>1. task'.op = "tree" /\ task'.stage = "stop" /\ task'.at = 1
      BY <1>1, <1>3 DEF TreeOK
    <2> QED
      BY <1>1, <2>1, StillFacts DEF Aside, Pursuit
  <1> QED
    BY <1>2, <1>3 DEF Decide

LEMMA AsideOfEnforce ==
  ASSUME Guarded, EnforceVerify \/ EnforceSignal
  PROVE  Aside
  <1>1. task.op = "enforce" /\ EnforceOK /\ task # Idle
    BY DEF Guarded, TaskOK, EnforceVerify, EnforceSignal, Idle, TreeOK, CommandOK
  <1>2. ~Pursuit /\ cut' = cut /\ UNCHANGED <<steps, gone>>
    BY <1>1 DEF Pursuit, EnforceVerify, EnforceSignal, bounds
  <1>3. Kept /\ StopsNone
    <2>1. CASE UNCHANGED <<proc, world>>
      BY <2>1, StillFacts
    <2>2. CASE \E p \in Live : proc' = Ended(p) /\ world' = world
      <3>1. PICK p \in Pids : proc' = Ended(p) /\ world' \in world .. MaxWorld
        BY <2>2 DEF Live, Guarded, ProcOK
      <3> QED
        BY <3>1, EndedFacts DEF Guarded
    <2> QED
      BY <2>1, <2>2 DEF EnforceVerify, EnforceSignal, bounds
  <1>4. ~Pursuit'
    <2>1. CASE task' = [task EXCEPT !.stage = "signal"]
      <3>1. task'.op = "enforce"
        BY <1>1, <2>1 DEF EnforceOK
      <3> QED
        BY <3>1 DEF Pursuit
    <2>2. CASE Consider(steps, truncated)
      BY <1>2, <2>2, ConsiderFacts, IdleFacts DEF Pursuit
    <2> QED
      BY <2>1, <2>2 DEF EnforceVerify, EnforceSignal
  <1> QED
    BY <1>2, <1>3, <1>4 DEF Aside

LEMMA AsideOfRaise ==
  ASSUME Guarded, NEW p \in Pids, NEW k \in Kinds, Raise(p, k)
  PROVE  Aside
  <1>1. task = Idle /\ UNCHANGED <<proc, cut, world, gone>>
    BY DEF Raise, bounds
  <1>2. CASE Consider(steps', truncated')
    BY <1>2, <1>1, ConsiderFacts, IdleFacts, StillFacts DEF Aside, Pursuit, Idle
  <1>3. CASE task'.op = "enforce"
    BY <1>3, <1>1, StillFacts DEF Aside, Pursuit, Idle
  <1> QED
    BY <1>2, <1>3 DEF Raise

LEMMA AsideOfCommand ==
  ASSUME Guarded,
         \/ \E i \in 1 .. LastStep : CommandKill(i)
         \/ CommandVerify \/ CommandPin \/ CommandSignal \/ CommandFinish
  PROVE  Aside
  <1>1. CASE \E i \in 1 .. LastStep : CommandKill(i)
    BY <1>1, StillFacts DEF CommandKill, CommandKeeps, Begin, Aside, Pursuit, Idle
  <1>2. CASE task.op = "kill"
    <2>1. CommandOK /\ ~Pursuit
      BY <1>2, InCommand DEF Guarded, Pursuit
    <2>2. CASE CommandVerify \/ CommandPin
      <3>1. UNCHANGED <<proc, world, cut>>
        BY <1>2, <2>2 DEF CommandVerify, CommandPin, CommandKeeps
      <3>2. task' = Idle \/ task'.op = "kill"
        <4>1. ASSUME NEW t, NEW hs, task' = [task EXCEPT !.stage = "signal", !.todo = t, !.held = hs]
              PROVE  task'.op = "kill"
          BY <2>1, <4>1 DEF CommandOK
        <4>2. ASSUME NEW t, task' = [task EXCEPT !.stage = "pin", !.todo = t]
              PROVE  task'.op = "kill"
          BY <2>1, <4>2 DEF CommandOK
        <4>3. CASE CommandVerify
          BY <4>2, <4>3 DEF CommandVerify
        <4>4. CASE CommandPin
          BY <4>1, <4>4 DEF CommandPin
        <4> QED
          BY <2>2, <4>3, <4>4
      <3> QED
        BY <2>1, <3>1, <3>2, StillFacts, IdleFacts DEF Aside, Pursuit
    <2>3. CASE CommandSignal \/ CommandFinish
      <3>1. world' = world /\ cut' = cut /\ \E hs : proc' = EndAll(hs)
        BY <2>3 DEF CommandSignal, CommandFinish, CommandKeeps
      <3>2. Kept /\ StopsNone
        BY <3>1, EndAllFacts DEF Guarded
      <3>3. task' = Idle \/ task'.op = "kill"
        <4>1. ASSUME NEW g, task' = [task EXCEPT !.stage = "pin", !.held = {}, !.got = g]
              PROVE  task'.op = "kill"
          BY <2>1, <4>1 DEF CommandOK
        <4> QED
          BY <2>3, <4>1 DEF CommandSignal, CommandFinish
      <3> QED
        BY <2>1, <3>1, <3>2, <3>3, IdleFacts DEF Aside, Pursuit
    <2>4. CASE \E i \in 1 .. LastStep : CommandKill(i)
      BY <1>1, <2>4
    <2> QED
      BY <2>2, <2>3, <2>4
  <1> QED
    BY <1>1, <1>2 DEF CommandVerify, CommandPin, CommandSignal, CommandFinish, Command

LEMMA AsideOfRest ==
  ASSUME Guarded,
         \/ World
         \/ \E m \in {"off", "log", "kill"} : SetKill(m)
         \/ \E i \in 1 .. LastStep : Lose(i)
         \/ Restart
         \/ UNCHANGED vars
  PROVE  Aside
  <1>1. CASE World
    <2>1. UNCHANGED <<task, cut>>
      BY <1>1 DEF World, Start, Exec, Become, Exit, Acts, Quiet
    <2> QED
      BY <1>1, <2>1, WorldFacts DEF Guarded, Aside
  <1>2. CASE Restart
    BY <1>2, StillFacts DEF Restart, Aside, Pursuit, Tree
  <1>3. CASE \/ \E m \in {"off", "log", "kill"} : SetKill(m)
             \/ \E i \in 1 .. LastStep : Lose(i)
             \/ UNCHANGED vars
    <2>1. UNCHANGED <<proc, world, task, cut>>
      BY <1>3 DEF SetKill, Lose, vars, bounds
    <2> QED
      BY <2>1, StillFacts DEF Aside
  <1> QED
    BY <1>1, <1>2, <1>3

LEMMA AsideKeeps ==
  ASSUME Guarded, StopOK, Aside
  PROVE  StopOK'
  <1>1. \A p \in Live' : proc'[p].stopped =>
          p \in Live /\ proc[p].stopped /\ Handle(p)' = Handle(p)
    BY DEF Aside, StopsNone, Handle
  <1>2. ASSUME Pursuit
        PROVE  \A k \in 1 .. Len(task.doomed) : /\ task.doomed[k] \in HandleSet
                                                /\ task.doomed[k].start <= world
    BY <1>2, InTree DEF Pursuit, Guarded, TreeOK
  <1>3. CASE UNCHANGED <<task, cut>>
    <2>1. Pursuit' = Pursuit
      BY <1>3 DEF Pursuit
    <2>2. \A h \in HandleSet : h.start <= world /\ Holds(h)' =>
            Holds(h) /\ (proc[h.pid].stopped => proc'[h.pid].stopped)
      BY DEF Aside, Kept
    <2>3. \A p \in Live' : proc'[p].stopped =>
            cut' \/ (/\ Pursuit'
                     /\ \E k \in 1 .. Len(task'.doomed) :
                          /\ task'.doomed[k] = Handle(p)'
                          /\ task'.stage = "kill" => task'.at <= k)
      BY <1>1, <1>3, <2>1 DEF StopOK
    <2>4. Pursuit' =>
            \A k \in 1 .. Len(task'.doomed) : \A h :
              h = task'.doomed[k] /\ (task'.stage = "kill" \/ k < task'.at) /\ Holds(h)'
                => proc'[h.pid].stopped
      BY <1>2, <1>3, <2>1, <2>2 DEF StopOK
    <2> QED
      BY <2>3, <2>4 DEF StopOK
  <1>4. CASE ~Pursuit /\ cut' = cut
    <2>1. \A p \in Live' : proc'[p].stopped => cut'
      BY <1>1, <1>4 DEF StopOK
    <2>2. CASE ~Pursuit'
      BY <2>1, <2>2 DEF StopOK
    <2>3. CASE Pursuit' /\ task'.stage = "stop" /\ task'.at = 1
      BY <2>1, <2>3 DEF StopOK
    <2>4. CASE UNCHANGED <<task, cut>>
      BY <1>3, <2>4
    <2>5. CASE task' = Idle
      BY <2>1, <2>2, <2>5, IdleFacts
    <2> QED
      BY <2>2, <2>3, <2>4, <2>5 DEF Aside
  <1>5. CASE task' = Idle /\ cut' = (cut \/ Pursuit)
    BY <1>1, <1>5, IdleFacts DEF StopOK
  <1> QED
    BY <1>3, <1>4, <1>5 DEF Aside

LEMMA AsideOfOthers ==
  ASSUME Guarded, [Next]_vars
  PROVE  Aside \/ Stop \/ Kill
  BY AsideOfRest, AsideOfRaise, AsideOfEnforce, AsideOfPin, AsideOfVerify, AsideOfDecide,
     AsideOfCommand DEF Next

\* A record of a tree kill goes on.
LEMMA PursuitGoesOn ==
  ASSUME TreeOK, Pursuit
  PROVE  /\ task' = [task EXCEPT !.at = @ + 1] =>
              Pursuit' /\ task'.stage = task.stage /\ task'.at = task.at + 1
              /\ task'.doomed = task.doomed
         /\ task' = [task EXCEPT !.stage = "kill", !.at = 1] =>
              Pursuit' /\ task'.stage = "kill" /\ task'.at = 1 /\ task'.doomed = task.doomed
  BY DEF TreeOK, Pursuit

LEMMA StopKeeps ==
  ASSUME Guarded, StopOK, Stop
  PROVE  StopOK'
  <1> DEFINE h == task.doomed[task.at]
             n == Len(task.doomed)
  <1>1. TreeOK /\ Pursuit /\ task.stage = "stop"
    BY InTree DEF Guarded, Stop, Tree, Pursuit
  <1>2. /\ n \in Nat /\ task.at \in 1 .. n /\ UNCHANGED <<world, cut>>
        /\ \A k \in 1 .. n : task.doomed[k] \in HandleSet /\ task.doomed[k].start <= world
    BY <1>1 DEF TreeOK, Stop, KillKeeps
  <1>3. Kept
    BY SignalStep
  <1>4. /\ Pursuit' /\ task'.doomed = task.doomed
        /\ \/ task'.stage = "stop" /\ task'.at = task.at + 1
           \/ task'.stage = "kill" /\ task'.at = 1 /\ task.at = n
    <2>1. \/ task.at < n /\ task' = [task EXCEPT !.at = @ + 1]
          \/ task.at >= n /\ task' = [task EXCEPT !.stage = "kill", !.at = 1]
      BY <1>2 DEF Stop, Next1
    <2> QED
      BY <1>1, <1>2, <2>1, PursuitGoesOn
  <1>5. \/ ~Holds(h) /\ proc' = proc
        \/ Holds(h) /\ proc' = [proc EXCEPT ![h.pid].stopped = TRUE]
    BY DEF Stop
  <1> HIDE DEF h
  <1>6. h \in HandleSet /\ h = task.doomed[task.at]
    BY <1>2 DEF h
  <1>7. Holds(h) =>
          /\ proc'[h.pid].stopped /\ proc'[h.pid] # Nobody /\ proc'[h.pid].start = h.start
          /\ \A q \in Pids \ {h.pid} : proc'[q] = proc[q]
    <2> SUFFICES ASSUME Holds(h)
                 PROVE  /\ proc'[h.pid].stopped /\ proc'[h.pid] # Nobody
                        /\ proc'[h.pid].start = h.start
                        /\ \A q \in Pids \ {h.pid} : proc'[q] = proc[q]
      OBVIOUS
    <2> DEFINE r == proc[h.pid]
               m == proc'[h.pid]
    <2>1. r \in Process /\ r.start = h.start /\ m = [r EXCEPT !.stopped = TRUE]
      BY <1>5, <1>6 DEF Guarded, ProcOK, Holds, HandleSet
    <2> HIDE DEF r, m
    <2>2. m \in Process /\ m.stopped /\ m.start = h.start
      BY <2>1 DEF Process
    <2>3. m.stopped /\ m # Nobody /\ m.start = h.start
      BY <2>2, RespondAssumption
    <2>4. \A q \in Pids \ {h.pid} : proc'[q] = proc[q]
      BY <1>5 DEF Guarded, ProcOK
    <2> QED
      BY <2>3, <2>4 DEF m
  <1>8. ASSUME NEW p \in Live', proc'[p].stopped
        PROVE  cut' \/ \E k \in 1 .. n : task.doomed[k] = Handle(p)' /\ 1 <= k
    <2>1. CASE p = h.pid /\ Holds(h)
      <3>1. h = Handle(p)'
        BY <1>6, <1>7, <2>1 DEF Handle, HandleSet
      <3>2. task.doomed[task.at] = Handle(p)'
        BY <1>6, <3>1
      <3>3. task.at \in 1 .. n /\ 1 <= task.at
        BY <1>2
      <3> HIDE DEF n
      <3> QED
        BY <3>2, <3>3
    <2>2. CASE ~(p = h.pid /\ Holds(h))
      <3>1. p \in Pids /\ proc'[p] = proc[p]
        BY <1>5, <1>7, <2>2 DEF Live
      <3>2. p \in Live /\ proc[p].stopped /\ Handle(p)' = Handle(p)
        BY <1>8, <3>1 DEF Live, Handle
      <3> QED
        BY <1>2, <3>2 DEF StopOK
    <2> QED
      BY <2>1, <2>2
  <1>9. ASSUME NEW k \in 1 .. n, k <= task.at, Holds(task.doomed[k])', NEW g, g = task.doomed[k]
        PROVE  proc'[g.pid].stopped
    <2>1. g \in HandleSet /\ Holds(g)' /\ g.start <= world
      BY <1>2, <1>4, <1>9
    <2>2. Holds(g) /\ (proc[g.pid].stopped => proc'[g.pid].stopped)
      BY <1>3, <2>1 DEF Kept
    <2>3. CASE k < task.at
      BY <1>1, <1>9, <2>2, <2>3 DEF StopOK
    <2>4. CASE k = task.at
      BY <1>6, <1>7, <1>9, <2>2, <2>4
    <2> QED
      BY <1>2, <1>9, <2>3, <2>4
  <1>10. ASSUME NEW p \in Live', proc'[p].stopped
         PROVE  cut' \/ \E k \in 1 .. Len(task'.doomed) :
                          /\ task'.doomed[k] = Handle(p)'
                          /\ task'.stage = "kill" => task'.at <= k
    BY <1>4, <1>8, <1>10
  <1>11. ASSUME NEW k \in 1 .. Len(task'.doomed), task'.stage = "kill" \/ k < task'.at,
                NEW g, g = task'.doomed[k], Holds(g)'
         PROVE  proc'[g.pid].stopped
    <2>1. k \in 1 .. n /\ k <= task.at /\ g = task.doomed[k]
      BY <1>2, <1>4, <1>11
    <2>2. g \in HandleSet /\ g.start <= world
      BY <1>2, <2>1
    <2>3. Holds(g) /\ (proc[g.pid].stopped => proc'[g.pid].stopped)
      BY <1>3, <1>11, <2>2 DEF Kept
    <2>4. CASE k < task.at
      BY <1>1, <2>1, <2>3, <2>4 DEF StopOK
    <2>5. CASE k = task.at
      BY <1>6, <1>7, <2>1, <2>3, <2>5
    <2> QED
      BY <1>2, <2>1, <2>4, <2>5
  <1> QED
    BY <1>4, <1>10, <1>11 DEF StopOK

LEMMA KillKeepsStopOK ==
  ASSUME Guarded, StopOK, Kill
  PROVE  StopOK'
  <1> DEFINE h == task.doomed[task.at]
             n == Len(task.doomed)
  <1>1. TreeOK /\ Pursuit /\ task.stage = "kill"
    BY InTree DEF Guarded, Kill, Tree, Pursuit
  <1>2. /\ n \in Nat /\ task.at \in 1 .. n /\ UNCHANGED <<world, cut>>
        /\ \A k \in 1 .. n : task.doomed[k] \in HandleSet /\ task.doomed[k].start <= world
    BY <1>1 DEF TreeOK, Kill, KillKeeps
  <1>3. Kept
    BY SignalStep
  <1>4. \/ task.at < n /\ Pursuit' /\ task'.doomed = task.doomed /\ task'.stage = "kill"
           /\ task'.at = task.at + 1
        \/ task.at = n /\ task' = Idle
    <2>1. \/ task.at < n /\ task' = [task EXCEPT !.at = @ + 1]
          \/ task.at >= n /\ task' = Idle
      BY <1>2 DEF Kill, Next1
    <2> QED
      BY <1>1, <1>2, <2>1, PursuitGoesOn
  <1>5. \/ Holds(h) /\ proc' = Ended(h.pid)
        \/ ~Holds(h) /\ proc' = proc
    BY DEF Kill
  <1> HIDE DEF h
  <1>6. h \in HandleSet /\ h = task.doomed[task.at]
    BY <1>2 DEF h
  <1>7. StopsNone /\ (Holds(h) => proc'[h.pid] = Nobody)
    <2>1. h.pid \in Pids /\ world' \in world .. MaxWorld
      BY <1>2, <1>6 DEF HandleSet, Guarded, ProcOK
    <2>2. CASE proc' = Ended(h.pid)
      BY <2>1, <2>2, EndedFacts DEF Guarded, Ended
    <2>3. CASE proc' = proc /\ ~Holds(h)
      BY <1>2, <2>3, StillFacts
    <2> QED
      BY <1>5, <2>2, <2>3
  <1>8. ASSUME NEW p \in Live', proc'[p].stopped
        PROVE  cut' \/ \E k \in 1 .. n : task.doomed[k] = Handle(p)' /\ task.at < k
    <2>1. p \in Live /\ proc[p].stopped /\ Handle(p)' = Handle(p) /\ proc'[p] # Nobody
      BY <1>7, <1>8 DEF StopsNone, Handle, Live
    <2>2. CASE \E k \in 1 .. n : task.doomed[k] = Handle(p) /\ task.at <= k
      <3>1. PICK k \in 1 .. n : task.doomed[k] = Handle(p) /\ task.at <= k
        BY <2>2
      <3>2. CASE k = task.at
        <4>1. h.pid = p /\ Holds(h)
          BY <1>6, <2>1, <3>1, <3>2 DEF Handle, Holds, Live
        <4> QED
          BY <1>7, <2>1, <4>1
      <3> QED
        BY <1>2, <2>1, <3>1, <3>2
    <2> QED
      BY <1>1, <1>2, <2>1, <2>2 DEF StopOK
  <1>9. CASE task' = Idle
    <2>1. task.at = n /\ ~Pursuit'
      BY <1>2, <1>4, <1>9, IdleFacts DEF Pursuit, Idle
    <2>2. \A p \in Live' : proc'[p].stopped => cut'
      BY <1>2, <1>8, <2>1
    <2> QED
      BY <2>1, <2>2 DEF StopOK
  <1>10. CASE /\ Pursuit' /\ task'.doomed = task.doomed /\ task'.stage = "kill"
              /\ task'.at = task.at + 1
    <2>1. ASSUME NEW p \in Live', proc'[p].stopped
          PROVE  cut' \/ \E k \in 1 .. Len(task'.doomed) :
                           task'.doomed[k] = Handle(p)' /\ task'.at <= k
      BY <1>2, <1>8, <1>10, <2>1
    <2>2. ASSUME NEW k \in 1 .. Len(task'.doomed), NEW g, g = task'.doomed[k], Holds(g)'
          PROVE  proc'[g.pid].stopped
      <3>1. k \in 1 .. n /\ g = task.doomed[k] /\ g \in HandleSet /\ g.start <= world
        BY <1>2, <1>10, <2>2
      <3>2. Holds(g) /\ (proc[g.pid].stopped => proc'[g.pid].stopped)
        BY <1>3, <2>2, <3>1 DEF Kept
      <3> QED
        BY <1>1, <3>1, <3>2 DEF StopOK
    <2> QED
      BY <1>10, <2>1, <2>2 DEF StopOK
  <1> QED
    BY <1>4, <1>9, <1>10

\* What is stopped is to be killed, through both passes and beside them.
THEOREM StopInvariance == Spec => [](Guarded /\ StopOK)
  <1>1. Init => Guarded /\ StopOK
    <2> SUFFICES ASSUME Init PROVE StopOK
      BY Initially
    <2>1. \A p \in Pids : ~proc[p].stopped
      BY DEF Init
    <2> QED
      BY <2>1, IdleFacts DEF Init, StopOK, Live, Pursuit, Idle
  <1>2. (Guarded /\ StopOK) /\ [Next]_vars => (Guarded /\ StopOK)'
    BY Step, AsideOfOthers, AsideKeeps, StopKeeps, KillKeepsStopOK
  <1> QED
    BY <1>1, <1>2, PTL DEF Spec

\* What moatd stops it kills, whatever exits or is born between its two passes: nothing
\* is left stopped unless moatd died in between (maybe_kill_tree).
THEOREM NothingLeftStoppedAlways == Spec => []NothingLeftStopped
  <1>1. Guarded /\ StopOK => NothingLeftStopped
    <2> SUFFICES ASSUME Guarded, StopOK, NEW p \in Live, proc[p].stopped
                 PROVE  cut \/ (Pursuit /\ Handle(p) \in Range(task.doomed))
      BY DEF NothingLeftStopped, Pursuit
    <2>1. CASE Pursuit /\ \E k \in 1 .. Len(task.doomed) : task.doomed[k] = Handle(p)
      <3>1. task.doomed \in Seq(HandleSet)
        BY <2>1, InTree DEF Pursuit, Guarded, TreeOK
      <3> QED
        BY <2>1, <3>1 DEF Range
    <2> QED
      BY <2>1 DEF StopOK
  <1> QED
    BY <1>1, StopInvariance, PTL

\* None that is to be killed starts anything.
NoPistol ==
  Tree("kill") =>
    \A p, q \in Pids :
      proc[q] = Nobody /\ proc'[q] # Nobody /\ proc'[q].parent = p
        => Handle(p) \notin Range(task.doomed)

\* From the first SIGKILL of a tree on, none of the tree starts anything: a process that
\* has a handle in the second pass is stopped (maybe_kill_tree).
THEOREM NoStartingPistolAlways == Spec => NoStartingPistol
  <1>1. Guarded /\ StopOK /\ [Next]_vars => [NoPistol]_vars
    <2> SUFFICES ASSUME Guarded, StopOK, [Next]_vars, Tree("kill"),
                        NEW p \in Pids, NEW q \in Pids,
                        proc[q] = Nobody, proc'[q] # Nobody, proc'[q].parent = p,
                        Handle(p) \in Range(task.doomed)
                 PROVE  FALSE
      BY DEF NoPistol
    <2>1. TreeOK /\ Pursuit
      BY InTree DEF Tree, Guarded, Pursuit
    <2>2. PICK k \in 1 .. Len(task.doomed) : task.doomed[k] = Handle(p)
      BY <2>1 DEF Range, TreeOK
    <2>3. CASE World
      <3>1. PICK x \in Pids, y \in Pids : Start(x, y)
        BY <2>3 DEF World, Exec, Become, Exit, Ended, Guarded, ProcOK, Awake, Live
      <3> DEFINE born == [start |-> world + 1, exe |-> proc[y].exe, ran |-> <<proc[y].exe>>,
                          boxed |-> proc[y].boxed, guarded |-> proc[y].guarded,
                          stopped |-> FALSE, parent |-> y]
      <3>2. y \in Live /\ ~proc[y].stopped /\ proc' = [proc EXCEPT ![x] = born]
        BY <3>1 DEF Start, Awake
      <3>3. q = x /\ y = p
        <4>1. born.parent = y
          OBVIOUS
        <4> HIDE DEF born
        <4>2. q = x
          BY <3>2 DEF Guarded, ProcOK
        <4> QED
          BY <3>2, <4>1, <4>2 DEF Guarded, ProcOK
      <3>4. Holds(Handle(p)) /\ Handle(p).pid = p
        BY <3>2, <3>3 DEF Holds, Handle, Live
      <3> QED
        BY <2>1, <2>2, <3>2, <3>3, <3>4 DEF StopOK, Tree
    <2>4. CASE ~World
      <3>1. task # Idle /\ task.op = "tree" /\ task.stage = "kill"
        BY DEF Tree, Idle
      <3>2. UNCHANGED proc \/ Kill
        BY <2>4, <3>1 DEF Next, vars, Raise, EnforceVerify, EnforceSignal, KillPass, KillPin,
           KillPinFails, Turn, Tree, KillVerify, Decide, Stop, CommandKill, CommandVerify,
           CommandPin, CommandSignal, CommandFinish, Command, SetKill, Lose, Restart
      <3>3. CASE Kill
        <4>1. proc' = proc \/ proc' = Ended(task.doomed[task.at].pid)
          BY <3>3 DEF Kill
        <4> QED
          BY <4>1 DEF Ended
      <3> QED
        BY <3>2, <3>3
    <2> QED
      BY <2>3, <2>4
  <1> QED
    BY <1>1, StopInvariance, PTL DEF Spec, NoStartingPistol, NoPistol

-----------------------------------------------------------------------------
(* One decision per chain. *)

TreeHits == {h \in hits : h.by = "tree"}

\* A tree kill that has not decided yet.
Aiming == task.op = "tree" /\ task.stage \in {"pin", "verify"}

\* The process a handle or a hit is of.
Of(h, p) == h.pid = p /\ proc[p] # Nobody /\ proc[p].start = h.start

\* The signals of a tree kill are all of one look, each to a process that was pinned;
\* a process that has been signalled and still lives runs nothing else.
Aimed ==
  \A h \in TreeHits :
    /\ h.when = <<Len(steps), truncated>>
    /\ \E k \in 1 .. Len(task.doomed) :
         task.doomed[k].pid = h.pid /\ task.doomed[k].start = h.start
    /\ Of(h, h.pid) => proc[h.pid].stopped /\ proc[h.pid].ran = h.ran

\* A chain that has not been decided has had no signal, a tree kill that has not been
\* decided is of such a chain and pins MaxTargets at most, and one that has begun to
\* signal has been decided.
BurstOK ==
  /\ ~decided => TreeHits = {}
  /\ Aiming => ~decided
  /\ task.op = "tree" => /\ IsFiniteSet(task.todo)
                         /\ Len(task.doomed) + Cardinality(task.todo) <= MaxTargets
  /\ Pursuit => decided /\ Aimed
  /\ \A h \in TreeHits : h = [by |-> "tree", pid |-> h.pid, start |-> h.start, ran |-> h.ran,
                              when |-> h.when]
  /\ \A h, g \in TreeHits : h.pid = g.pid /\ h.start = g.start => h = g
  /\ OneBurst

\* Every set of numbers that is not empty has a least element.
LEMMA LeastNat ==
  ASSUME NEW T, T \subseteq Nat, T # {}
  PROVE  \E x \in T : \A y \in T : x <= y
<1> DEFINE C == {0 .. n : n \in T}
<1>1. C \subseteq FiniteSubsetsOf(Nat)
  <2> SUFFICES ASSUME NEW n \in T PROVE IsFiniteSet(0 .. n) /\ 0 .. n \subseteq Nat
    BY DEF FiniteSubsetsOf
  <2> QED BY FS_Interval
<1>2. C # {}
  OBVIOUS
<1>3. IsWellFoundedOn(StrictSubsetOrdering(Nat), FiniteSubsetsOf(Nat))
  BY FS_StrictSubsetOrderingWellFounded
<1>4. PICK c \in C : \A d \in C : ~ (<<d, c>> \in StrictSubsetOrdering(Nat))
  <2> HIDE DEF C
  <2> QED BY <1>1, <1>2, <1>3, WFMin
<1>5. PICK x \in T : c = 0 .. x
  OBVIOUS
<1>6. ASSUME NEW y \in T, y < x PROVE FALSE
  <2>1. 0 .. y \subseteq 0 .. x /\ 0 .. x \subseteq Nat /\ x \in 0 .. x /\ x \notin 0 .. y
    BY <1>6
  <2>2. <<0 .. y, 0 .. x>> \in StrictSubsetOrdering(Nat)
    BY <2>1 DEF StrictSubsetOrdering
  <2> QED BY <2>2, <1>4, <1>5
<1> QED
  BY <1>6

\* Of any set of numbers, no more than n are among its first n.
LEMMA FirstOfFew ==
  ASSUME NEW is, NEW m \in Nat, is \subseteq 1 .. m, NEW n \in Nat
  PROVE  IsFiniteSet(FirstOf(is, n)) /\ Cardinality(FirstOf(is, n)) <= n
  <1> DEFINE F == FirstOf(is, n)
             T == {x \in Nat : \A i \in F : i <= x}
  <1>1. F \subseteq is /\ IsFiniteSet(1 .. m)
    BY FS_Interval DEF FirstOf
  <1> HIDE DEF F
  <1>2. IsFiniteSet(F) /\ IsFiniteSet(is)
    <2>1. IsFiniteSet(is)
      BY <1>1, FS_Subset
    <2> QED
      BY <1>1, <2>1, FS_Subset
  <1>5. \A i \in F : i \in Nat /\ i >= 1 /\ i <= m
    BY <1>1
  <1>3. CASE F = {}
    BY <1>2, <1>3, FS_EmptySet DEF F
  <1>4. CASE F # {}
    <2>1. m \in T
      BY <1>5
    <2>2. T \subseteq Nat /\ T # {}
      BY <2>1
    <2> HIDE DEF T
    <2>3. PICK x \in T : \A y \in T : x <= y
      BY <2>2, LeastNat
    <2>4. x \in Nat /\ \A i \in F : i <= x
      BY <2>3 DEF T
    <2>5. x \in F
      <3> SUFFICES ASSUME x \notin F PROVE FALSE
        OBVIOUS
      <3>1. \A i \in F : i \in Nat /\ i >= 1 /\ i < x
        BY <1>5, <2>4
      <3>2. x - 1 \in T
        BY <1>4, <2>4, <3>1 DEF T
      <3> QED
        BY <2>3, <2>4, <3>2
    <2>6. Cardinality({j \in is : j <= x}) <= n /\ F \subseteq {j \in is : j <= x}
      BY <1>1, <2>4, <2>5 DEF FirstOf, F
    <2>7. IsFiniteSet({j \in is : j <= x})
      BY <1>2, FS_Subset
    <2>8. Cardinality(F) <= Cardinality({j \in is : j <= x})
      BY <2>6, <2>7, FS_Subset
    <2>9. Cardinality(F) \in Nat /\ Cardinality({j \in is : j <= x}) \in Nat
      BY <1>2, <2>7, FS_CardinalityType
    <2> QED
      BY <1>2, <2>6, <2>8, <2>9 DEF F
  <1> QED
    BY <1>3, <1>4

\* How many numbers there are up to n.
LEMMA IntervalSize ==
  ASSUME NEW n \in Nat
  PROVE  IsFiniteSet(1 .. n) /\ Cardinality(1 .. n) = n
  BY FS_Interval

\* Signals that each go to a pinned process, none to the same twice, are as few as those.
LEMMA FewHits ==
  ASSUME NEW S, NEW d \in Seq(HandleSet),
         \A h \in S : \E k \in 1 .. Len(d) : d[k].pid = h.pid /\ d[k].start = h.start,
         \A h, g \in S : h.pid = g.pid /\ h.start = g.start => h = g
  PROVE  IsFiniteSet(S) /\ Cardinality(S) <= Len(d)
  <1> DEFINE at(h) == CHOOSE k \in 1 .. Len(d) : d[k].pid = h.pid /\ d[k].start = h.start
             f == [h \in S |-> at(h)]
  <1>1. \A h \in S : at(h) \in 1 .. Len(d) /\ d[at(h)].pid = h.pid /\ d[at(h)].start = h.start
    OBVIOUS
  <1> HIDE DEF at
  <1>2. f \in Injection(S, 1 .. Len(d))
    <2>1. f \in [S -> 1 .. Len(d)] /\ \A h, g \in S : f[h] = f[g] => h = g
      BY <1>1
    <2> HIDE DEF f
    <2> QED
      BY <2>1 DEF Injection, IsInjective
  <1> HIDE DEF f
  <1>3. IsFiniteSet(1 .. Len(d)) /\ Cardinality(1 .. Len(d)) = Len(d)
    BY IntervalSize
  <1> QED
    BY <1>2, <1>3, FS_Injection

\* A tree kill begins with no more targets than it may have.
LEMMA TreeKillFew ==
  ASSUME NEW ss \in Seq(StepSet), task' = TreeKill(ss)
  PROVE  /\ task'.op = "tree" /\ task'.stage = "pin" /\ task'.doomed = <<>>
         /\ IsFiniteSet(task'.todo) /\ Cardinality(task'.todo) <= MaxTargets
  <1>1. Targets(ss) \subseteq 1 .. Len(ss) /\ Len(ss) \in Nat
    BY DEF Targets, Triggers
  <1>2. IsFiniteSet(FirstOf(Targets(ss), MaxTargets))
        /\ Cardinality(FirstOf(Targets(ss), MaxTargets)) <= MaxTargets
    BY <1>1, Numbers, FirstOfFew
  <1> DEFINE meant == {<<ss[i].pid, proc[ss[i].pid]>> : i \in Implicated(ss)}
             todo == FirstOf(Targets(ss), MaxTargets)
  <1> HIDE DEF meant, todo
  <1>3. task' = [op |-> "tree", stage |-> "pin", todo |-> todo,
                 now |-> 0, at |-> 1, doomed |-> <<>>, missed |-> FALSE, meant |-> meant]
    BY DEF TreeKill, meant, todo
  <1> QED
    BY <1>2, <1>3 DEF todo

LEMMA BurstMeans ==
  OneBurst <=> /\ Cardinality(TreeHits) <= MaxTargets
               /\ \A h, g \in TreeHits : h.when = g.when
  BY DEF OneBurst, TreeHits

\* The rest of the world moves on during a tree kill, or there is none.
LEMMA BurstStays ==
  ASSUME Guarded, BurstOK, Kept, UNCHANGED <<task, decided, steps, truncated, hits>>
  PROVE  BurstOK'
  <1>1. TreeHits' = TreeHits /\ Pursuit' = Pursuit /\ Aiming' = Aiming
    BY DEF TreeHits, Pursuit, Aiming
  <1>2. OneBurst'
    BY DEF BurstOK, OneBurst
  <1>3. ASSUME Pursuit, NEW h \in TreeHits, Of(h, h.pid)'
        PROVE  proc'[h.pid].stopped /\ proc'[h.pid].ran = h.ran
    <2>1. Aimed /\ TreeOK
      BY <1>3, InTree DEF BurstOK, Guarded, Pursuit
    <2>2. PICK k \in 1 .. Len(task.doomed) :
            task.doomed[k].pid = h.pid /\ task.doomed[k].start = h.start
      BY <2>1 DEF Aimed
    <2>3. PICK d \in HandleSet : d.start <= world /\ d.pid = h.pid /\ d.start = h.start
      BY <2>1, <2>2 DEF TreeOK
    <2>4. Holds(d)'
      BY <1>3, <2>3 DEF Of, Holds
    <2>5. Holds(d) /\ (proc[d.pid].stopped => proc'[d.pid].stopped /\ proc'[d.pid].ran = proc[d.pid].ran)
      BY <2>3, <2>4 DEF Kept
    <2>6. Of(h, h.pid)
      BY <2>3, <2>5 DEF Of, Holds
    <2> QED
      BY <2>1, <2>3, <2>5, <2>6 DEF Aimed
  <1>4. Pursuit => Aimed'
    BY <1>1, <1>3 DEF BurstOK, Aimed
  <1> QED
    BY <1>1, <1>2, <1>4 DEF BurstOK

\* There is no tree kill any more, or not yet, or one that only aims.
LEMMA BurstAside ==
  ASSUME BurstOK, TreeHits' = TreeHits, UNCHANGED decided,
         \/ task'.op # "tree"
         \/ /\ ~decided /\ task'.op = "tree" /\ task'.stage \in {"pin", "verify"}
            /\ IsFiniteSet(task'.todo)
            /\ Len(task'.doomed) + Cardinality(task'.todo) <= MaxTargets
  PROVE  BurstOK'
  <1>1. ~Pursuit'
    BY DEF Pursuit
  <1>2. OneBurst'
    BY BurstMeans DEF BurstOK, OneBurst, TreeHits
  <1> QED
    BY <1>1, <1>2 DEF BurstOK, Aiming

LEMMA BurstOfConsider ==
  ASSUME BurstOK, NEW ss \in Seq(StepSet), NEW cutShort, Consider(ss, cutShort),
         TreeHits' = TreeHits, UNCHANGED decided
  PROVE  BurstOK'
  <1>1. CASE task' = Idle
    BY <1>1, BurstAside DEF Idle
  <1>2. CASE ~decided /\ task' = TreeKill(ss)
    <2>1. /\ task'.op = "tree" /\ task'.stage = "pin" /\ task'.doomed = <<>>
          /\ IsFiniteSet(task'.todo) /\ Cardinality(task'.todo) <= MaxTargets
      BY <1>2, TreeKillFew
    <2>2. Cardinality(task'.todo) \in Nat
      BY <2>1, FS_CardinalityType
    <2>3. Len(task'.doomed) + Cardinality(task'.todo) <= MaxTargets
      BY <2>1, <2>2
    <2> QED
      BY <1>2, <2>1, <2>3, BurstAside
  <1> QED
    BY <1>1, <1>2 DEF Consider

LEMMA BurstOfRaise ==
  ASSUME Guarded, BurstOK, NEW p \in Pids, NEW k \in Kinds, Raise(p, k)
  PROVE  BurstOK'
  <1>1. TreeHits' = TreeHits /\ UNCHANGED decided
    BY DEF Raise, TreeHits
  <1>2. steps' \in Seq(StepSet)
    BY RaiseStep DEF Guarded, ChainOK
  <1>3. CASE task'.op = "enforce"
    BY <1>1, <1>3, BurstAside
  <1>4. CASE Consider(steps', truncated')
    BY <1>1, <1>2, <1>4, BurstOfConsider
  <1> QED
    BY <1>3, <1>4 DEF Raise

LEMMA BurstOfEnforce ==
  ASSUME Guarded, BurstOK, EnforceVerify \/ EnforceSignal
  PROVE  BurstOK'
  <1>1. TreeHits' = TreeHits /\ UNCHANGED decided
    BY DEF EnforceVerify, EnforceSignal, TreeHits, Hit
  <1>2. steps \in Seq(StepSet)
    BY DEF Guarded, ChainOK
  <1>3. task.op = "enforce" /\ EnforceOK
    BY DEF Guarded, TaskOK, EnforceVerify, EnforceSignal, Idle, TreeOK, CommandOK
  <1>4. CASE task' = [task EXCEPT !.stage = "signal"]
    <2>1. task'.op = "enforce"
      BY <1>3, <1>4 DEF EnforceOK
    <2> QED
      BY <1>1, <2>1, BurstAside
  <1>5. CASE Consider(steps, truncated)
    BY <1>1, <1>2, <1>5, BurstOfConsider
  <1> QED
    BY <1>4, <1>5 DEF EnforceVerify, EnforceSignal

LEMMA BurstOfCommand ==
  ASSUME Guarded, BurstOK,
         \/ \E i \in 1 .. LastStep : CommandKill(i)
         \/ CommandVerify \/ CommandPin \/ CommandSignal \/ CommandFinish
  PROVE  BurstOK'
  <1>1. UNCHANGED decided
    BY DEF CommandKill, CommandVerify, CommandPin, CommandSignal, CommandFinish, CommandKeeps
  <1>2. TreeHits' = TreeHits
    <2>1. CASE CommandSignal
      <3>1. \A h \in hits' \ hits : h.by = "child"
        BY <2>1 DEF CommandSignal, Hit
      <3>2. hits \subseteq hits'
        BY <2>1 DEF CommandSignal
      <3> QED
        BY <3>1, <3>2 DEF TreeHits
    <2>2. CASE CommandFinish
      <3>1. \A h \in hits' \ hits : h.by = "target"
        BY <2>2 DEF CommandFinish, Hit
      <3>2. hits \subseteq hits'
        BY <2>2 DEF CommandFinish
      <3> QED
        BY <3>1, <3>2 DEF TreeHits
    <2> QED
      BY <2>1, <2>2 DEF CommandKill, CommandVerify, CommandPin, TreeHits
  <1>3. task'.op # "tree"
    <2>1. CASE \E i \in 1 .. LastStep : CommandKill(i)
      BY <2>1 DEF CommandKill, Begin
    <2>2. CASE task' = Idle
      BY <2>2 DEF Idle
    <2>3. task.op = "kill" => CommandOK
      BY DEF Guarded, TaskOK, Idle, TreeOK, EnforceOK
    <2>4. CASE CommandVerify
      <3> DEFINE below == Descendants(steps[task.step].pid)
      <3>1. task' = Idle \/ task' = [task EXCEPT !.stage = "pin", !.todo = below]
        BY <2>4 DEF CommandVerify
      <3> HIDE DEF below
      <3> QED
        BY <2>2, <2>3, <2>4, <3>1 DEF CommandVerify, Command, CommandOK
    <2>5. CASE CommandPin
      <3>1. PICK chunk \in SUBSET task.todo :
              task' = [task EXCEPT !.stage = "signal", !.todo = @ \ chunk,
                                   !.held = {Handle(p) : p \in chunk \cap Live}]
        BY <2>5 DEF CommandPin
      <3> DEFINE held == {Handle(p) : p \in chunk \cap Live}
                 todo == task.todo \ chunk
      <3>2. task' = [task EXCEPT !.stage = "signal", !.todo = todo, !.held = held]
        BY <3>1
      <3> HIDE DEF held, todo
      <3> QED
        BY <2>3, <2>5, <3>2 DEF CommandPin, Command, CommandOK
    <2>6. CASE CommandSignal
      <3> DEFINE got == task.got \/ {h \in task.held : Holds(h)} # {}
      <3>1. task' = [task EXCEPT !.stage = "pin", !.held = {}, !.got = got]
        BY <2>6 DEF CommandSignal
      <3> HIDE DEF got
      <3> QED
        BY <2>3, <2>6, <3>1 DEF CommandSignal, Command, CommandOK
    <2> QED
      BY <2>1, <2>2, <2>4, <2>5, <2>6 DEF CommandFinish
  <1> QED
    BY <1>1, <1>2, <1>3, BurstAside

LEMMA BurstOfPin ==
  ASSUME Guarded, BurstOK, NEW i, KillPass(i) \/ KillPin(i) \/ KillPinFails(i)
  PROVE  BurstOK'
  <1>1. /\ TreeOK /\ task.op = "tree" /\ task.stage = "pin" /\ i \in task.todo
        /\ UNCHANGED hits
    BY InTree DEF Guarded, KillPass, KillPin, KillPinFails, Turn, Tree
  <1>2. ~decided /\ UNCHANGED decided /\ TreeHits' = TreeHits
    BY <1>1 DEF BurstOK, Aiming, TreeHits, KillPass, KillPin, KillPinFails
  <1> DEFINE rest == task.todo \ {i}
  <1>3. /\ IsFiniteSet(rest) /\ Cardinality(rest) = Cardinality(task.todo) - 1
        /\ Cardinality(task.todo) \in Nat
    BY <1>1, FS_RemoveElement, FS_CardinalityType DEF BurstOK
  <1> HIDE DEF rest
  <1>4. task.doomed \in Seq(HandleSet) /\ Len(task.doomed) + Cardinality(task.todo) <= MaxTargets
    BY <1>1 DEF TreeOK, BurstOK
  <1>5. /\ task'.op = "tree" /\ task'.stage \in {"pin", "verify"} /\ task'.todo = rest
        /\ \/ task'.doomed = task.doomed
           \/ \E h \in HandleSet : task'.doomed = Append(task.doomed, h)
    <2>1. CASE task' = [task EXCEPT !.todo = rest]
      BY <1>1, <2>1 DEF TreeOK
    <2>2. CASE task' = [task EXCEPT !.todo = rest, !.missed = TRUE]
      BY <1>1, <2>2 DEF TreeOK
    <2>3. CASE KillPin(i)
      <3> DEFINE h == Handle(steps[i].pid)
                 d == Append(task.doomed, h)
      <3>1. h \in HandleSet
        BY <2>3, HandleFacts DEF KillPin, Guarded
      <3>2. task' = [task EXCEPT !.stage = "verify", !.todo = rest, !.now = i, !.doomed = d]
        BY <2>3 DEF KillPin, rest
      <3>3. d = Append(task.doomed, h)
        OBVIOUS
      <3> HIDE DEF d, h
      <3>4. task'.op = "tree" /\ task'.stage = "verify" /\ task'.todo = rest /\ task'.doomed = d
        BY <1>1, <3>2 DEF TreeOK
      <3> QED
        BY <3>1, <3>3, <3>4
    <2> QED
      BY <2>1, <2>2, <2>3 DEF KillPass, KillPinFails, rest
  <1>6. Len(task'.doomed) \in {Len(task.doomed), Len(task.doomed) + 1} /\ Len(task.doomed) \in Nat
    BY <1>4, <1>5
  <1>7. Len(task'.doomed) + Cardinality(rest) <= MaxTargets
    BY <1>3, <1>4, <1>6, Numbers
  <1> QED
    BY <1>2, <1>3, <1>5, <1>7, BurstAside

LEMMA BurstOfVerify ==
  ASSUME Guarded, BurstOK, KillVerify
  PROVE  BurstOK'
  <1>1. TreeOK /\ task.op = "tree" /\ task.stage = "verify"
    BY InTree DEF Guarded, KillVerify, Tree
  <1>2. ~decided /\ UNCHANGED decided /\ TreeHits' = TreeHits
    BY <1>1 DEF BurstOK, Aiming, TreeHits, KillVerify
  <1> DEFINE s == steps[task.now]
             d == IF Verified(s) /\ ~Refused(s) THEN task.doomed ELSE Front(task.doomed)
  <1>3. /\ task.doomed \in Seq(HandleSet) /\ Len(task.doomed) > 0
        /\ Len(task.doomed) + Cardinality(task.todo) <= MaxTargets
        /\ IsFiniteSet(task.todo) /\ Cardinality(task.todo) \in Nat
    BY <1>1, FS_CardinalityType DEF TreeOK, BurstOK
  <1>4. Len(d) \in {Len(task.doomed), Len(task.doomed) - 1} /\ Len(task.doomed) \in Nat
    <2>1. Len(Front(task.doomed)) = Len(task.doomed) - 1
      BY <1>3 DEF Front
    <2> QED
      BY <1>3, <2>1
  <1>5. task' = [task EXCEPT !.stage = "pin", !.doomed = d]
    BY DEF KillVerify
  <1> HIDE DEF d
  <1>6. task'.op = "tree" /\ task'.stage = "pin" /\ task'.todo = task.todo /\ task'.doomed = d
    BY <1>1, <1>5 DEF TreeOK
  <1>7. Len(task'.doomed) + Cardinality(task'.todo) <= MaxTargets
    BY <1>3, <1>4, <1>6, Numbers
  <1> QED
    BY <1>2, <1>3, <1>6, <1>7, BurstAside

\* The decision: there has been no signal yet.
LEMMA BurstOfDecide ==
  ASSUME Guarded, BurstOK, Decide
  PROVE  BurstOK'
  <1>1. TreeOK /\ task.op = "tree" /\ task.stage = "pin" /\ task.doomed \in Seq(HandleSet)
    BY InTree DEF Guarded, Decide, Tree, TreeOK
  <1>2. ~decided /\ TreeHits = {} /\ TreeHits' = {} /\ OneBurst'
    BY <1>1 DEF BurstOK, Aiming, Decide, TreeHits, OneBurst
  <1>3. CASE task' = Idle
    <2>1. ~Pursuit' /\ ~Aiming' /\ task'.op # "tree"
      BY <1>3 DEF Pursuit, Aiming, Idle
    <2> QED
      BY <1>2, <2>1, FS_EmptySet DEF BurstOK
  <1>4. CASE task.doomed # <<>> /\ task' = [task EXCEPT !.stage = "stop"]
    <2>1. /\ task'.op = "tree" /\ task'.stage = "stop" /\ task'.todo = task.todo
          /\ task'.doomed = task.doomed
      BY <1>1, <1>4 DEF TreeOK
    <2>2. decided' /\ ~Aiming' /\ Aimed'
      BY <1>2, <1>4, <2>1 DEF Decide, Aiming, Aimed
    <2>3. /\ IsFiniteSet(task'.todo)
          /\ Len(task'.doomed) + Cardinality(task'.todo) <= MaxTargets
      BY <1>1, <2>1 DEF BurstOK
    <2> QED
      BY <1>2, <2>2, <2>3, FS_EmptySet DEF BurstOK
  <1> QED
    BY <1>3, <1>4 DEF Decide

\* A signal of either pass goes to a process that has had none, or has had the same.
LEMMA BurstOfSignal ==
  ASSUME Guarded, BurstOK, Stop \/ Kill
  PROVE  BurstOK'
  <1> DEFINE n == Len(task.doomed)
  <1>1. TreeOK /\ Pursuit /\ Aimed /\ decided /\ UNCHANGED <<steps, truncated, decided, world>>
    BY InTree DEF Guarded, Stop, Kill, Tree, Pursuit, BurstOK, KillKeeps
  <1>2. /\ task.doomed \in Seq(HandleSet) /\ n \in Nat /\ n <= MaxTargets
        /\ \A k \in 1 .. n : task.doomed[k] \in HandleSet /\ task.doomed[k].start <= world
    <2>1. /\ task.doomed \in Seq(HandleSet) /\ IsFiniteSet(task.todo)
          /\ Len(task.doomed) + Cardinality(task.todo) <= MaxTargets
      BY <1>1 DEF BurstOK, Pursuit, TreeOK
    <2>2. Cardinality(task.todo) \in Nat /\ Len(task.doomed) \in Nat
      BY <2>1, FS_CardinalityType
    <2>3. n \in Nat /\ n <= MaxTargets
      BY <2>1, <2>2, Numbers
    <2> QED
      BY <1>1, <2>1, <2>3 DEF TreeOK
  <1>3. PICK d \in HandleSet : d = task.doomed[task.at] /\ task.at \in 1 .. n /\ d.start <= world
    BY <1>1, <1>2 DEF TreeOK, Pursuit
  <1>4. Kept
    BY SignalStep
  <1>5. \/ UNCHANGED <<proc, hits>>
        \/ /\ Holds(d) /\ hits' = hits \cup {Hit("tree", d.pid)}
           /\ \/ proc' = [proc EXCEPT ![d.pid].stopped = TRUE]
              \/ proc' = Ended(d.pid)
    BY <1>3 DEF Stop, Kill
  <1>6. \/ task' = Idle
        \/ task'.op = "tree" /\ task'.doomed = task.doomed /\ task'.todo = task.todo /\ Pursuit'
    <2>1. \/ task' = [task EXCEPT !.at = @ + 1]
          \/ task' = [task EXCEPT !.stage = "kill", !.at = 1]
          \/ task' = Idle
      BY DEF Stop, Kill, Next1
    <2> QED
      BY <1>1, <2>1 DEF TreeOK, Pursuit
  <1> HIDE DEF n
  <1>7. ASSUME NEW h \in TreeHits
        PROVE  /\ h.when = <<Len(steps), truncated>>
               /\ \E k \in 1 .. n : task.doomed[k].pid = h.pid /\ task.doomed[k].start = h.start
               /\ Of(h, h.pid)' => proc'[h.pid].stopped /\ proc'[h.pid].ran = h.ran
    <2>1. /\ h.when = <<Len(steps), truncated>>
          /\ \E k \in 1 .. n : task.doomed[k].pid = h.pid /\ task.doomed[k].start = h.start
          /\ Of(h, h.pid) => proc[h.pid].stopped /\ proc[h.pid].ran = h.ran
      BY <1>1 DEF Aimed, n
    <2>2. PICK g \in HandleSet : g.start <= world /\ g.pid = h.pid /\ g.start = h.start
      BY <1>2, <2>1
    <2>3. Of(h, h.pid)' => Holds(g)'
      BY <2>2 DEF Of, Holds
    <2>4. Holds(g) => Of(h, h.pid)
      BY <2>2 DEF Of, Holds
    <2> QED
      BY <1>4, <2>1, <2>2, <2>3, <2>4 DEF Kept
  <1> DEFINE new == Hit("tree", d.pid)
  <1>8. ASSUME Holds(d)
        PROVE  /\ new = [by |-> "tree", pid |-> d.pid, start |-> d.start,
                         ran |-> proc[d.pid].ran, when |-> <<Len(steps), truncated>>]
               /\ \A h \in TreeHits : h.pid = d.pid /\ h.start = d.start => h = new
    <2>1. new = [by |-> "tree", pid |-> d.pid, start |-> d.start,
                 ran |-> proc[d.pid].ran, when |-> <<Len(steps), truncated>>]
      BY <1>8 DEF Hit, Holds
    <2>2. ASSUME NEW h \in TreeHits, h.pid = d.pid, h.start = d.start
          PROVE  h = new
      <3>1. Of(h, h.pid)
        BY <1>8, <2>2 DEF Of, Holds
      <3>2. h.when = <<Len(steps), truncated>> /\ h.ran = proc[d.pid].ran
        BY <1>1, <2>2, <3>1 DEF Aimed
      <3>3. h = [by |-> "tree", pid |-> h.pid, start |-> h.start, ran |-> h.ran,
                 when |-> h.when]
        BY DEF BurstOK
      <3> QED
        BY <2>1, <2>2, <3>2, <3>3
    <2> QED
      BY <2>1, <2>2
  <1> HIDE DEF new
  <1>9. ASSUME Holds(d), proc' = [proc EXCEPT ![d.pid].stopped = TRUE] \/ proc' = Ended(d.pid),
               proc'[d.pid] # Nobody
        PROVE  proc'[d.pid].stopped /\ proc'[d.pid].ran = proc[d.pid].ran
    <2>1. d.pid \in Pids /\ proc[d.pid] \in Process
      BY <1>3, <1>9 DEF HandleSet, Guarded, ProcOK, Holds
    <2>2. proc' = [proc EXCEPT ![d.pid].stopped = TRUE]
      BY <1>9, <2>1 DEF Ended
    <2> DEFINE r == proc[d.pid]
               m == proc'[d.pid]
    <2>3. r \in Process /\ m = [r EXCEPT !.stopped = TRUE]
      BY <2>1, <2>2 DEF Guarded, ProcOK
    <2> HIDE DEF r, m
    <2>4. m.stopped /\ m.ran = r.ran
      BY <2>3 DEF Process
    <2> QED
      BY <2>4 DEF r, m
  <1>10. \/ TreeHits' = TreeHits
         \/ TreeHits' = TreeHits \cup {new} /\ Holds(d)
    <2>1. Holds(d) => new.by = "tree"
      BY <1>8
    <2> QED
      BY <1>5, <2>1 DEF TreeHits, new
  <1>11. ASSUME NEW h \in TreeHits'
         PROVE  /\ h.when = <<Len(steps), truncated>>
                /\ \E k \in 1 .. n : task.doomed[k].pid = h.pid /\ task.doomed[k].start = h.start
                /\ Of(h, h.pid)' => proc'[h.pid].stopped /\ proc'[h.pid].ran = h.ran
                /\ h = [by |-> "tree", pid |-> h.pid, start |-> h.start, ran |-> h.ran,
                        when |-> h.when]
    <2>1. CASE h \in TreeHits
      BY <1>7, <2>1 DEF BurstOK
    <2>2. CASE h \notin TreeHits
      <3>1. h = new /\ Holds(d) /\ hits' # hits
        BY <1>10, <2>2 DEF TreeHits
      <3>2. h.pid = d.pid /\ h.start = d.start /\ h.ran = proc[d.pid].ran
            /\ h.when = <<Len(steps), truncated>>
            /\ h = [by |-> "tree", pid |-> h.pid, start |-> h.start, ran |-> h.ran,
                    when |-> h.when]
        BY <1>8, <3>1
      <3>3. Of(h, h.pid)' => proc'[h.pid].stopped /\ proc'[h.pid].ran = h.ran
        BY <1>5, <1>9, <3>1, <3>2 DEF Of
      <3> QED
        BY <1>3, <3>2, <3>3
    <2> QED
      BY <2>1, <2>2
  <1>12. \A h, g \in TreeHits' : h.pid = g.pid /\ h.start = g.start => h = g
    <2>1. \A h, g \in TreeHits : h.pid = g.pid /\ h.start = g.start => h = g
      BY DEF BurstOK
    <2>2. Holds(d) => new.pid = d.pid /\ new.start = d.start
      BY <1>8
    <2> QED
      BY <1>8, <1>10, <2>1, <2>2
  <1>13. OneBurst'
    <2> DEFINE S == TreeHits'
    <2> HIDE DEF S
    <2>1. /\ \A h \in S : \E k \in 1 .. Len(task.doomed) :
               task.doomed[k].pid = h.pid /\ task.doomed[k].start = h.start
          /\ \A h, g \in S : h.pid = g.pid /\ h.start = g.start => h = g
      BY <1>11, <1>12 DEF S, n
    <2>2. IsFiniteSet(S) /\ Cardinality(S) <= Len(task.doomed)
      BY <1>2, <2>1, FewHits
    <2>3. Cardinality(S) \in Nat
      BY <2>2, FS_CardinalityType
    <2>4. Cardinality(TreeHits') <= MaxTargets
      BY <1>2, <2>2, <2>3, Numbers DEF n, S
    <2>5. \A h, g \in TreeHits' : h.when = g.when
      BY <1>11
    <2> QED
      BY <2>4, <2>5 DEF OneBurst, TreeHits
  <1>14. CASE task' = Idle
    <2>1. task'.op # "tree" /\ ~Pursuit' /\ ~Aiming'
      BY <1>14 DEF Idle, Pursuit, Aiming
    <2> QED
      BY <1>1, <1>11, <1>12, <1>13, <2>1 DEF BurstOK
  <1>15. CASE task'.op = "tree" /\ task'.doomed = task.doomed /\ task'.todo = task.todo /\ Pursuit'
    <2>1. Aimed'
      BY <1>1, <1>11, <1>15 DEF Aimed, n
    <2>2. ~Aiming'
      BY <1>15 DEF Pursuit, Aiming
    <2>3. IsFiniteSet(task'.todo) /\ Len(task'.doomed) + Cardinality(task'.todo) <= MaxTargets
      BY <1>1, <1>15 DEF BurstOK, Pursuit
    <2> QED
      BY <1>1, <1>11, <1>12, <1>13, <2>1, <2>2, <2>3 DEF BurstOK
  <1> QED
    BY <1>6, <1>14, <1>15

LEMMA BurstOfRest ==
  ASSUME Guarded, BurstOK,
         \/ World
         \/ \E m \in {"off", "log", "kill"} : SetKill(m)
         \/ \E i \in 1 .. LastStep : Lose(i)
         \/ Restart
         \/ UNCHANGED vars
  PROVE  BurstOK'
  <1>1. CASE World
    <2>1. UNCHANGED <<task, decided, steps, truncated, hits>>
      BY <1>1 DEF World, Start, Exec, Become, Exit, Acts, Quiet, daemon
    <2> QED
      BY <1>1, <2>1, WorldFacts, BurstStays DEF Guarded
  <1>2. CASE \/ \E m \in {"off", "log", "kill"} : SetKill(m)
             \/ \E i \in 1 .. LastStep : Lose(i)
             \/ UNCHANGED vars
    <2>1. UNCHANGED <<proc, world, task, decided, steps, truncated, hits>>
      BY <1>2 DEF SetKill, Lose, vars, daemon, bounds
    <2> QED
      BY <2>1, StillFacts, BurstStays
  <1>3. CASE Restart
    <2>1. TreeHits' = {} /\ task'.op # "tree" /\ ~decided'
      BY <1>3 DEF Restart, TreeHits, Idle
    <2>2. OneBurst'
      <3>1. Cardinality({}) = 0
        BY FS_EmptySet
      <3>2. {h \in hits' : h.by = "tree"} = {}
        BY <2>1 DEF TreeHits
      <3> QED
        BY <3>1, <3>2, Numbers DEF OneBurst
    <2> QED
      BY <2>1, <2>2 DEF BurstOK, Pursuit, Aiming
  <1> QED
    BY <1>1, <1>2, <1>3

\* What is signalled was aimed at in one look and decided upon once.
THEOREM BurstInvariance == Spec => [](Guarded /\ BurstOK)
  <1>1. Init => Guarded /\ BurstOK
    <2> SUFFICES ASSUME Init PROVE BurstOK
      BY Initially
    <2>1. TreeHits = {} /\ task.op # "tree" /\ ~decided
      BY DEF Init, TreeHits, Idle
    <2>2. OneBurst
      <3>1. Cardinality({}) = 0
        BY FS_EmptySet
      <3> QED
        BY <2>1, <3>1, Numbers DEF OneBurst, TreeHits
    <2> QED
      BY <2>1, <2>2 DEF BurstOK, Pursuit, Aiming
  <1>2. (Guarded /\ BurstOK) /\ [Next]_vars => (Guarded /\ BurstOK)'
    BY Step, BurstOfRest, BurstOfRaise, BurstOfEnforce, BurstOfPin, BurstOfVerify,
       BurstOfDecide, BurstOfSignal, BurstOfCommand DEF Next
  <1> QED
    BY <1>1, <1>2, PTL DEF Spec

\* "One decision per chain": the tree kill of a chain signals MaxTargets processes at most,
\* all after one look, however long the chain grows and whatever is born, exits or is
\* asked meanwhile (maybe_kill_tree, killed_chains).
THEOREM OneBurstAlways == Spec => []OneBurst
  <1>1. BurstOK => OneBurst
    BY DEF BurstOK
  <1> QED
    BY <1>1, BurstInvariance, PTL

-----------------------------------------------------------------------------
(* None is left that was meant. *)

\* q is the process r, which has done nothing since.
Like(q, r) ==
  q # Nobody /\ q.start = r.start /\ q.exe = r.exe /\ q.ran = r.ran /\ q.guarded = r.guarded

\* A process that is meant was there when the kill began; if it still is, it has run
\* what it had run, and perhaps more.
Aged(m) ==
  /\ m \in Pids \X Process /\ m[2].start <= world
  /\ proc[m[1]] # Nobody /\ proc[m[1]].start = m[2].start =>
       Len(m[2].ran) <= Len(proc[m[1]].ran) /\ (m[2].guarded => proc[m[1]].guarded)

\* It is still to be pinned, or was pinned and waits to be verified, or to be signalled.
HandleOf(m) == [pid |-> m[1], start |-> m[2].start]
Fits(i, m) ==
  /\ i \in DOMAIN steps /\ steps[i].pid = m[1] /\ Readable(i)
  /\ Distance(m[2].start, steps[i].start) <= Tolerance /\ m[2].exe = steps[i].exe
  /\ ~m[2].guarded
Awaited(m) ==
  \/ Aiming /\ \E i \in task.todo : Fits(i, m)
  \/ /\ task.stage = "verify" /\ Fits(task.now, m)
     /\ task.doomed[Len(task.doomed)] = HandleOf(m)
  \/ \E k \in 1 .. Len(task.doomed) :
       /\ task.doomed[k] = HandleOf(m)
       /\ task.stage = "verify" => k < Len(task.doomed)
       /\ task.stage = "kill" => task.at <= k

\* What a tree kill is meant for and has done nothing since is not forgotten.
MeantOK ==
  task.op = "tree" =>
    \A m \in task.meant :
      /\ Aged(m)
      /\ ~task.missed /\ Cardinality(Targets(steps)) <= MaxTargets /\ Like(proc[m[1]], m[2])
           => Awaited(m)

\* What a step may do to whatever has the pid p: it ends, it is a new process, or it goes
\* on, and it shows if it did anything.
Ages(p) ==
  proc'[p] # Nobody =>
    \/ proc'[p].start > world
    \/ /\ proc[p] # Nobody /\ proc'[p].start = proc[p].start
       /\ \/ Len(proc[p].ran) < Len(proc'[p].ran) /\ (proc[p].guarded => proc'[p].guarded)
          \/ /\ proc'[p].ran = proc[p].ran
             /\ ~proc[p].guarded /\ proc'[p].guarded
          \/ /\ proc'[p].ran = proc[p].ran /\ proc'[p].exe = proc[p].exe
             /\ proc'[p].guarded = proc[p].guarded

\* A process that is still as it was meant to be was so before.
LEMMA AgesFacts ==
  ASSUME ProcOK, ProcOK', world' \in {world, world + 1}, NEW m, Aged(m), Ages(m[1])
  PROVE  Aged(m)' /\ (Like(proc'[m[1]], m[2]) => Like(proc[m[1]], m[2]))
  <1> DEFINE q == proc[m[1]]
             n == proc'[m[1]]
             r == m[2]
  <1>1. /\ m[1] \in Pids /\ r \in Process /\ r.start <= world /\ world \in Nat
        /\ q # Nobody => q \in Process
        /\ n # Nobody => n \in Process
    BY Numbers DEF Aged, ProcOK
  <1>2. /\ q # Nobody /\ q.start = r.start => Len(r.ran) <= Len(q.ran) /\ (r.guarded => q.guarded)
        /\ n # Nobody =>
             \/ n.start > world
             \/ /\ q # Nobody /\ n.start = q.start
                /\ \/ Len(q.ran) < Len(n.ran) /\ (q.guarded => n.guarded)
                   \/ n.ran = q.ran /\ ~q.guarded /\ n.guarded
                   \/ n.ran = q.ran /\ n.exe = q.exe /\ n.guarded = q.guarded
    BY DEF Aged, Ages
  <1> HIDE DEF q, n, r
  <1>3. /\ r.start \in Nat /\ Len(r.ran) \in Nat /\ r.start <= world'
        /\ q # Nobody => q.start \in Nat /\ Len(q.ran) \in Nat
        /\ n # Nobody => n.start \in Nat /\ Len(n.ran) \in Nat
    BY <1>1, Numbers DEF Process
  <1>4. ASSUME n # Nobody, n.start = r.start
        PROVE  /\ q # Nobody /\ q.start = r.start
               /\ Len(r.ran) <= Len(n.ran) /\ (r.guarded => n.guarded)
               /\ n.ran = r.ran /\ n.exe = r.exe /\ n.guarded = r.guarded => Like(q, r)
    <2>1. q # Nobody /\ q.start = r.start /\ ~(n.start > world)
      BY <1>1, <1>2, <1>3, <1>4
    <2>2. Len(r.ran) <= Len(q.ran) /\ Len(q.ran) <= Len(n.ran) /\ (r.guarded => n.guarded)
      BY <1>2, <1>3, <1>4, <2>1
    <2>3. Len(r.ran) <= Len(n.ran)
      BY <1>3, <1>4, <2>1, <2>2
    <2>4. ASSUME n.ran = r.ran, n.exe = r.exe, n.guarded = r.guarded
          PROVE  Like(q, r)
      <3>1. ~(Len(q.ran) < Len(n.ran))
        BY <1>3, <1>4, <2>1, <2>2, <2>4
      <3>2. ~(~q.guarded /\ n.guarded)
        BY <1>2, <2>1, <2>4
      <3> QED
        BY <1>2, <1>4, <2>1, <2>4, <3>1, <3>2 DEF Like
    <2> QED
      BY <2>1, <2>2, <2>3, <2>4
  <1>5. Like(n, r) => Like(q, r)
    BY <1>4 DEF Like
  <1>6. Aged(m)'
    BY <1>1, <1>3, <1>4 DEF Aged, q, n, r
  <1> QED
    BY <1>5, <1>6 DEF q, n, r

LEMMA AgesOfNothing ==
  ASSUME UNCHANGED proc, NEW p
  PROVE  Ages(p)
  BY DEF Ages

LEMMA AgesOfEnded ==
  ASSUME ProcOK, NEW q \in Pids, proc' = Ended(q), NEW p \in Pids
  PROVE  Ages(p)
  <1>1. CASE proc'[p] \in {Nobody, proc[p]}
    BY <1>1 DEF Ages
  <1>2. CASE proc[p] # Nobody /\ proc'[p] = [proc[p] EXCEPT !.parent = Init1]
    <2> DEFINE r == proc[p]
               n == proc'[p]
    <2>1. r \in Process /\ r # Nobody /\ n = [r EXCEPT !.parent = Init1]
      BY <1>2 DEF ProcOK
    <2> HIDE DEF r, n
    <2>2. n.start = r.start /\ n.ran = r.ran /\ n.exe = r.exe /\ n.guarded = r.guarded
      BY <2>1 DEF Process
    <2> QED
      BY <2>1, <2>2 DEF Ages, r, n
  <1> QED
    BY <1>1, <1>2 DEF Ended

LEMMA AgesOfStop ==
  ASSUME ProcOK, NEW q \in Live, proc' = [proc EXCEPT ![q].stopped = TRUE], NEW p \in Pids
  PROVE  Ages(p)
  <1>1. CASE p # q
    BY <1>1 DEF Ages, ProcOK, Live
  <1>2. CASE p = q
    <2> DEFINE r == proc[p]
               n == proc'[p]
    <2>1. r \in Process /\ r # Nobody /\ n = [r EXCEPT !.stopped = TRUE]
      BY <1>2 DEF ProcOK, Live
    <2> HIDE DEF r, n
    <2>2. n.start = r.start /\ n.ran = r.ran /\ n.exe = r.exe /\ n.guarded = r.guarded
      BY <2>1 DEF Process
    <2> QED
      BY <2>1, <2>2 DEF Ages, r, n
  <1> QED
    BY <1>1, <1>2

LEMMA AgesOfWorld ==
  ASSUME ProcOK, World, NEW p \in Pids
  PROVE  Ages(p)
  <1>1. ASSUME NEW x \in Pids, NEW y \in Pids, Start(x, y)
        PROVE  Ages(p)
    <2> DEFINE born == [start |-> world + 1, exe |-> proc[y].exe, ran |-> <<proc[y].exe>>,
                        boxed |-> proc[y].boxed, guarded |-> proc[y].guarded,
                        stopped |-> FALSE, parent |-> y]
    <2>1. proc' = [proc EXCEPT ![x] = born] /\ born.start = world + 1 /\ world \in Nat
      BY <1>1, Numbers DEF Start, ProcOK
    <2> HIDE DEF born
    <2>2. CASE p = x
      <3>1. proc'[p] = born
        BY <2>1, <2>2 DEF ProcOK
      <3> QED
        BY <2>1, <3>1 DEF Ages
    <2>3. CASE p # x
      <3>1. proc'[p] = proc[p]
        BY <2>1, <2>3 DEF ProcOK
      <3> QED
        BY <3>1 DEF Ages
    <2> QED
      BY <2>2, <2>3
  <1>2. ASSUME NEW x \in Pids, NEW e \in Exes, Exec(x, e)
        PROVE  Ages(p)
    <2>1. x \in Live /\ proc' = [proc EXCEPT ![x].exe = e, ![x].ran = Append(@, e)]
      BY <1>2 DEF Exec, Awake
    <2>2. CASE p = x
      <3> DEFINE r == proc[p]
                 n == proc'[p]
                 then == Append(r.ran, e)
      <3>1. r \in Process /\ r # Nobody /\ n = [r EXCEPT !.exe = e, !.ran = then]
        BY <2>1, <2>2 DEF ProcOK, Live
      <3>2. then \in Seq(Exes) /\ Len(then) = Len(r.ran) + 1 /\ Len(r.ran) \in Nat
        BY <3>1 DEF Process
      <3> HIDE DEF r, n, then
      <3>3. n.start = r.start /\ n.ran = then /\ n.guarded = r.guarded
        BY <3>1 DEF Process
      <3> QED
        BY <3>1, <3>2, <3>3 DEF Ages, r, n
    <2>3. CASE p # x
      <3>1. proc'[p] = proc[p]
        BY <2>1, <2>3 DEF ProcOK
      <3> QED
        BY <3>1 DEF Ages
    <2> QED
      BY <2>2, <2>3
  <1>3. ASSUME NEW x \in Pids, Become(x)
        PROVE  Ages(p)
    <2>1. x \in Live /\ ~proc[x].guarded /\ proc' = [proc EXCEPT ![x].guarded = TRUE]
      BY <1>3 DEF Become, Awake
    <2>2. CASE p = x
      <3> DEFINE r == proc[p]
                 n == proc'[p]
      <3>1. r \in Process /\ r # Nobody /\ ~r.guarded /\ n = [r EXCEPT !.guarded = TRUE]
        BY <2>1, <2>2 DEF ProcOK, Live
      <3> HIDE DEF r, n
      <3>2. n.start = r.start /\ n.ran = r.ran /\ n.guarded
        BY <3>1 DEF Process
      <3> QED
        BY <3>1, <3>2 DEF Ages, r, n
    <2>3. CASE p # x
      <3>1. proc'[p] = proc[p]
        BY <2>1, <2>3 DEF ProcOK
      <3> QED
        BY <3>1 DEF Ages
    <2> QED
      BY <2>2, <2>3
  <1>4. ASSUME NEW x \in Pids, Exit(x)
        PROVE  Ages(p)
    BY <1>4, AgesOfEnded DEF Exit
  <1> QED
    BY <1>1, <1>2, <1>3, <1>4 DEF World

\* A step of a tree kill keeps MeantOK if it keeps what is awaited.
LEMMA MeantLasts ==
  ASSUME Guarded, Guarded', MeantOK, task.op = "tree", UNCHANGED <<steps, gone>>,
         world' \in {world, world + 1}, \A p \in Pids : Ages(p),
         task'.meant = task.meant, task'.missed = task.missed,
         \A m \in task.meant : Like(proc[m[1]], m[2]) /\ Like(proc'[m[1]], m[2]) /\ Awaited(m)
                                 => Awaited(m)'
  PROVE  MeantOK'
  <1>1. Targets(steps)' = Targets(steps)
    BY DEF Targets, Triggers, SpareTrunk, OnHost, Readable
  <1>2. ASSUME NEW m \in task.meant
        PROVE  /\ Aged(m)'
               /\ ~task.missed /\ Cardinality(Targets(steps)) <= MaxTargets /\ Like(proc'[m[1]], m[2])
                    => Awaited(m)'
    <2>1. Aged(m) /\ m[1] \in Pids
      BY DEF MeantOK, Aged
    <2>2. Aged(m)' /\ (Like(proc'[m[1]], m[2]) => Like(proc[m[1]], m[2]))
      BY <2>1, AgesFacts DEF Guarded
    <2> QED
      BY <2>2 DEF MeantOK
  <1> QED
    BY <1>1, <1>2 DEF MeantOK

\* A step that leaves the task alone keeps what is awaited.
LEMMA AwaitedStays ==
  ASSUME UNCHANGED <<task, steps, gone>>, NEW m
  PROVE  Awaited(m) => Awaited(m)'
  BY DEF Awaited, Aiming, Fits, Readable

\* All of a set that is not too large are among its first.
LEMMA FirstOfAll ==
  ASSUME NEW is, IsFiniteSet(is), NEW n \in Nat, Cardinality(is) <= n
  PROVE  FirstOf(is, n) = is
  <1> SUFFICES ASSUME NEW i \in is PROVE Cardinality({j \in is : j <= i}) <= n
    BY DEF FirstOf
  <1>1. /\ IsFiniteSet({j \in is : j <= i})
        /\ Cardinality({j \in is : j <= i}) <= Cardinality(is)
    BY FS_Subset
  <1>2. Cardinality({j \in is : j <= i}) \in Nat /\ Cardinality(is) \in Nat
    BY <1>1, FS_CardinalityType
  <1> QED
    BY <1>1, <1>2

\* What a tree kill is meant for are targets of it.
LEMMA ImplicatedAreTargets ==
  ASSUME NEW ss \in Seq(StepSet), NEW i \in Implicated(ss)
  PROVE  i \in Targets(ss) /\ i \in DOMAIN ss /\ Readable(i) /\ Verified(ss[i]) /\ ~Refused(ss[i])
  BY DEF Implicated, Targets, Triggers, OnHost

LEMMA MeantBegins ==
  ASSUME Guarded, Guarded', UNCHANGED gone, world' = world, \A p \in Pids : Ages(p),
         task' = TreeKill(steps')
  PROVE  MeantOK'
  <1> DEFINE ss == steps'
             meant == {<<ss[i].pid, proc[ss[i].pid]>> : i \in Implicated(ss)}
             todo == FirstOf(Targets(ss), MaxTargets)
  <1>1. ss \in Seq(StepSet)
    BY DEF Guarded, ChainOK
  <1>2. Targets(steps)' = Targets(ss) /\ \A i : Readable(i)' = Readable(i)
    BY DEF Targets, Triggers, SpareTrunk, OnHost, Readable
  <1>3. task' = [op |-> "tree", stage |-> "pin", todo |-> todo, now |-> 0, at |-> 1,
                 doomed |-> <<>>, missed |-> FALSE, meant |-> meant]
    BY DEF TreeKill
  <1> HIDE DEF todo
  <1>4. ASSUME NEW i \in Implicated(ss), NEW m, m = <<ss[i].pid, proc[ss[i].pid]>>
        PROVE  /\ Aged(m)'
               /\ Cardinality(Targets(ss)) <= MaxTargets => i \in todo /\ Fits(i, m)'
    <2>1. i \in Targets(ss) /\ i \in DOMAIN ss /\ Readable(i) /\ Verified(ss[i]) /\ ~Refused(ss[i])
      BY <1>1, ImplicatedAreTargets
    <2>2. /\ ss[i] \in StepSet /\ m[1] = ss[i].pid /\ m[2] = proc[m[1]] /\ m[1] \in Live
          /\ m[2] \in Process /\ m[2].start <= world
      BY <1>1, <1>4, <2>1 DEF Verified, Live, Guarded, ProcOK
    <2>3. Aged(m)
      <3>1. Len(m[2].ran) \in Nat
        BY <2>2 DEF Process
      <3> QED
        BY <1>4, <2>2, <3>1 DEF Aged, Live
    <2>4. Aged(m)'
      BY <2>2, <2>3, AgesFacts DEF Guarded, Live
    <2>5. /\ Distance(m[2].start, ss[i].start) <= Tolerance /\ m[2].exe = ss[i].exe
          /\ ~m[2].guarded
      BY <2>1, <2>2 DEF Verified, Refused
    <2>6. Fits(i, m)'
      BY <1>2, <2>1, <2>2, <2>5 DEF Fits
    <2>7. Cardinality(Targets(ss)) <= MaxTargets => i \in todo
      <3>1. Targets(ss) \subseteq 1 .. Len(ss) /\ Len(ss) \in Nat
        BY <1>1 DEF Targets, Triggers
      <3>2. IsFiniteSet(Targets(ss))
        BY <3>1, IntervalSize, FS_Subset
      <3> QED
        BY <2>1, <3>2, FirstOfAll, Numbers DEF todo
    <2> QED
      BY <2>4, <2>6, <2>7
  <1> HIDE DEF ss, meant
  <1>5. task'.op = "tree" /\ task'.stage = "pin" /\ task'.todo = todo /\ task'.meant = meant
    BY <1>3
  <1>6. ASSUME NEW m \in meant
        PROVE  /\ Aged(m)'
               /\ Cardinality(Targets(ss)) <= MaxTargets => Awaited(m)'
    <2>1. PICK i \in Implicated(ss) : m = <<ss[i].pid, proc[ss[i].pid]>>
      BY DEF meant
    <2>2. Aged(m)' /\ (Cardinality(Targets(ss)) <= MaxTargets => i \in todo /\ Fits(i, m)')
      BY <1>4, <2>1
    <2> QED
      BY <1>5, <2>2 DEF Awaited, Aiming
  <1> QED
    BY <1>2, <1>5, <1>6 DEF MeantOK, ss

LEMMA MeantOfConsider ==
  ASSUME Guarded, Guarded', UNCHANGED gone, world' = world, \A p \in Pids : Ages(p),
         NEW cutShort, Consider(steps', cutShort)
  PROVE  MeantOK'
  <1>1. CASE task' = Idle
    BY <1>1 DEF MeantOK, Idle
  <1> QED
    BY <1>1, MeantBegins DEF Consider

LEMMA MeantOfRaise ==
  ASSUME Guarded, Guarded', NEW p \in Pids, NEW k \in Kinds, Raise(p, k)
  PROVE  MeantOK'
  <1>1. UNCHANGED gone /\ world' = world /\ \A q \in Pids : Ages(q)
    BY AgesOfNothing DEF Raise, bounds
  <1>2. CASE task'.op = "enforce"
    BY <1>2 DEF MeantOK
  <1> QED
    BY <1>1, <1>2, MeantOfConsider DEF Raise

LEMMA MeantOfEnforce ==
  ASSUME Guarded, Guarded', EnforceVerify \/ EnforceSignal
  PROVE  MeantOK'
  <1>1. task.op = "enforce" /\ EnforceOK
    BY DEF Guarded, TaskOK, EnforceVerify, EnforceSignal, Idle, TreeOK, CommandOK
  <1>2. UNCHANGED <<steps, gone>> /\ world' = world
    BY DEF EnforceVerify, EnforceSignal, bounds
  <1>3. \A q \in Pids : Ages(q)
    <2>1. UNCHANGED proc \/ \E p \in Pids : proc' = Ended(p)
      BY DEF EnforceVerify, EnforceSignal, Live
    <2> QED
      BY <2>1, AgesOfNothing, AgesOfEnded DEF Guarded
  <1>4. CASE task' = [task EXCEPT !.stage = "signal"]
    <2>1. task'.op = "enforce"
      BY <1>1, <1>4 DEF EnforceOK
    <2> QED
      BY <2>1 DEF MeantOK
  <1>5. CASE Consider(steps, truncated)
    <2>1. Consider(steps', truncated)
      BY <1>2, <1>5
    <2> QED
      BY <1>2, <1>3, <2>1, MeantOfConsider
  <1> QED
    BY <1>4, <1>5 DEF EnforceVerify, EnforceSignal

LEMMA MeantOfPin ==
  ASSUME Guarded, Guarded', MeantOK, NEW i, KillPass(i) \/ KillPin(i) \/ KillPinFails(i)
  PROVE  MeantOK'
  <1>1. /\ TreeOK /\ task.op = "tree" /\ task.stage = "pin" /\ i \in task.todo
        /\ UNCHANGED <<steps, gone, proc, world>>
    BY InTree DEF Guarded, KillPass, KillPin, KillPinFails, Turn, Tree, KillKeeps
  <1>2. \A p \in Pids : Ages(p)
    BY <1>1, AgesOfNothing
  <1> DEFINE rest == task.todo \ {i}
             n == Len(task.doomed)
  <1>3. task.doomed \in Seq(HandleSet) /\ n \in Nat
    BY <1>1 DEF TreeOK
  <1> HIDE DEF rest, n
  <1>4. \A j, m : Fits(j, m)' = Fits(j, m)
    BY <1>1 DEF Fits, Readable
  <1>5. ASSUME NEW m, Awaited(m)
        PROVE  \/ \E j \in task.todo : Fits(j, m)
               \/ \E k \in 1 .. n : task.doomed[k] = HandleOf(m)
    BY <1>1, <1>5 DEF Awaited, n
  <1>6. CASE KillPass(i)
    <2>1. task' = [task EXCEPT !.todo = rest]
      BY <1>6 DEF KillPass, rest
    <2>2. /\ task'.op = "tree" /\ task'.stage = "pin" /\ task'.todo = rest
          /\ task'.doomed = task.doomed /\ task'.meant = task.meant /\ task'.missed = task.missed
      BY <1>1, <2>1 DEF TreeOK
    <2>3. ASSUME NEW m \in task.meant, Like(proc[m[1]], m[2]), Awaited(m)
          PROVE  Awaited(m)'
      <3>1. CASE \E j \in task.todo : Fits(j, m)
        <4>1. PICK j \in task.todo : Fits(j, m)
          BY <3>1
        <4>2. m[1] \in Live
          BY <1>1, <2>3 DEF MeantOK, Aged, Like, Live
        <4>3. j # i
          BY <1>6, <4>1, <4>2 DEF KillPass, Fits
        <4>4. j \in rest /\ Fits(j, m)'
          BY <1>4, <4>1, <4>3 DEF rest
        <4> QED
          BY <2>2, <4>4 DEF Awaited, Aiming
      <3>2. CASE \E k \in 1 .. n : task.doomed[k] = HandleOf(m)
        BY <2>2, <3>2 DEF Awaited, n
      <3> QED
        BY <1>5, <2>3, <3>1, <3>2
    <2> QED
      BY <1>1, <1>2, <2>2, <2>3, MeantLasts
  <1>7. CASE KillPinFails(i)
    <2>1. task' = [task EXCEPT !.todo = rest, !.missed = TRUE]
      BY <1>7 DEF KillPinFails, rest
    <2>2. task'.meant = task.meant /\ task'.missed = TRUE
      BY <1>1, <2>1 DEF TreeOK
    <2>3. \A m \in task.meant : Aged(m)'
      BY <1>1 DEF MeantOK, Aged
    <2> QED
      BY <2>2, <2>3 DEF MeantOK
  <1>8. CASE KillPin(i)
    <2> DEFINE h == Handle(steps[i].pid)
               d == Append(task.doomed, h)
    <2>1. task' = [task EXCEPT !.stage = "verify", !.todo = rest, !.now = i, !.doomed = d]
      BY <1>8 DEF KillPin, rest
    <2>2. h \in HandleSet
      BY <1>8, HandleFacts DEF KillPin, Guarded
    <2> HIDE DEF h
    <2>3. Len(d) = n + 1 /\ d[n + 1] = h /\ \A k \in 1 .. n : d[k] = task.doomed[k]
      BY <1>3, <2>2 DEF n
    <2> HIDE DEF d
    <2>4. /\ task'.op = "tree" /\ task'.stage = "verify" /\ task'.todo = rest /\ task'.now = i
          /\ task'.doomed = d /\ task'.meant = task.meant /\ task'.missed = task.missed
      BY <1>1, <2>1 DEF TreeOK
    <2>5. ASSUME NEW m \in task.meant, Like(proc[m[1]], m[2]), Awaited(m)
          PROVE  Awaited(m)'
      <3>1. CASE Fits(i, m)
        <4>1. h = HandleOf(m)
          BY <2>5, <3>1 DEF h, Handle, HandleOf, Fits, Like
        <4>2. task'.doomed[Len(task'.doomed)] = HandleOf(m)
          BY <2>3, <2>4, <4>1
        <4> QED
          BY <1>4, <2>4, <3>1, <4>2 DEF Awaited, HandleOf
      <3>2. CASE \E j \in rest : Fits(j, m)
        BY <1>4, <2>4, <3>2 DEF Awaited, Aiming
      <3>3. CASE \E k \in 1 .. n : task.doomed[k] = HandleOf(m)
        <4>1. PICK k \in 1 .. n : task.doomed[k] = HandleOf(m)
          BY <3>3
        <4>2. k \in 1 .. Len(d) /\ k < Len(d) /\ d[k] = HandleOf(m)
          BY <1>3, <2>3, <4>1
        <4> QED
          BY <2>4, <4>2 DEF Awaited, HandleOf
      <3> QED
        BY <1>5, <2>5, <3>1, <3>2, <3>3 DEF rest
    <2> QED
      BY <1>1, <1>2, <2>4, <2>5, MeantLasts
  <1> QED
    BY <1>6, <1>7, <1>8

LEMMA MeantOfVerify ==
  ASSUME Guarded, Guarded', MeantOK, KillVerify
  PROVE  MeantOK'
  <1>1. /\ TreeOK /\ task.op = "tree" /\ task.stage = "verify"
        /\ UNCHANGED <<steps, gone, proc, world>>
    BY InTree DEF Guarded, KillVerify, Tree, KillKeeps
  <1>2. \A p \in Pids : Ages(p)
    BY <1>1, AgesOfNothing
  <1> DEFINE s == steps[task.now]
             d == IF Verified(s) /\ ~Refused(s) THEN task.doomed ELSE Front(task.doomed)
             n == Len(task.doomed)
  <1>3. task.doomed \in Seq(HandleSet) /\ n \in Nat /\ n > 0
    BY <1>1 DEF TreeOK
  <1>4. /\ Verified(s) /\ ~Refused(s) => Len(d) = n /\ \A k \in 1 .. n : d[k] = task.doomed[k]
        /\ Len(d) >= n - 1 /\ Len(d) \in Nat /\ \A k \in 1 .. n - 1 : d[k] = task.doomed[k]
    <2>1. /\ Len(Front(task.doomed)) = n - 1
          /\ \A k \in 1 .. n - 1 : Front(task.doomed)[k] = task.doomed[k]
      BY <1>3 DEF Front
    <2> QED
      BY <1>3, <2>1
  <1>5. task' = [task EXCEPT !.stage = "pin", !.doomed = d]
    BY DEF KillVerify
  <1> HIDE DEF d, n
  <1>6. /\ task'.op = "tree" /\ task'.stage = "pin" /\ task'.todo = task.todo
        /\ task'.doomed = d /\ task'.meant = task.meant /\ task'.missed = task.missed
    BY <1>1, <1>5 DEF TreeOK
  <1>7. \A j, m : Fits(j, m)' = Fits(j, m)
    BY <1>1 DEF Fits, Readable
  <1>8. ASSUME NEW m \in task.meant, Like(proc[m[1]], m[2]), Awaited(m)
        PROVE  Awaited(m)'
    <2>1. CASE \E j \in task.todo : Fits(j, m)
      BY <1>6, <1>7, <2>1 DEF Awaited, Aiming
    <2>2. CASE Fits(task.now, m) /\ task.doomed[n] = HandleOf(m)
      <3>1. m[1] \in Live
        BY <1>1, <1>8 DEF MeantOK, Aged, Like, Live
      <3>2. Verified(s) /\ ~Refused(s)
        BY <1>8, <2>2, <3>1 DEF Fits, Like, Verified, Refused
      <3>3. n \in 1 .. Len(d) /\ d[n] = HandleOf(m)
        BY <1>3, <1>4, <2>2, <3>2
      <3> QED
        BY <1>6, <3>3 DEF Awaited, HandleOf
    <2>3. CASE \E k \in 1 .. n : task.doomed[k] = HandleOf(m) /\ k < n
      <3>1. PICK k \in 1 .. n : task.doomed[k] = HandleOf(m) /\ k < n
        BY <2>3
      <3>2. k \in 1 .. n - 1 /\ k \in 1 .. Len(d)
        BY <1>3, <1>4, <3>1
      <3>3. d[k] = HandleOf(m)
        BY <1>4, <3>1, <3>2
      <3> QED
        BY <1>6, <3>2, <3>3 DEF Awaited, HandleOf
    <2> QED
      BY <1>1, <1>8, <2>1, <2>2, <2>3 DEF Awaited, n
  <1> QED
    BY <1>1, <1>2, <1>6, <1>8, MeantLasts

LEMMA MeantOfDecide ==
  ASSUME Guarded, Guarded', MeantOK, Decide
  PROVE  MeantOK'
  <1>1. /\ TreeOK /\ task.op = "tree" /\ task.stage = "pin" /\ task.todo = {}
        /\ UNCHANGED <<steps, gone, proc, world>>
    BY InTree DEF Guarded, Decide, Tree, KillKeeps
  <1>2. \A p \in Pids : Ages(p)
    BY <1>1, AgesOfNothing
  <1>3. CASE task' = Idle
    BY <1>3 DEF MeantOK, Idle
  <1>4. CASE task' = [task EXCEPT !.stage = "stop"]
    <2>1. /\ task'.op = "tree" /\ task'.stage = "stop" /\ task'.doomed = task.doomed
          /\ task'.meant = task.meant /\ task'.missed = task.missed
      BY <1>1, <1>4 DEF TreeOK
    <2>2. ASSUME NEW m, Awaited(m)
          PROVE  Awaited(m)'
      <3>1. PICK k \in 1 .. Len(task.doomed) : task.doomed[k] = HandleOf(m)
        BY <1>1, <2>2 DEF Awaited
      <3> QED
        BY <2>1, <3>1 DEF Awaited, HandleOf
    <2> QED
      BY <1>1, <1>2, <2>1, <2>2, MeantLasts
  <1> QED
    BY <1>3, <1>4 DEF Decide

\* What the second pass has been through is gone.
LEMMA KilledIsGone ==
  ASSUME Guarded, Kill, NEW m, task.doomed[task.at] = HandleOf(m), Like(proc[m[1]], m[2])
  PROVE  ~Like(proc'[m[1]], m[2])
  <1> DEFINE h == task.doomed[task.at]
  <1>1. TreeOK /\ task.at \in 1 .. Len(task.doomed)
    BY InTree DEF Guarded, Kill, Tree, TreeOK
  <1>2. h \in HandleSet /\ h.pid = m[1] /\ h.start = m[2].start
    BY <1>1 DEF TreeOK, HandleOf
  <1>3. Holds(h)
    BY <1>2 DEF Holds, Like
  <1>4. proc' = Ended(h.pid)
    BY <1>3 DEF Kill
  <1>5. proc'[m[1]] = Nobody
    BY <1>2, <1>4 DEF Ended, HandleSet
  <1> QED
    BY <1>5 DEF Like

LEMMA MeantOfSignal ==
  ASSUME Guarded, Guarded', MeantOK, Stop \/ Kill
  PROVE  MeantOK'
  <1>1. /\ TreeOK /\ task.op = "tree" /\ task.stage \in {"stop", "kill"}
        /\ UNCHANGED <<steps, gone, world>>
    BY InTree DEF Guarded, Stop, Kill, Tree, KillKeeps
  <1>2. PICK h \in HandleSet : h = task.doomed[task.at] /\ task.at \in 1 .. Len(task.doomed)
    BY <1>1 DEF TreeOK
  <1>3. \A p \in Pids : Ages(p)
    <2>1. \/ UNCHANGED proc
          \/ h.pid \in Live /\ proc' = [proc EXCEPT ![h.pid].stopped = TRUE]
          \/ proc' = Ended(h.pid)
      BY <1>2 DEF Stop, Kill, Holds, Live, HandleSet
    <2> QED
      BY <2>1, AgesOfNothing, AgesOfStop, AgesOfEnded DEF Guarded, HandleSet
  <1>4. CASE task' = Idle
    BY <1>4 DEF MeantOK, Idle
  <1>5. CASE Stop /\ task' # Idle
    <2>1. task' \in {[task EXCEPT !.at = @ + 1], [task EXCEPT !.stage = "kill", !.at = 1]}
      BY <1>5 DEF Stop, Next1
    <2>2. /\ task'.op = "tree" /\ task'.doomed = task.doomed /\ task.stage = "stop"
          /\ task'.meant = task.meant /\ task'.missed = task.missed
          /\ \/ task'.stage = "stop"
             \/ task'.stage = "kill" /\ task'.at = 1
      BY <1>1, <1>5, <2>1 DEF TreeOK, Stop, Tree
    <2>3. ASSUME NEW m, Awaited(m)
          PROVE  Awaited(m)'
      <3>1. PICK k \in 1 .. Len(task.doomed) : task.doomed[k] = HandleOf(m)
        BY <2>2, <2>3 DEF Awaited, Aiming
      <3>2. 1 <= k
        BY <1>1, <3>1 DEF TreeOK
      <3> QED
        BY <2>2, <3>1, <3>2 DEF Awaited, HandleOf
    <2> QED
      BY <1>1, <1>3, <2>2, <2>3, MeantLasts
  <1>6. CASE Kill /\ task' # Idle
    <2>1. task' = [task EXCEPT !.at = @ + 1]
      BY <1>6 DEF Kill, Next1
    <2>2. /\ task'.op = "tree" /\ task'.doomed = task.doomed /\ task.stage = "kill"
          /\ task'.meant = task.meant /\ task'.missed = task.missed
          /\ task'.stage = "kill" /\ task'.at = task.at + 1
      BY <1>1, <1>6, <2>1 DEF TreeOK, Kill, Tree
    <2>3. ASSUME NEW m, Like(proc[m[1]], m[2]), Like(proc'[m[1]], m[2]), Awaited(m)
          PROVE  Awaited(m)'
      <3>1. PICK k \in 1 .. Len(task.doomed) : task.doomed[k] = HandleOf(m) /\ task.at <= k
        BY <2>2, <2>3 DEF Awaited, Aiming
      <3>2. k # task.at
        BY <1>6, <2>3, <3>1, KilledIsGone
      <3>3. task.at + 1 <= k
        BY <1>2, <3>1, <3>2
      <3> QED
        BY <2>2, <3>1, <3>3 DEF Awaited, HandleOf
    <2> QED
      BY <1>1, <1>3, <2>2, <2>3, MeantLasts
  <1> QED
    BY <1>4, <1>5, <1>6

LEMMA MeantOfRest ==
  ASSUME Guarded, Guarded', MeantOK,
         \/ World
         \/ \E i \in 1 .. LastStep : CommandKill(i)
         \/ CommandVerify \/ CommandPin \/ CommandSignal \/ CommandFinish
         \/ \E m \in {"off", "log", "kill"} : SetKill(m)
         \/ \E i \in 1 .. LastStep : Lose(i)
         \/ Restart
         \/ UNCHANGED vars
  PROVE  MeantOK'
  <1>1. CASE task.op = "tree" /\ ~Restart
    <2>1. World \/ UNCHANGED vars
      <3>1. task # Idle /\ task.op # "kill"
        BY <1>1 DEF Idle
      <3>2. ~CommandVerify /\ ~CommandPin /\ ~CommandSignal /\ ~CommandFinish
        BY <3>1 DEF CommandVerify, CommandPin, CommandSignal, CommandFinish, Command
      <3>3. \A i : ~CommandKill(i) /\ ~Lose(i) /\ ~SetKill(i)
        BY <3>1 DEF CommandKill, Lose, SetKill
      <3> QED
        BY <1>1, <3>2, <3>3
    <2>2. /\ UNCHANGED <<task, steps, gone>> /\ world' \in {world, world + 1}
          /\ \A p \in Pids : Ages(p)
      <3>1. CASE World
        <4>1. UNCHANGED <<task, steps, gone>> /\ world' = world + 1
          BY <3>1 DEF World, Start, Exec, Become, Exit, Acts, Quiet, daemon
        <4> QED
          BY <3>1, <4>1, AgesOfWorld DEF Guarded
      <3>2. CASE UNCHANGED vars
        BY <3>2, AgesOfNothing DEF vars, daemon, bounds
      <3> QED
        BY <2>1, <3>1, <3>2
    <2>3. \A m : Awaited(m) => Awaited(m)'
      BY <2>2, AwaitedStays
    <2> QED
      BY <1>1, <2>2, <2>3, MeantLasts
  <1>2. CASE Restart
    BY <1>2 DEF Restart, MeantOK, Idle
  <1>3. CASE task.op # "tree"
    <2>1. CASE UNCHANGED task
      BY <1>3, <2>1 DEF MeantOK
    <2>2. CASE \E i \in 1 .. LastStep : CommandKill(i)
      BY <2>2 DEF CommandKill, Begin, MeantOK
    <2>3. CASE CommandVerify \/ CommandPin \/ CommandSignal \/ CommandFinish
      <3>1. task' = Idle \/ task'.op = "kill"
        <4>1. CommandOK
          BY <2>3, InCommand DEF CommandVerify, CommandPin, CommandSignal, CommandFinish, Command,
             Guarded
        <4>2. CASE CommandVerify
          <5> DEFINE below == Descendants(steps[task.step].pid)
          <5>1. task' = Idle \/ task' = [task EXCEPT !.stage = "pin", !.todo = below]
            BY <4>2 DEF CommandVerify
          <5> HIDE DEF below
          <5>2. CASE task' = [task EXCEPT !.stage = "pin", !.todo = below]
            BY <4>1, <5>2 DEF CommandOK
          <5> QED
            BY <5>1, <5>2
        <4>3. CASE CommandPin
          <5>1. PICK chunk \in SUBSET task.todo :
                  task' = [task EXCEPT !.stage = "signal", !.todo = @ \ chunk,
                                       !.held = {Handle(p) : p \in chunk \cap Live}]
            BY <4>3 DEF CommandPin
          <5> DEFINE held == {Handle(p) : p \in chunk \cap Live}
                     todo == task.todo \ chunk
          <5>2. task' = [task EXCEPT !.stage = "signal", !.todo = todo, !.held = held]
            BY <5>1
          <5> HIDE DEF held, todo
          <5> QED
            BY <4>1, <5>2 DEF CommandOK
        <4>4. CASE CommandSignal
          <5> DEFINE got == task.got \/ {h \in task.held : Holds(h)} # {}
          <5>1. task' = [task EXCEPT !.stage = "pin", !.held = {}, !.got = got]
            BY <4>4 DEF CommandSignal
          <5> HIDE DEF got
          <5> QED
            BY <4>1, <5>1 DEF CommandOK
        <4> QED
          BY <2>3, <4>2, <4>3, <4>4 DEF CommandFinish
      <3> QED
        BY <3>1 DEF MeantOK, Idle
    <2>4. CASE World
      <3>1. UNCHANGED task
        BY <2>4 DEF World, Start, Exec, Become, Exit, Acts, Quiet
      <3> QED
        BY <2>1, <3>1
    <2> QED
      BY <2>1, <2>2, <2>3, <2>4, <1>2 DEF SetKill, Lose, vars
  <1> QED
    BY <1>1, <1>2, <1>3

\* A tree kill keeps its eye on what it is meant for.
THEOREM MeantInvariance == Spec => [](Guarded /\ MeantOK /\ faults \in Nat)
  <1>1. Init => Guarded /\ MeantOK /\ faults \in Nat
    <2> SUFFICES ASSUME Init PROVE MeantOK /\ faults \in Nat
      BY Initially
    <2>1. task.op # "tree" /\ faults = 0
      BY DEF Init, Idle
    <2> QED
      BY <2>1 DEF MeantOK
  <1>2. Guarded /\ MeantOK /\ faults \in Nat /\ [Next]_vars
          => (Guarded /\ MeantOK /\ faults \in Nat)'
    <2> SUFFICES ASSUME Guarded, MeantOK, faults \in Nat, [Next]_vars
                 PROVE  Guarded' /\ MeantOK' /\ faults' \in Nat
      OBVIOUS
    <2>1. Guarded'
      BY Step
    <2>2. MeantOK'
      BY <2>1, MeantOfRest, MeantOfRaise, MeantOfEnforce, MeantOfPin, MeantOfVerify,
         MeantOfDecide, MeantOfSignal DEF Next
    <2>3. faults' \in {faults, faults + 1}
      BY DEF Next, vars, bounds, World, Start, Exec, Become, Exit, Acts, Quiet, Raise,
         EnforceVerify, EnforceSignal, KillPass, KillPin, KillPinFails, KillVerify, Decide,
         Stop, Kill, CommandKill, CommandVerify, CommandPin, CommandSignal, CommandFinish,
         SetKill, Lose, Restart
    <2> QED
      BY <2>1, <2>2, <2>3
  <1> QED
    BY <1>1, <1>2, PTL DEF Spec

\* The end of a tree kill.
NoneLeft ==
  task.op = "tree" /\ task' = Idle /\ mode = "kill" /\ ~task.missed /\ faults' = faults =>
    \A m \in task.meant :
      \/ Cardinality(Targets(steps)) > MaxTargets
      \/ proc'[m[1]] = Nobody
      \/ [proc'[m[1]] EXCEPT !.parent = m[2].parent, !.stopped = m[2].stopped] # m[2]

\* When a tree kill is over, no process is left that it was meant for and that did nothing
\* meanwhile: none is passed over between pinning, verifying, stopping and killing, whatever
\* the others do (maybe_kill_tree).
THEOREM NoneImplicatedLeftAlways == Spec => NoneImplicatedLeft
  <1>1. Guarded /\ MeantOK /\ faults \in Nat /\ Guarded' /\ [Next]_vars => [NoneLeft]_vars
    <2> SUFFICES ASSUME Guarded, MeantOK, faults \in Nat, Guarded', [Next]_vars,
                        task.op = "tree", task' = Idle, mode = "kill", ~task.missed,
                        faults' = faults, NEW m \in task.meant,
                        ~(Cardinality(Targets(steps)) > MaxTargets), proc'[m[1]] # Nobody,
                        [proc'[m[1]] EXCEPT !.parent = m[2].parent, !.stopped = m[2].stopped] = m[2]
                 PROVE  FALSE
      BY DEF NoneLeft
    <2>1. TreeOK /\ Aged(m) /\ Targets(steps) \subseteq 1 .. Len(steps) /\ Len(steps) \in Nat
      BY InTree DEF Guarded, MeantOK, ChainOK, Targets, Triggers
    <2>2. Like(proc'[m[1]], m[2])
      <3> DEFINE n == proc'[m[1]]
                 r == m[2]
      <3>1. n \in Process /\ n # Nobody /\ r \in Process
        BY <2>1 DEF Guarded, ProcOK, Aged
      <3>2. [n EXCEPT !.parent = r.parent, !.stopped = r.stopped] = r
        OBVIOUS
      <3> HIDE DEF n, r
      <3>3. n.start = r.start /\ n.exe = r.exe /\ n.ran = r.ran /\ n.guarded = r.guarded
        BY <3>1, <3>2 DEF Process
      <3> QED
        BY <3>1, <3>3 DEF Like, n, r
    <2>3. Cardinality(Targets(steps)) <= MaxTargets
      <3>1. IsFiniteSet(Targets(steps))
        BY <2>1, IntervalSize, FS_Subset
      <3>2. Cardinality(Targets(steps)) \in Nat
        BY <3>1, FS_CardinalityType
      <3> QED
        BY <3>2, Numbers
    <2>4. CASE Decide
      <3>1. UNCHANGED proc /\ task.stage = "pin" /\ task.todo = {} /\ task.doomed = <<>>
        <4>1. task' = [task EXCEPT !.stage = "stop"] => task'.op = "tree"
          BY <2>1 DEF TreeOK
        <4> QED
          BY <2>4, <4>1 DEF Decide, Tree, Idle
      <3>2. Awaited(m)
        BY <2>2, <2>3, <3>1 DEF MeantOK
      <3> QED
        BY <3>1, <3>2 DEF Awaited
    <2>5. CASE Kill
      <3>1. Ages(m[1])
        <4>1. PICK h \in HandleSet : h = task.doomed[task.at]
          <5>1. task.stage = "kill"
            BY <2>5 DEF Kill, Tree
          <5> QED
            BY <2>1, <5>1 DEF TreeOK
        <4>2. UNCHANGED proc \/ proc' = Ended(h.pid)
          BY <2>5, <4>1 DEF Kill
        <4> QED
          BY <2>1, <4>2, AgesOfNothing, AgesOfEnded DEF Guarded, HandleSet, Aged
      <3>2. world' \in {world, world + 1}
        BY <2>5 DEF Kill, KillKeeps
      <3>3. Like(proc[m[1]], m[2])
        BY <2>1, <2>2, <3>1, <3>2, AgesFacts DEF Guarded
      <3>4. task.stage = "kill" /\ task.at >= Len(task.doomed)
        <4>1. task' = [task EXCEPT !.at = @ + 1] => task'.op = "tree"
          BY <2>1 DEF TreeOK
        <4>2. ~(task.at < Len(task.doomed)) /\ task.stage = "kill"
          BY <2>5, <4>1 DEF Kill, Next1, Idle, Tree
        <4> QED
          BY <2>1, <4>2 DEF TreeOK
      <3>5. Awaited(m)
        BY <2>3, <3>3 DEF MeantOK
      <3>6. PICK k \in 1 .. Len(task.doomed) : task.doomed[k] = HandleOf(m) /\ task.at <= k
        BY <3>4, <3>5 DEF Awaited, Aiming
      <3>7. k = task.at
        BY <2>1, <3>4, <3>6 DEF TreeOK
      <3> QED
        BY <2>2, <2>5, <3>3, <3>6, <3>7, KilledIsGone
    <2>6. Decide \/ Kill
      <3>1. task # Idle /\ task' # task
        BY DEF Idle
      <3>2. ~World
        BY <3>1 DEF World, Start, Exec, Become, Exit, Acts, Quiet
      <3>3. ~(\E i \in 1 .. LastStep : KillPass(i) \/ KillPin(i) \/ KillPinFails(i)) /\ ~KillVerify
        <4>1. ASSUME NEW x, task' = [task EXCEPT !.todo = x] PROVE FALSE
          BY <2>1, <4>1 DEF TreeOK, Idle
        <4>2. ASSUME NEW x, task' = [task EXCEPT !.todo = x, !.missed = TRUE] PROVE FALSE
          BY <2>1, <4>2 DEF TreeOK, Idle
        <4>3. ASSUME NEW x, task' = [task EXCEPT !.stage = "pin", !.doomed = x] PROVE FALSE
          BY <2>1, <4>3 DEF TreeOK, Idle
        <4>4. \A i : ~KillPass(i)
          BY <4>1 DEF KillPass
        <4>5. \A i : ~KillPinFails(i)
          BY <4>2 DEF KillPinFails
        <4>6. ASSUME NEW i, KillPin(i) PROVE FALSE
          <5> DEFINE x == task.todo \ {i}
                     z == Append(task.doomed, Handle(steps[i].pid))
          <5>1. task' = [task EXCEPT !.stage = "verify", !.todo = x, !.now = i, !.doomed = z]
            BY <4>6 DEF KillPin
          <5> HIDE DEF x, z
          <5> QED
            BY <2>1, <5>1 DEF TreeOK, Idle
        <4>7. ~KillVerify
          BY <4>3 DEF KillVerify
        <4> QED
          BY <4>4, <4>5, <4>6, <4>7
      <3>4. ~Stop
        <4>1. ASSUME NEW x, task' = [task EXCEPT !.at = x] PROVE FALSE
          BY <2>1, <4>1 DEF TreeOK, Idle
        <4>2. ASSUME task' = [task EXCEPT !.stage = "kill", !.at = 1] PROVE FALSE
          BY <2>1, <4>2 DEF TreeOK, Idle
        <4> QED
          BY <4>1, <4>2 DEF Stop, Next1
      <3>5. ~Restart
        <4>1. Restart => faults' = faults + 1 /\ faults < MaxFaults
          BY DEF Restart
        <4>2. ~(faults' = faults + 1)
          BY DEF Restart
        <4> QED
          BY <4>1, <4>2
      <3> QED
        BY <3>1, <3>2, <3>3, <3>4, <3>5 DEF Next, vars, Raise, EnforceVerify, EnforceSignal,
           CommandKill, CommandVerify, CommandPin, CommandSignal, CommandFinish, Command,
           SetKill, Lose
    <2> QED
      BY <2>4, <2>5, <2>6
  <1> QED
    BY <1>1, MeantInvariance, PTL DEF Spec, NoneImplicatedLeft, NoneLeft

=============================================================================
