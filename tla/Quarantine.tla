----------------------------- MODULE Quarantine -----------------------------
(***************************************************************************)
(* Holding a file and giving it back (control.rs quarantine_file,          *)
(* quarantine_restore, cmd_quarantine; engine.rs                           *)
(* quarantine_chain_artifacts).                                            *)
(*                                                                         *)
(* Alerts name one path here.  Each alert has an entry in moatd's store: a *)
(* copy of the file and a manifest of where it came from.  moatd goes on   *)
(* one system call at a time; any of them may fail, moatd may die between  *)
(* any two, and whoever owns the path writes it, replaces it and deletes   *)
(* it meanwhile.                                                           *)
(***************************************************************************)
EXTENDS Integers, FiniteSets

CONSTANTS
  Alerts,     \* alerts that name the path
  Automatic,  \* those of them whose file a chain may move (see Chain below)
  MaxFiles,   \* bound: the contents written to the path are 1 .. MaxFiles
  MaxFaults   \* bound: system calls that fail, and restarts

None == 0     \* no file, no hash
Torn == -1    \* a copy that was begun
Files == 1 .. MaxFiles

ASSUME QuarantineAssumption ==
  /\ MaxFiles \in Nat \ {0} /\ MaxFaults \in Nat
  /\ Automatic \subseteq Alerts

VARIABLES
  place,    \* what the path holds
  copy,     \* what <quarantine>/<alert>/<name> holds
  meta,     \* what <quarantine>/<alert>/meta.json says
  action,   \* action_taken of the alert
  task,     \* what moatd is doing
  next,     \* history: the content last written
  owed,     \* history: the contents moatd has removed from the path, having copied
            \* them, and has not put back
  spent,    \* history: those of them a second taking for the same alert has written over
  faults    \* count of failures

qvars == <<place, copy, meta, action, task, next, owed, spent, faults>>

NoMeta == [listed |-> FALSE, sha |-> None, removed |-> FALSE]
NoTask == [op |-> "idle"]

QuarantineInit ==
  /\ place \in {None, 1} /\ next = place
  /\ copy = [a \in Alerts |-> None] /\ meta = [a \in Alerts |-> NoMeta]
  /\ action = [a \in Alerts |-> "none"]
  /\ task = NoTask /\ owed = {} /\ spent = {} /\ faults = 0

-----------------------------------------------------------------------------
(* The owner of the path. *)

OwnerKeeps == UNCHANGED <<copy, meta, action, owed, spent, faults>>

\* A new file under the name; what moatd has open stays what it was.
Replace ==
  /\ next < MaxFiles /\ next' = next + 1 /\ place' = next'
  /\ UNCHANGED task /\ OwnerKeeps

\* The file is open and its copy not complete.
Copying == task.op = "take" /\ task.stage \in {"create", "copy"}

\* A write to the file itself, seen by whoever has it open.
Scribble ==
  /\ place # None /\ next < MaxFiles /\ next' = next + 1 /\ place' = next'
  /\ task' = IF Copying /\ task.fd = place THEN [task EXCEPT !.fd = next'] ELSE task
  /\ OwnerKeeps

Delete ==
  /\ place # None /\ place' = None
  /\ UNCHANGED <<next, task>> /\ OwnerKeeps

-----------------------------------------------------------------------------
(* Taking a file: quarantine_file. *)

Fault == faults < MaxFaults /\ faults' = faults + 1
NoFault == UNCHANGED faults

Taking(stage) == task.op = "take" /\ task.stage = stage
To(stage) == [task EXCEPT !.stage = stage]

Begin(a) ==
  /\ task = NoTask
  /\ task' = [op |-> "take", id |-> a, stage |-> "hash", sha |-> None, fd |-> None,
              removed |-> FALSE]
  /\ UNCHANGED <<place, copy, meta, action, next, owed, spent, faults>>

\* `moatctl quarantine`: any alert whose file is under a home or a temporary directory.
Command(a) == Begin(a)

\* quarantine_chain_artifacts, for a chain that passes the gate: an exec or persist
\* trigger, unsuppressed and on this machine, of a rule that is no mere signal or a
\* chain that is critical, that names no secret; and nothing was done about it yet.
Chain(a) == a \in Automatic /\ action[a] = "none" /\ Begin(a)

\* maybe_contain says so of the triggers of a chain, whatever was said before.
Contain(a) ==
  /\ task = NoTask /\ a \in Automatic /\ action[a] # "contained"
  /\ action' = [action EXCEPT ![a] = "contained"]
  /\ UNCHANGED <<place, copy, meta, task, next, owed, spent, faults>>

TakeKeeps == UNCHANGED <<action, next>>

Hash ==
  /\ Taking("hash")
  /\ \/ task' = [To("open") EXCEPT !.sha = place] /\ NoFault
     \/ task' = To("open") /\ Fault
  /\ UNCHANGED <<place, copy, meta, owed, spent>> /\ TakeKeeps

\* Variant that goes on although there is no file.
OpenAnyway ==
  /\ Taking("open")
  /\ task' = [To("create") EXCEPT !.fd = place]
  /\ UNCHANGED <<place, copy, meta, owed, spent>> /\ NoFault /\ TakeKeeps

Open ==
  /\ Taking("open")
  /\ task' = IF place = None THEN NoTask ELSE [To("create") EXCEPT !.fd = place]
  /\ UNCHANGED <<place, copy, meta, owed, spent>> /\ NoFault /\ TakeKeeps

\* What was held for a, and is owed, is written over.
Overwrite(a) ==
  LET over == ({copy[a]} \cap owed) \ {copy[b] : b \in Alerts \ {a}}
  IN  owed' = owed \ over /\ spent' = spent \cup over

\* Creating the copy empties the one there was.
Create ==
  /\ Taking("create")
  /\ \/ /\ copy' = [copy EXCEPT ![task.id] = Torn]
        /\ Overwrite(task.id)
        /\ task' = To("copy") /\ NoFault
     \/ task' = NoTask /\ Fault /\ UNCHANGED <<copy, owed, spent>>
  /\ UNCHANGED <<place, meta>> /\ TakeKeeps

\* Variant that removes the file before its copy is complete.
CopyLate ==
  /\ Taking("copy")
  /\ task' = To("unlink") /\ NoFault
  /\ UNCHANGED <<place, copy, meta, owed, spent>> /\ TakeKeeps

\* The copy, and its mode.
Copy ==
  /\ Taking("copy")
  /\ \/ /\ copy' = [copy EXCEPT ![task.id] = task.fd]
        /\ task' = To("unlink") /\ NoFault
     \/ task' = NoTask /\ Fault /\ UNCHANGED copy
     \/ task' = NoTask /\ Fault /\ copy' = [copy EXCEPT ![task.id] = task.fd]
  /\ UNCHANGED <<place, meta, owed, spent>> /\ TakeKeeps

\* unlink_in_place removes what has the name now; on a file system moatd may not
\* write it removes nothing.
Unlink ==
  /\ Taking("unlink")
  /\ \/ /\ place # None /\ place' = None
        /\ owed' = IF place = task.fd THEN owed \cup ({place} \cap Files) ELSE owed
        /\ task' = [To("meta") EXCEPT !.removed = TRUE] /\ NoFault
     \/ /\ task' = To("meta")
        /\ IF place = None THEN NoFault ELSE Fault
        /\ UNCHANGED <<place, owed>>
  /\ UNCHANGED <<copy, meta, action, next, spent>>

\* Variant that claims the file whether it could be removed or not.
AfterMetaAlways == To("mark")

\* An error unless the file is gone from its place.
AfterMeta == IF task.removed THEN To("mark") ELSE NoTask

\* The manifest, by an atomic write.
Meta ==
  /\ Taking("meta")
  /\ \/ /\ meta' = [meta EXCEPT ![task.id] =
                      [listed |-> TRUE, sha |-> task.sha, removed |-> task.removed]]
        /\ task' = AfterMeta /\ NoFault
     \/ task' = NoTask /\ Fault /\ UNCHANGED meta
  /\ UNCHANGED <<place, copy, owed, spent>> /\ TakeKeeps

Mark ==
  /\ Taking("mark")
  /\ action' = [action EXCEPT ![task.id] = "quarantined"] /\ task' = NoTask
  /\ UNCHANGED <<place, copy, meta, next, owed, spent, faults>>

-----------------------------------------------------------------------------
(* Giving it back: quarantine_restore. *)

Giving(stage) == task.op = "give" /\ task.stage = stage

GiveKeeps == UNCHANGED <<next, spent>>

\* The hash is compared if there is one, and if the copy can be read.
Matches(a) == meta[a].sha \in {None, copy[a]}

Restore(a) ==
  /\ task = NoTask
  /\ meta[a].listed /\ copy[a] # None /\ place = None
  /\ \E read \in BOOLEAN :
       /\ IF read THEN Matches(a) /\ NoFault ELSE Fault
       /\ task' = [op |-> "give", id |-> a, stage |-> "move", read |-> read]
  /\ UNCHANGED <<place, copy, meta, action, owed>> /\ GiveKeeps

PutBack(a) == place' = copy[a] /\ owed' = owed \ {copy[a]}

\* rename, over whatever has appeared there since.
Rename ==
  LET a == task.id IN
  /\ Giving("move")
  /\ PutBack(a) /\ copy' = [copy EXCEPT ![a] = None]
  /\ task' = [task EXCEPT !.stage = "tidy"]
  /\ UNCHANGED <<meta, action>> /\ NoFault /\ GiveKeeps

\* Variant that clears up whether the copy went well or not.
CopyBackTidies ==
  LET a == task.id IN
  /\ Giving("move")
  /\ \/ /\ PutBack(a) /\ NoFault
        /\ task' = [task EXCEPT !.stage = "drop"]
     \/ /\ place' = Torn /\ Fault /\ UNCHANGED owed
        /\ task' = [task EXCEPT !.stage = "tidy"]
  /\ UNCHANGED <<copy, meta, action>> /\ GiveKeeps

\* Between file systems, a copy; the held one goes when that is complete.
CopyBack ==
  LET a == task.id IN
  /\ Giving("move")
  /\ \/ /\ PutBack(a) /\ NoFault
        /\ task' = [task EXCEPT !.stage = "drop"]
     \/ place' = Torn /\ task' = NoTask /\ Fault /\ UNCHANGED owed
  /\ UNCHANGED <<copy, meta, action>> /\ GiveKeeps

Drop ==
  /\ Giving("drop")
  /\ copy' = [copy EXCEPT ![task.id] = None]
  /\ task' = [task EXCEPT !.stage = "tidy"]
  /\ UNCHANGED <<place, meta, action, owed>> /\ NoFault /\ GiveKeeps

Tidy ==
  /\ Giving("tidy")
  /\ meta' = [meta EXCEPT ![task.id] = NoMeta]
  /\ action' = [action EXCEPT ![task.id] = "restored"] /\ task' = NoTask
  /\ UNCHANGED <<place, copy, owed>> /\ NoFault /\ GiveKeeps

\* moatd dies and is started again.
Killed ==
  /\ task # NoTask /\ task' = NoTask /\ Fault
  /\ UNCHANGED <<place, copy, meta, action, next, owed, spent>>

-----------------------------------------------------------------------------

QuarantineNext ==
  \/ Replace \/ Scribble \/ Delete
  \/ \E a \in Alerts : Command(a) \/ Chain(a) \/ Contain(a) \/ Restore(a)
  \/ Hash \/ Open \/ Create \/ Copy \/ Unlink \/ Meta \/ Mark
  \/ Rename \/ CopyBack \/ Drop \/ Tidy
  \/ Killed

QuarantineSpec == QuarantineInit /\ [][QuarantineNext]_qvars

-----------------------------------------------------------------------------
(* Properties. *)

Held == {copy[a] : a \in Alerts}

Task ==
  {NoTask}
  \cup [op : {"take"}, id : Alerts, stage : {"hash", "open"},
        sha : {None, Torn} \cup Files, fd : {None}, removed : {FALSE}]
  \cup [op : {"take"}, id : Alerts, stage : {"create", "copy", "unlink", "meta", "mark"},
        sha : {None, Torn} \cup Files, fd : {Torn} \cup Files, removed : BOOLEAN]
  \cup [op : {"give"}, id : Alerts, stage : {"move", "drop", "tidy"}, read : BOOLEAN]

\* The store is well formed, and what is copied is a file.
QuarantineTypeOK ==
  /\ place \in {None, Torn} \cup Files /\ next \in 0 .. MaxFiles
  /\ copy \in [Alerts -> {None, Torn} \cup Files]
  /\ meta \in [Alerts -> [listed : BOOLEAN, sha : {None, Torn} \cup Files, removed : BOOLEAN]]
  /\ action \in [Alerts -> {"none", "contained", "quarantined", "restored"}]
  /\ owed \subseteq Files /\ spent \subseteq Files /\ faults \in 0 .. MaxFaults
  /\ task \in Task

\* What moatd has taken from its place it holds until it has given it back, whatever
\* fails and whenever it dies (quarantine_file removes the name last; a second taking
\* for the same alert excepted, which NothingDeleted is about).
TakenIsKept == owed \subseteq Held

\* An alert comes to say "quarantined" only when a copy is held and listed, and
\* something was removed from the path ("the one thing this function must never claim").
ClaimIsTrue ==
  [][\A a \in Alerts :
       action[a] # "quarantined" /\ action'[a] = "quarantined" =>
         copy'[a] # None /\ meta'[a].listed /\ meta'[a].removed]_qvars

\* What moatd took, and would give back if asked once the path is free: it is held, listed,
\* and what its manifest has the hash of.
Restorable == {copy[a] : a \in {b \in Alerts : meta[b].listed /\ Matches(b)}} \cap owed

\* That stays so until the file is back in its place, through restores that fail or are
\* cut short at any call, crashes, what the owner does to the path and takings for other
\* alerts (quarantine_restore removes the manifest last); only another taking for the
\* same alert may end it.
StaysRestorable ==
  [][\A c \in Restorable \ Restorable' :
       c \notin owed' \/ (task.op = "take" /\ c = copy[task.id])]_qvars

\* "Nothing is ever deleted."
NothingDeleted == spent = {}

=============================================================================
