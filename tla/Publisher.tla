----------------------------- MODULE Publisher -----------------------------
(***************************************************************************)
(* The feed aggregator (aggregator/src/index.js, delta.js): a scheduled    *)
(* run publishes the package index as a full artifact and a window of      *)
(* deltas, then a domain list, in a bucket of objects named by sequence    *)
(* and hash, and points to them from one document, pointer.json.           *)
(*                                                                         *)
(* A run is a sequence of writes to the bucket and may die between two of  *)
(* them.  One run at a time: nothing in the code enforces it, and what two *)
(* at once would do is told in the README.  What a source says is data, so *)
(* the index a run builds is any of Indexes; a domain list is known by its *)
(* sequence, which no two published lists share.                           *)
(***************************************************************************)
EXTENDS Integers, Sequences, FiniteSetsExt

CONSTANTS
  Indexes,    \* the indexes the sources may fold to: package -> spec
  Removed,    \* the delta op that removes a package
  Window,     \* DELTA_WINDOW
  Keep,       \* KEEP_ARTIFACTS
  MaxSeq,     \* bound on the sequence of the packages
  MaxList,    \* bound on the sequence of the domain lists
  MaxFaults   \* bound on deaths, failures and stale answers

ASSUME PublisherAssumption ==
  /\ Window \in Nat \ {0} /\ Keep \in Nat \ {0}
  /\ \A x \in Indexes : /\ x = [k \in DOMAIN x |-> x[k]] /\ DOMAIN x # {}
                        /\ \A k \in DOMAIN x : x[k] # Removed

VARIABLES
  pstate,   \* state.json: seq, the index of the artifact it names, the steps
  dstate,   \* domains.json: the seq of the list it names
  pointer,  \* pointer.json; `tag` stands for its etag
  objects,  \* the artifacts, deltas and lists in the bucket
  run,      \* the run: what it does next, and what it is about to point to
  before,   \* the pointer before this one
  forked,   \* one sequence has been published with two contents
  faults    \* what went wrong so far

pvars == <<pstate, dstate, pointer, objects, run, before, forked>>

NoIndex == <<>>
NoPointer == [tag |-> 0, seq |-> 0, index |-> NoIndex, deltas |-> <<>>, list |-> 0]
Resting == [at |-> "idle"]

Init ==
  /\ pstate = [seq |-> 0, index |-> NoIndex, steps |-> <<>>]
  /\ dstate = 0
  /\ pointer = NoPointer /\ before = NoPointer
  /\ objects = [artifacts |-> {}, deltas |-> {}, lists |-> {}]
  /\ run = Resting /\ forked = FALSE /\ faults = 0

----------------------------------------------------------------------------
(* Deltas.                                                                 *)

\* The ops that lead from one index to the other.
Diff(old, new) ==
  LET changed == {k \in DOMAIN old \cup DOMAIN new :
                    ~(k \in DOMAIN old /\ k \in DOMAIN new /\ old[k] = new[k])}
  IN [k \in changed |-> IF k \in DOMAIN new THEN new[k] ELSE Removed]

Apply(index, ops) ==
  LET left(k) == IF k \in DOMAIN ops THEN ops[k] ELSE index[k]
  IN [k \in {k \in DOMAIN index \cup DOMAIN ops : left(k) # Removed} |-> left(k)]

\* Variant that drops a package that comes and goes within the steps.
ComposeCancelled(steps, i) ==
  LET touching(k) == {j \in i..Len(steps) : k \in DOMAIN steps[j].ops}
      touched == UNION {DOMAIN steps[j].ops : j \in i..Len(steps)}
      First(k) == steps[Min(touching(k))].ops[k]
      Last(k) == steps[Max(touching(k))].ops[k]
  IN [k \in {k \in touched : First(k) = Removed \/ Last(k) # Removed} |-> Last(k)]

\* Steps i.. as one delta: on every package the last op wins.
Compose(steps, i) ==
  LET touching(k) == {j \in i..Len(steps) : k \in DOMAIN steps[j].ops}
      touched == UNION {DOMAIN steps[j].ops : j \in i..Len(steps)}
  IN [k \in touched |-> steps[Max(touching(k))].ops[k]]

\* The artifact that state.json names is there to compare with.
PreviousHere == [seq |-> pstate.seq, index |-> pstate.index] \in objects.artifacts

\* The rolling window with one more step, or a new one.
Steps(index) ==
  IF PreviousHere
  THEN LET all == Append(pstate.steps,
                         [from |-> pstate.seq, ops |-> Diff(pstate.index, index)])
       IN SubSeq(all, Max({1, Len(all) - Window + 1}), Len(all))
  ELSE <<>>

DeltasOf(steps) ==
  [s \in {steps[i].from : i \in DOMAIN steps} |->
     Compose(steps, CHOOSE i \in DOMAIN steps : steps[i].from = s)]

Named(p) == {[from |-> s, to |-> p.seq, ops |-> p.deltas[s]] : s \in DOMAIN p.deltas}

----------------------------------------------------------------------------
(* A run.                                                                  *)

\* publish, up to the pointer: a changed index goes out under the next seq.
\* Nobody can name the objects yet, so they are put in one step.
Put(index) ==
  LET steps == Steps(index)
      p == [tag |-> 0, seq |-> pstate.seq + 1, index |-> index,
            deltas |-> DeltasOf(steps), list |-> 0]
  IN /\ run = Resting /\ pstate.seq < MaxSeq
     /\ PreviousHere => index # pstate.index
     /\ objects' = [objects EXCEPT
          !.artifacts = @ \cup {[seq |-> p.seq, index |-> index]},
          !.deltas = @ \cup Named(p)]
     /\ run' = [at |-> "pointer", next |-> p, steps |-> steps]
     /\ UNCHANGED <<pstate, dstate, pointer, before, forked, faults>>

\* writePointer: the other wing's half of the document is carried across.
Point(next) ==
  /\ pointer' = [next EXCEPT !.tag = pointer.tag + 1]
  /\ before' = pointer

PointPackages ==
  /\ run.at = "pointer"
  /\ Point([run.next EXCEPT !.list = pointer.list])
  /\ forked' = (forked \/ (run.next.seq = pointer.seq /\ run.next.index # pointer.index))
  /\ run' = [run EXCEPT !.at = "state"]
  /\ UNCHANGED <<pstate, dstate, objects, faults>>

SaveState ==
  /\ run.at = "state"
  /\ pstate' = [seq |-> run.next.seq, index |-> run.next.index, steps |-> run.steps]
  /\ run' = [at |-> "prune"]
  /\ UNCHANGED <<dstate, pointer, objects, before, forked, faults>>

\* Variant without the sequence of grace.
PruneAllOlder ==
  /\ run.at = "prune"
  /\ objects' = [objects EXCEPT
       !.artifacts = {o \in @ : o.seq > pstate.seq - Keep},
       !.deltas = {o \in @ : o.to >= pstate.seq}]
  /\ run' = Resting
  /\ UNCHANGED <<pstate, dstate, pointer, before, forked, faults>>

\* Old artifacts go, and the deltas to a sequence before the last one.
Prune ==
  /\ run.at = "prune"
  /\ objects' = [objects EXCEPT
       !.artifacts = {o \in @ : o.seq > pstate.seq - Keep},
       !.deltas = {o \in @ : o.to >= pstate.seq - 1}]
  /\ run' = Resting
  /\ UNCHANGED <<pstate, dstate, pointer, before, forked, faults>>

\* runDomains, when the list has changed.  Its state is saved first.
PutList ==
  /\ run = Resting /\ dstate < MaxList
  /\ objects' = [objects EXCEPT !.lists = @ \cup {dstate + 1}]
  /\ dstate' = dstate + 1
  /\ run' = [at |-> "list"]
  /\ UNCHANGED <<pstate, pointer, before, forked, faults>>

PointList ==
  /\ run.at = "list"
  /\ Point([pointer EXCEPT !.list = dstate])
  /\ run' = [at |-> "prune lists"]
  /\ UNCHANGED <<pstate, dstate, objects, forked, faults>>

PruneLists ==
  /\ run.at = "prune lists"
  /\ objects' = [objects EXCEPT !.lists = {d \in @ : d > dstate - Keep}]
  /\ run' = Resting
  /\ UNCHANGED <<pstate, dstate, pointer, before, forked, faults>>

Fault == faults < MaxFaults /\ faults' = faults + 1

\* The worker is cut off, or a write throws.
RunDies ==
  /\ run # Resting /\ Fault
  /\ run' = Resting
  /\ UNCHANGED <<pstate, dstate, pointer, objects, before, forked>>

\* runTick and runFull publish the packages and then the list; /admin/domains the
\* list alone.
Publish ==
  \/ \E index \in Indexes : Put(index)
  \/ PointPackages \/ SaveState \/ Prune
  \/ PutList \/ PointList \/ PruneLists
  \/ RunDies
=============================================================================
