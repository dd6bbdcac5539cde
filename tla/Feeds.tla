------------------------------- MODULE Feeds -------------------------------
(***************************************************************************)
(* moat-feeds (moatd/src/feeds.rs, refresh): every quarter of an hour one  *)
(* process reads the published pointer and brings the two lists on this    *)
(* machine up to it, the domain list whole and the packages by a delta     *)
(* when one leads from here.  The files are replaced one by one, state.json *)
(* last, and the process may die between two of them.                      *)
(*                                                                         *)
(* One refresh at a time.  Signatures, hashes and the sequences inside the *)
(* signed bytes are taken to hold: an object is what its name says.  What  *)
(* else can go wrong with a download is that it fails.  meta.json only     *)
(* reports and is left out.                                                *)
(***************************************************************************)
EXTENDS Publisher

VARIABLES
  disk,     \* packages.txt, domains-feed.txt and state.json
  client    \* the refresh: its next step, its copy of state.json, the pointer

vars == <<pvars, faults, disk, client>>

NoFiles == [index |-> NoIndex, list |-> 0, state |-> [seq |-> 0, list |-> 0, tag |-> 0]]
Waiting == [at |-> "idle"]

FeedsInit == Init /\ disk = NoFiles /\ client = Waiting

Happens(bad) == IF bad THEN Fault ELSE UNCHANGED faults

----------------------------------------------------------------------------
(* The pointer.                                                            *)

\* A pointer without a package half does not parse, one that was seen is a
\* 304, and one with an older sequence is refused.
Accepted(p) ==
  /\ p.seq > 0
  /\ p.tag # disk.state.tag
  /\ p.seq >= disk.state.seq

\* The edge may still serve the pointer before this one.
Fetch ==
  /\ client = Waiting
  /\ \E p \in {pointer, before} :
       /\ Accepted(p)
       /\ Happens(p # pointer)
       /\ client' = [at |-> "domains", state |-> disk.state, pointer |-> p]
  /\ UNCHANGED <<pvars, disk>>

\* No answer, or one that ends the refresh.
NothingNew == client = Waiting /\ UNCHANGED vars

----------------------------------------------------------------------------
(* refresh_domains.                                                        *)

ListDue ==
  LET p == client.pointer IN
  /\ p.list > 0 /\ p.list >= client.state.list
  /\ ~(p.list = client.state.list /\ disk.list > 0)

InstallList ==
  /\ client.at = "domains" /\ ListDue
  /\ client.pointer.list \in objects.lists
  /\ disk' = [disk EXCEPT !.list = client.pointer.list]
  /\ client' = [client EXCEPT !.at = "packages", !.state.list = client.pointer.list]
  /\ UNCHANGED <<pvars, faults>>

\* Nothing to fetch, or a failure, which is not fatal.
KeepList ==
  /\ client.at = "domains"
  /\ Happens(ListDue /\ client.pointer.list \in objects.lists)
  /\ client' = [client EXCEPT !.at = "packages"]
  /\ UNCHANGED <<pvars, disk>>

----------------------------------------------------------------------------
(* The packages.                                                           *)

UpToDate == client.pointer.seq = client.state.seq /\ disk.index # NoIndex

\* The delta from this machine's sequence, if the pointer names one and the
\* bucket still has it.
DeltaHere ==
  LET p == client.pointer
      s == client.state.seq
  IN /\ disk.index # NoIndex /\ s > 0 /\ s \in DOMAIN p.deltas
     /\ [from |-> s, to |-> p.seq, ops |-> p.deltas[s]] \in objects.deltas

FullHere ==
  [seq |-> client.pointer.seq, index |-> client.pointer.index] \in objects.artifacts

Write(index) ==
  /\ disk' = [disk EXCEPT !.index = index]
  /\ client' = [client EXCEPT !.at = "commit"]

ApplyDelta ==
  /\ client.at = "packages" /\ ~UpToDate /\ DeltaHere
  /\ Write(Apply(disk.index, client.pointer.deltas[client.state.seq]))
  /\ UNCHANGED <<pvars, faults>>

\* Without a delta, or when it fails.
ApplyFull ==
  /\ client.at = "packages" /\ ~UpToDate /\ FullHere
  /\ Happens(DeltaHere)
  /\ Write(client.pointer.index)
  /\ UNCHANGED pvars

\* Variant that notes the pointer as seen.
GiveUpNoting ==
  /\ client.at = "packages" /\ ~UpToDate
  /\ Happens(DeltaHere \/ FullHere)
  /\ disk' = [disk EXCEPT !.state.tag = client.pointer.tag]
  /\ client' = Waiting
  /\ UNCHANGED pvars

\* Neither: the refresh returns and saves nothing.
GiveUp ==
  /\ client.at = "packages" /\ ~UpToDate
  /\ Happens(DeltaHere \/ FullHere)
  /\ client' = Waiting
  /\ UNCHANGED <<pvars, disk>>

\* state.save, whose failure is only reported.
Save(state) ==
  /\ \/ disk' = [disk EXCEPT !.state = state] /\ UNCHANGED faults
     \/ Fault /\ UNCHANGED disk
  /\ client' = Waiting
  /\ UNCHANGED pvars

SameSeq ==
  /\ client.at = "packages" /\ UpToDate
  /\ Save([client.state EXCEPT !.tag = client.pointer.tag])

Commit ==
  /\ client.at = "commit"
  /\ Save([client.state EXCEPT !.seq = client.pointer.seq, !.tag = client.pointer.tag])

RefreshDies ==
  /\ client # Waiting /\ Fault
  /\ client' = Waiting
  /\ UNCHANGED <<pvars, disk>>

Tick ==
  \/ Fetch \/ InstallList \/ KeepList
  \/ ApplyDelta \/ ApplyFull \/ GiveUp \/ SameSeq \/ Commit

Next ==
  \/ Publish /\ UNCHANGED <<disk, client>>
  \/ Tick
  \/ NothingNew
  \/ RefreshDies

Spec == FeedsInit /\ [][Next]_vars

\* moat-feeds.timer starts a refresh every fifteen minutes, and sooner or
\* later one gets through.  Nothing is asked of the aggregator.
FairSpec == Spec /\ WF_vars(Tick)

----------------------------------------------------------------------------
(* What must hold.                                                         *)

\* A machine that says it has the published sequence has the published index,
\* package by package, whatever chain of deltas, interrupted refreshes and
\* stale pointers brought it there (apply_delta over an index that an earlier
\* refresh had already replaced; composeOps).  A sequence published with two
\* contents is the aggregator's accident and is excepted.
PackagesExact ==
  ~forked /\ pointer.seq > 0 /\ disk.state.seq = pointer.seq =>
    disk.index = pointer.index

\* What the pointer names is in the bucket, and so are the packages of the
\* pointer before it ("One sequence of grace", index.js:303): a death between
\* two writes of a run and the pruning of later ones never leave a client with
\* a name and no object.
NamesWhatIsThere ==
  /\ pointer.list > 0 => pointer.list \in objects.lists
  /\ \A p \in {pointer, before} : p.seq > 0 =>
       /\ [seq |-> p.seq, index |-> p.index] \in objects.artifacts
       /\ Named(p) \subseteq objects.deltas

\* After the last publication and the last fault every machine gets the
\* published index, and the published list unless it noted the pointer as seen
\* when the list's download failed (refresh saves the etag then).
FeedsArrive ==
  <>[](forked \/ pointer.seq = 0
         \/ /\ disk.index = pointer.index
            /\ disk.list = pointer.list \/ disk.state.tag = pointer.tag)
=============================================================================
