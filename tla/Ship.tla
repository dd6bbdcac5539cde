--------------------------------- MODULE Ship --------------------------------
(***************************************************************************)
(* moat-ship: the log shipper of moatd/src/ship.rs and bin/moat_ship.rs.    *)
(*                                                                         *)
(* moatd appends records to a JSON-lines file and rotates it (store.rs,     *)
(* telemetry.rs); this process polls the file, buffers what is new, posts   *)
(* it to a collector, and keeps a cursor file so that a restart resumes.    *)
(* The cursor must never pass a record that was neither taken by the        *)
(* collector nor counted as dropped, across outages, refusals, rotations,   *)
(* full buffers, failed writes of the cursor and crashes at any point.      *)
(*                                                                         *)
(* A record is a number and an offset counts lines.  Records the class      *)
(* filter or the redaction guard keeps back never reach the buffer and are  *)
(* not part of the model; one source is enabled.                            *)
(***************************************************************************)
EXTENDS Integers, Sequences, FiniteSets

CONSTANTS
  Last,        \* bound: records moatd writes, 1 .. Last
  Protected,   \* records a rotation may carry into the fresh file
  ReadMax,     \* [buffer] read_max_records
  BatchMax,    \* [https] batch_max_records
  BufferMax,   \* [buffer] max_records
  RecentMax,   \* RECENT_MAX: event ids the cursor remembers
  MaxFaults,   \* bound: crashes and answers lost on the way back
  MaxTurns,    \* bound: rotations
  TailFits     \* environment: a rotated file has at most ReadMax unread lines

ASSUME ShipAssumption ==
  /\ {Last, ReadMax, BatchMax, BufferMax} \subseteq Nat \ {0}
  /\ {RecentMax, MaxFaults, MaxTurns} \subseteq Nat
  /\ Protected \subseteq 1 .. Last
  /\ TailFits \in BOOLEAN

VARIABLES
  written,   \* how many records moatd has appended
  file,      \* the live file: its inode and its lines
  old,       \* the rotated sibling; inode 0 while there is none
  saved,     \* the cursor file
  up,        \* moat-ship is running
  pc,        \* where Shipper::pass is: "idle", "send" or "save"
  cursor,    \* Shipper.cursor: what the next save writes
  frontier,  \* Shipper.frontier: how far the source has been read
  buffer,    \* Shipper.buffer.q
  pending,   \* Shipper.pending of the source
  uncounted, \* buffer.dropped - buffer_dropped_seen
  waiting,   \* now < next_attempt: backing off
  copies,    \* the collector: how often it has taken each record
  lost,      \* history: records evicted, or refused for good
  faults     \* history: crashes and lost answers so far

shipper == <<up, pc, cursor, frontier, buffer, pending, uncounted, waiting>>
vars == <<written, file, old, saved, shipper, copies, lost, faults>>

Ids == 1 .. Last
Beat == 0                       \* a heartbeat: it belongs to no source file

\* Cursor::load of a missing file, and an empty file with the first inode.
NoCursor == [inode |-> 0, offset |-> 0, recent |-> <<>>, dropped |-> 0]

Init ==
  /\ written = 0
  /\ file = [inode |-> 1, lines |-> <<>>]
  /\ old = [inode |-> 0, lines |-> <<>>]
  /\ saved = NoCursor /\ cursor = NoCursor
  /\ up = TRUE /\ pc = "idle"
  /\ frontier = [inode |-> 0, offset |-> 0]
  /\ buffer = <<>> /\ pending = 0 /\ uncounted = 0
  /\ waiting = FALSE
  /\ copies = [r \in Ids |-> 0]
  /\ lost = {}
  /\ faults = 0

-----------------------------------------------------------------------------
(* Sequences and counters. *)

Least(a, b) == IF a < b THEN a ELSE b
IdsOf(s) == {s[i] : i \in DOMAIN s} \ {Beat}

\* The elements of s that are not in S, in their order.
Without(s, S) ==
  LET kept[n \in 0 .. Len(s)] ==
        IF n = 0 THEN <<>>
        ELSE IF s[n] \in S THEN kept[n - 1] ELSE Append(kept[n - 1], s[n])
  IN  kept[Len(s)]

RecordsIn(s) == Without(s, {Beat})
First(s, n) == SubSeq(s, 1, Least(n, Len(s)))
After(s, n) == SubSeq(s, n + 1, Len(s))

\* Saturating: the drop counters stop at Last, which stands for `Last or more`.
Add(count, n) == Least(Last, count + n)

\* SourceCursor::note for each record of a batch.
Noted(recent, batch) ==
  LET all == recent \o RecordsIn(batch)
  IN  After(all, Len(all) - Least(RecentMax, Len(all)))

-----------------------------------------------------------------------------
(* moatd writes. *)

\* The lines that can still be read from position p on.
Ahead(p) ==
  IF p.inode = file.inode THEN After(file.lines, p.offset)
  ELSE IF p.inode # 0 /\ p.inode = old.inode THEN After(old.lines, p.offset) \o file.lines
  ELSE file.lines

\* The environment the properties are stated in: a rotation finds the cursor
\* file in the live file, with a tail one poll can read.
MayTurn(lines) ==
  /\ file.inode <= MaxTurns
  /\ saved.inode = file.inode
  /\ TailFits => Len(lines) - saved.offset <= ReadMax

\* An append, and the rotation it triggers when the file has grown too large.
\* alerts.jsonl carries protected rows, of either generation, forward;
\* telemetry.jsonl carries none.
Write ==
  /\ written < Last
  /\ written' = written + 1
  /\ LET lines == Append(file.lines, written') IN
       \/ /\ file' = [file EXCEPT !.lines = lines]
          /\ UNCHANGED old
       \/ /\ MayTurn(lines)
          /\ old' = [inode |-> file.inode, lines |-> lines]
          /\ \E carried \in SUBSET (Protected \cap (IdsOf(old.lines) \cup IdsOf(lines))) :
               file' = [inode |-> file.inode + 1,
                        lines |-> Without([i \in Ids |-> i], Ids \ carried)]
  /\ UNCHANGED <<saved, shipper, copies, lost, faults>>

-----------------------------------------------------------------------------
(* One pass of the shipper. *)

\* Variants: the renamed file is not finished; a poll starts over; the position
\* is the end of the file whatever was read; the inode is not brought up to date.
NoTail(p) == <<>>
StartOver(p) == 0
ReachedEnd(p) == [inode |-> file.inode, offset |-> Len(file.lines)]

\* read_new: the rest of the file that was renamed away, then the live one, at
\* most ReadMax lines in all; and the position the lines end at.
TailOf(p) ==
  IF p.inode \notin {0, file.inode} /\ p.inode = old.inode
  THEN First(After(old.lines, p.offset), ReadMax) ELSE <<>>

Start(p) == IF p.inode \in {0, file.inode} THEN p.offset ELSE 0

Fresh(p) == First(After(file.lines, Start(p)), ReadMax - Len(TailOf(p)))

Reached(p) == [inode |-> file.inode, offset |-> Start(p) + Len(Fresh(p))]

\* Shipper::collect and the heartbeat: what is new and not remembered as sent is
\* buffered, and the oldest fall off the front.
Collect ==
  /\ up /\ pc = "idle"
  /\ \E beat \in {<<>>, <<Beat>>} :
       LET new == Without(TailOf(frontier) \o Fresh(frontier), IdsOf(cursor.recent))
           all == buffer \o new \o beat
           over == Len(all) - Least(BufferMax, Len(all))
           evicted == First(all, over)
       IN  /\ buffer' = After(all, over)
           /\ pending' = pending + Len(new) - Len(RecordsIn(evicted))
           /\ uncounted' = Add(uncounted, over)
           /\ lost' = lost \cup IdsOf(evicted)
  /\ frontier' = Reached(frontier)
  /\ pc' = IF waiting THEN "save" ELSE "send"
  /\ UNCHANGED <<written, file, old, saved, up, cursor, waiting, copies, faults>>

Batch == First(buffer, BatchMax)
Sending == up /\ pc = "send" /\ buffer # <<>>
Taken(batch) ==
  copies' = [r \in Ids |-> copies[r] + Cardinality({i \in DOMAIN batch : batch[i] = r})]

\* Variant that leaves the count alone.
ConsumeForgetting ==
  /\ buffer' = After(buffer, Len(Batch))
  /\ pending' = pending

\* Shipper::forget and Buffer::commit for a whole batch.
Consume ==
  /\ buffer' = After(buffer, Len(Batch))
  /\ pending' = pending - Len(RecordsIn(Batch))

SendOk ==
  /\ Sending
  /\ Taken(Batch)
  /\ Consume
  /\ cursor' = [cursor EXCEPT !.recent = Noted(@, Batch)]
  /\ UNCHANGED <<written, file, old, saved, up, pc, frontier, uncounted, waiting, lost, faults>>

\* A retryable error: a timeout, a broken connection, and over HTTPS every 4xx or 5xx,
\* which the agent makes an error (http_status_as_error).  What the collector had taken
\* by then, none of the batch or some of it, it keeps.
SendFails ==
  /\ Sending
  /\ \E n \in 0 .. Len(Batch) :
       /\ n > 0 => faults < MaxFaults
       /\ faults' = IF n > 0 THEN faults + 1 ELSE faults
       /\ Taken(First(Batch, n))
  /\ waiting' = TRUE
  /\ pc' = "save"
  /\ UNCHANGED <<written, file, old, saved, up, cursor, frontier, buffer, pending,
                 uncounted, lost>>

\* A permanent error: the batch is dropped and counted.  Over HTTPS only an answer the
\* agent hands back that is no success, such as a redirect of a POST, gets here.
SendRefused ==
  /\ Sending
  /\ Consume
  /\ cursor' = [cursor EXCEPT !.dropped = Add(@, Len(Batch))]
  /\ lost' = lost \cup IdsOf(Batch)
  /\ pc' = "save"
  /\ UNCHANGED <<written, file, old, saved, up, frontier, uncounted, waiting, copies, faults>>

\* Variant that moves the cursor as soon as the records are read.
SettleEarly(c) == [c EXCEPT !.inode = frontier.inode, !.offset = frontier.offset]

\* Shipper::settle: only a source with nothing outstanding moves its cursor.
Settle(c) ==
  IF pending = 0
  THEN [c EXCEPT !.inode = frontier.inode, !.offset = frontier.offset]
  ELSE c

Counted(c) == [c EXCEPT !.dropped = Add(@, uncounted)]

\* The end of a pass: settle, count the evictions, save; a failed save is logged
\* and the pass is over all the same.
Save ==
  /\ up
  /\ pc = "save" \/ (pc = "send" /\ buffer = <<>>)
  /\ cursor' = Counted(Settle(cursor))
  /\ saved' \in {cursor', saved}
  /\ uncounted' = 0
  /\ pc' = "idle"
  /\ UNCHANGED <<written, file, old, up, frontier, buffer, pending, waiting, copies, lost, faults>>

\* The clock reaches next_attempt.
BackoffOver ==
  /\ waiting
  /\ waiting' = FALSE
  /\ UNCHANGED <<written, file, old, saved, up, pc, cursor, frontier, buffer, pending,
                 uncounted, copies, lost, faults>>

\* SIGTERM between two passes, or a crash anywhere: memory is gone.
Stop ==
  /\ up
  /\ faults < MaxFaults
  /\ faults' = faults + 1
  /\ up' = FALSE /\ pc' = "idle"
  /\ buffer' = <<>> /\ pending' = 0 /\ uncounted' = 0
  /\ waiting' = FALSE
  /\ cursor' = NoCursor
  /\ frontier' = [inode |-> 0, offset |-> 0]
  /\ UNCHANGED <<written, file, old, saved, copies, lost>>

\* Shipper::new loads the cursor; collect resumes from it.
Restart ==
  /\ ~up
  /\ up' = TRUE
  /\ cursor' = saved
  /\ frontier' = [inode |-> saved.inode, offset |-> saved.offset]
  /\ UNCHANGED <<written, file, old, saved, pc, buffer, pending, uncounted, waiting,
                 copies, lost, faults>>

Next ==
  \/ Write
  \/ Collect \/ SendOk \/ SendFails \/ SendRefused \/ Save
  \/ BackoffOver \/ Stop \/ Restart

\* The loop of moat_ship.rs keeps passing, systemd restarts it, time passes, and
\* a collector that is asked for ever takes a batch now and then, whichever is at the
\* head: one it never takes and answers with a 4xx is sent again until it is evicted.
Fairness ==
  /\ WF_vars(Collect) /\ WF_vars(Save) /\ WF_vars(BackoffOver) /\ WF_vars(Restart)
  /\ SF_vars(SendOk)

Spec == Init /\ [][Next]_vars
FairSpec == Spec /\ Fairness

-----------------------------------------------------------------------------
(* Properties. *)

Delivered == {r \in Ids : copies[r] > 0}

\* The cursor file skips nothing: of the records it has passed, as many as the
\* collector never took are in its drop count, at every point where a restart
\* could read it (Shipper::settle, Shipper::pass).
NothingSkipped ==
  Cardinality((1 .. written) \ (Delivered \cup IdsOf(Ahead(saved)))) <= saved.dropped

\* A running shipper loses track of nothing it has read: every record is still
\* to be read, buffered, taken by the collector, or given up and counted.
NothingForgotten ==
  up => 1 .. written \subseteq
          Delivered \cup lost \cup IdsOf(buffer) \cup IdsOf(Ahead(frontier))

\* The count that keeps the cursor from moving is the number of records of the
\* source in the buffer, whatever mixture of evictions, acknowledgements and
\* refusals there was (Shipper::forget saturates, so a miscount is silent).
PendingExact == pending = Len(RecordsIn(buffer))

\* The exactly-once window: a line is sent again only for a crash or a lost
\* answer, and a record has one line, plus one per rotation that carries it
\* (SourceCursor::recent, Shipper.frontier).
OncePerFault == \A r \in Ids : copies[r] <= (1 + faults) * file.inode

\* The whole shipper keeps the promise of Delivery.
Promised == INSTANCE Delivery
  WITH Records <- Ids, written <- 1 .. written, delivered <- Delivered, lost <- lost
KeepsPromise == Promised!Spec

=============================================================================
