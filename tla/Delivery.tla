------------------------------ MODULE Delivery -------------------------------
(***************************************************************************)
(* What moat-ship promises, with nothing of how it keeps the promise: every *)
(* record moatd writes either reaches the collector or is counted as a      *)
(* loss, and nothing is delivered or counted that was never written.        *)
(* At-least-once: a record may be delivered again, or be counted as a loss  *)
(* and reach the collector all the same.                                    *)
(***************************************************************************)
CONSTANT Records

VARIABLES
  written,    \* records moatd has appended
  delivered,  \* records the collector has taken at least once
  lost        \* records given up, each counted when it was

vars == <<written, delivered, lost>>

Init == written = {} /\ delivered = {} /\ lost = {}

Write ==
  /\ \E r \in Records \ written : written' = written \cup {r}
  /\ UNCHANGED <<delivered, lost>>

Deliver ==
  /\ \E batch \in SUBSET written : delivered' = delivered \cup batch
  /\ UNCHANGED <<written, lost>>

GiveUp ==
  /\ \E some \in SUBSET written : lost' = lost \cup some
  /\ UNCHANGED <<written, delivered>>

Next == Write \/ Deliver \/ GiveUp

Settled(r) == r \in delivered \cup lost

\* The promise: written records do not stay on the machine for ever.
Promise == \A r \in Records : r \in written ~> Settled(r)

Spec == Init /\ [][Next]_vars /\ Promise

=============================================================================
