------------------------------ MODULE MCFeeds ------------------------------
(* Two packages: the index has either or both. *)
EXTENDS Feeds

CONSTANTS a, b, listed

MCIndexes == {[k \in S |-> listed] : S \in {{a}, {a, b}}}
=============================================================================
