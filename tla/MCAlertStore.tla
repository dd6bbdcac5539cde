---------------------------- MODULE MCAlertStore ----------------------------
(***************************************************************************)
(* AlertStore for TLC: a grave alert on the badge, and one for the         *)
(* timeline that only a chain or an action of moatd can protect.           *)
(***************************************************************************)
EXTENDS AlertStore

Grave == [shown |-> TRUE, grave |-> TRUE, meta |-> FALSE]
Timeline == [shown |-> FALSE, grave |-> FALSE, meta |-> FALSE]

MCKinds == {Grave, Timeline}

=============================================================================
