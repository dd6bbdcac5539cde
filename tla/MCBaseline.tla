----------------------------- MODULE MCBaseline -----------------------------
(***************************************************************************)
(* Baseline for TLC: one pattern, whose alerts the rule calls medium or    *)
(* high and the context may escalate.                                      *)
(***************************************************************************)
EXTENDS Baseline

MCGrades == [t \in Tuples |->
  {[base |-> Medium, severity |-> Medium],
   [base |-> Medium, severity |-> High],
   [base |-> High, severity |-> High]}]

=============================================================================
