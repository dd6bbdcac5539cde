------------------------------ MODULE MCArming -------------------------------
(* Arming with two policies, one of them the decoys'.                        *)
EXTENDS Arming

CONSTANTS p, c

MCPolicies == {p, c}
MCBackoff == [t \in 0 .. 1 |-> t + 1]
=============================================================================
