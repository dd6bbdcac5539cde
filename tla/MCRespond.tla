---------------------------- MODULE MCRespond ----------------------------
(* A small machine for Respond: a trunk and two more pids, two programs. *)
EXTENDS Respond, TLC

CONSTANTS p1, p2, p3, tool, payload

K(f, n, t, a) == [family |-> f, novel |-> n, trigger |-> t, armed |-> a]

MCArmed ==
  {K("exec", TRUE, TRUE, FALSE), K("net", TRUE, TRUE, TRUE), K("net", TRUE, FALSE, FALSE)}

MCBoxes == {{}, {p2}, {p3}}

\* The two pids that are not the trunk's may be swapped.
MCSymmetry == Permutations({p2, p3})

==========================================================================
