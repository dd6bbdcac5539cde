------------------------------ MODULE MCChain ------------------------------
(***************************************************************************)
(* Chain for TLC: a credential read, a connection, a persistence finding, a *)
(* program started, and a credential read the user has allowed.             *)
(***************************************************************************)
EXTENDS Chain, TLC

A(family, rank, trigger, striking, launch) ==
  [family |-> family, rank |-> rank, trigger |-> trigger, striking |-> striking,
   launch |-> launch]

MCKinds ==
  {A("cred", 1, TRUE, FALSE, FALSE), A("net", 0, TRUE, FALSE, TRUE),
   A("persist", 1, TRUE, TRUE, FALSE), A("exec", 2, TRUE, TRUE, TRUE),
   A("cred", 3, FALSE, TRUE, FALSE)}

Symmetry == Permutations(Trees)

=============================================================================
