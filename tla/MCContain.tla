------------------------------ MODULE MCContain ------------------------------
(***************************************************************************)
(* Contain for TLC.  Three chains over two slots make the cap bite: the    *)
(* third containment evicts.  The chains are model values; the safety run  *)
(* uses their symmetry, the runs with temporal properties do not.          *)
(***************************************************************************)
EXTENDS Contain, TLC

ChainSymmetry == Permutations(Chains)

=============================================================================
