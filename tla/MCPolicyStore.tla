----------------------------- MODULE MCPolicyStore -----------------------------
(***************************************************************************)
(* PolicyStore on small instances.                                          *)
(***************************************************************************)
EXTENDS PolicyStore, TLC

CONSTANTS h1, h2, deny, good, bad

Symmetry == Permutations(Handler)
=============================================================================
