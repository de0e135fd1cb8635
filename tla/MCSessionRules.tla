---------------------------- MODULE MCSessionRules ----------------------------
(***************************************************************************)
(* SessionRules, and the RateLimit below it, on small instances.            *)
(***************************************************************************)
EXTENDS SessionRules, TLC

CONSTANTS c1, c2, r1, pay, quote
MCAmount == {1, -1}
Symmetry == Permutations(Client)
=============================================================================
