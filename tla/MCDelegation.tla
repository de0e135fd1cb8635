---------------------------- MODULE MCDelegation ----------------------------
(***************************************************************************)
(* Delegation on small instances: two agents with different owners.         *)
(***************************************************************************)
EXTENDS Delegation, TLC

CONSTANTS a1, a2, u1, u2, s1, db

MCOwner == a1 :> u1 @@ a2 :> u2
=============================================================================
