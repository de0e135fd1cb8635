--------------------------- MODULE MCIdpFederation ---------------------------
(***************************************************************************)
(* IdpFederation on a small instance: one person with an account at each of *)
(* two providers, under the same email; one account is in a mapped group.   *)
(***************************************************************************)
EXTENDS IdpFederation, TLC

CONSTANTS c1, c2, okta, google, u1, u2, mail

MCHome == u1 :> okta @@ u2 :> google
MCEmailOf == u1 :> mail @@ u2 :> mail
Symmetry == Permutations(Callback)
=============================================================================
