------------------------------- MODULE MCVault -------------------------------
(***************************************************************************)
(* Vault on small instances: a person's accounts at two providers and at   *)
(* one that the server does not know.                                       *)
(***************************************************************************)
EXTENDS Vault, TLC

CONSTANTS c1, c2, hub, slk, oth

MCProvider ==
    hub :> "github" @@ slk :> "slack" @@ oth :> "other"
Symmetry == Permutations(Client)
=============================================================================
