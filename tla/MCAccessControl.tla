--------------------------- MODULE MCAccessControl ---------------------------
(***************************************************************************)
(* AccessControl on small instances: two handlers. "read" is allowed once   *)
(* per session; "pay" needs an approval, and a "read" before it.            *)
(***************************************************************************)
EXTENDS AccessControl, TLC

CONSTANTS w1, w2, a1, s1, read, pay, o1, o2

\* Loose enough for a stop to be what decides.
MCLooseRule ==
    [x \in Action |-> [decision |-> "allow", maxActions |-> 5, prior |-> NoAction]]
MCRule ==
    read :> [decision |-> "allow", maxActions |-> 1, prior |-> NoAction]
      @@ pay :> [decision |-> "approval", maxActions |-> 2, prior |-> read]
Symmetry == Permutations(Worker)
=============================================================================
