----------------------------- MODULE MCApprovals -----------------------------
(***************************************************************************)
(* Approvals, and the ClientAuth below it, on small instances.              *)
(***************************************************************************)
EXTENDS Approvals, TLC

CONSTANTS a1, a2, c1, c2, k1, k2, p1, p2, i1
\* Not over Agent: ClientAuth chooses one for calls that are not in flight.
Symmetry ==
    Permutations(Client) \cup Permutations(Console) \cup Permutations(Approver)
=============================================================================
