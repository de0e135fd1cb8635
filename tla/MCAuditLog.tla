----------------------------- MODULE MCAuditLog -----------------------------
(***************************************************************************)
(* AuditLog on a small instance. Two of the three payloads of MCEntry        *)
(* concatenate to the same bytes (action "ab" on resource "c", action "a"   *)
(* on "bc").                                                                *)
(***************************************************************************)
EXTENDS AuditLog, TLC

CONSTANTS ab_c, a_bc, other, w1, w2

MCWriter == {w1, w2}
Symmetry == Permutations(MCWriter)
MCForgeable == {<<>>}
MCEntry == {ab_c, a_bc, other}
TwoEntries == {ab_c, other}
MCEncoding == {"abc", "xyz"}
MCEncode == [e \in Entry |-> IF e = other THEN "xyz" ELSE "abc"]
=============================================================================
