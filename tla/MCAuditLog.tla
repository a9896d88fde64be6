----------------------------- MODULE MCAuditLog -----------------------------
(***************************************************************************)
(* AuditLog on small instances.                                            *)
(***************************************************************************)
EXTENDS AuditLog, TLC

\* Writers are interchangeable.
Symmetry == Permutations(Writers)

==============================================================================
