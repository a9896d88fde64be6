---------------------------- MODULE MCTaskClaims ----------------------------
(***************************************************************************)
(* TaskClaims on small instances.                                          *)
(***************************************************************************)
EXTENDS TaskClaims, TLC

\* Callers, owners and keys are interchangeable.
Symmetry == Permutations(Callers) \cup Permutations(Owners)
              \cup Permutations(Keys)

==============================================================================
