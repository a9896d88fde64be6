---------------------------- MODULE MCCheckStatus ----------------------------
(***************************************************************************)
(* CheckStatus on small instances.                                         *)
(***************************************************************************)
EXTENDS CheckStatus, TLC

\* Contexts and commits are interchangeable.
Symmetry == Permutations(Contexts) \cup Permutations(Commits)

==============================================================================
