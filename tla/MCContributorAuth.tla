------------------------- MODULE MCContributorAuth -------------------------
(***************************************************************************)
(* ContributorAuth on small instances.                                     *)
(***************************************************************************)
EXTENDS ContributorAuth, TLC

\* Callers and users are interchangeable.
Symmetry == Permutations(Callers) \cup Permutations(Users)

==============================================================================
