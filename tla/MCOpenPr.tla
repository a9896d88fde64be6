------------------------------ MODULE MCOpenPr ------------------------------
(***************************************************************************)
(* OpenPr on small instances.                                              *)
(***************************************************************************)
EXTENDS OpenPr, TLC

\* Calls, branches and keys are interchangeable.
Symmetry == Permutations(Callers) \cup Permutations(Branches) \cup Permutations(Keys)

==============================================================================
