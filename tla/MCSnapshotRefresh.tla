------------------------- MODULE MCSnapshotRefresh -------------------------
(***************************************************************************)
(* SnapshotRefresh on small instances.                                     *)
(***************************************************************************)
EXTENDS SnapshotRefresh, TLC

\* Commits and processes are interchangeable.
Symmetry == Permutations(Commits) \cup Permutations(Refreshes)

==============================================================================
