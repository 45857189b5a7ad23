------------------------- MODULE MCWorkspaceBinding -------------------------
(***************************************************************************)
(* Instances of WorkspaceBinding for TLC.                                  *)
(***************************************************************************)
EXTENDS WorkspaceBinding, TLC

Symmetry == Permutations(Actors) \cup Permutations(Cases) \cup Permutations(Contents)

=============================================================================
