--------------------------- MODULE MCBranchLists ---------------------------
(* BranchLists for TLC: models and sizes are interchangeable model values. *)
EXTENDS BranchLists, TLC

Symmetry == Permutations(Models) \cup Permutations(Sizes)
=============================================================================
