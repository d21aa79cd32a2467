----------------------------- MODULE MCPageMerge -----------------------------
(* Small instances of PageMerge for TLC. *)
EXTENDS PageMerge

\* The values of list items only differ from each other
Symmetry == Permutations(Items)

=============================================================================
