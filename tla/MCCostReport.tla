---------------------------- MODULE MCCostReport ----------------------------
(* Small instances of CostReport for TLC. *)
EXTENDS CostReport, TLC

Symmetry == Permutations(Extractions) \cup Permutations(DocTypes)

=============================================================================
