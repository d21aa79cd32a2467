-------------------------- MODULE MCDocumentQueries --------------------------
(* Small instances of DocumentQueries for TLC. *)
EXTENDS DocumentQueries, TLC

\* documents, runs and clients are interchangeable
Symmetry == Permutations(Docs) \cup Permutations(Runs) \cup Permutations(Clients)

=============================================================================
