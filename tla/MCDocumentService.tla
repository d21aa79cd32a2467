------------------------- MODULE MCDocumentService -------------------------
(* Small instances of DocumentService for TLC. *)
EXTENDS DocumentService, TLC

\* Requests and document ids are interchangeable
Symmetry == Permutations(Requests) \cup Permutations(Docs)

=============================================================================
