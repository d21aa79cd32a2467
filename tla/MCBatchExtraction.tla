-------------------------- MODULE MCBatchExtraction --------------------------
(* Small instances of BatchExtraction for TLC. *)
EXTENDS BatchExtraction
=============================================================================
