--------------------------- MODULE MCExtractionRun ---------------------------
(* Small instances of ExtractionRun for TLC. *)
EXTENDS ExtractionRun
=============================================================================
