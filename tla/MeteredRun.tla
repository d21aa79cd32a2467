----------------------------- MODULE MeteredRun -----------------------------
(* What one extraction promises to the usage ledger: the LLM client reports  *)
(* tokens while the outcome is open; once the extraction has an outcome that *)
(* is recorded, the ledger receives, once, every token that was reported.    *)
(* An extraction that ends in any other exception records nothing.           *)
EXTENDS Naturals

CONSTANT
    Unrecorded  \* the outcome that leaves no extractions row

VARIABLES outcome, spent, ledger, written

vars == <<outcome, spent, ledger, written>>

None == "none"
Outcomes == {"completed", "partial", "failed", "extraction_error", Unrecorded}

Init ==
    /\ outcome = None
    /\ spent = 0
    /\ ledger = 0
    /\ written = FALSE

Spend ==
    /\ outcome = None
    /\ spent' \in Nat /\ spent' >= spent
    /\ UNCHANGED <<outcome, ledger, written>>

Decide ==
    /\ outcome = None
    /\ outcome' \in Outcomes
    /\ UNCHANGED <<spent, ledger, written>>

Record ==
    /\ outcome \in Outcomes \ {Unrecorded}
    /\ ~written
    /\ written' = TRUE
    /\ ledger' = spent
    /\ UNCHANGED <<outcome, spent>>

Next == Spend \/ Decide \/ Record

Spec == Init /\ [][Next]_vars

=============================================================================
