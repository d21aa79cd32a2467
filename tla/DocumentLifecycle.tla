-------------------------- MODULE DocumentLifecycle --------------------------
(* What the service promises of its documents, without sessions, files,      *)
(* queue or faults: a document's status and the extractions made of it       *)
(* change in four ways, each of them atomic.  Nothing is deleted.            *)
CONSTANTS
    Docs,
    Runs       \* attempts to extract a document, each with at most one result

VARIABLES
    status,    \* documents.status, "absent" before the document exists
    results    \* the extractions made

vars == <<status, results>>

ExtractionStatus == {"completed", "partial", "failed"}
Statuses == {"absent", "UPLOADED", "PROCESSING", "COMPLETED", "FAILED"}

TypeOK ==
    /\ status \in [Docs -> Statuses]
    /\ results \subseteq [run: Runs, doc: Docs, status: ExtractionStatus]

StatusFor(s) == IF s = "failed" THEN "FAILED" ELSE "COMPLETED"

Init ==
    /\ status = [d \in Docs |-> "absent"]
    /\ results = {}

\* an upload is registered, UPLOADED or at once PROCESSING
Register(d) ==
    /\ status[d] = "absent"
    /\ \E s \in {"UPLOADED", "PROCESSING"} : status' = [status EXCEPT ![d] = s]
    /\ UNCHANGED results

\* a run begins, whatever earlier or parallel runs made of the document
Begin(d) ==
    /\ status[d] # "absent"
    /\ status' = [status EXCEPT ![d] = "PROCESSING"]
    /\ UNCHANGED results

\* a run gives up without an extraction
GiveUp(d) ==
    /\ status[d] # "absent"
    /\ status' = [status EXCEPT ![d] = "FAILED"]
    /\ UNCHANGED results

\* MUTANT: a document has one extraction, the latest
PublishOver(x, d) ==
    /\ status[d] # "absent"
    /\ \A p \in results : p.run # x
    /\ \E s \in ExtractionStatus :
        /\ results' = {p \in results : p.doc # d} \cup {[run |-> x, doc |-> d, status |-> s]}
        /\ status' = [status EXCEPT ![d] = StatusFor(s)]

\* a run publishes its extraction together with the status that goes with it
Publish(x, d) ==
    /\ status[d] # "absent"
    /\ \A p \in results : p.run # x
    /\ \E s \in ExtractionStatus :
        /\ results' = results \cup {[run |-> x, doc |-> d, status |-> s]}
        /\ status' = [status EXCEPT ![d] = StatusFor(s)]

Next ==
    \E d \in Docs : Register(d) \/ Begin(d) \/ GiveUp(d) \/ \E x \in Runs : Publish(x, d)

Spec == Init /\ [][Next]_vars

\* A document is COMPLETED only if a run left a readable extraction of it.
CompletedHasResult ==
    \A d \in Docs : status[d] = "COMPLETED" =>
        \E p \in results : p.doc = d /\ p.status # "failed"

=============================================================================
