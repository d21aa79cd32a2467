----------------------------- MODULE Corrections -----------------------------
(* An extraction and the corrections that reviewers make of it               *)
(* (app/services/corrections.py).  A reviewer reads the extraction, changes  *)
(* a field, and submits the whole; what is submitted goes through the same   *)
(* validation as the answer of the model did, and is stored beside the       *)
(* extraction, which itself never changes.                                   *)
EXTENDS FieldRecovery

CONSTANTS
    Requests,    \* correction requests
    Answers,     \* what the model may answer, for each document type
    Edits        \* the <<field, value>> that the reviewer of a request may
                 \* change in a document of each type

\* an amount is an integer, and of a list only its amounts count (FieldRecovery)
WellTyped(v) ==
    /\ v[1] = "money" => v[2] \in Int
    /\ v[1] = "list" => v[2] \in Seq(Int)

ASSUME ValuesAssumption ==
    \A t \in DocTypes :
        /\ \A answer \in Answers[t] : \A f \in DOMAIN answer : WellTyped(answer[f])
        /\ \A q \in Requests : \A e \in Edits[q][t] : WellTyped(e[2])

VARIABLES
    doc_type,    \* the type of the document, None before the extraction
    raw,         \* the answer that was validated
    extraction,  \* status, data and warnings of the extraction
    confidence,  \* its confidence map
    pc,          \* how far each request is
    body,        \* request.corrected_data
    rows         \* the committed extraction_corrections row of each request

vars == <<doc_type, raw, extraction, confidence, pc, body, rows>>

None == "none"
NotYet == [status |-> None, data |-> NoData, warnings |-> {}]
NoRow == [original |-> NoData, corrected |-> NoData,
          diff |-> [added |-> NoData, removed |-> NoData, changed |-> NoData],
          warnings |-> {}]

TypeOK ==
    /\ doc_type \in DocTypes \cup {None}
    /\ extraction.status \in {None, "completed", "partial", "failed", "raised"}
    /\ DOMAIN extraction.data \in {{}} \cup {Fields(t) : t \in DocTypes}
    /\ pc \in [Requests -> {"idle", "submitted", "inserting", "refreshing", "answered",
                            "rejected", "raised", "lost"}]
    /\ \A q \in Requests :
        rows[q] = NoRow \/ DOMAIN rows[q].corrected = Fields(doc_type)

Init ==
    /\ doc_type = None
    /\ raw = NoData
    /\ extraction = NotYet
    /\ confidence = NoData
    /\ pc = [q \in Requests |-> "idle"]
    /\ body = [q \in Requests |-> NoData]
    /\ rows = [q \in Requests |-> NoRow]

-----------------------------------------------------------------------------
Goto(q, label) == pc' = [pc EXCEPT ![q] = label]

\* run_resolved validates and scores an answer; the recorder stores the result,
\* or nothing when validation raises
RecordExtraction ==
    /\ extraction = NotYet
    /\ \E t \in DocTypes, answer \in UNION {Answers[u] : u \in DocTypes} :
        /\ answer \in Answers[t]
        /\ doc_type' = t
        /\ raw' = answer
        /\ extraction' = Validate(t, answer)
        /\ confidence' = IF extraction'.status = "raised" THEN NoData
                         ELSE ConfidenceMap(t, extraction'.data)
    /\ UNCHANGED <<pc, body, rows>>

Change(data, f, v) == [g \in DOMAIN data \cup {f} |-> IF g = f THEN v ELSE data[g]]
Drop(data, f) == [g \in DOMAIN data \ {f} |-> data[g]]

\* a reviewer who has read the extraction submits it, as it is or edited
Submit(q) ==
    /\ pc[q] = "idle" /\ extraction.status \notin {None, "raised"}
    /\ LET data == extraction.data IN
       \E next \in {data} \cup {Change(data, e[1], e[2]) : e \in Edits[q][doc_type]}
                          \cup {Drop(data, e[1]) : e \in Edits[q][doc_type]} :
           body' = [body EXCEPT ![q] = next]
    /\ Goto(q, "submitted")
    /\ UNCHANGED <<doc_type, raw, extraction, confidence, rows>>

\* the verdict of validate_extraction: without data the request is refused, and
\* what validation raises leaves the handler
AfterCheck(result) ==
    CASE result.status = "raised" -> "raised"
      [] result.status = "failed" -> "rejected"
      [] OTHER -> "inserting"

Check(q) ==
    /\ pc[q] = "submitted"
    /\ Goto(q, AfterCheck(Validate(doc_type, body[q])))
    /\ UNCHANGED <<doc_type, raw, extraction, confidence, body, rows>>

\* MUTANT: a value that was erased counts as unchanged
DiffOfStated(original, corrected) ==
    [added   |-> [f \in DOMAIN corrected \ DOMAIN original |-> corrected[f]],
     removed |-> [f \in DOMAIN original \ DOMAIN corrected |-> original[f]],
     changed |-> [f \in {g \in DOMAIN original \cap DOMAIN corrected :
                           corrected[g] # Null /\ original[g] # corrected[g]} |->
                    [from |-> original[f], to |-> corrected[f]]]]

\* diff_extraction_data
Diff(original, corrected) ==
    [added   |-> [f \in DOMAIN corrected \ DOMAIN original |-> corrected[f]],
     removed |-> [f \in DOMAIN original \ DOMAIN corrected |-> original[f]],
     changed |-> [f \in {g \in DOMAIN original \cap DOMAIN corrected :
                           original[g] # corrected[g]} |->
                    [from |-> original[f], to |-> corrected[f]]]]

\* MUTANT: what was submitted is stored, not what validation made of it
SubmittedRow(q) ==
    [original |-> extraction.data, corrected |-> body[q],
     diff |-> Diff(extraction.data, body[q]), warnings |-> {}]

\* MUTANT: the diff is taken against the raw answer of the model
RawOriginal(q) ==
    LET result == Validate(doc_type, body[q]) IN
    [original |-> raw, corrected |-> result.data, diff |-> Diff(raw, result.data),
     warnings |-> result.warnings]

\* the row that create() adds
Correction(q) ==
    LET result == Validate(doc_type, body[q]) IN
    [original  |-> extraction.data,
     corrected |-> result.data,
     diff      |-> Diff(extraction.data, result.data),
     warnings  |-> result.warnings]

\* MUTANT: an extraction has one correction, the latest
ReplaceRow(q) ==
    rows' = [p \in Requests |-> IF p = q THEN Correction(q) ELSE NoRow]

AddRow(q) == rows' = [rows EXCEPT ![q] = Correction(q)]

\* insert, flush and commit
Commit(q) ==
    /\ pc[q] = "inserting"
    /\ AddRow(q)
    /\ Goto(q, "refreshing")
    /\ UNCHANGED <<doc_type, raw, extraction, confidence, body>>

\* the insert or its commit fails, or only the answer to the commit is lost
CommitFails(q) ==
    /\ pc[q] = "inserting"
    /\ UNCHANGED rows \/ AddRow(q)
    /\ Goto(q, "lost")
    /\ UNCHANGED <<doc_type, raw, extraction, confidence, body>>

\* db.refresh and the CorrectionResponse
Answer(q) ==
    /\ pc[q] = "refreshing"
    /\ Goto(q, "answered")
    /\ UNCHANGED <<doc_type, raw, extraction, confidence, body, rows>>

RefreshFails(q) ==
    /\ pc[q] = "refreshing"
    /\ Goto(q, "lost")
    /\ UNCHANGED <<doc_type, raw, extraction, confidence, body, rows>>

Terminated ==
    /\ \/ \A q \in Requests : pc[q] \in {"answered", "rejected", "raised", "lost"}
       \/ extraction.status = "raised"
    /\ UNCHANGED vars

Next ==
    \/ RecordExtraction
    \/ \E q \in Requests : \/ Submit(q) \/ Check(q) \/ Commit(q) \/ CommitFails(q)
                           \/ Answer(q) \/ RefreshFails(q)
    \/ Terminated

Spec == Init /\ [][Next]_vars

-----------------------------------------------------------------------------
(* Properties *)

\* what was validated and stored: the answer, and each stored correction
Stored ==
    (IF extraction.status \in {"completed", "partial"}
     THEN {[raw |-> raw, data |-> extraction.data, warnings |-> extraction.warnings]}
     ELSE {})
    \cup {[raw |-> body[q], data |-> rows[q].corrected, warnings |-> rows[q].warnings] :
            q \in {p \in Requests : rows[p] # NoRow}}

\* Recovery works field by field: whatever else the document says, a valid
\* field is stored as the whole schema would have stored it, its currency code
\* normalised, and the others are null (validation.py:41-76, 172-188).
RecoveryIsFieldwise ==
    \A s \in Stored : \A f \in Fields(doc_type) :
        s.data[f] = IF f \in DOMAIN s.raw /\ FieldOk(doc_type, f, s.raw[f])
                    THEN Normal(doc_type, f, s.raw[f]) ELSE Null

\* Nothing that was stated for a field of the schema is lost without a word: a
\* warning names the field, and the confidence of exactly the fields without a
\* value is 0.  (A key that the schema does not have is ignored.)
LossIsVisible ==
    /\ \A s \in Stored : \A f \in Fields(doc_type) \cap DOMAIN s.raw :
        s.raw[f] # Null /\ s.data[f] = Null => f \in s.warnings
    /\ extraction.status \in {"completed", "partial"} =>
        \A f \in Fields(doc_type) : confidence[f] = 0 <=> extraction.data[f] = Null

\* an amount, or a list of amounts, in the range where sums cannot be rounded
Enormous(v) ==
    \/ v[1] = "money" /\ Huge(2 * v[2])
    \/ v[1] = "list" /\ Huge(2 * Total(v[2]))

\* Validation answers every input: it raises only for amounts too large to be
\* rounded to cents (validation.py:37, 74, 186; schemas/documents.py:10-11).
OnlyHugeAmountsEscape ==
    /\ extraction.status = "raised" => \E f \in DOMAIN raw : Enormous(raw[f])
    /\ \A q \in Requests : pc[q] = "raised" =>
        \E f \in DOMAIN body[q] : Enormous(body[q][f])

\* Stored data is a fixed point of validation: a reviewer who submits an
\* extraction as it is gets a correction that changes nothing.
OwnDataIsNoChange ==
    \A q \in Requests : body[q] = extraction.data /\ extraction.data # NoData =>
        /\ pc[q] \notin {"rejected", "raised"}
        /\ DOMAIN rows[q].diff.added = {} /\ DOMAIN rows[q].diff.changed = {}

Replay(data, d) ==
    [f \in (DOMAIN data \ DOMAIN d.removed) \cup DOMAIN d.added |->
        IF f \in DOMAIN d.added THEN d.added[f]
        ELSE IF f \in DOMAIN d.changed THEN d.changed[f].to ELSE data[f]]

\* The diff is the whole difference: applied to the original it gives the
\* corrected data (corrections.py:77-107).
DiffReplays ==
    \A q \in Requests : rows[q] # NoRow =>
        Replay(rows[q].original, rows[q].diff) = rows[q].corrected

\* A correction that was answered stays as it was stored, whatever is corrected
\* later, and a refused one is not stored.
CorrectionsAreKept ==
    [][\A q \in Requests :
        /\ pc[q] = "answered" => rows[q] # NoRow /\ rows'[q] = rows[q]
        /\ pc[q] \in {"rejected", "raised"} => rows'[q] = NoRow]_vars

=============================================================================
