-------------------------- MODULE CorrectionsProofs --------------------------
(* For every answer of the model and every correction: recovery works field  *)
(* by field and loses nothing without a warning, validation raises only for  *)
(* amounts beyond rounding, and a stored diff is the whole difference.       *)
EXTENDS Corrections, Folding

-----------------------------------------------------------------------------
(* Field recovery *)

\* Every schema has one currency field.
LEMMA OneCode ==
    ASSUME NEW type \in DocTypes, NEW f \in Fields(type), Schema[type][f] = "code"
    PROVE  f = IF type = "contract" THEN "payment_currency" ELSE "currency"
<1>1. CASE type = "invoice"
  BY <1>1 DEF Schema, Fields
<1>2. CASE type = "contract"
  BY <1>2 DEF Schema, Fields
<1>3. CASE type = "payslip"
  BY <1>3 DEF Schema, Fields
<1>4. CASE type = "receipt"
  BY <1>4 DEF Schema, Fields
<1> QED BY <1>1, <1>2, <1>3, <1>4 DEF DocTypes

\* The fallback of every other field is valid.
LEMMA FallbackOk ==
    ASSUME NEW type \in DocTypes, NEW f \in Fields(type), Schema[type][f] # "code"
    PROVE  FieldOk(type, f, FallbackRaw(type, f))
BY DEF FieldOk, FallbackRaw, Readable, ReadAs, Null

\* The fallback dates are in order.
LEMMA FallbackInOrder ==
    ASSUME NEW type \in DocTypes, NEW f \in Fields(type), Schema[type][f] = "code",
           NEW v
    PROVE  DatesInOrder(type, Candidate(type, f, v))
<1> DEFINE c == Candidate(type, f, v)
<1>1. CASE type = "invoice"
  <2>1. "due_date" \in Fields(type) /\ "due_date" # f /\ "due_date" \in Optional[type]
    BY <1>1, OneCode DEF Schema, Fields, Optional
  <2>2. c["due_date"] = Null
    BY <2>1 DEF Candidate, FallbackRaw
  <2> QED BY <1>1, <2>2 DEF DatesInOrder, InOrder, Stated
<1>2. CASE type = "contract"
  <2>1. /\ "termination_date" \in Fields(type) /\ "termination_date" # f
        /\ "termination_date" \in Optional[type]
    BY <1>2, OneCode DEF Schema, Fields, Optional
  <2>2. c["termination_date"] = Null
    BY <2>1 DEF Candidate, FallbackRaw
  <2> QED BY <1>2, <2>2 DEF DatesInOrder, InOrder, Stated
<1>3. CASE type = "payslip"
  <2>1. \A g \in {"pay_period_start", "pay_period_end"} :
           g \in Fields(type) /\ g # f /\ g \notin Optional[type]
           /\ Schema[type][g] = "date"
    BY <1>3, OneCode DEF Schema, Fields, Optional
  <2>2. c["pay_period_start"] = <<"date", 0>> /\ c["pay_period_end"] = <<"date", 0>>
    BY <2>1 DEF Candidate, FallbackRaw
  <2> QED BY <1>3, <2>2 DEF DatesInOrder, InOrder, Stated
<1>4. CASE type = "receipt"
  BY <1>4 DEF DatesInOrder
<1> QED BY <1>1, <1>2, <1>3, <1>4 DEF DocTypes

\* A currency code that is valid in its document is valid among fallbacks.
LEMMA CodeCandidate ==
    ASSUME NEW type \in DocTypes, NEW f \in Fields(type), NEW v,
           Schema[type][f] = "code", FieldOk(type, f, v)
    PROVE  Valid(type, Candidate(type, f, v))
<1> DEFINE c == Candidate(type, f, v)
<1>1. ASSUME NEW g \in Fields(type) PROVE g \in DOMAIN c /\ FieldOk(type, g, c[g])
  <2>1. CASE g = f
    BY <2>1 DEF Candidate
  <2>2. CASE g # f
    <3>1. Schema[type][g] # "code"
      BY <2>2, OneCode
    <3> QED BY <2>2, <3>1, FallbackOk DEF Candidate
  <2> QED BY <2>1, <2>2
<1>2. Invalid(type, c) = {}
  BY <1>1 DEF Invalid
<1> QED BY <1>2, FallbackInOrder DEF Valid

\* Whichever way a valid field is recovered, it comes out as the schema has it.
LEMMA ValidFieldIsNormal ==
    ASSUME NEW type \in DocTypes, NEW f \in Fields(type), NEW v, FieldOk(type, f, v)
    PROVE  FieldValue(type, f, v) = Normal(type, f, v)
BY CodeCandidate DEF FieldValue, Normal

\* The data of a usable result, field by field.
LEMMA ResultIsFieldwise ==
    ASSUME NEW type \in DocTypes, NEW answer,
           Validate(type, answer).status \in {"completed", "partial"},
           NEW f \in Fields(type)
    PROVE  Validate(type, answer).data[f] =
               IF f \in DOMAIN answer /\ FieldOk(type, f, answer[f])
               THEN Normal(type, f, answer[f]) ELSE Null
<1>1. CASE Valid(type, answer)
  <2>1. Validate(type, answer).data = Model(type, answer)
    BY <1>1 DEF Validate, Result, Raised
  <2>2. f \in DOMAIN answer => FieldOk(type, f, answer[f])
    BY <1>1 DEF Valid, Invalid
  <2> QED BY <2>1, <2>2 DEF Model
<1>2. CASE ~Valid(type, answer)
  <2>1. Validate(type, answer).data = Recovered(type, answer)
    BY <1>2 DEF Validate, RecoverPartial, Result, Raised
  <2>2. f \in Kept(type, answer) <=> f \in DOMAIN answer /\ FieldOk(type, f, answer[f])
    BY DEF Kept, Invalid
  <2> QED BY <2>1, <2>2, ValidFieldIsNormal DEF Recovered
<1> QED BY <1>1, <1>2

\* A usable result has all fields of the schema, another has no data.
LEMMA ResultShape ==
    ASSUME NEW type \in DocTypes, NEW answer
    PROVE  LET r == Validate(type, answer) IN
           /\ r.status \in {"completed", "partial", "failed", "raised"}
           /\ r.status \in {"completed", "partial"} =>
                DOMAIN r.data = Fields(type) /\ r.data = [f \in Fields(type) |-> r.data[f]]
           /\ r.status \notin {"completed", "partial"} => r.data = NoData
BY DEF Validate, RecoverPartial, Result, Raised, Model, Recovered

\* What is stored for a field is valid and stored as it is the next time, and
\* a null stays null.
LEMMA NormalIsFixed ==
    ASSUME NEW type \in DocTypes, NEW f \in Fields(type), NEW v, FieldOk(type, f, v)
    PROVE  /\ FieldOk(type, f, Normal(type, f, v))
           /\ Normal(type, f, Normal(type, f, v)) = Normal(type, f, v)
           /\ Normal(type, f, Null) = Null
BY DEF FieldOk, Normal, Readable, ReadAs, Codes, Upper, Null

\* Usable data is a fixed point of validation.
LEMMA UsableDataIsFixed ==
    ASSUME NEW type \in DocTypes, NEW answer,
           Validate(type, answer).status \in {"completed", "partial"}
    PROVE  LET data == Validate(type, answer).data IN
           /\ Validate(type, data).status \in {"completed", "partial"}
           /\ Validate(type, data).data = data
<1> DEFINE data == Validate(type, answer).data
<1>1. DOMAIN data = Fields(type) /\ data = [f \in Fields(type) |-> data[f]]
  BY ResultShape
<1>2. ASSUME NEW f \in Fields(type)
      PROVE  IF FieldOk(type, f, data[f]) THEN Normal(type, f, data[f]) = data[f]
             ELSE data[f] = Null
  BY ResultIsFieldwise, NormalIsFixed
<1>3. Model(type, data) = data \/ ~Valid(type, data)
  <2>1. Valid(type, data) => \A f \in Fields(type) : FieldOk(type, f, data[f])
    BY <1>1 DEF Valid, Invalid
  <2> QED BY <1>1, <1>2, <2>1 DEF Model
<1>4. Recovered(type, data) = data
  <2>1. \A f \in Fields(type) : f \in Kept(type, data) <=> FieldOk(type, f, data[f])
    BY <1>1 DEF Kept, Invalid
  <2> QED BY <1>1, <1>2, <2>1, ValidFieldIsNormal DEF Recovered
<1>5. ~Unquantized(type, data)
  BY DEF Validate, RecoverPartial, Result, Raised
<1>6. Unrecoverable(type, data) = {}
  BY DEF Unrecoverable, Kept, Invalid, FieldOk
<1>7. Valid(type, data) \/ Kept(type, data) # {}
  <2>1. CASE Valid(type, answer)
    <3>1. \A f \in Fields(type) : IF f \in DOMAIN answer
                                 THEN FieldOk(type, f, answer[f]) ELSE f \in Optional[type]
      BY <2>1 DEF Valid, Invalid, Required
    <3>2. PICK f \in Fields(type) : TRUE
      BY DEF DocTypes, Fields, Schema
    <3>3. FieldOk(type, f, data[f])
      BY <3>1, ResultIsFieldwise, NormalIsFixed DEF FieldOk, Readable
    <3> QED BY <1>1, <3>3 DEF Kept, Invalid
  <2>2. CASE ~Valid(type, answer)
    <3>1. PICK f \in Fields(type) : f \in DOMAIN answer /\ FieldOk(type, f, answer[f])
      BY <2>2 DEF Validate, RecoverPartial, Result, Raised, Kept, Invalid
    <3>2. FieldOk(type, f, data[f])
      BY <3>1, ResultIsFieldwise, NormalIsFixed
    <3> QED BY <1>1, <3>2 DEF Kept, Invalid
  <2> QED BY <2>1, <2>2
<1> QED BY <1>3, <1>4, <1>5, <1>6, <1>7 DEF Validate, RecoverPartial, Result

-----------------------------------------------------------------------------
(* Diffs *)

\* Applying the difference of two JSON objects to one gives the other.
LEMMA DiffApplies ==
    ASSUME NEW original, NEW corrected, corrected = [f \in DOMAIN corrected |-> corrected[f]]
    PROVE  Replay(original, Diff(original, corrected)) = corrected
<1> DEFINE d == Diff(original, corrected)
           r == Replay(original, d)
<1>1. /\ DOMAIN d.added = DOMAIN corrected \ DOMAIN original
      /\ DOMAIN d.removed = DOMAIN original \ DOMAIN corrected
      /\ \A f \in DOMAIN d.added : d.added[f] = corrected[f]
  BY DEF Diff
<1>2. /\ DOMAIN d.changed = {f \in DOMAIN original \cap DOMAIN corrected :
                               original[f] # corrected[f]}
      /\ \A f \in DOMAIN d.changed : d.changed[f].to = corrected[f]
  BY DEF Diff
<1>3. (DOMAIN original \ DOMAIN d.removed) \cup DOMAIN d.added = DOMAIN corrected
  BY <1>1
<1>4. r = [f \in DOMAIN corrected |->
             IF f \in DOMAIN d.added THEN d.added[f]
             ELSE IF f \in DOMAIN d.changed THEN d.changed[f].to ELSE original[f]]
  BY <1>3 DEF Replay
<1>5. ASSUME NEW f \in DOMAIN corrected PROVE r[f] = corrected[f]
  BY <1>1, <1>2, <1>4
<1> QED BY <1>4, <1>5

\* An object does not differ from itself.
LEMMA NoDiff ==
    ASSUME NEW data
    PROVE  DOMAIN Diff(data, data).added = {} /\ DOMAIN Diff(data, data).changed = {}
BY DEF Diff

-----------------------------------------------------------------------------
(* The inductive invariant *)

Usable(q) == Validate(doc_type, body[q]).status \in {"completed", "partial"}

\* The extraction is the verdict on its answer.
Extracted ==
    extraction # NotYet => doc_type \in DocTypes /\ extraction = Validate(doc_type, raw)

\* How far a request is, and what it has stored so far.
Progress(q) ==
    \/ /\ pc[q] = "idle" /\ rows[q] = NoRow /\ body[q] = NoData
    \/ /\ pc[q] = "submitted" /\ rows[q] = NoRow
    \/ /\ pc[q] = "inserting" /\ rows[q] = NoRow /\ Usable(q)
    \/ /\ pc[q] \in {"refreshing", "answered"} /\ rows[q] = Correction(q) /\ Usable(q)
    \/ /\ pc[q] = "lost" /\ rows[q] \in {NoRow, Correction(q)} /\ Usable(q)
    \/ /\ pc[q] \in {"rejected", "raised"} /\ rows[q] = NoRow /\ ~Usable(q)

Filed ==
    /\ Extracted
    /\ pc = [q \in Requests |-> pc[q]]
    /\ body = [q \in Requests |-> body[q]]
    /\ rows = [q \in Requests |-> rows[q]]
    /\ \A q \in Requests : Progress(q)
    /\ \A q \in Requests : pc[q] # "idle" => extraction # NotYet

LEMMA InitFiled == Init => Filed
BY DEF Init, Filed, Extracted, Progress

\* Recording the extraction comes before every request.
LEMMA RecordFiled ==
    ASSUME Filed, RecordExtraction
    PROVE  Filed'
<1>1. \A q \in Requests : pc[q] = "idle" /\ rows[q] = NoRow /\ body[q] = NoData
  BY DEF Filed, RecordExtraction, Progress
<1>2. Extracted'
  BY DEF RecordExtraction, Extracted
<1> QED BY <1>1, <1>2 DEF RecordExtraction, Filed, Progress

RequestStep(q) ==
    \/ Submit(q) \/ Check(q) \/ Commit(q) \/ CommitFails(q) \/ Answer(q) \/ RefreshFails(q)

\* A step of one request keeps its own progress.
LEMMA OwnProgress ==
    ASSUME Filed, NEW q \in Requests, RequestStep(q)
    PROVE  Progress(q)' /\ extraction # NotYet
<1> USE DEF Filed, Goto
<1>1. UNCHANGED <<doc_type, extraction>> /\ pc'[q] # pc[q]
  BY DEF RequestStep, Submit, Check, Commit, CommitFails, Answer, RefreshFails, AfterCheck
<1>2. CASE Submit(q)
  BY <1>2 DEF Submit, Progress, NotYet
<1>3. CASE Check(q)
  <2>1. /\ UNCHANGED <<body, rows>> /\ pc[q] = "submitted" /\ rows[q] = NoRow
        /\ pc'[q] = AfterCheck(Validate(doc_type, body[q]))
    BY <1>3 DEF Check, Progress
  <2>2. extraction # NotYet /\ doc_type \in DocTypes
    BY <2>1 DEF Extracted
  <2>3. Validate(doc_type, body[q]).status \in {"completed", "partial", "failed", "raised"}
    BY <2>2, ResultShape
  <2>4. Usable(q)' <=> Usable(q)
    BY <1>1, <2>1 DEF Usable
  <2> QED BY <2>1, <2>2, <2>3, <2>4 DEF Progress, AfterCheck, Usable
<1>4. CASE Commit(q)
  BY <1>1, <1>4 DEF Commit, AddRow, Progress, Usable, Correction
<1>5. CASE CommitFails(q)
  BY <1>1, <1>5 DEF CommitFails, AddRow, Progress, Usable, Correction
<1>6. CASE Answer(q)
  BY <1>1, <1>6 DEF Answer, Progress, Usable, Correction
<1>7. CASE RefreshFails(q)
  BY <1>1, <1>7 DEF RefreshFails, Progress, Usable, Correction
<1> QED BY <1>2, <1>3, <1>4, <1>5, <1>6, <1>7 DEF RequestStep

\* And the progress of every other request.
LEMMA RequestFiled ==
    ASSUME Filed, NEW q \in Requests, RequestStep(q)
    PROVE  Filed'
<1>1. /\ UNCHANGED <<doc_type, raw, extraction>>
      /\ \A p \in Requests \ {q} : UNCHANGED <<pc[p], body[p], rows[p]>>
      /\ pc' = [p \in Requests |-> pc'[p]]
      /\ body' = [p \in Requests |-> body'[p]]
      /\ rows' = [p \in Requests |-> rows'[p]]
  BY DEF Filed, RequestStep, Submit, Check, Commit, CommitFails, Answer, RefreshFails,
         Goto, AddRow
<1>2. ASSUME NEW p \in Requests, p # q PROVE Progress(p)'
  BY <1>1, <1>2 DEF Filed, Progress, Usable, Correction
<1>3. Progress(q)' /\ extraction # NotYet
  BY OwnProgress
<1>4. Extracted'
  BY <1>1 DEF Filed, Extracted
<1> QED BY <1>1, <1>2, <1>3, <1>4 DEF Filed

LEMMA NextFiled == Filed /\ [Next]_vars => Filed'
<1> SUFFICES ASSUME Filed, [Next]_vars PROVE Filed'
  OBVIOUS
<1>1. CASE RecordExtraction
  BY <1>1, RecordFiled
<1>2. ASSUME NEW q \in Requests, RequestStep(q) PROVE Filed'
  BY <1>2, RequestFiled
<1>3. CASE UNCHANGED vars
  BY <1>3 DEF vars, Filed, Extracted, Progress, Usable, Correction
<1> QED BY <1>1, <1>2, <1>3 DEF Next, RequestStep, Terminated

LEMMA AlwaysFiled == Spec => []Filed
BY InitFiled, NextFiled, PTL DEF Spec

-----------------------------------------------------------------------------
(* Theorems *)

\* A stored row is a usable correction of the extraction.
LEMMA RowIsCorrection ==
    ASSUME Filed, NEW q \in Requests, rows[q] # NoRow
    PROVE  /\ doc_type \in DocTypes
           /\ Validate(doc_type, body[q]).status \in {"completed", "partial"}
           /\ rows[q].original = extraction.data
           /\ rows[q].corrected = Validate(doc_type, body[q]).data
           /\ rows[q].diff = Diff(rows[q].original, rows[q].corrected)
           /\ rows[q].warnings = Validate(doc_type, body[q]).warnings
<1>1. rows[q] = Correction(q) /\ Usable(q)
  BY DEF Filed, Progress
<1>2. doc_type \in DocTypes
  BY DEF Filed, Progress, Extracted
<1>3. /\ rows[q].original = extraction.data
      /\ rows[q].corrected = Validate(doc_type, body[q]).data
      /\ rows[q].diff = Diff(extraction.data, Validate(doc_type, body[q]).data)
      /\ rows[q].warnings = Validate(doc_type, body[q]).warnings
  BY <1>1 DEF Correction
<1> QED BY <1>1, <1>2, <1>3 DEF Usable

\* So is the extraction the verdict on its answer.
LEMMA ExtractionIsVerdict ==
    ASSUME Filed, extraction # NotYet
    PROVE  doc_type \in DocTypes /\ extraction = Validate(doc_type, raw)
BY DEF Filed, Extracted

DocTyped == doc_type \in DocTypes \cup {None}

\* Stored data has the fields of its schema and no other
\* (validation.py:35-39, 69-73).
THEOREM TypeCorrect == Spec => []TypeOK
<1>1. Filed /\ DocTyped => TypeOK
  <2> SUFFICES ASSUME Filed, DocTyped PROVE TypeOK
    OBVIOUS
  <2>1. /\ extraction.status \in {None, "completed", "partial", "failed", "raised"}
        /\ DOMAIN extraction.data \in {{}} \cup {Fields(t) : t \in DocTypes}
    <3>1. CASE extraction = NotYet
      BY <3>1 DEF NotYet, NoData
    <3>2. CASE extraction # NotYet
      <4>1. doc_type \in DocTypes /\ extraction = Validate(doc_type, raw)
        BY <3>2, ExtractionIsVerdict
      <4>2. DOMAIN extraction.data = Fields(doc_type) \/ extraction.data = NoData
        BY <4>1, ResultShape
      <4>3. extraction.status \in {"completed", "partial", "failed", "raised"}
        BY <4>1, ResultShape
      <4> QED BY <4>1, <4>2, <4>3 DEF NoData
    <3> QED BY <3>1, <3>2
  <2>2. ASSUME NEW q \in Requests, rows[q] # NoRow
        PROVE  DOMAIN rows[q].corrected = Fields(doc_type)
    <3>1. /\ doc_type \in DocTypes
          /\ Validate(doc_type, body[q]).status \in {"completed", "partial"}
          /\ rows[q].corrected = Validate(doc_type, body[q]).data
      BY <2>2, RowIsCorrection
    <3>2. DOMAIN Validate(doc_type, body[q]).data = Fields(doc_type)
      BY <3>1, ResultShape
    <3> QED BY <3>1, <3>2
  <2>3. pc \in [Requests -> {"idle", "submitted", "inserting", "refreshing",
                             "answered", "rejected", "raised", "lost"}]
    BY DEF Filed, Progress
  <2> QED BY <2>1, <2>2, <2>3 DEF TypeOK, DocTyped
<1>2. Init => DocTyped
  BY DEF Init, DocTyped
<1>3. DocTyped /\ [Next]_vars => DocTyped'
  BY DEF Next, RecordExtraction, Submit, Check, Commit, CommitFails, Answer,
         RefreshFails, Terminated, vars, DocTyped
<1> QED BY <1>1, <1>2, <1>3, AlwaysFiled, PTL DEF Spec

\* For every answer and every correction, each field is recovered on its own,
\* in the form the schema stores it in (validation.py:41-76, 172-188).
THEOREM FieldsAreRecovered == Spec => []RecoveryIsFieldwise
<1>1. Filed => RecoveryIsFieldwise
  <2> SUFFICES ASSUME Filed, NEW s \in Stored, NEW f \in Fields(doc_type)
               PROVE  s.data[f] = IF f \in DOMAIN s.raw /\ FieldOk(doc_type, f, s.raw[f])
                                  THEN Normal(doc_type, f, s.raw[f]) ELSE Null
    BY DEF RecoveryIsFieldwise
  <2>1. CASE /\ extraction.status \in {"completed", "partial"}
             /\ s.raw = raw /\ s.data = extraction.data
    <3>1. doc_type \in DocTypes /\ extraction = Validate(doc_type, raw)
      BY <2>1, ExtractionIsVerdict DEF NotYet, None
    <3> QED BY <2>1, <3>1, ResultIsFieldwise
  <2>2. ASSUME NEW q \in Requests, rows[q] # NoRow,
               s.raw = body[q], s.data = rows[q].corrected
        PROVE  s.data[f] = IF f \in DOMAIN s.raw /\ FieldOk(doc_type, f, s.raw[f])
                           THEN Normal(doc_type, f, s.raw[f]) ELSE Null
    BY <2>2, RowIsCorrection, ResultIsFieldwise
  <2> QED BY <2>1, <2>2 DEF Stored
<1> QED BY <1>1, AlwaysFiled, PTL

\* For every extraction and correction the stored diff is the whole difference
\* (corrections.py:77-107).
THEOREM DiffIsWhole == Spec => []DiffReplays
<1>1. Filed => DiffReplays
  <2> SUFFICES ASSUME Filed, NEW q \in Requests, rows[q] # NoRow
               PROVE  Replay(rows[q].original, rows[q].diff) = rows[q].corrected
    BY DEF DiffReplays
  <2>1. rows[q].corrected = [f \in DOMAIN rows[q].corrected |-> rows[q].corrected[f]]
    BY RowIsCorrection, ResultShape
  <2> QED BY <2>1, RowIsCorrection, DiffApplies
<1> QED BY <1>1, AlwaysFiled, PTL

\* Resubmitting an extraction as it is never fails and never shows a change.
THEOREM ResubmissionIsNoChange == Spec => []OwnDataIsNoChange
<1>1. Filed => OwnDataIsNoChange
  <2> SUFFICES ASSUME Filed, NEW q \in Requests, body[q] = extraction.data,
                      extraction.data # NoData
               PROVE  /\ pc[q] \notin {"rejected", "raised"}
                      /\ DOMAIN rows[q].diff.added = {}
                      /\ DOMAIN rows[q].diff.changed = {}
    BY DEF OwnDataIsNoChange
  <2>1. /\ doc_type \in DocTypes /\ extraction = Validate(doc_type, raw)
        /\ extraction.status \in {"completed", "partial"}
    <3>1. extraction # NotYet
      BY DEF NotYet
    <3> QED BY <3>1, ExtractionIsVerdict, ResultShape
  <2>2. Usable(q) /\ Validate(doc_type, body[q]).data = extraction.data
    BY <2>1, UsableDataIsFixed DEF Usable
  <2>3. pc[q] \notin {"rejected", "raised"}
    BY <2>2 DEF Filed, Progress
  <2>4. CASE rows[q] = NoRow
    BY <2>3, <2>4 DEF NoRow, NoData
  <2>5. CASE rows[q] # NoRow
    <3>1. rows[q].diff = Diff(extraction.data, extraction.data)
      BY <2>2, <2>5, RowIsCorrection
    <3> QED BY <2>3, <3>1, NoDiff
  <2> QED BY <2>3, <2>4, <2>5
<1> QED BY <1>1, AlwaysFiled, PTL

\* An answered correction is kept, a refused one is never stored.
THEOREM CorrectionsStay == Spec => CorrectionsAreKept
<1> DEFINE Keeps == \A q \in Requests :
                      /\ pc[q] = "answered" => rows[q] # NoRow /\ rows'[q] = rows[q]
                      /\ pc[q] \in {"rejected", "raised"} => rows'[q] = NoRow
<1>1. Filed /\ [Next]_vars => [Keeps]_vars
  <2> SUFFICES ASSUME Filed, Next, NEW q \in Requests,
                      pc[q] \in {"answered", "rejected", "raised"}
               PROVE  /\ pc[q] = "answered" => rows[q] # NoRow /\ rows'[q] = rows[q]
                      /\ pc[q] \in {"rejected", "raised"} => rows'[q] = NoRow
    OBVIOUS
  <2>1. rows'[q] = rows[q]
    BY DEF Next, RecordExtraction, Submit, Check, Commit, CommitFails, Answer,
           RefreshFails, Terminated, vars, AddRow, Filed
  <2>2. CASE pc[q] = "answered"
    <3>1. /\ doc_type \in DocTypes
          /\ Validate(doc_type, body[q]).status \in {"completed", "partial"}
          /\ rows[q].corrected = Validate(doc_type, body[q]).data
      BY <2>2 DEF Filed, Progress, Extracted, Usable, Correction
    <3>2. DOMAIN rows[q].corrected = Fields(doc_type)
      BY <3>1, ResultShape
    <3>3. Fields(doc_type) # {}
      BY <3>1 DEF DocTypes, Fields, Schema
    <3> QED BY <2>1, <2>2, <3>2, <3>3 DEF NoRow, NoData
  <2>3. CASE pc[q] \in {"rejected", "raised"}
    BY <2>1, <2>3 DEF Filed, Progress
  <2> QED BY <2>2, <2>3
<1> QED BY <1>1, AlwaysFiled, PTL DEF Spec, CorrectionsAreKept

-----------------------------------------------------------------------------
(* Totals *)

\* The total of a list of amounts is an amount.
LEMMA TotalIsAmount ==
    ASSUME NEW items \in Seq(Int)
    PROVE  Total(items) \in Int
<1> DEFINE D == DOMAIN items
           One(s) == CHOOSE x \in s : TRUE
           Iter(g) == g = [s \in SUBSET D |->
                             IF s = {} THEN 0 ELSE items[One(s)] + g[s \ {One(s)}]]
           pick == [s \in SUBSET D |-> One(s)]
           plus == [p \in D \X Int |-> items[p[1]] + p[2]]
<1>1. IsFiniteSet(D) /\ \A i \in D : items[i] \in Int
  <2>1. D = 1..Len(items) /\ Len(items) \in Nat
    OBVIOUS
  <2> QED BY <2>1, FS_Interval
<1>2. Total(items) = (CHOOSE g : Iter(g))[D]
  BY DEF Total, FoldSeq, FoldFunction, FoldFunctionOnSet, MapThenFoldSet
<1>3. Picks(pick, D)
  BY DEF Picks
<1>4. plus \in [D \X Int -> Int]
  BY <1>1
<1>5. PICK h \in [SUBSET D -> Int] : IsFold(h, D, 0, pick, plus)
  <2>1. 0 \in Int
    OBVIOUS
  <2> HIDE DEF pick, plus, D
  <2> QED BY <1>1, <1>3, <1>4, <2>1, FoldExists
<1>6. ASSUME NEW s \in SUBSET D, s # {}
      PROVE  plus[<<pick[s], h[s \ {pick[s]}]>>] = items[One(s)] + h[s \ {One(s)}]
  <2>1. pick[s] = One(s) /\ pick[s] \in D
    BY <1>6
  <2>2. s \ {pick[s]} \in SUBSET D
    BY <1>6
  <2>3. h[s \ {pick[s]}] \in Int
    <3> HIDE DEF pick
    <3> QED BY <1>5, <2>2
  <2>4. plus[<<pick[s], h[s \ {pick[s]}]>>] = items[pick[s]] + h[s \ {pick[s]}]
    <3> HIDE DEF pick
    <3> QED BY <2>1, <2>3
  <2> HIDE DEF plus, pick
  <2> QED BY <2>1, <2>4
<1>7. Iter(h)
  <2> HIDE DEF plus
  <2> QED BY <1>5, <1>6 DEF IsFold
<1>8. Iter(CHOOSE g : Iter(g))
  <2> HIDE DEF Iter
  <2> QED BY <1>7, Zenon
<1>9. ASSUME NEW g, Iter(g) PROVE g[D] = h[D]
  <2> DEFINE Q == {s \in SUBSET D : g[s] = h[s]}
  <2>1. {} \in Q
    BY <1>7, <1>9
  <2>2. ASSUME NEW s \in SUBSET D, s # {}, s \ {pick[s]} \in Q PROVE s \in Q
    <3>1. g[s] = items[One(s)] + g[s \ {One(s)}] /\ h[s] = items[One(s)] + h[s \ {One(s)}]
      BY <1>7, <1>9, <2>2
    <3> QED BY <2>2, <3>1
  <2>3. \A s \in SUBSET D : s # {} /\ s \ {pick[s]} \in Q => s \in Q
    BY <2>2
  <2>4. D \in Q
    <3> HIDE DEF Q, pick, D
    <3> QED BY <1>1, <1>3, <2>1, <2>3, PickInduction
  <2> QED BY <2>4
<1>10. Total(items) = h[D]
  <2> HIDE DEF Iter
  <2> QED BY <1>2, <1>8, <1>9
<1> QED BY <1>5, <1>10

-----------------------------------------------------------------------------
(* Warnings and amounts *)

\* A value is null in the data only if it is refused, and what is refused is warned of.
LEMMA LossIsWarned ==
    ASSUME NEW type \in DocTypes, NEW answer,
           Validate(type, answer).status \in {"completed", "partial"},
           NEW f \in Fields(type) \cap DOMAIN answer,
           answer[f] # Null, Validate(type, answer).data[f] = Null
    PROVE  f \in Validate(type, answer).warnings
<1>1. Normal(type, f, answer[f]) # Null
  BY DEF Normal, Null
<1>2. ~FieldOk(type, f, answer[f])
  BY <1>1, ResultIsFieldwise
<1>3. f \in Invalid(type, answer)
  BY <1>2 DEF Invalid
<1>4. ~Valid(type, answer) /\ ValidationWarnings(type, answer) = Invalid(type, answer)
  BY <1>3 DEF Valid, ValidationWarnings
<1> QED BY <1>3, <1>4 DEF Validate, RecoverPartial, Result, Raised

\* The score of a value is 0 exactly when there is none.
LEMMA ScoreZero ==
    ASSUME NEW type \in DocTypes, NEW f \in Fields(type), NEW v
    PROVE  Score(type, f, v) = 0 <=> v = Null
<1>1. v = Null => Score(type, f, v) = 0
  BY DEF Score, Negative, Null
<1>2. CASE v # Null
  <2>1. CASE v = <<"text", "N/A">>
    BY <2>1 DEF Score, Null
  <2>2. CASE v # <<"text", "N/A">>
    BY <1>2, <2>2 DEF Score
  <2> QED BY <2>1, <2>2
<1> QED BY <1>1, <1>2

Typed(data) == \A f \in DOMAIN data : WellTyped(data[f])

\* the data that Validate works with, before the amounts are compared
DataOf(type, answer) ==
    IF Valid(type, answer) THEN Model(type, answer) ELSE Recovered(type, answer)

LEMMA DataFields ==
    ASSUME NEW type \in DocTypes, NEW answer, NEW f \in Fields(type)
    PROVE  DataOf(type, answer)[f] =
               IF f \in DOMAIN answer /\ FieldOk(type, f, answer[f])
               THEN Normal(type, f, answer[f]) ELSE Null
<1>1. CASE Valid(type, answer)
  <2>1. f \in DOMAIN answer => FieldOk(type, f, answer[f])
    BY <1>1 DEF Valid, Invalid
  <2> QED BY <1>1, <2>1 DEF Model, DataOf
<1>2. CASE ~Valid(type, answer)
  <2>1. f \in Kept(type, answer) <=> f \in DOMAIN answer /\ FieldOk(type, f, answer[f])
    BY DEF Kept, Invalid
  <2> QED BY <1>2, <2>1, ValidFieldIsNormal DEF Recovered, DataOf
<1> QED BY <1>1, <1>2

\* An amount in the data is one that was stated.
LEMMA AmountIsStated ==
    ASSUME NEW type \in DocTypes, NEW answer, Typed(answer),
           NEW f \in Fields(type), Schema[type][f] = "money",
           NEW v, v = DataOf(type, answer)[f], v # Null
    PROVE  f \in DOMAIN answer /\ answer[f] = v /\ v[1] = "money" /\ v[2] \in Int
<1>1. f \in DOMAIN answer /\ FieldOk(type, f, answer[f]) /\ v = Normal(type, f, answer[f])
  BY DataFields
<1>2. v = answer[f]
  BY <1>1 DEF Normal
<1>3. v[1] = "money"
  BY <1>1, <1>2 DEF FieldOk, Readable, ReadAs
<1> QED BY <1>1, <1>2, <1>3 DEF Typed, WellTyped

LEMMA ListIsStated ==
    ASSUME NEW type \in DocTypes, NEW answer, Typed(answer),
           NEW f \in Fields(type), Schema[type][f] = "list",
           NEW v, v = DataOf(type, answer)[f], v # Null
    PROVE  f \in DOMAIN answer /\ answer[f] = v /\ v[1] = "list" /\ v[2] \in Seq(Int)
<1>1. f \in DOMAIN answer /\ FieldOk(type, f, answer[f]) /\ v = Normal(type, f, answer[f])
  BY DataFields
<1>2. v = answer[f]
  BY <1>1 DEF Normal
<1>3. v[1] = "list"
  BY <1>1, <1>2 DEF FieldOk, Readable, ReadAs
<1> QED BY <1>1, <1>2, <1>3 DEF Typed, WellTyped

\* A sum or difference is out of range only if one of its terms is half as large.
LEMMA HugeTerm ==
    ASSUME NEW a \in Int, NEW b \in Int
    PROVE  /\ Huge(a + b) => Huge(2 * a) \/ Huge(2 * b)
           /\ Huge(a - b) => Huge(2 * a) \/ Huge(2 * b)
           /\ Huge(a) => Huge(2 * a)
BY QuantizeAssumption DEF Huge

\* Only data with an enormous amount cannot be rounded.
LEMMA UnquantizedIsEnormous ==
    ASSUME NEW type \in DocTypes, NEW answer, Typed(answer),
           Unquantized(type, DataOf(type, answer))
    PROVE  \E f \in DOMAIN answer : Enormous(answer[f])
<1>1. PICK data : data = DataOf(type, answer)
  OBVIOUS
<1>2. Unquantized(type, data)
  BY <1>1
<1>3. CASE type \in {"invoice", "receipt"}
  <2>1. PICK a, b, c : a = data["subtotal"] /\ b = data["tax_amount"] /\ c = data["total_amount"]
    OBVIOUS
  <2>2. a # Null /\ b # Null /\ c # Null /\ (Huge(a[2] + b[2]) \/ Huge(c[2]))
    BY <1>2, <1>3, <2>1 DEF Unquantized, Compared
  <2>3. \A f \in {"subtotal", "tax_amount", "total_amount"} :
           f \in Fields(type) /\ Schema[type][f] = "money"
    BY <1>3 DEF Fields, Schema
  <2>4. /\ "subtotal" \in DOMAIN answer /\ answer["subtotal"] = a
        /\ a[1] = "money" /\ a[2] \in Int
    BY <1>1, <2>1, <2>2, <2>3, AmountIsStated
  <2>5. /\ "tax_amount" \in DOMAIN answer /\ answer["tax_amount"] = b
        /\ b[1] = "money" /\ b[2] \in Int
    BY <1>1, <2>1, <2>2, <2>3, AmountIsStated
  <2>6. /\ "total_amount" \in DOMAIN answer /\ answer["total_amount"] = c
        /\ c[1] = "money" /\ c[2] \in Int
    BY <1>1, <2>1, <2>2, <2>3, AmountIsStated
  <2>7. Huge(2 * a[2]) \/ Huge(2 * b[2]) \/ Huge(2 * c[2])
    BY <2>2, <2>4, <2>5, <2>6, HugeTerm
  <2>8. Enormous(a) \/ Enormous(b) \/ Enormous(c)
    BY <2>4, <2>5, <2>6, <2>7 DEF Enormous
  <2> QED BY <2>4, <2>5, <2>6, <2>8
<1>4. CASE type = "payslip"
  <2>1. PICK a, b, c : a = data["gross_pay"] /\ b = data["deductions"] /\ c = data["net_pay"]
    OBVIOUS
  <2>2. a # Null /\ b # Null /\ c # Null /\ (Huge(a[2] - Total(b[2])) \/ Huge(c[2]))
    BY <1>2, <1>4, <2>1 DEF Unquantized, Compared
  <2>3. /\ \A f \in {"gross_pay", "net_pay"} : f \in Fields(type) /\ Schema[type][f] = "money"
        /\ "deductions" \in Fields(type) /\ Schema[type]["deductions"] = "list"
    BY <1>4 DEF Fields, Schema
  <2>4. /\ "gross_pay" \in DOMAIN answer /\ answer["gross_pay"] = a
        /\ a[1] = "money" /\ a[2] \in Int
    BY <1>1, <2>1, <2>2, <2>3, AmountIsStated
  <2>5. /\ "deductions" \in DOMAIN answer /\ answer["deductions"] = b
        /\ b[1] = "list" /\ Total(b[2]) \in Int
    BY <1>1, <2>1, <2>2, <2>3, ListIsStated, TotalIsAmount
  <2>6. /\ "net_pay" \in DOMAIN answer /\ answer["net_pay"] = c
        /\ c[1] = "money" /\ c[2] \in Int
    BY <1>1, <2>1, <2>2, <2>3, AmountIsStated
  <2>7. Huge(2 * a[2]) \/ Huge(2 * Total(b[2])) \/ Huge(2 * c[2])
    BY <2>2, <2>4, <2>5, <2>6, HugeTerm
  <2>8. Enormous(a) \/ Enormous(b) \/ Enormous(c)
    BY <2>4, <2>5, <2>6, <2>7 DEF Enormous
  <2> QED BY <2>4, <2>5, <2>6, <2>8
<1>5. CASE type = "contract"
  BY <1>2, <1>5 DEF Unquantized, Compared
<1> QED BY <1>3, <1>4, <1>5 DEF DocTypes

\* Validation raises only for enormous amounts.
LEMMA RaisedIsEnormous ==
    ASSUME NEW type \in DocTypes, NEW answer, Typed(answer),
           Validate(type, answer).status = "raised"
    PROVE  \E f \in DOMAIN answer : Enormous(answer[f])
<1>1. Unrecoverable(type, answer) = {}
  BY DEF Unrecoverable, Kept, Invalid, FieldOk
<1>2. Unquantized(type, DataOf(type, answer))
  BY <1>1 DEF Validate, RecoverPartial, Result, DataOf
<1> QED BY <1>2, UnquantizedIsEnormous

\* What is stored is made of amounts, as what was stated is.
LEMMA ResultTyped ==
    ASSUME NEW type \in DocTypes, NEW answer, Typed(answer)
    PROVE  Typed(Validate(type, answer).data)
<1>1. CASE Validate(type, answer).status \in {"completed", "partial"}
  <2> SUFFICES ASSUME NEW f \in Fields(type) PROVE WellTyped(Validate(type, answer).data[f])
    BY <1>1, ResultShape DEF Typed
  <2>1. WellTyped(Null)
    BY DEF WellTyped, Null
  <2>2. \A v : WellTyped(v) => WellTyped(Normal(type, f, v))
    BY DEF WellTyped, Normal
  <2>3. f \in DOMAIN answer => WellTyped(answer[f])
    BY DEF Typed
  <2> QED BY <1>1, <2>1, <2>2, <2>3, ResultIsFieldwise
<1>2. CASE Validate(type, answer).status \notin {"completed", "partial"}
  <2>1. Validate(type, answer).data = NoData
    BY <1>2, ResultShape
  <2> QED BY <2>1 DEF NoData, Typed
<1> QED BY <1>1, <1>2

-----------------------------------------------------------------------------
(* What was stated, and how it was scored *)

\* What was answered and submitted is made of amounts; the scores are those of
\* the stored data; and a request has raised only where validation did.
Stating ==
    /\ Typed(raw)
    /\ Typed(extraction.data)
    /\ \A q \in Requests : Typed(body[q])
    /\ extraction.status \notin {None, "raised"} =>
         confidence = ConfidenceMap(doc_type, extraction.data)
    /\ \A q \in Requests : pc[q] = "raised" =>
         Validate(doc_type, body[q]).status = "raised"

LEMMA InitStating == Init => Stating
<1>1. Typed(NoData)
  BY DEF Typed, NoData
<1> QED BY <1>1 DEF Init, Stating, NotYet

LEMMA RecordStating ==
    ASSUME Filed, Stating, RecordExtraction
    PROVE  Stating'
<1>1. PICK t \in DocTypes : \E answer \in Answers[t] :
        /\ doc_type' = t /\ raw' = answer /\ extraction' = Validate(t, answer)
        /\ confidence' = IF extraction'.status = "raised" THEN NoData
                         ELSE ConfidenceMap(t, extraction'.data)
  BY DEF RecordExtraction
<1>2. PICK answer \in Answers[t] :
        /\ doc_type' = t /\ raw' = answer /\ extraction' = Validate(t, answer)
        /\ confidence' = IF extraction'.status = "raised" THEN NoData
                         ELSE ConfidenceMap(t, extraction'.data)
  BY <1>1
<1>3. Typed(answer) /\ Typed(extraction'.data)
  <2>1. Typed(answer)
    BY ValuesAssumption DEF Typed
  <2> QED BY <1>2, <2>1, ResultTyped
<1>4. \A q \in Requests : pc'[q] = pc[q] /\ body'[q] = body[q] /\ pc[q] = "idle"
  BY DEF RecordExtraction, Filed
<1> QED BY <1>2, <1>3, <1>4 DEF Stating, Typed

LEMMA RequestStating ==
    ASSUME Filed, Stating, NEW q \in Requests, RequestStep(q)
    PROVE  Stating'
<1>1. /\ UNCHANGED <<doc_type, raw, extraction, confidence>>
      /\ \A p \in Requests \ {q} : UNCHANGED <<pc[p], body[p]>>
  BY DEF Filed, RequestStep, Submit, Check, Commit, CommitFails, Answer, RefreshFails, Goto
<1>2. Typed(body'[q])
  <2>1. CASE Submit(q)
    <3>1. PICK data : data = extraction.data
      OBVIOUS
    <3>2. Typed(data) /\ doc_type \in DocTypes
      BY <2>1, <3>1 DEF Stating, Submit, Filed, Extracted, NotYet
    <3>3. PICK b \in {data} \cup {Change(data, e[1], e[2]) : e \in Edits[q][doc_type]}
                            \cup {Drop(data, e[1]) : e \in Edits[q][doc_type]} :
            body' = [body EXCEPT ![q] = b]
      BY <2>1, <3>1 DEF Submit
    <3>4. body'[q] = b
      BY <3>3 DEF Filed
    <3>5. ASSUME NEW e \in Edits[q][doc_type]
          PROVE  Typed(Change(data, e[1], e[2])) /\ Typed(Drop(data, e[1]))
      <4>1. WellTyped(e[2])
        BY <3>2, ValuesAssumption
      <4> QED BY <3>2, <4>1 DEF Typed, Change, Drop
    <3> QED BY <3>2, <3>3, <3>4, <3>5
  <2>2. CASE ~Submit(q)
    BY <2>2 DEF Stating, RequestStep, Check, Commit, CommitFails, Answer, RefreshFails
  <2> QED BY <2>1, <2>2
<1>3. pc'[q] = "raised" => Validate(doc_type, body'[q]).status = "raised"
  <2>1. CASE Check(q)
    BY <2>1 DEF Check, AfterCheck, Goto, Filed
  <2>2. CASE ~Check(q)
    BY <2>2 DEF Filed, RequestStep, Submit, Commit, CommitFails, Answer, RefreshFails, Goto
  <2> QED BY <2>1, <2>2
<1> QED BY <1>1, <1>2, <1>3 DEF Stating, Typed

LEMMA AlwaysStating == Spec => []Stating
<1>1. Filed /\ Stating /\ [Next]_vars => Stating'
  <2> SUFFICES ASSUME Filed, Stating, [Next]_vars PROVE Stating'
    OBVIOUS
  <2>1. CASE RecordExtraction
    BY <2>1, RecordStating
  <2>2. ASSUME NEW q \in Requests, RequestStep(q) PROVE Stating'
    BY <2>2, RequestStating
  <2>3. CASE UNCHANGED vars
    BY <2>3 DEF vars, Stating, Typed
  <2> QED BY <2>1, <2>2, <2>3 DEF Next, RequestStep, Terminated
<1> QED BY <1>1, InitStating, AlwaysFiled, PTL DEF Spec

\* No stated value of a field disappears without a warning, and only a field
\* without a value is scored 0 (validation.py:44-76, 192-215; confidence.py:27-43).
THEOREM LossesAreVisible == Spec => []LossIsVisible
<1>1. Filed /\ Stating => LossIsVisible
  <2> SUFFICES ASSUME Filed, Stating PROVE LossIsVisible
    OBVIOUS
  <2>1. ASSUME NEW s \in Stored, NEW f \in Fields(doc_type) \cap DOMAIN s.raw,
               s.raw[f] # Null, s.data[f] = Null
        PROVE  f \in s.warnings
    <3>1. CASE /\ extraction.status \in {"completed", "partial"}
               /\ s = [raw |-> raw, data |-> extraction.data, warnings |-> extraction.warnings]
      <4>1. doc_type \in DocTypes /\ extraction = Validate(doc_type, raw)
        BY <3>1, ExtractionIsVerdict DEF NotYet, None
      <4>2. s.raw = raw /\ s.data = extraction.data /\ s.warnings = extraction.warnings
        BY <3>1
      <4> QED BY <2>1, <3>1, <4>1, <4>2, LossIsWarned
    <3>2. ASSUME NEW q \in Requests, rows[q] # NoRow,
                 s = [raw |-> body[q], data |-> rows[q].corrected, warnings |-> rows[q].warnings]
          PROVE  f \in s.warnings
      <4>1. s.raw = body[q] /\ s.data = rows[q].corrected /\ s.warnings = rows[q].warnings
        BY <3>2
      <4> QED BY <2>1, <3>2, <4>1, RowIsCorrection, LossIsWarned
    <3> QED BY <3>1, <3>2 DEF Stored
  <2>2. ASSUME extraction.status \in {"completed", "partial"}, NEW f \in Fields(doc_type)
        PROVE  confidence[f] = 0 <=> extraction.data[f] = Null
    <3>1. doc_type \in DocTypes /\ extraction = Validate(doc_type, raw)
      BY <2>2, ExtractionIsVerdict DEF NotYet, None
    <3>2. DOMAIN extraction.data = Fields(doc_type)
      BY <2>2, <3>1, ResultShape
    <3>3. confidence = ConfidenceMap(doc_type, extraction.data)
      BY <2>2 DEF Stating, None
    <3>4. confidence[f] = Score(doc_type, f, extraction.data[f])
      BY <3>2, <3>3 DEF ConfidenceMap
    <3> QED BY <3>1, <3>4, ScoreZero
  <2> QED BY <2>1, <2>2 DEF LossIsVisible
<1> QED BY <1>1, AlwaysFiled, AlwaysStating, PTL

\* Validation raises only for amounts that are too large to be rounded
\* (validation.py:37, 74, 186; schemas/documents.py:10-11).
THEOREM OnlyHugeAmountsRaise == Spec => []OnlyHugeAmountsEscape
<1>1. Filed /\ Stating => OnlyHugeAmountsEscape
  <2> SUFFICES ASSUME Filed, Stating PROVE OnlyHugeAmountsEscape
    OBVIOUS
  <2>1. ASSUME extraction.status = "raised" PROVE \E f \in DOMAIN raw : Enormous(raw[f])
    <3>1. doc_type \in DocTypes /\ extraction = Validate(doc_type, raw)
      BY <2>1, ExtractionIsVerdict DEF NotYet, None
    <3> QED BY <2>1, <3>1, RaisedIsEnormous DEF Stating
  <2>2. ASSUME NEW q \in Requests, pc[q] = "raised"
        PROVE  \E f \in DOMAIN body[q] : Enormous(body[q][f])
    <3>1. doc_type \in DocTypes
      BY <2>2 DEF Filed, Extracted
    <3> QED BY <2>2, <3>1, RaisedIsEnormous DEF Stating
  <2> QED BY <2>1, <2>2 DEF OnlyHugeAmountsEscape
<1> QED BY <1>1, AlwaysFiled, AlwaysStating, PTL

=============================================================================
