---------------------------- MODULE FieldRecovery ----------------------------
(* What becomes of the fields of a document: validation of a raw answer      *)
(* against its schema, recovery field by field when the whole is not valid   *)
(* (app/services/validation.py), and the confidence scores                   *)
(* (app/lib/confidence.py).                                                  *)
(*                                                                           *)
(* A value is <<what, content>>: what pydantic reads the JSON value as, and  *)
(* its content.  Dates count days from 1970-01-01 and amounts are integers;  *)
(* "wrong" stands for every value its field cannot be read from.  A raw      *)
(* answer is a partial function from field names to values.                  *)
EXTENDS Integers, Sequences, FiniteSets, SequencesExt

CONSTANT QuantizeLimit     \* amounts that quantize() has no precision left for

ASSUME QuantizeAssumption == QuantizeLimit \in Nat \ {0}

Null == <<"null", 0>>

DocTypes == {"invoice", "contract", "payslip", "receipt"}

\* the annotations of the four schemas; "code" is a text with a currency validator
Schema ==
    [invoice |->
        [vendor_name |-> "text", vendor_address |-> "text", invoice_number |-> "text",
         invoice_date |-> "date", due_date |-> "date", subtotal |-> "money",
         tax_amount |-> "money", total_amount |-> "money", currency |-> "code",
         line_items |-> "list", payment_terms |-> "text"],
     contract |->
        [parties |-> "list", effective_date |-> "date", termination_date |-> "date",
         governing_law |-> "text", payment_amount |-> "money",
         payment_currency |-> "code", notice_period_days |-> "count",
         key_obligations |-> "list"],
     payslip |->
        [employee_name |-> "text", employer_name |-> "text",
         pay_period_start |-> "date", pay_period_end |-> "date",
         gross_pay |-> "money", net_pay |-> "money", currency |-> "code",
         deductions |-> "list", pay_date |-> "date"],
     receipt |->
        [merchant_name |-> "text", merchant_address |-> "text",
         order_number |-> "text", transaction_id |-> "text", receipt_date |-> "date",
         items |-> "list", subtotal |-> "money", tax_amount |-> "money",
         total_amount |-> "money", currency |-> "code", payment_method |-> "text"]]

Optional ==
    [invoice |-> {"vendor_address", "due_date", "tax_amount", "payment_terms"},
     contract |-> {"termination_date", "governing_law", "payment_amount",
                   "payment_currency", "notice_period_days"},
     payslip |-> {},
     receipt |-> {"merchant_address", "order_number", "transaction_id", "subtotal",
                  "tax_amount", "payment_method"}]

Fields(type) == DOMAIN Schema[type]
Required(type) == Fields(type) \ Optional[type]

-----------------------------------------------------------------------------
(* One field *)

ReadAs(annotation) == IF annotation = "code" THEN "text" ELSE annotation

\* what the bare annotation accepts
Readable(type, f, v) ==
    v[1] = ReadAs(Schema[type][f]) \/ (v = Null /\ f \in Optional[type])

Codes == {"usd", "USD"}
Upper(s) == IF s = "usd" THEN "USD" ELSE s

\* the annotation and the field's own validator
FieldOk(type, f, v) ==
    /\ Readable(type, f, v)
    /\ (Schema[type][f] = "code" /\ v # Null) => v[2] \in Codes

\* what the schema stores for a value it accepts
Normal(type, f, v) ==
    IF Schema[type][f] = "code" /\ v # Null THEN <<"text", Upper(v[2])>> ELSE v

-----------------------------------------------------------------------------
(* The whole document *)

\* the fields that ValidationError names, for what they say or for being missing
Invalid(type, raw) ==
    {f \in Fields(type) :
        IF f \in DOMAIN raw THEN ~FieldOk(type, f, raw[f]) ELSE f \in Required(type)}

Stated(f, raw) == f \in DOMAIN raw /\ raw[f] # Null

InOrder(early, late, raw) == Stated(late, raw) => raw[early][2] <= raw[late][2]

\* the model validator, which runs only when every field is valid
DatesInOrder(type, raw) ==
    CASE type = "invoice"  -> InOrder("invoice_date", "due_date", raw)
      [] type = "contract" -> InOrder("effective_date", "termination_date", raw)
      [] type = "payslip"  -> InOrder("pay_period_start", "pay_period_end", raw)
      [] type = "receipt"  -> TRUE

Valid(type, raw) == Invalid(type, raw) = {} /\ DatesInOrder(type, raw)

\* MUTANT: a required text has no fallback
FallbackNull(type, f) ==
    IF f \in Optional[type] \/ Schema[type][f] = "text" THEN Null
    ELSE CASE Schema[type][f] = "code" -> <<"text", "">>
           [] Schema[type][f] = "list" -> <<"list", <<>>>>
           [] OTHER -> <<Schema[type][f], 0>>

\* the raw value that stands in for every other field while one is validated
FallbackRaw(type, f) ==
    IF f \in Optional[type] THEN Null
    ELSE CASE Schema[type][f] \in {"text", "code"} -> <<"text", "">>
           [] Schema[type][f] = "list" -> <<"list", <<>>>>
           [] OTHER -> <<Schema[type][f], 0>>

Candidate(type, f, v) ==
    [g \in Fields(type) |-> IF g = f THEN v ELSE FallbackRaw(type, g)]

\* MUTANT: a field whose candidate does not validate is given up
OnlyCandidates(type, f, v) ==
    IF Valid(type, Candidate(type, f, v)) THEN Normal(type, f, v) ELSE Null

\* _validated_field_value: through the whole schema, else by the annotation alone
FieldValue(type, f, v) ==
    IF Valid(type, Candidate(type, f, v)) THEN Normal(type, f, v) ELSE v

\* the fields that _recover_partial keeps
Kept(type, raw) == (Fields(type) \cap DOMAIN raw) \ Invalid(type, raw)

\* MUTANT: the second attempt, by the annotation, is not there
RefusedAlone(type, raw) ==
    {f \in Kept(type, raw) : ~Valid(type, Candidate(type, f, raw[f]))}

\* the annotation refuses it too: ValidationError escapes
Unrecoverable(type, raw) ==
    {f \in Kept(type, raw) : /\ ~Valid(type, Candidate(type, f, raw[f]))
                             /\ ~Readable(type, f, raw[f])}

Recovered(type, raw) ==
    LET kept == Kept(type, raw) IN
    [f \in Fields(type) |-> IF f \in kept THEN FieldValue(type, f, raw[f]) ELSE Null]

-----------------------------------------------------------------------------
(* Quality warnings *)

Total(items) == FoldSeq(LAMBDA x, y : x + y, 0, items)

\* the amounts compared, when the document states them all: expected, stated
Compared(type, data) ==
    LET known(F) == \A f \in F : data[f] # Null IN
    CASE type \in {"invoice", "receipt"} /\ known({"subtotal", "tax_amount", "total_amount"}) ->
            <<data["subtotal"][2] + data["tax_amount"][2], data["total_amount"][2]>>
      [] type = "payslip" /\ known({"gross_pay", "net_pay", "deductions"}) ->
            <<data["gross_pay"][2] - Total(data["deductions"][2]), data["net_pay"][2]>>
      [] OTHER -> <<>>

Huge(n) == n >= QuantizeLimit \/ n <= -QuantizeLimit

\* normalize_money raises InvalidOperation
Unquantized(type, data) == \E i \in DOMAIN Compared(type, data) : Huge(Compared(type, data)[i])

QualityWarnings(type, data) ==
    LET pair == Compared(type, data) IN
    IF pair # <<>> /\ pair[1] # pair[2] THEN {"total"} ELSE {}

-----------------------------------------------------------------------------
(* validate_extraction *)

NoData == [f \in {} |-> Null]

Raised == [status |-> "raised", data |-> NoData, warnings |-> {}]

Result(type, status, data, warnings) ==
    IF Unquantized(type, data) THEN Raised
    ELSE [status |-> status,
          data |-> IF status = "failed" THEN NoData ELSE data,
          warnings |-> warnings \cup QualityWarnings(type, data)]

\* a warning for every field at fault, or for the document as a whole
ValidationWarnings(type, raw) ==
    IF Invalid(type, raw) = {} THEN {"model"} ELSE Invalid(type, raw)

RecoverPartial(type, raw) ==
    IF Unrecoverable(type, raw) # {} THEN Raised
    ELSE Result(type,
                IF Kept(type, raw) # {} THEN "partial" ELSE "failed",
                Recovered(type, raw),
                ValidationWarnings(type, raw))

\* the model that the schema builds from a valid document
Model(type, raw) ==
    [f \in Fields(type) |-> IF f \in DOMAIN raw THEN Normal(type, f, raw[f]) ELSE Null]

Validate(type, raw) ==
    IF Valid(type, raw) THEN Result(type, "completed", Model(type, raw), {})
    ELSE RecoverPartial(type, raw)

-----------------------------------------------------------------------------
(* score_confidence_map, in hundredths *)

\* names with one of the markers of money, which those of payments have too
MoneyNamed ==
    {"subtotal", "tax_amount", "total_amount", "payment_amount", "payment_currency",
     "payment_terms", "payment_method", "gross_pay", "net_pay", "pay_date",
     "pay_period_start", "pay_period_end"}

\* a number, or a text that reads as one
Negative(v) == (v[1] = "money" /\ v[2] < 0) \/ v = <<"text", "-5">>

Score(type, f, v) ==
    LET score == IF f \in Required(type) THEN 85 ELSE 70 IN
    CASE v = Null -> 0
      [] v = <<"text", "N/A">> -> 20
      [] f \in MoneyNamed /\ Negative(v) -> 60
      [] OTHER -> score

\* data.get(field): a failed validation scores every field as missing
ConfidenceMap(type, data) ==
    [f \in Fields(type) |-> Score(type, f, IF f \in DOMAIN data THEN data[f] ELSE Null)]

=============================================================================
