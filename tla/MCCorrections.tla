---------------------------- MODULE MCCorrections ----------------------------
(* Small instances of Corrections for TLC: documents that state everything,  *)
(* or nothing, but for one field, and reviewers who change one field.        *)
EXTENDS Corrections

CONSTANT Odd       \* the fields that vary

\* days 1 and 2 are after 1970-01-01, -1 is before
EarlyDates == {"invoice_date", "effective_date", "pay_period_start", "receipt_date"}

Good(t) ==
    [f \in Fields(t) |->
        CASE Schema[t][f] = "text"  -> <<"text", "Acme">>
          [] Schema[t][f] = "code"  -> <<"text", "USD">>
          [] Schema[t][f] = "date"  -> <<"date", IF f \in EarlyDates THEN 1 ELSE 2>>
          [] Schema[t][f] = "list"  -> <<"list", <<1, 1>>>>
          [] Schema[t][f] = "count" -> <<"count", 1>>
          [] Schema[t][f] = "money" ->
                <<"money", IF f \in {"total_amount", "gross_pay"} THEN 4 ELSE 2>>]

Pool(annotation) ==
    {Null, <<"wrong", 0>>} \cup
    CASE annotation = "text"  -> {<<"text", "N/A">>, <<"text", "-5">>}
      [] annotation = "code"  -> {<<"text", "usd">>, <<"text", "N/A">>}
      [] annotation = "date"  -> {<<"date", -1>>, <<"date", 3>>}
      [] annotation = "list"  -> {<<"list", <<>>>>}
      [] annotation = "count" -> {}
      [] annotation = "money" -> {<<"money", -1>>, <<"money", QuantizeLimit>>}

\* what may be stated for one field, or for a key that no schema has
Variants == [t \in DocTypes |->
    {<<"unknown_key", <<"text", "Acme">>>>}
    \cup UNION {{f} \X Pool(Schema[t][f]) : f \in Fields(t) \cap Odd}]

\* one reviewer may change any of these, the other only the currency of a contract,
\* which the first may have changed too
MCEdits == [q \in Requests |-> [t \in DocTypes |->
    IF q = "q1" THEN Variants[t]
    ELSE {e \in Variants[t] : e[1] = "payment_currency" /\ e[2] = <<"text", "usd">>}]]

MCAnswers == [t \in DocTypes |->
    {Good(t), NoData}
    \cup {Change(d, e[1], e[2]) : d \in {Good(t), NoData}, e \in Variants[t]}
    \cup {Drop(Good(t), f) : f \in Fields(t) \cap Odd}]

=============================================================================
