----------------------------- MODULE CostReport -----------------------------
(* GET /documents/extractions/cost-report: six queries, one after the other, *)
(* over tables to which extractions are added meanwhile (READ COMMITTED, so  *)
(* each query sees what was committed when it started), and the breakdowns   *)
(* CostReportService builds from them (app/services/cost_report.py).         *)
(*                                                                           *)
(* Input and output tokens are added up alike; one number stands for both,   *)
(* and the price of a priced model is 1.                                     *)
EXTENDS Naturals, FiniteSets, FiniteSetsExt

CONSTANTS
    Extractions,  \* rows that may be added
    DocTypes,     \* document types they may have
    Strategies,   \* strategies they may have been made with
    Models,       \* models that may classify and extract
    Priced,       \* models in COST_MODEL_TOKEN_PRICES_USD
    MaxTime       \* bound on the clock

ASSUME PricedAssumption == Priced \subseteq Models
ASSUME TimeAssumption == MaxTime \in Nat

VARIABLES
    clock,      \* datetime.now
    row,        \* the extractions rows
    stage,      \* how far the transaction that writes a row has come
    from, to,   \* the dates the report is asked for
    step,       \* queries the report has made
    got,        \* what they returned
    disturbed   \* history: a row was committed between two of the queries

ledgerVars == <<row, stage>>
reportVars == <<from, to, step, got, disturbed>>
vars == <<clock, ledgerVars, reportVars>>

None == "none"
Purposes == {"CLASSIFIER", "EXTRACTION"}
Times == 0..MaxTime

\* created_at is taken from the clock when the Extraction is constructed, usage_at
\* when the LLMUsage row of each purpose is; models has the purposes of the usage
\* rows, each with its model: a classifier event is there when the type was not given
Row == [doc_type : DocTypes, strategy : Strategies,
        models : [{"EXTRACTION"} -> Models] \cup [Purposes -> Models],
        created_at : Times, usage_at : [Purposes -> Times]]

Init ==
    /\ clock = 0
    /\ row = [e \in Extractions |-> None]
    /\ stage = [e \in Extractions |-> "new"]
    /\ from \in Times /\ to \in Times
    /\ step = 0
    /\ got = [q \in {} |-> {}]
    /\ disturbed = FALSE

-----------------------------------------------------------------------------
(* The sessions that record extractions: AuditRecorder.record_success *)

Tick == clock < MaxTime /\ clock' = clock + 1 /\ UNCHANGED <<ledgerVars, reportVars>>

AddExtraction(e) ==
    /\ stage[e] = "new"
    /\ \E r \in Row :
        /\ r.created_at = clock /\ r.usage_at = [p \in Purposes |-> clock]
        /\ row' = [row EXCEPT ![e] = r]
    /\ stage' = [stage EXCEPT ![e] = "written"]
    /\ UNCHANGED <<clock, reportVars>>

\* _add_usage_events writes the row of the classifier, if there was a call, and then
\* that of the extraction, each with a date of its own
AddsUsage(e, p) ==
    /\ stage[e] # "new" /\ p \in DOMAIN row[e].models
    /\ stage[e] = IF p = "EXTRACTION" /\ "CLASSIFIER" \in DOMAIN row[e].models
                  THEN "classified" ELSE "written"
    /\ stage' = [stage EXCEPT ![e] = IF p = "EXTRACTION" THEN "ledgered" ELSE "classified"]
    /\ UNCHANGED <<clock, reportVars>>

\* MUTANT: usage rows are dated by a later clock
AddUsageLateDated(e, p) ==
    AddsUsage(e, p) /\ row' = [row EXCEPT ![e].usage_at[p] = clock + 1]

\* MUTANT: usage rows are dated by the call of the model, some time before
AddUsageAtCall(e, p) ==
    /\ AddsUsage(e, p)
    /\ \E t \in 0..clock : row' = [row EXCEPT ![e].usage_at[p] = t]

AddUsage(e, p) ==
    AddsUsage(e, p) /\ row' = [row EXCEPT ![e].usage_at[p] = clock]

Commit(e) ==
    /\ stage[e] = "ledgered"
    /\ stage' = [stage EXCEPT ![e] = "committed"]
    /\ disturbed' = (disturbed \/ step \in 1..5)
    /\ UNCHANGED <<clock, row, from, to, step, got>>

-----------------------------------------------------------------------------
(* The queries *)

Visible == {e \in Extractions : stage[e] = "committed"}

InWindow(time) == from <= time /\ time <= to

Counted == {e \in Visible : InWindow(row[e].created_at)}

Tokens == [CLASSIFIER |-> 1, EXTRACTION |-> 2]

\* llm_usages joined with extractions, selected by the date of the usage row
Usage ==
    {u \in Visible \X Purposes :
        InWindow(row[u[1]].usage_at[u[2]]) /\ u[2] \in DOMAIN row[u[1]].models}

ModelOf(u) == row[u[1]].models[u[2]]

\* the column that a query groups by
KeyOf(u, column) ==
    CASE column = "model" -> ModelOf(u)
      [] column = "purpose" -> u[2]
      [] OTHER -> row[u[1]][column]

CountBy(column) ==
    [k \in {row[e][column] : e \in Counted} |->
        Cardinality({e \in Counted : row[e][column] = k})]

SumOver(f, S) == MapThenSumSet(LAMBDA k : f[k], S)

\* sums grouped by the column and the model
SumBy(column, usages) ==
    [km \in {<<KeyOf(u, column), ModelOf(u)>> : u \in usages} |->
        SumOver([u \in usages |-> Tokens[u[2]]],
                {u \in usages : <<KeyOf(u, column), ModelOf(u)>> = km})]

\* MUTANT: the strategies' usage is selected by the date of the extraction
strategy_usage_of_counted ==
    SumBy("strategy", {u \in Counted \X Purposes : u[2] \in DOMAIN row[u[1]].models})

strategy_usage == SumBy("strategy", Usage)

Answer(q) ==
    CASE q = "doc_type" -> CountBy("doc_type")
      [] q = "strategy" -> CountBy("strategy")
      [] q = "doc_type_usage" -> SumBy("doc_type", Usage)
      [] q = "strategy_usage" -> strategy_usage
      [] q = "model_usage" -> SumBy("model", Usage)
      [] q = "purpose_usage" -> SumBy("purpose", Usage)

\* MUTANT: the headline totals come from the last query
QueriesTotalsLast ==
    <<"doc_type", "strategy", "strategy_usage", "model_usage", "purpose_usage",
      "doc_type_usage">>

Queries ==
    <<"doc_type", "strategy", "doc_type_usage", "strategy_usage", "model_usage",
      "purpose_usage">>

TypeOK ==
    /\ clock \in Times /\ from \in Times /\ to \in Times
    /\ \A e \in Extractions : stage[e] # "new" => row[e] \in Row
    /\ stage \in [Extractions -> {"new", "written", "classified", "ledgered", "committed"}]
    /\ step \in 0..6
    /\ DOMAIN got = {Queries[i] : i \in 1..step}
    /\ disturbed \in BOOLEAN

Query ==
    /\ step < 6
    /\ step' = step + 1
    /\ got' = [q \in DOMAIN got \cup {Queries[step']} |->
                  IF q = Queries[step'] THEN Answer(q) ELSE got[q]]
    /\ UNCHANGED <<clock, ledgerVars, from, to, disturbed>>

Terminated == step = 6 /\ UNCHANGED vars

Next ==
    \/ Tick \/ Query \/ Terminated
    \/ \E e \in Extractions : 
        \/ AddExtraction(e) \/ Commit(e)
        \/ \E p \in Purposes : AddUsage(e, p)

Spec == Init /\ [][Next]_vars

-----------------------------------------------------------------------------
(* The response, once the queries are made *)

Done == step = 6

PriceOf(m) == IF m \in Priced THEN 1 ELSE 0

\* _build_usage_costs
TokensOf(q, k) == SumOver(got[q], {km \in DOMAIN got[q] : km[1] = k})
CostOf(q, k) ==
    SumOver([km \in DOMAIN got[q] |-> got[q][km] * PriceOf(km[2])],
            {km \in DOMAIN got[q] : km[1] = k})
UsageKeys(q) == {km[1] : km \in DOMAIN got[q]}

\* _build_cost_breakdown: a key that only the usage names has count 0
CountOf(q, k) == IF k \in DOMAIN got[q] THEN got[q][k] ELSE 0

TotalTokens(q) == SumOver([k \in UsageKeys(q) |-> TokensOf(q, k)], UsageKeys(q))
TotalCost(q) == SumOver([k \in UsageKeys(q) |-> CostOf(q, k)], UsageKeys(q))
TotalCount(q) == SumOver(got[q], DOMAIN got[q])

-----------------------------------------------------------------------------
(* Properties *)

\* When nothing was committed between the queries, the four breakdowns add up
\* to the same tokens and cost, and the two with counts to the same number,
\* whatever the dates asked for (cost_report.py:51-97).
QuietReportBalances ==
    Done /\ ~disturbed =>
        /\ TotalCount("doc_type") = TotalCount("strategy")
        /\ \A q \in {"strategy_usage", "model_usage", "purpose_usage"} :
            /\ TotalTokens(q) = TotalTokens("doc_type_usage")
            /\ TotalCost(q) = TotalCost("doc_type_usage")

\* Extractions recorded meanwhile can only make a breakdown larger than the one
\* queried before it: the totals never exceed any breakdown they summarise
\* (cost_report.py:51-68, 94-97).
TotalsAreLowerBounds ==
    Done =>
        /\ TotalCount("doc_type") <= TotalCount("strategy")
        /\ TotalTokens("doc_type_usage") <= TotalTokens("strategy_usage")
        /\ TotalTokens("strategy_usage") <= TotalTokens("model_usage")
        /\ TotalTokens("model_usage") <= TotalTokens("purpose_usage")

\* An extraction's usage rows are committed with it and never dated before it
\* (audit.py:63-98, 120-146).  So a quiet report without a lower date shows no usage
\* of a type it does not count and tokens of extraction calls for at most what it
\* counts, one without an upper date no type without usage and tokens for at least
\* what it counts, although the two are selected by different dates
\* (llm_usage.py:91-94, extractions.py:76-80).
UsageIsCounted ==
    Done /\ ~disturbed =>
        LET counted == Tokens["EXTRACTION"] * TotalCount("doc_type") IN
        /\ from = 0 =>
            /\ \A k \in UsageKeys("doc_type_usage") : CountOf("doc_type", k) > 0
            /\ TokensOf("purpose_usage", "EXTRACTION") <= counted
        /\ to = MaxTime =>
            /\ \A k \in DocTypes :
                CountOf("doc_type", k) > 0 => k \in UsageKeys("doc_type_usage")
            /\ TokensOf("purpose_usage", "EXTRACTION") >= counted

\* README.md:357: "Cost report fails for an unknown model".  It does not: the
\* usage of a model without a price is reported at no cost (cost_report.py:164-167).
UnknownModelFails ==
    Done => \A km \in DOMAIN got["model_usage"] : km[2] \in Priced

=============================================================================
