---------------------------- MODULE ExtractionRun ----------------------------
(* One run of DocumentProcessor.process_pages and the record that follows:   *)
(* classification, the choice of a strategy, the LLM calls with their        *)
(* retries, the per-page fallback, validation, and the tokens that reach the *)
(* usage ledger.  The provider is external: each action that stands for a    *)
(* call chooses one of the answers LiteLLMClient tells apart.                *)
(*                                                                           *)
(* Input and output tokens go the same way everywhere, so one number stands  *)
(* for both.  A page is known by what the strategies ask of it.              *)
EXTENDS Naturals, FiniteSets

CONSTANTS
    MaxPages,    \* bound on the pages of a document
    SmartAbove,  \* a document with more pages is extracted with SMART (10)
    MaxRetries,  \* LLM_MAX_RETRIES
    Costs        \* tokens one answer may report

ASSUME PagesAssumption == MaxPages \in Nat \ {0} /\ SmartAbove \in Nat
ASSUME RetriesAssumption == MaxRetries \in Nat
ASSUME CostsAssumption == Costs \subseteq Nat

VARIABLES
    pages,       \* the kind of each page
    docType,     \* given by the caller, or None until the classifier answers
    asked,       \* the strategy the caller asked for, or None
    strategy,    \* the resolved strategy
    pc,          \* what the run does next
    left,        \* PAGE_BY_PAGE: pages not yet sent
    text,        \* the pages of the text that is being extracted
    attempts,    \* LLM calls made for that text
    callTokens,  \* tokens counted by ToolCallExtractor.extract for that text
    tokens,      \* tokens counted by the strategy so far
    raw,         \* what the tool call's arguments are good for
    kept,        \* PAGE_BY_PAGE: pages whose output is merged
    skipped,     \* PAGE_BY_PAGE: pages named in a warning
    outcome,     \* how the run ended
    classifierTokens,  \* tokens of the classifier's usage event
    ledger,      \* tokens of the llm_usages rows, per purpose
    reported     \* history: tokens the LLM client handed back

inputVars == <<pages, asked>>
textVars == <<left, text, attempts, callTokens>>
pageVars == <<kept, skipped>>
vars == <<inputVars, docType, strategy, pc, textVars, tokens, raw, pageVars,
          outcome, classifierTokens, ledger, reported>>

None == "none"
PageKinds == {"blank", "plain", "amount"}
Strategies == {"full", "smart", "page_by_page"}
Purposes == {"CLASSIFIER", "EXTRACTION"}

\* arguments: an object with useful values, one without, JSON of another type
Arguments == {"useful", "useless", "odd"}
Outcomes == {"completed", "partial", "failed", "extraction_error", "error"}

\* what validate_extraction may make of a raw output; "error" is an exception
\* it does not turn into a status
ValidationOf ==
    [useful |-> {"completed", "partial", "failed", "error"},
     useless |-> {"partial", "failed"},
     empty |-> {"failed"},
     odd |-> {"failed", "error"}]

Indices == 1..MaxPages

TypeOK ==
    /\ pages \in UNION {[1..n -> PageKinds] : n \in Indices}
    /\ docType \in {None, "known", "unknown"}
    /\ asked \in Strategies \cup {None}
    /\ strategy \in Strategies \cup {None}
    /\ pc \in {"resolving", "calling", "answered", "unanswered", "paging",
               "validating", "recording", "recorded", "lost"}
    /\ left \subseteq Indices /\ text \subseteq Indices
    /\ attempts \in 0..(MaxRetries + 1)
    /\ callTokens \in Nat
    /\ tokens \in Nat
    /\ raw \in Arguments \cup {"empty", None}
    /\ kept \subseteq Indices /\ skipped \subseteq Indices
    /\ outcome \in Outcomes \cup {None}
    /\ classifierTokens \in Nat
    /\ ledger \in [Purposes -> Nat]
    /\ reported \in Nat

Init ==
    /\ pages \in UNION {[1..n -> PageKinds] : n \in Indices}
    /\ docType \in {None, "known"}
    /\ asked \in Strategies \cup {None}
    /\ strategy = None
    /\ pc = "resolving"
    /\ left = {} /\ text = {}
    /\ attempts = 0 /\ callTokens = 0 /\ tokens = 0
    /\ raw = None
    /\ kept = {} /\ skipped = {}
    /\ outcome = None
    /\ classifierTokens = 0
    /\ ledger = [p \in Purposes |-> 0]
    /\ reported = 0

-----------------------------------------------------------------------------
(* _resolve_extraction_input *)

ClassifierAnswers ==
    /\ pc = "resolving" /\ docType = None
    /\ docType' \in {"known", "unknown"}
    /\ \E c \in Costs : classifierTokens' = c /\ reported' = reported + c
    /\ UNCHANGED <<inputVars, strategy, pc, textVars, tokens, raw, pageVars,
                   outcome, ledger>>

\* a ClassificationError or an UnsupportedDocumentTypeError: neither becomes
\* a DocumentProcessingError, and the classifier's usage is dropped with it
ResolveFails ==
    /\ pc = "resolving" /\ docType \in {None, "unknown"}
    /\ outcome' = "error"
    /\ pc' = "lost"
    /\ UNCHANGED <<inputVars, docType, strategy, textVars, tokens, raw,
                   pageVars, classifierTokens, ledger, reported>>

PageCount == Cardinality(DOMAIN pages)

resolve_strategy ==
    CASE asked # None -> asked
      [] asked = None /\ PageCount > SmartAbove -> "smart"
      [] OTHER -> "full"

select_pages == {1, PageCount} \cup {i \in DOMAIN pages : pages[i] = "amount"}

NonBlank == {i \in DOMAIN pages : pages[i] # "blank"}

Resolve ==
    /\ pc = "resolving" /\ docType = "known"
    /\ strategy' = resolve_strategy
    /\ IF strategy' = "page_by_page"
       THEN pc' = "paging" /\ left' = NonBlank /\ text' = {}
       ELSE /\ pc' = "calling"
            /\ left' = {}
            /\ text' = IF strategy' = "full" THEN DOMAIN pages ELSE select_pages
    /\ UNCHANGED <<inputVars, docType, attempts, callTokens, tokens, raw,
                   pageVars, outcome, classifierTokens, ledger, reported>>

-----------------------------------------------------------------------------
(* ToolCallExtractor.extract: the attempts for one text *)

\* LLMClient.call_tool hands back a result that reports c tokens
CallReturns(c) ==
    /\ pc = "calling"
    /\ attempts' = attempts + 1
    /\ callTokens' = callTokens + c /\ reported' = reported + c
    /\ UNCHANGED <<inputVars, docType, strategy, left, text, tokens, pageVars,
                   outcome, classifierTokens, ledger>>

CallReturnsArguments ==
    \E c \in Costs :
        /\ pc' = "answered" /\ raw' \in Arguments
        /\ CallReturns(c)

\* MUTANT: one more retry than configured
RetryOnceMore == attempts' <= MaxRetries + 1

MayRetry == attempts' <= MaxRetries

\* prose, or a tool call whose arguments are the JSON null
CallReturnsNoArguments ==
    \E c \in Costs :
        /\ attempts' = attempts + 1
        /\ pc' = IF MayRetry THEN "calling" ELSE "unanswered"
        /\ CallReturns(c)
        /\ UNCHANGED raw

\* LLMClientError: no answer, no choices, a refusal, another tool's name or
\* malformed JSON; whatever the provider charged for it is not reported
CallRaises ==
    /\ pc = "calling"
    /\ attempts' = attempts + 1
    /\ pc' = "unanswered"
    /\ UNCHANGED <<inputVars, docType, strategy, left, text, callTokens, tokens,
                   raw, pageVars, outcome, classifierTokens, ledger, reported>>

-----------------------------------------------------------------------------
(* PageStrategyRunner *)

Paging == strategy = "page_by_page"

\* the counters of extract are gone once it has returned or raised
EndOfText ==
    /\ tokens' = tokens + callTokens
    /\ callTokens' = 0 /\ attempts' = 0

TakeWhole ==
    /\ pc = "answered" /\ ~Paging
    /\ EndOfText
    /\ pc' = "validating"
    /\ UNCHANGED <<inputVars, docType, strategy, left, text, raw, pageVars,
                   outcome, classifierTokens, ledger, reported>>

FailWhole ==
    /\ pc = "unanswered" /\ ~Paging
    /\ EndOfText
    /\ outcome' = "extraction_error"
    /\ pc' = "recording"
    /\ UNCHANGED <<inputVars, docType, strategy, left, text, raw, pageVars,
                   classifierTokens, ledger, reported>>

SendPage ==
    /\ pc = "paging"
    /\ \E i \in left :
        /\ \A j \in left : i <= j
        /\ text' = {i} /\ left' = left \ {i}
    /\ pc' = "calling"
    /\ UNCHANGED <<inputVars, docType, strategy, attempts, callTokens, tokens,
                   raw, pageVars, outcome, classifierTokens, ledger, reported>>

TakePage ==
    /\ pc = "answered" /\ Paging /\ raw # "odd"
    /\ EndOfText
    /\ kept' = IF raw = "useful" THEN kept \cup text ELSE kept
    /\ pc' = "paging"
    /\ UNCHANGED <<inputVars, docType, strategy, left, text, raw, skipped,
                   outcome, classifierTokens, ledger, reported>>

\* _has_useful_extraction calls values() on what is not an object
BreakOnPage ==
    /\ pc = "answered" /\ Paging /\ raw = "odd"
    /\ outcome' = "error"
    /\ pc' = "lost"
    /\ UNCHANGED <<inputVars, docType, strategy, textVars, tokens, raw,
                   pageVars, classifierTokens, ledger, reported>>

\* MUTANT: a failed page is tried again for as long as it fails
SkipPageRetried ==
    /\ pc = "unanswered" /\ Paging
    /\ EndOfText
    /\ left' = left \cup text
    /\ pc' = "paging"
    /\ UNCHANGED <<inputVars, docType, strategy, text, raw, pageVars, outcome,
                   classifierTokens, ledger, reported>>

\* MUTANT: the tokens of a failed page are dropped
SkipPageUncounted ==
    /\ pc = "unanswered" /\ Paging
    /\ tokens' = tokens /\ callTokens' = 0 /\ attempts' = 0
    /\ skipped' = skipped \cup text
    /\ pc' = "paging"
    /\ UNCHANGED <<inputVars, docType, strategy, left, text, raw, kept,
                   outcome, classifierTokens, ledger, reported>>

SkipPage ==
    /\ pc = "unanswered" /\ Paging
    /\ EndOfText
    /\ skipped' = skipped \cup text
    /\ pc' = "paging"
    /\ UNCHANGED <<inputVars, docType, strategy, left, text, raw, kept,
                   outcome, classifierTokens, ledger, reported>>

\* MUTANT: one failed page fails the document
AnyPageFailed == skipped # {}

AllPagesFailed == skipped # {} /\ kept = {}

MergePages ==
    /\ pc = "paging" /\ left = {}
    /\ IF AllPagesFailed
       THEN outcome' = "extraction_error" /\ pc' = "recording" /\ UNCHANGED raw
       ELSE /\ raw' = IF kept = {} THEN "empty" ELSE "useful"
            /\ pc' = "validating"
            /\ UNCHANGED outcome
    /\ UNCHANGED <<inputVars, docType, strategy, textVars, tokens, pageVars,
                   classifierTokens, ledger, reported>>

-----------------------------------------------------------------------------
(* QualityPipeline.run_resolved, then AuditRecorder *)

Validate ==
    /\ pc = "validating"
    /\ outcome' \in ValidationOf[raw]
    /\ pc' = IF outcome' = "error" THEN "lost" ELSE "recording"
    /\ UNCHANGED <<inputVars, docType, strategy, textVars, tokens, raw,
                   pageVars, classifierTokens, ledger, reported>>

\* MUTANT: a failed extraction is recorded without its classifier usage
SuccessUsage ==
    [CLASSIFIER |-> IF outcome = "extraction_error" THEN 0 ELSE classifierTokens,
     EXTRACTION |-> tokens]

UsageEvents == [CLASSIFIER |-> classifierTokens, EXTRACTION |-> tokens]

Record ==
    /\ pc = "recording"
    /\ ledger' = UsageEvents
    /\ pc' = "recorded"
    /\ UNCHANGED <<inputVars, docType, strategy, textVars, tokens, raw,
                   pageVars, outcome, classifierTokens, reported>>

Terminated == pc \in {"recorded", "lost"} /\ UNCHANGED vars

Call == CallReturnsArguments \/ CallReturnsNoArguments \/ CallRaises

Progress ==
    \/ ClassifierAnswers \/ ResolveFails \/ Resolve
    \/ Call
    \/ TakeWhole \/ FailWhole
    \/ SendPage \/ TakePage \/ BreakOnPage \/ SkipPage \/ MergePages
    \/ Validate \/ Record

Next == Progress \/ Terminated

Spec == Init /\ [][Next]_vars

\* The coroutine is always resumed, and litellm answers or raises (its timeout)
FairSpec == Spec /\ WF_vars(Progress)

-----------------------------------------------------------------------------
(* Properties *)

\* At every step the tokens the LLM client has handed back are the sum of the
\* counters the run carries: retries without a tool call, failed pages and the
\* classifier included (tool_call_extractor.py:72-99, page_extraction.py:119-134).
TokensConserved == reported = classifierTokens + tokens + callTokens

\* A failed page costs its own data only: PAGE_BY_PAGE raises when a page
\* failed and none was of use, never when one was, and data that is stored
\* comes from some page (page_extraction.py:135-144).
FailedPagesAreLocal ==
    Paging =>
        /\ outcome = "extraction_error" => kept = {} /\ skipped # {}
        /\ outcome \in {"completed", "partial"} => kept # {}

\* Every run ends, whatever the provider answers: retries and pages run out
\* (tool_call_extractor.py:59, page_extraction.py:106).
Decides == <>(pc \in {"recorded", "lost"})

\* a page is sent, called for until the retries are used up, and taken or skipped
PageSteps == MaxRetries + 3

\* a bound on the steps that are left: those of the page at hand, those of the
\* pages not yet sent, and the merge, the validation and the record
Work ==
    CASE pc = "resolving"  -> (MaxPages + 1) * PageSteps + IF docType = None THEN 4 ELSE 3
      [] pc = "calling"    -> Cardinality(left) * PageSteps + (MaxRetries + 5 - attempts)
      [] pc \in {"answered", "unanswered"} -> Cardinality(left) * PageSteps + 4
      [] pc = "paging"     -> Cardinality(left) * PageSteps + 3
      [] pc = "validating" -> 2
      [] pc = "recording"  -> 1
      [] OTHER             -> 0

\* The steps of a run are bounded by its pages and retries, whatever the provider
\* answers: every one uses up some of the work that is left, so that no order of
\* answers, skipped pages and retries runs on (tool_call_extractor.py:59,
\* page_extraction.py:106).
StepsRunOut ==
    /\ [](Work \in 0..((MaxPages + 1) * PageSteps + 4))
    /\ [][Work' < Work]_vars

Metered == INSTANCE MeteredRun WITH
    Unrecorded <- "error",
    spent <- reported,
    ledger <- ledger["CLASSIFIER"] + ledger["EXTRACTION"],
    written <- pc = "recorded"

\* The run keeps the promise of MeteredRun: what is recorded, with success or
\* failure, is exactly what was reported (documents.py:328-361, audit.py:120-146).
ImplementsMetered == Metered!Spec

=============================================================================
