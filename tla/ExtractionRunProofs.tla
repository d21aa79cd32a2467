------------------------- MODULE ExtractionRunProofs -------------------------
(* Theorems about ExtractionRun, for every number of pages and retries and   *)
(* every set of token costs.  The inductive invariant Account adds to the    *)
(* types what each control state says of the counters: callTokens is nonzero *)
(* only while a text is being extracted, a run that has not asked the        *)
(* classifier has no classifier tokens, the outcome is open until the run is *)
(* recorded or lost.                                                         *)
EXTENDS ExtractionRun, FiniteSetTheorems, TLAPS

Counters ==
    /\ docType = None => classifierTokens = 0
    /\ pc = "resolving" => tokens = 0 /\ attempts = 0
    /\ pc \in {"calling", "answered", "unanswered"} \/ callTokens = 0
              \/ pc = "lost"
    /\ pc = "calling" => attempts <= MaxRetries
    /\ pc = "paging" => attempts = 0
    /\ pc = "recorded"
         => ledger["CLASSIFIER"] = classifierTokens /\ ledger["EXTRACTION"] = tokens
    /\ pc # "recorded" => ledger["CLASSIFIER"] = 0 /\ ledger["EXTRACTION"] = 0
    /\ TokensConserved

Control ==
    /\ outcome = None <=> pc \notin {"recording", "recorded", "lost"}
    /\ pc \in {"recording", "recorded"} => outcome # "error"
    /\ pc \in {"calling", "answered", "unanswered"} => strategy # None
    /\ pc = "resolving" => strategy = None
    /\ pc = "answered" => raw \in Arguments
    /\ pc = "paging" => Paging
    /\ pc = "validating" => raw \in Arguments \cup {"empty"}
    /\ pc = "validating" /\ Paging /\ kept = {} => raw = "empty"

Account == TypeOK /\ Counters /\ Control /\ FailedPagesAreLocal

\* The number of pages is the last page's index (the pages are numbered from 1)
LEMMA PagesNumbered ==
    ASSUME TypeOK
    PROVE  DOMAIN pages \subseteq Indices /\ PageCount \in Indices
<1>1. PICK n \in Indices : pages \in [1..n -> PageKinds]
  BY DEF TypeOK
<1>2. n \in Nat /\ n >= 1 /\ n <= MaxPages
  BY <1>1, PagesAssumption DEF Indices
<1>3. DOMAIN pages = 1..n
  BY <1>1
<1>4. Cardinality(1..n) = n
  BY <1>2, FS_Interval
<1> QED  BY <1>2, <1>3, <1>4, PagesAssumption DEF PageCount, Indices

LEMMA AccountInit == Init => Account
BY PagesAssumption, RetriesAssumption
   DEF Init, Account, TypeOK, Counters, Control, FailedPagesAreLocal, TokensConserved,
       Paging, None, Purposes, Outcomes, Strategies

LEMMA ResolveKeeps ==
    ASSUME Account, ClassifierAnswers \/ ResolveFails \/ Resolve
    PROVE  Account'
<1> USE DEF Account, TypeOK, Counters, Control, FailedPagesAreLocal, TokensConserved,
            Paging,
            None, Purposes, Outcomes, Strategies, Arguments, inputVars, textVars,
            pageVars
<1>1. CASE ClassifierAnswers
  BY <1>1, CostsAssumption DEF ClassifierAnswers
<1>2. CASE ResolveFails
  BY <1>2 DEF ResolveFails
<1>3. CASE Resolve
  <2>1. DOMAIN pages \subseteq Indices /\ PageCount \in Indices
    BY PagesNumbered
  <2>2. 1 \in Indices
    BY PagesAssumption DEF Indices
  <2>3. select_pages \subseteq Indices /\ NonBlank \subseteq Indices
    BY <2>1, <2>2 DEF select_pages, NonBlank
  <2>4. resolve_strategy \in Strategies
    BY DEF resolve_strategy
  <2>5. left' \subseteq Indices /\ text' \subseteq Indices
    BY <1>3, <2>1, <2>3 DEF Resolve
  <2> QED  BY <1>3, <2>4, <2>5, RetriesAssumption DEF Resolve
<1> QED  BY <1>1, <1>2, <1>3

LEMMA CallKeeps ==
    ASSUME Account, Call
    PROVE  Account'
<1> USE DEF Account, TypeOK, Counters, Control, FailedPagesAreLocal, TokensConserved,
            Paging,
            None, Purposes, Outcomes, Strategies, Arguments, inputVars, textVars,
            pageVars
<1>1. CASE CallReturnsArguments
  BY <1>1, CostsAssumption, RetriesAssumption DEF CallReturnsArguments, CallReturns
<1>2. CASE CallReturnsNoArguments
  BY <1>2, CostsAssumption, RetriesAssumption
     DEF CallReturnsNoArguments, CallReturns, MayRetry
<1>3. CASE CallRaises
  BY <1>3, RetriesAssumption DEF CallRaises
<1> QED  BY <1>1, <1>2, <1>3 DEF Call

LEMMA TextKeeps ==
    ASSUME Account, TakeWhole \/ FailWhole \/ SendPage \/ TakePage \/ BreakOnPage
                    \/ SkipPage \/ MergePages
    PROVE  Account'
<1> USE DEF Account, TypeOK, Counters, Control, FailedPagesAreLocal, TokensConserved,
            Paging,
            None, Purposes, Outcomes, Strategies, Arguments, inputVars, textVars,
            pageVars
<1>1. CASE TakeWhole
  BY <1>1, RetriesAssumption DEF TakeWhole, EndOfText
<1>2. CASE FailWhole
  BY <1>2, RetriesAssumption DEF FailWhole, EndOfText
<1>3. CASE SendPage
  BY <1>3, RetriesAssumption DEF SendPage
<1>4. CASE TakePage
  BY <1>4, RetriesAssumption DEF TakePage, EndOfText
<1>5. CASE BreakOnPage
  BY <1>5 DEF BreakOnPage
<1>6. CASE SkipPage
  BY <1>6, RetriesAssumption DEF SkipPage, EndOfText
<1>7. CASE MergePages
  BY <1>7 DEF MergePages, AllPagesFailed
<1> QED  BY <1>1, <1>2, <1>3, <1>4, <1>5, <1>6, <1>7

LEMMA EndKeeps ==
    ASSUME Account, Validate \/ Record
    PROVE  Account'
<1> USE DEF Account, TypeOK, Counters, Control, FailedPagesAreLocal, TokensConserved,
            Paging,
            None, Purposes, Outcomes, Strategies, Arguments, inputVars, textVars,
            pageVars
<1>1. CASE Validate
  <2>1. outcome' \in Outcomes \ {"extraction_error"}
    BY <1>1 DEF Validate, ValidationOf
  <2>2. raw = "empty" => outcome' = "failed"
    BY <1>1 DEF Validate, ValidationOf
  <2> QED  BY <1>1, <2>1, <2>2 DEF Validate
<1>2. CASE Record
  BY <1>2 DEF Record, UsageEvents
<1> QED  BY <1>1, <1>2

LEMMA AccountNext == Account /\ [Next]_vars => Account'
<1> SUFFICES ASSUME Account, [Next]_vars PROVE Account'
  OBVIOUS
<1>1. CASE ClassifierAnswers \/ ResolveFails \/ Resolve
  BY <1>1, ResolveKeeps
<1>2. CASE Call
  BY <1>2, CallKeeps
<1>3. CASE TakeWhole \/ FailWhole \/ SendPage \/ TakePage \/ BreakOnPage \/ SkipPage
           \/ MergePages
  BY <1>3, TextKeeps
<1>4. CASE Validate \/ Record
  BY <1>4, EndKeeps
<1>5. CASE UNCHANGED vars
  BY <1>5 DEF vars, Account, TypeOK, Counters, Control, FailedPagesAreLocal,
              TokensConserved,
              Paging, inputVars, textVars, pageVars
<1> QED
  BY <1>1, <1>2, <1>3, <1>4, <1>5 DEF Next, Progress, Terminated

LEMMA AccountHolds == Spec => []Account
BY AccountInit, AccountNext, PTL DEF Spec

\* Types and the bound on the attempts for one text (tool_call_extractor.py:59).
THEOREM TypeCorrect == Spec => []TypeOK
BY AccountHolds, PTL DEF Account

\* No reported token is dropped or counted twice on any path of a run
\* (tool_call_extractor.py:72-104, page_extraction.py:119-134).
THEOREM TokensAreConserved == Spec => []TokensConserved
BY AccountHolds, PTL DEF Account, Counters

\* Failed pages are local (page_extraction.py:138-144).
THEOREM FailedPagesStayLocal == Spec => []FailedPagesAreLocal
BY AccountHolds, PTL DEF Account

\* The run implements MeteredRun: the record of an extraction, successful or
\* not, carries all tokens reported for it (documents.py:328-361).
THEOREM RunIsMetered == Spec => ImplementsMetered
<1>1. Init => Metered!Init
  BY DEF Init, Metered!Init, None, Metered!None, Purposes
<1>2. Account /\ Account' /\ [Next]_vars => [Metered!Next]_Metered!vars
  <2> SUFFICES ASSUME Account, Account', [Next]_vars
               PROVE  [Metered!Next]_Metered!vars
    OBVIOUS
  <2> USE DEF Metered!Next, Metered!vars, Metered!None, None, inputVars, textVars,
              pageVars
  <2>1. CASE ClassifierAnswers
    BY <2>1, CostsAssumption
       DEF ClassifierAnswers, Metered!Spend, Account, TypeOK, Control
  <2>2. CASE ResolveFails \/ BreakOnPage
    BY <2>2 DEF ResolveFails, BreakOnPage, Metered!Decide, Metered!Outcomes, Account,
                Control
  <2>3. CASE Resolve \/ CallRaises \/ TakeWhole \/ SendPage \/ TakePage \/ SkipPage
    BY <2>3 DEF Resolve, CallRaises, TakeWhole, SendPage, TakePage, SkipPage
  <2>4. CASE CallReturnsArguments \/ CallReturnsNoArguments
    BY <2>4, CostsAssumption
       DEF CallReturnsArguments, CallReturnsNoArguments, CallReturns, MayRetry,
           Metered!Spend, Account, TypeOK, Control
  <2>5. CASE FailWhole
    BY <2>5 DEF FailWhole, Metered!Decide, Metered!Outcomes, Account, Control
  <2>6. CASE MergePages
    BY <2>6 DEF MergePages, Metered!Decide, Metered!Outcomes, Account, Control
  <2>7. CASE Validate
    <3>1. outcome' \in Outcomes
      BY <2>7 DEF Validate, Account, TypeOK, Control, Outcomes
    <3> QED  BY <2>7, <3>1 DEF Validate, Metered!Decide, Metered!Outcomes, Outcomes,
                               Account, Control
  <2>8. CASE Record
    <3>1. ledger' = [CLASSIFIER |-> classifierTokens, EXTRACTION |-> tokens]
      BY <2>8 DEF Record, UsageEvents
    <3>2. reported = classifierTokens + tokens
      BY <2>8 DEF Record, Account, TypeOK, Counters, TokensConserved
    <3> QED  BY <2>8, <3>1, <3>2 DEF Record, Metered!Record, Metered!Outcomes, Outcomes,
                                     Account, TypeOK, Control
  <2>9. CASE UNCHANGED vars
    BY <2>9 DEF vars
  <2> QED
    BY <2>1, <2>2, <2>3, <2>4, <2>5, <2>6, <2>7, <2>8, <2>9
       DEF Next, Progress, Call, Terminated
<1> QED
  BY <1>1, <1>2, AccountHolds, PTL DEF Spec, ImplementsMetered, Metered!Spec

-----------------------------------------------------------------------------
(* A run ends *)

LEMMA Products ==
    ASSUME NEW n \in Nat, NEW m \in Nat, NEW k \in Nat
    PROVE  /\ n * k \in Nat
           /\ n <= m => n * k <= m * k
           /\ (n + 1) * k = n * k + k
OBVIOUS

LEMMA PagesLeft ==
    ASSUME TypeOK
    PROVE  /\ IsFiniteSet(left) /\ Cardinality(left) \in Nat /\ PageSteps \in Nat
           /\ Cardinality(left) * PageSteps \in Nat /\ MaxPages * PageSteps \in Nat
           /\ Cardinality(left) * PageSteps <= MaxPages * PageSteps
<1>1. IsFiniteSet(Indices) /\ Cardinality(Indices) = MaxPages /\ MaxPages \in Nat
  BY PagesAssumption, FS_Interval DEF Indices
<1>2. /\ IsFiniteSet(left) /\ Cardinality(left) \in Nat /\ Cardinality(left) <= MaxPages
  BY <1>1, FS_Subset, FS_CardinalityType DEF TypeOK
<1>3. PageSteps \in Nat
  BY RetriesAssumption DEF PageSteps
<1> QED BY <1>1, <1>2, <1>3, Products

\* The work that is left is a number, and bounded by the document.
WorkFits ==
    /\ Work \in 0..((MaxPages + 1) * PageSteps + 4)
    /\ Cardinality(left) * PageSteps \in 0..(MaxPages * PageSteps)

LEMMA AccountFits == Account => WorkFits
<1> SUFFICES ASSUME Account PROVE WorkFits
  OBVIOUS
<1>1. TypeOK /\ Counters
  BY DEF Account
<1>2. PICK n, m : n = Cardinality(left) * PageSteps /\ m = MaxPages * PageSteps
  OBVIOUS
<1>3. n \in Nat /\ m \in Nat /\ n <= m /\ PageSteps \in Nat
  BY <1>1, <1>2, PagesLeft
<1>4. attempts \in Nat /\ (pc = "calling" => attempts <= MaxRetries)
  BY <1>1, RetriesAssumption DEF TypeOK, Counters
<1>5. (MaxPages + 1) * PageSteps = m + PageSteps
  BY <1>2, <1>3, PagesAssumption, Products
<1>6. Work \in Nat /\ Work <= m + PageSteps + 4
  <2> DEFINE whole == (MaxPages + 1) * PageSteps
  <2>1. whole = m + PageSteps
    BY <1>5
  <2> HIDE DEF whole
  <2> QED BY <1>2, <1>3, <1>4, <2>1, RetriesAssumption DEF Work, PageSteps, whole
<1> QED BY <1>2, <1>3, <1>5, <1>6 DEF WorkFits

\* Sending a page leaves one page less.
LEMMA OnePageLess ==
    ASSUME TypeOK, NEW i \in left
    PROVE  Cardinality(left \ {i}) * PageSteps = Cardinality(left) * PageSteps - PageSteps
<1>1. Cardinality(left \ {i}) = Cardinality(left) - 1 /\ Cardinality(left \ {i}) \in Nat
  BY PagesLeft, FS_RemoveElement, FS_CardinalityType
<1>2. (Cardinality(left \ {i}) + 1) * PageSteps = Cardinality(left \ {i}) * PageSteps + PageSteps
  BY <1>1, PagesLeft, Products
<1>3. Cardinality(left \ {i}) + 1 = Cardinality(left)
  BY <1>1, PagesLeft
<1>4. Cardinality(left \ {i}) * PageSteps \in Nat
  BY <1>1, PagesLeft, Products
<1> QED BY <1>2, <1>3, <1>4, PagesLeft

LEMMA ProgressShrinks ==
    ASSUME Account, WorkFits, WorkFits', Progress
    PROVE  Work' < Work
<1>1. TypeOK /\ Counters /\ Work \in Nat /\ Work' \in Nat
  BY DEF Account, WorkFits
<1>2. PICK n, m, k, b : /\ n = Cardinality(left) * PageSteps /\ m = MaxPages * PageSteps
                        /\ k = PageSteps /\ b = (MaxPages + 1) * PageSteps
  OBVIOUS
<1>3. n \in Nat /\ m \in Nat /\ n <= m /\ k \in Nat /\ k = MaxRetries + 3 /\ MaxRetries \in Nat
      /\ b = m + k
  <2>1. (MaxPages + 1) * PageSteps = MaxPages * PageSteps + PageSteps
    BY <1>1, PagesLeft, PagesAssumption, Products
  <2>2. /\ n \in Nat /\ m \in Nat /\ n <= m /\ k \in Nat
    BY <1>1, <1>2, PagesLeft
  <2>3. k = MaxRetries + 3 /\ MaxRetries \in Nat
    BY <1>2, RetriesAssumption DEF PageSteps
  <2> QED BY <1>2, <2>1, <2>2, <2>3
<1>4. attempts \in Nat /\ (pc = "calling" => attempts <= MaxRetries)
  BY <1>1 DEF TypeOK, Counters
<1>5. CASE ClassifierAnswers
  BY <1>2, <1>3, <1>5 DEF ClassifierAnswers, Work, None
<1>6. CASE ResolveFails
  BY <1>2, <1>3, <1>6 DEF ResolveFails, Work
<1>7. CASE Resolve
  <2>1. PICK n2 : n2 = Cardinality(left') * PageSteps
    OBVIOUS
  <2>2. n2 \in Nat /\ n2 <= m
    <3>1. Cardinality(left') * PageSteps \in 0..m
      BY <1>2 DEF WorkFits, PageSteps
    <3> QED BY <1>3, <2>1, <3>1
  <2>3. pc = "resolving" /\ pc' \in {"calling", "paging"} /\ attempts' = 0 /\ Work = m + k + 3
    BY <1>1, <1>2, <1>3, <1>7 DEF Resolve, Counters, Work, None
  <2>4. Work' <= n2 + 3 + MaxRetries + 2
    BY <1>3, <2>1, <2>2, <2>3 DEF Work, PageSteps
  <2> QED BY <1>1, <1>3, <2>2, <2>3, <2>4
<1>8. CASE Call
  <2>1. /\ pc = "calling" /\ pc' \in {"answered", "unanswered", "calling"}
        /\ left' = left /\ attempts' = attempts + 1
        /\ pc' = "calling" => attempts' <= MaxRetries
    BY <1>8 DEF Call, CallReturnsArguments, CallReturnsNoArguments, CallRaises, CallReturns,
                MayRetry
  <2> QED BY <1>2, <1>3, <1>4, <2>1 DEF Work, PageSteps
<1>9. CASE TakeWhole \/ FailWhole
  BY <1>2, <1>3, <1>9 DEF TakeWhole, FailWhole, Work
<1>10. CASE SendPage
  <2>1. PICK i \in left : /\ left' = left \ {i} /\ pc = "paging" /\ pc' = "calling"
                          /\ attempts' = attempts
    BY <1>10 DEF SendPage
  <2>2. Cardinality(left') * PageSteps = n - k
    BY <1>1, <1>2, <2>1, OnePageLess
  <2>3. Work' = (n - k) + (MaxRetries + 5 - attempts)
    BY <2>1, <2>2 DEF Work, PageSteps
  <2>4. Work = n + 3
    BY <1>2, <2>1 DEF Work
  <2> QED BY <1>3, <1>4, <2>3, <2>4
<1>11. CASE TakePage \/ SkipPage
  BY <1>2, <1>3, <1>11 DEF TakePage, SkipPage, Work, PageSteps
<1>12. CASE BreakOnPage
  BY <1>2, <1>3, <1>12 DEF BreakOnPage, Work
<1>13. CASE MergePages
  BY <1>2, <1>3, <1>13 DEF MergePages, Work
<1>14. CASE Validate \/ Record
  BY <1>14 DEF Validate, Record, Work
<1> QED BY <1>5, <1>6, <1>7, <1>8, <1>9, <1>10, <1>11, <1>12, <1>13, <1>14 DEF Progress

\* Every step uses up some of the work that is left, for every number of pages and
\* retries and whatever the provider answers (tool_call_extractor.py:59,
\* page_extraction.py:106).
THEOREM RunsAreBounded == Spec => StepsRunOut
<1>1. Account /\ WorkFits /\ WorkFits' /\ [Next]_vars => [Work' < Work]_vars
  BY ProgressShrinks DEF Next, Terminated
<1>2. WorkFits => Work \in 0..((MaxPages + 1) * PageSteps + 4)
  BY DEF WorkFits
<1> QED BY <1>1, <1>2, AccountFits, AccountHolds, PTL DEF Spec, StepsRunOut

=============================================================================
