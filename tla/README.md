# Verification of the structured data extractor

TLA+ models of the extraction service in `src/app`, TLC configurations that check
them on small instances, and theorems about them that TLAPS proves for every
value of the constants.

    tlc -config MC_interleavings.cfg MCDocumentService.tla
    tlapm DocumentServiceProofs.tla

## 1. The system

The service takes PDF uploads over HTTP, extracts structured data from them with
an LLM, and stores documents, extractions, corrections and LLM usage in Postgres.
Extraction runs in the request, or as a job that an arq worker takes from Redis.

| Component | State it keeps | Operations | Talks to |
| --- | --- | --- | --- |
| Document service (`services/documents.py`, `repositories/documents.py`) | `documents.status`; per session: loaded attributes, flushed writes | `extract_document` (upload or known document, inline or async), recording of results and failures, `batch_extract` | all of the below |
| Intake and storage (`services/document_intake.py`, `infrastructure/storage.py`) | one file per document | prepare (parse, save), load, delete | disk, PyMuPDF |
| Audit and usage ledger (`services/audit.py`) | `extractions`, `llm_usages` rows | `record_success`, `record_failure` | the caller's session |
| Queue and worker (`jobs/extraction_queue.py`, `workers/worker.py`) | jobs in Redis | enqueue, deliver, finish, redeliver, time out | document service, with a session of its own |
| Lifecycle (`core/lifecycle.py`) | whether Redis was reached at startup | startup, shutdown | Redis, Postgres |
| Processor, pipeline, classifier, tool-call extractor, page strategies (`services/document_processor.py`, `extraction_pipeline.py`, `classifier.py`, `tool_call_extractor.py`, `page_extraction.py`) | none between runs; per run: page position, attempts, token counters, merged fields | classify, resolve strategy, call with retries, page by page, merge, validate | LLM client |
| LLM client (`integrations/llm/litellm_client.py`) | none | `classify`, `call_tool` | provider |
| Validation, confidence (`services/validation.py`, `lib/confidence.py`) | none | schema validation with recovery of single fields, scores | schemas |
| Corrections (`services/corrections.py`) | append-only `extraction_corrections` | diff and store | Postgres |
| Cost report (`services/cost_report.py`, `repositories/llm_usage.py`, `extractions.py`) | none | six queries, prices, totals | Postgres, concurrently with recordings |
| API (`api/`) | none | upload limits, routing, errors to HTTP | document service |
| Configuration, health, migrations, evaluation script | settings | - | - |

What is hard here, and the property that makes each part correct:

* **Several sessions, one document.** A request and a job, two requests, or two
  deliveries of a job work on one row, each from its own loaded copy. A status
  and its extraction are flushed separately. *A COMPLETED document has a readable
  extraction; no step outside the lifecycle happens.*
* **Errors halfway.** A commit may take effect and still raise, a session may be
  unusable in the very `except` clause that writes FAILED, Redis may take a job
  and lose the reply, a worker may die. *Documents are abandoned only in known
  ways; rows and files stay together; a request is extracted once.*
* **Money.** Tokens are counted by the extractor, by the page loop, and in
  exceptions, and reach the ledger by two paths. *Each reported token is recorded
  once.*
* **Merging.** Page results are folded in page order. *The merged field is what
  a definition over the set of pages says.*
* **Limits.** A semaphore for each batch, and one connection pool for all sessions of
  the process, batches and other requests. *Batches are answered.*
* **Torn reads.** A cost report is six statements under READ COMMITTED, a document
  with its extractions two. *What their parts still have in common.*
* **Recovery.** An answer that is not valid as a whole is taken apart, each field
  validated in a made-up document. *What is stored of a field depends on that field
  alone, nothing is lost silently, and what was stored is accepted again.*
* **Reviewers.** Several correct one extraction at once. *Each diff is the whole
  difference, and no correction disturbs another.*

`PROJECT.json` lists every hazard with its line and its properties.

## 2. Modules

    DocumentLifecycle  <--implements--  DocumentService  <-- DocumentServiceProofs
          ^
          +--reads--  DocumentQueries                    <-- DocumentQueriesProofs
    MeteredRun         <--implements--  ExtractionRun    <-- ExtractionRunProofs
    PageMerge          (the merge that ExtractionRun takes as one step)
                                                         <-- PageMergeProofs, Folding
    BatchExtraction    (many items of DocumentService, by the connections they hold)
                                                         <-- BatchExtractionProofs
    CostReport         (readers of what DocumentService records)
                                                         <-- CostReportProofs, Folding
    FieldRecovery      (the verdict of validation that ExtractionRun takes as an input)
          ^
          +-----------  Corrections                      <-- CorrectionsProofs, Folding

Each `MC<Module>` instantiates its module for TLC and defines the symmetry.
Operators marked `MUTANT` are plausible bugs; no action uses them. Each shows
that one property fails when the code is changed in that way.

**DocumentService** - A *task* `<<r, n>>` is a coroutine with its own session:
`n = 0` is the handler of request `r`, `n > 0` the n-th delivery of the job it
enqueued. `pc[t]` is the await it is at; each action is the code between two
awaits, so that TLC interleaves tasks where the event loop and the worker do.
`status`, `extraction`, `usage` are committed rows; `staged[t]` is what a session
has flushed; `mem[t]` is the status its session loaded. `WriteStatus` and
`StageStatus` follow the ORM: no UPDATE when the attribute already has the value,
and a flushed UPDATE locks the row (`Unlocked`). `Publish` is the commit of
`_record_processing_success` or `_record_processing_failure`. The except clauses
are `OnDatabaseError`, `OnEnqueueError`, `OnProcessingError` and `MarkFailed`;
`broken[t]` is a session that needs a rollback and does not get one. Faults are
actions guarded by the constant `Faults` and bounded by `MaxFaults`; `faults` keeps
their number and kinds, so that a property can say which of them it does not survive
(`Spared`).

**DocumentLifecycle** - The promise: register, begin, give up, publish a result
with its status, each atomic; nothing vanishes. `Runs <- Tasks` and `results` is
the set of committed extractions.

**DocumentQueries** - Clients over the lifecycle: `GET /documents/{id}` as the
statements of `selectinload`, each of which sees what is committed when it starts,
and the reads of a listed extraction (`AskExtraction`) and of its audit (`AskAudit`),
which are one statement each and find the same row. The audit of a failed extraction
may be `Refused`: the row can hold JSON that is not an object as `raw_tool_output`, and
`ExtractionAuditResponse` takes only objects. `DocumentService` implements the lifecycle, so what is shown here
of any lifecycle holds for readers of the service.

**FieldRecovery** - `validate_extraction` and `score_confidence_map` as operators
without state. A raw answer is a partial function from fields to `<<kind, content>>`:
what pydantic reads the JSON value as. `Invalid` are the fields `ValidationError` names;
`Recovered` validates each of the others in a document of `FallbackRaw` values and, if
that fails, by its annotation alone; `Unquantized` is where `quantize` raises.

**Corrections** - One extraction, recorded from a raw answer, and the requests to
correct it: submit, validate, insert and commit, refresh and answer, with a commit in
doubt. `rows` has the row of each request; a reviewer edits the extraction they read.

**ExtractionRun** - One `process_pages` with everything it calls. `callTokens`
are the totals inside `ToolCallExtractor.extract`, `tokens` those of the page
strategy, `classifierTokens` the usage event; `ledger` is what `audit.py` writes;
`reported` is a history variable with what the client returned. Input and output
tokens take the same path and are one number.

**MeteredRun** - The promise to the ledger: spend while the outcome is open;
record once, all of it.

**PageMerge** - `_merge_results`, a field of a page at a time. Texts are known by
their length after `strip`, list items by identity.

**BatchExtraction** - `batch_extract`: the awaits of an item at which it takes or
returns a connection, the permit, `gather`, and the counts. The engine of
`core/database.py` is one for the process, so `Others` are the transactions of
everything else that the API process serves: single uploads, known documents, reads,
corrections, cost reports. Each takes one connection of the same pool (`Borrow`) and
gives it back (`Return`); `InUse` counts both kinds. The worker is a process of its own
with an engine of its own, and the session that the handler of the batch was given
executes nothing and so takes no connection.

**CostReport** - `generate` as six steps between which extractions are written,
ledgered and committed. An extraction has its own date and one for each of its usage
rows, which `audit.py` constructs one after the other: the clock may pass an edge of the
report's window between any two of them.

## 3. Runs

| Run | Checks | Instance and why it is enough |
| --- | --- | --- |
| `interleavings` | `TypeOK`, `CompletedHasResult` | Three requests on one document, two jobs at a time: any two runs overlap while a third arrives between. |
| `faults` | `UsageIsLedgered`, `AbandonedIsExplained`, `ExtractedOnce`, `DocumentHasFile`, `NoOrphanUpload`, `ImplementsLifecycle` | Two requests, two deliveries, any two of ten kinds of fault: a fault in the handling of a fault. |
| `settled` | `AcceptedIsSettled`, `TasksEnd` | Liveness: a handler and a job of one document, two deliveries, one fault. |
| `deleted`, `refused` | violated, section 6 | The smallest instance with the fault. |
| `pages` | `TypeOK`, `TokensConserved`, `ImplementsMetered`, `FailedPagesAreLocal`, `StepsRunOut`, `Decides` | Up to three pages of every kind, SMART above two, one retry, costs 0, 1, 3 whose sums differ. |
| `merge` | `TypeOK`, `LongestTextWins`, `ListsUnite`, `SourcesBroughtNews`, `FieldsOnlyGrow` | One field (fields do not interact), three pages: a value must be compared with one that is not its neighbour. |
| `pool` | `TypeOK`, `AnswersAddUp`, `LimitsFit`, `BatchesAnswered` | Two batches of two files; items outnumber permits, permits outnumber connections, and a transaction of another request takes the last connection at any moment. |
| `report` | `TypeOK`, `QuietReportBalances`, `TotalsAreLowerBounds`, `UsageIsCounted` | Two extractions, two types, strategies and models, two dates: commits before, between and after the queries; extraction, classifier usage and extraction usage on the same or on different sides of either edge of the window. |
| `corrections` | `TypeOK`, `RecoveryIsFieldwise`, `LossIsVisible`, `OnlyHugeAmountsEscape`, `OwnDataIsNoChange`, `DiffReplays`, `CorrectionsAreKept` | All four types; documents that state everything, or nothing, but for one odd field of every kind (fields meet only in date order and sums, for which one odd field is enough; a key the schema does not have is one of the odd fields); one reviewer edits any field, another resubmits or, of a contract, edits the currency: two edits of one field, and of two. |
| `queries` | `TypeOK`, `CompletedIsReadable`, `ListedIsFound`, `ListsGrow` | Two documents, three runs, a client: a result from before the first statement, one between the two, one after. Clients do not act on each other. |
| `unpriced` | violated, section 6 | As `report`. |

What they show. Statuses and extractions are safe under all interleavings: they
become visible in one commit, and an UPDATE that is elided because the session's
copy is stale only ever leaves a status that the abstract lifecycle allows.
What the design does not give is in the statements. `AbandonedIsExplained` names
how a document stays in UPLOADED or PROCESSING: its task was killed (crash,
timeout), its session broke, or an *upload* raised something other than an
ExtractionError. `ExtractedOnce` holds until a reply of Redis is lost or a worker
dies, `DocumentHasFile` until a commit is in doubt (section 6), `NoOrphanUpload`
until a save stops half-way, undoing an upload fails (its delete, whose errors are only
logged, or the rollback before it) or the API process dies: each of these
faults is in the instance, and after it the property promises nothing. `OnlyHugeAmountsEscape` is the one way
validation fails: amounts from 10^26 upwards fit the schema and not `quantize`.
A document's answer need not be one any moment had; `CompletedIsReadable` and
`ListsGrow` are what it keeps because the status is read first and extractions are
never removed. `LimitsFit` says what the
limit of five permits does *not* bound: concurrent batches add up, and they share the
pool with whatever else the process serves, so that an item can fail for want of a
connection although its batch is alone. In a report, `TotalsAreLowerBounds` is what
remains when recordings commit between queries, and `UsageIsCounted` what remains of a
quiet one when the window cuts between the rows of one extraction: counts and usage
are selected by different dates, so that only a window open to one side bounds the one by
the other.

**Bounds.** `MaxTries`, `MaxJobs` (arq `max_tries`, `WorkerSettings.max_jobs` = 5),
`Limit` (5), `PoolSize` (5 + 10), `SmartAbove` (10) and `MaxRetries` (2) are the
program's own limits, made small so that they are reached. `QuantizeLimit` (10^26, the precision of Python's decimal context with two places) is
made small as well. `MaxFaults`,
`MaxPages`, `PageCount`, `MaxSize`, `MaxTime` and `Costs` bound the environment.
Each request is used once, and each of the `Others` opens once: the pool serves waiters
in order, so that an endless stream of new transactions does not starve an item, and the
model leaves it out. The clock of `CostReport` does not step back. Symmetry is taken over requests and documents
(`DocumentService`), documents and runs (`DocumentQueries`), list items (`PageMerge`), and extractions and types
(`CostReport`), never in a run with a liveness property; `ImplementsLifecycle` is
a property of single steps and treats requests alike.

**Fairness.** `DocumentService!Fairness`: the event loop resumes a coroutine whose
await can complete, and arq polls its queue and stores results. Weak fairness is
enough because nothing but the task itself, or its death, disables its step; a task
that waits for a row lock is disabled until the holder commits or ends. Arrivals and
faults have none. `ExtractionRun`: the coroutine is resumed and LiteLLM answers or
raises. `BatchExtraction`: as the first, and a transaction that holds a connection ends
(`Return`: every session is closed by its `async with`, and its statements are answered).
That another request begins (`Borrow`) and that the pool times out is not relied upon.

## 4. Proofs

All constants are arbitrary within the `ASSUME`s beside them: retries, jobs and
limits positive, outcomes and faults subsets of the known ones, costs naturals.

**DocumentServiceProofs.** Part 1, types and recording. `TypeOK` is not inductive: a job must not be delivered to
a task without a document, and a task must not record what it never obtained.
`Shape` adds `HasDocument`, `IdleRequest` and `Undelivered` (nothing runs for a
request before it arrives, deliveries are used in order), `Registered` (what a
task works on is a row) and `OutcomeKnown`. `NextShape` has a lemma for the
steps of a task, its faults, arrivals, deliveries and crashes.
`TypeCorrect == Spec => []TypeOK`.
`CompletedHasResult` needs that what is staged matches what will be staged with it:
`Recorded` adds for every task `RunRecords`, that in each step of recording the
staged status, extraction and usage are those of its outcome. `TaskCompletes` shows
that the acting task keeps it, `OtherRecords` that all others do, whoever commits.
`CompletedIsBacked == Spec => []CompletedHasResult` and
`UsageIsComplete == Spec => []UsageIsLedgered` hold for any number of requests,
documents, deliveries and faults of every kind.

Part 2, the refinement. `ServiceImplementsLifecycle == Spec =>
ImplementsLifecycle`: every step is a Register, Begin, GiveUp or Publish of the
lifecycle, or leaves statuses and results alone. Two facts beyond `Shape`
and `Recorded` are needed, together the invariant `Owned`. `Claim`: until an upload
is read back its handler has the document to itself, so that no row is
registered twice. `InHand`: a session that
processes or records has PROCESSING loaded, so that its UPDATE of the final status
is not elided and the status and the result do become visible in one commit.

Part 3, faults. Each of these properties holds until certain faults strike;
`SparedStays` says that a fault that has not struck did not strike before. On top of
`Shape`, `Recorded` and `Owned`:

* `RequestExtractedOnce` (`ExtractedOnce`) from `Single`: as long as no reply was lost
  and no worker died, a request with a job has a handler that returned and extracted
  nothing, and its job was delivered at most once.
* `DocumentKeepsFile` (`DocumentHasFile`) from `FileKept`: a file is stored before its
  row is inserted, and what a handler undoes has no row. `Claim` keeps other tasks away
  from the document meanwhile.
* `UploadsHaveOwners` (`NoOrphanUpload`) from `Attended`: the handler that minds a file
  without a row is not a job, so that neither timeouts nor worker crashes reach it.
* `NoDocumentForgotten` (`AbandonedIsExplained`) from `NoneForgotten`, for every fault.
  That a task is alive is not inductive: a second request may look up an open document and
  leave. `Minds(t)` says which tasks are `InCharge` of it, by where they are and what
  their session loaded, or abandoned it; `Awaited(r)` that the job has not read its row.

Part 4, the safety half of termination. `NothingGoesBack`: `Flow` is the graph of
awaits, `Rank` and `JobRank` fall along it, and every step, a fault too, lowers one of
them or counts a fault, and raises none; all requests together take a bounded number of
steps. `NothingIsStuck == Spec => []NobodyStuck`: the guards of a task's next step
hold, or a task that has no guard before it holds the row lock; a queued job has a
delivery left, a running one has a run. It rests on `Queued` (a handler reaches the queue
once, before its job exists) and on `InUse` (what is worked on, was answered or has a job
has its file, under every fault: `DocumentHasFile` is false once a commit is in doubt, but
never for a document that a task loads). What `TasksEnd` has beyond the two theorems
is that a step whose guards hold is taken, which is fairness and `ENABLED`.
`JobsSettle` is the safety half of `AcceptedIsSettled`: when the run of a job ends by
itself, its document is COMPLETED or FAILED at that moment, or its own commit settled it
before, or its session broke; every commit of a result settles. It rests on `Handled`: a
run that is to mark its document FAILED has it as PROCESSING (so that the UPDATE is
emitted), and the document of a job is a row (so that no run ends without touching it).

**BatchExtractionProofs.** `Balance`: the pool, which items share with other transactions,
is never overdrawn, what items hold of it is held by items under way, an item
has a result exactly when it is done, permits bound each batch, an answer counts the
results. `Moves` is what any step of an item does, so that the invariant is shown for it
once. `TypeCorrect`, `BatchAnswersAddUp` and `LimitsAlwaysFit` hold for any finite number
of batches and of other transactions. `ItemsMoveOn` and `NothingIsStuck` are the two halves of `BatchesAnswered`
but for fairness: each step lowers the `Rank` of an item or gives an answer, and
while an answer is missing, some item waits neither for a permit nor for a connection, or another request holds a
connection that it will give back,
because a connection is never held by an item that waits for one.

**Folding.** Induction over numbers and finite sets. A rule that takes a predicate is out
of the provers' reach, one that takes a set is not: `NumberInduction` and
`FiniteInduction` follow from `LeastNumber`, the existence of least elements.
`FoldExists` and `PickInduction` say that a fold over a finite set has the function
that its definition chooses, and what holds along it.

**PageMergeProofs.** Part 1: `TextMerge` adds to `LongestTextWins` that a field without a
value missed nothing useful; `LongestTextIsKept`. Part 2: `append_unique` is a fold; its
recursive function is shown to exist, and what it appends to a list, in which order, by
induction. Part 3: the invariant `PageMerged` says of a field what the pages so far have
made of it (kind, items, sources, what the first useful page was), with `TypeCorrect`,
`ListsAreUnions`, `SourcesAreNews` and, for a step, `NothingIsLost`, for any number of
pages, fields and items.

**ExtractionRunProofs.** `Account` is `TypeOK`, `TokensConserved` with the counters
that are zero at each point of the run (`Counters`), what each point of the run
knows (`Control`) and `FailedPagesAreLocal`. `TypeCorrect`, `TokensAreConserved`,
`FailedPagesStayLocal`, and `RunIsMetered == Spec => ImplementsMetered`: every step
is a step of `MeteredRun` or leaves its variables alone, for every number of pages,
every retry limit and every cost. `RunsAreBounded == Spec => StepsRunOut`: `Work` counts
the pages left, each with all its attempts, and the awaits left for the page in hand;
`WorkFits` keeps it a number and bounds it by `MaxPages` and `MaxRetries`, and every
action lowers it.

**CostReportProofs.** Sums over a finite set are folds; `SumsExist` and `SumsAgree` make
them functions one can calculate with: taken apart (`SumApart`), grouped by a key
(`SumOfGroups`), compared (`SumGrows`). `Typed` is `TypeOK` with what rows and stages
are and, for each row, how its dates are ordered (`Dated`): no usage row before its
extraction, and nothing after the clock. `OpenDates` takes from it what a window open to
one side selects. `Observed` has for each query the usage that was visible when it ran: growing
sets, all the same in a quiet report, and each answer is the `Snapshot` of its set.
`TypeCorrect`, `QuietReportsBalance`, `TotalsNeverExceed` and `NothingUncounted` follow
for any number of extractions, types, strategies and models and any token counts, with
prices of 0 or 1.

**DocumentQueriesProofs.** `Consistent` adds to the properties `Underway` (between the
statements a COMPLETED that was read is backed by a result) and `Told` (what was
listed exists); both are kept because results only grow. `TypeCorrect`, `CompletedCanBeRead`,
`ListedCanBeFound` and `AnswersOnlyGrow` follow for any number of documents, runs and
clients.

**CorrectionsProofs.** The lemmas about `FieldRecovery` come first: every `FallbackRaw`
is acceptable to its field, so that a made-up document with a valid currency code is
valid and the code is normalised (`CodeCandidate`), while for other fields the annotation
alone stores the same as the schema (`ResultIsFieldwise`); and `UsableDataIsFixed`: what
validation returned is accepted again unchanged. `DiffApplies` is the lemma about
`diff_extraction_data`. The invariant `Filed` says that each stored row is the
`Correction` of its request. `FieldsAreRecovered`, `DiffIsWhole`,
`ResubmissionIsNoChange` and `CorrectionsStay` follow for every answer and every edit,
not only for those of the run. `Stating` adds that answers, stored data and submitted
bodies are well typed (`ValuesAssumption`: amounts are integers, lists are of amounts;
other contents are as they may be), that scores are those of the stored data, and that a
request raised because validation does. From it `LossesAreVisible`, and
`OnlyHugeAmountsRaise`, which needs that a sum of amounts is an amount (by `Folding`).

**Only model-checked.** Liveness under fairness (`AcceptedIsSettled`, `TasksEnd`,
`Decides`, `BatchesAnswered`), which TLAPS does not prove here, as it does not reason
about `ENABLED`; for three of them the measure and the absence of deadlock are theorems.
Every other property of the passing runs, each type invariant, safety invariant, action
property and refinement, is stated by a theorem. The three runs that expect a violation
need no proof.

## 5. Not modelled

* Upload limits and HTTP errors; which extraction calls reach the service is in the
  guards of `ReceiveUpload` and `ReceiveDocumentId`.
* In validation, the spelling of dates, amounts and placeholders; the items of a list
  other than their amounts.
* Which run a status belongs to: no column and no answer says so. A client that polls a
  known document it has just queued may be answered with the COMPLETED of an earlier run.
* What other requests do with a connection of the pool: in `BatchExtraction` they hold one
  each, for one transaction.
* Schema simplification and prompts of the LLM client; PyMuPDF; path checks of the
  storage; key checks at startup; health; migrations; the evaluation script.
* Tokens of provider answers that the client turns into an error
  (`litellm_client.py:180`): they never enter the program.
* A JSON argument that is not an object ends a run with an error that is recorded
  nowhere (`BreakOnPage`); `MeteredRun` allows an unrecorded error, so that the loss
  shows in the model without violating it.

## 6. Where the code and its documents disagree

1. `deleted` / `OnlyOrphansDeleted` (`documents.py:180`). When the commit of a new
   document takes effect and its answer is lost, the handler deletes the "orphaned
   upload" (`document_intake.py:65`) of a committed row.
2. `refused` / `RefusedJobRunsInline` (`documents.py:222`). With Redis gone after
   startup, an async request for a known document fails; `README.md:348-350` and
   `lifecycle.py:107` say that it runs inline.
3. `unpriced` / `UnknownModelFails` (`cost_report.py:166`). `README.md:357` says
   the report fails for an unknown model; it reports the usage at no cost.
   `test_cost_report_service.py` asserts the zero cost, so the README is the stale side.

## 7. Plan

Done, in this order because the document lifecycle is what every client sees and
the ledger is what is paid: `DocumentLifecycle`, `DocumentService` and its proofs;
`MeteredRun`, `ExtractionRun` and its proofs; `PageMerge`; `BatchExtraction`;
`CostReport`; `FieldRecovery` and `Corrections` with their proofs; `DocumentQueries`
and its proofs; the properties under faults, of batches and of texts.

Next modules:

* `UploadLimits`: chunked reads against the file and the batch limit.
* `Storage`: save and delete of two documents, and the directory that `delete`
  removes when it is empty.

Next theorems:

* A refinement of `BatchExtraction` items by `DocumentService`, to carry the results of
  one to the counts of the other.
