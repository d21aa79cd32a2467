--------------------------- MODULE DocumentService ---------------------------
(* The extraction service: API request handlers, the arq job queue and its   *)
(* worker, the Postgres rows and the files on disk                           *)
(* (app/services/documents.py and what it calls).                            *)
(*                                                                           *)
(* A TASK is one coroutine with a database session of its own: <<r, 0>> is   *)
(* the handler of API request r, <<r, n>> the n-th delivery of the job that  *)
(* r put on the queue.  A task moves from await to await; the other tasks    *)
(* run in between.  What a session has flushed but not committed is staged   *)
(* and invisible to the others; a flushed UPDATE holds the row lock of its   *)
(* document until the commit.  Sessions do not emit an UPDATE that leaves    *)
(* the loaded attribute as it was (mem), whatever the row has become.        *)
EXTENDS Naturals, FiniteSets

CONSTANTS
    Requests,    \* API requests, at most one call of extract_document each
    Docs,        \* ids that uuid4 hands out, and ids a client makes up
    MaxTries,    \* deliveries of one job before arq drops it
    MaxJobs,     \* jobs a worker runs at a time (WorkerSettings.max_jobs)
    Outcomes,    \* what processing the pages may come to in this instance
    Faults,      \* what the environment may do wrong in this instance
    MaxFaults    \* bound on how often it does

None == "none"

DocumentStatus == {"UPLOADED", "PROCESSING", "COMPLETED", "FAILED"}
ExtractionStatus == {"completed", "partial", "failed"}
UsagePurpose == {"CLASSIFIER", "EXTRACTION"}

\* validation.status of a result, an ExtractionError, or any other exception
\* (classification failed, unsupported type, a value normalisation rejects)
AllOutcomes == ExtractionStatus \cup {"extraction_error", "error"}

AllFaults == {"db", "in_doubt", "save", "undo", "load", "enqueue",
              "reply_lost", "timeout", "api_crash", "worker_crash"}

ASSUME TriesAssumption == MaxTries \in Nat \ {0}
ASSUME JobsAssumption == MaxJobs \in Nat \ {0}
ASSUME OutcomesAssumption == Outcomes \subseteq AllOutcomes
ASSUME FaultsAssumption == Faults \subseteq AllFaults /\ MaxFaults \in Nat
ASSUME DocsAssumption == None \notin Docs

VARIABLES
    status,      \* committed documents.status of each id, "absent" for no row
    extraction,  \* committed status of the extractions row of each task
    usage,       \* committed llm_usage purposes of that extraction
    file,        \* the stored upload of each document
    pool,        \* TRUE when the API process connected to Redis at startup
    kind,        \* which path of extract_document a request takes
    doc,         \* the document a request is about
    typed,       \* TRUE when the request names its doc_type
    job,         \* the state in Redis of the job a request enqueued
    tries,       \* deliveries of that job so far
    pc,          \* the await a task is at
    mem,         \* document.status as the task's session loaded it
    outcome,     \* what processing the pages came to
    staged,      \* writes flushed by the session and not yet committed
    broken,      \* TRUE once a database error invalidated the session
    faults       \* how many faults so far, and of which kinds

dbVars == <<status, extraction, usage>>
requestVars == <<kind, doc, typed>>
queueVars == <<job, tries>>
taskVars == <<pc, mem, outcome, staged, broken>>
vars == <<dbVars, file, pool, requestVars, queueVars, taskVars, faults>>

-----------------------------------------------------------------------------
Tasks == Requests \X (0..MaxTries)

Kinds == {"upload", "upload_async", "existing", "existing_async"}

Ended == {"returned", "raised", "killed"}
Steps == {"saving", "creating", "undoing", "refreshing", "enqueueing",
          "lookup", "starting", "loading", "processing", "recording",
          "auditing", "committing", "failing"}

Pending == [status: DocumentStatus \cup {None},
            extraction: ExtractionStatus \cup {None},
            usage: SUBSET UsagePurpose]
NoWrites == [status |-> None, extraction |-> None, usage |-> {}]

FaultLog == [count : 0..MaxFaults, kinds : SUBSET Faults]

TypeOK ==
    /\ status \in [Docs -> DocumentStatus \cup {"absent"}]
    /\ extraction \in [Tasks -> ExtractionStatus \cup {None}]
    /\ usage \in [Tasks -> SUBSET UsagePurpose]
    /\ file \in [Docs -> {None, "partial", "saved"}]
    /\ pool \in BOOLEAN
    /\ kind \in [Requests -> Kinds \cup {None}]
    /\ doc \in [Requests -> Docs \cup {None}]
    /\ typed \in [Requests -> BOOLEAN]
    /\ job \in [Requests -> {None, "queued", "running", "finished", "dropped"}]
    /\ tries \in [Requests -> 0..MaxTries]
    /\ pc \in [Tasks -> {"idle"} \cup Steps \cup Ended]
    /\ mem \in [Tasks -> DocumentStatus \cup {None}]
    /\ outcome \in [Tasks -> Outcomes \cup {None}]
    /\ staged \in [Tasks -> Pending]
    /\ broken \in [Tasks -> BOOLEAN]
    /\ faults \in FaultLog

Init ==
    /\ status = [d \in Docs |-> "absent"]
    /\ extraction = [t \in Tasks |-> None]
    /\ usage = [t \in Tasks |-> {}]
    /\ file = [d \in Docs |-> None]
    /\ pool \in BOOLEAN
    /\ kind = [r \in Requests |-> None]
    /\ doc = [r \in Requests |-> None]
    /\ typed = [r \in Requests |-> FALSE]
    /\ job = [r \in Requests |-> None]
    /\ tries = [r \in Requests |-> 0]
    /\ pc = [t \in Tasks |-> "idle"]
    /\ mem = [t \in Tasks |-> None]
    /\ outcome = [t \in Tasks |-> None]
    /\ staged = [t \in Tasks |-> NoWrites]
    /\ broken = [t \in Tasks |-> FALSE]
    /\ faults = [count |-> 0, kinds |-> {}]

-----------------------------------------------------------------------------
(* Helpers *)

Doc(t) == doc[t[1]]
Kind(t) == kind[t[1]]
Handler(r) == <<r, 0>>
Run(r) == <<r, tries[r]>>
IsRun(t) == t[2] > 0
Live(t) == pc[t] \in Steps

\* the environment does f
Strike(f) ==
    /\ f \in Faults /\ faults.count < MaxFaults
    /\ faults' = [count |-> faults.count + 1, kinds |-> faults.kinds \cup {f}]

\* none of the faults F has struck
Spared(F) == faults.kinds \cap F = {}

\* the task executes _process_existing_inline: its except clause marks FAILED
MarksFailed(t) == IsRun(t) \/ Kind(t) = "existing"

Goto(t, label) == pc' = [pc EXCEPT ![t] = label]

\* no other session has an uncommitted UPDATE of t's document
Unlocked(t) == \A u \in Tasks \ {t} : Doc(u) = Doc(t) => staged[u].status = None

\* set_status followed at once by a commit; no UPDATE when mem is already s
WriteStatus(t, s) ==
    IF mem[t] = s
    THEN UNCHANGED status
    ELSE Unlocked(t) /\ status' = [status EXCEPT ![Doc(t)] = s]

\* where an exception raised while pages are processed or recorded leads
OnProcessingError(t) == IF MarksFailed(t) THEN "failing" ELSE "raised"

\* MUTANT: the extraction's own status is written to the document
RawStatusFor(o) ==
    CASE o = "completed" -> "COMPLETED" [] o = "partial" -> "PARTIAL" [] OTHER -> "FAILED"

\* _document_status_for, and FAILED for a DocumentProcessingError
DocumentStatusFor(o) == IF o \in {"completed", "partial"} THEN "COMPLETED" ELSE "FAILED"

ExtractionStatusFor(o) == IF o = "extraction_error" THEN "failed" ELSE o

\* classification is billed when, and only when, the request has no doc_type
UsageOf(t) == IF typed[t[1]] THEN {"EXTRACTION"} ELSE UsagePurpose

-----------------------------------------------------------------------------
(* Requests arrive *)

\* a document id some client has been told of
Announced(d) ==
    \E r \in Requests : /\ doc[r] = d
                        /\ kind[r] \in {"upload", "upload_async"}
                        /\ pc[Handler(r)] = "returned"

\* an id no task has used, for uuid4 or for a client that makes one up
Unused(d) == status[d] = "absent" /\ \A r \in Requests : doc[r] # d

\* Without a pool an async request takes the inline path (and is warned).
ReceiveRequest(r, k, d) ==
    /\ pc[Handler(r)] = "idle"
    /\ k \in {"upload_async", "existing_async"} => pool
    /\ kind' = [kind EXCEPT ![r] = k]
    /\ doc' = [doc EXCEPT ![r] = d]
    /\ \E named \in BOOLEAN : typed' = [typed EXCEPT ![r] = named]

\* prepare_document: the PDF is parsed, storage.save begins to write
ReceiveUpload(r) ==
    \E k \in {"upload", "upload_async"}, d \in Docs :
        /\ Unused(d)
        /\ ReceiveRequest(r, k, d)
        /\ file' = [file EXCEPT ![d] = "partial"]
        /\ Goto(Handler(r), "saving")
        /\ UNCHANGED <<dbVars, pool, queueVars, mem, outcome, staged, broken, faults>>

\* parse_pdf raises before anything is stored
RejectUpload(r) ==
    \E k \in {"upload", "upload_async"} :
        /\ ReceiveRequest(r, k, None)
        /\ Goto(Handler(r), "raised")
        /\ UNCHANGED <<dbVars, file, pool, queueVars, mem, outcome, staged, broken,
                       faults>>

ReceiveDocumentId(r) ==
    \E k \in {"existing", "existing_async"}, d \in Docs :
        /\ Announced(d) \/ Unused(d)
        /\ ReceiveRequest(r, k, d)
        /\ Goto(Handler(r), "lookup")
        /\ UNCHANGED <<dbVars, file, pool, queueVars, mem, outcome, staged, broken,
                       faults>>

-----------------------------------------------------------------------------
(* Taking an upload in *)

SaveUpload(t) ==
    /\ pc[t] = "saving"
    /\ file' = [file EXCEPT ![Doc(t)] = "saved"]
    /\ Goto(t, "creating")
    /\ UNCHANGED <<dbVars, pool, requestVars, queueVars, mem, outcome, staged, broken,
                   faults>>

\* StorageError leaves prepare_document before any except clause
SaveFails(t) ==
    /\ Strike("save")
    /\ pc[t] = "saving"
    /\ \E residue \in {None, "partial"} : file' = [file EXCEPT ![Doc(t)] = residue]
    /\ Goto(t, "raised")
    /\ UNCHANGED <<dbVars, pool, requestVars, queueVars, mem, outcome, staged, broken>>

InitialStatus(t) == IF Kind(t) = "upload_async" THEN "PROCESSING" ELSE "UPLOADED"

InsertDocument(t) == status' = [status EXCEPT ![Doc(t)] = InitialStatus(t)]

\* _create_document up to its commit
CreateDocument(t) ==
    /\ pc[t] = "creating"
    /\ InsertDocument(t)
    /\ mem' = [mem EXCEPT ![t] = InitialStatus(t)]
    /\ Goto(t, "refreshing")
    /\ UNCHANGED <<extraction, usage, file, pool, requestVars, queueVars, outcome,
                   staged, broken, faults>>

AfterRefresh(t) == IF Kind(t) = "upload_async" THEN "enqueueing" ELSE "starting"

RefreshDocument(t) ==
    /\ pc[t] = "refreshing"
    /\ mem' = [mem EXCEPT ![t] = status[Doc(t)]]
    /\ Goto(t, AfterRefresh(t))
    /\ UNCHANGED <<dbVars, file, pool, requestVars, queueVars, outcome, staged, broken,
                   faults>>

\* Rollback and delete_upload.  An error of the delete is logged, one of the rollback
\* before it raised in place of the first: the file stays, and the handler raises.
UndoUpload(t) ==
    /\ pc[t] = "undoing"
    /\ \/ file' = [file EXCEPT ![Doc(t)] = None] /\ UNCHANGED faults
       \/ Strike("undo") /\ UNCHANGED file
    /\ Goto(t, "raised")
    /\ UNCHANGED <<dbVars, pool, requestVars, queueVars, mem, outcome, staged, broken>>

-----------------------------------------------------------------------------
(* The job queue *)

PutJob(t) == job' = [job EXCEPT ![t[1]] = "queued"]

EnqueueJob(t) ==
    /\ pc[t] = "enqueueing"
    /\ PutJob(t)
    /\ Goto(t, "returned")
    /\ UNCHANGED <<dbVars, file, pool, requestVars, tries, mem, outcome, staged,
                   broken, faults>>

\* an upload falls back to processing inline; for a known document the
\* exception leaves the handler
OnEnqueueError(t) == IF Kind(t) = "upload_async" THEN "processing" ELSE "raised"

EnqueueFails(t) ==
    /\ pc[t] = "enqueueing"
    /\ \/ Strike("enqueue") /\ UNCHANGED job
       \/ Strike("reply_lost") /\ PutJob(t)
    /\ Goto(t, OnEnqueueError(t))
    /\ UNCHANGED <<dbVars, file, pool, requestVars, tries, mem, outcome, staged,
                   broken>>

\* arq delivers a job: extraction_job opens a session and looks it up
StartJob(r) ==
    /\ job[r] = "queued"
    /\ tries[r] < MaxTries
    /\ Cardinality({q \in Requests : job[q] = "running"}) < MaxJobs
    /\ job' = [job EXCEPT ![r] = "running"]
    /\ tries' = [tries EXCEPT ![r] = @ + 1]
    /\ Goto(<<r, tries[r] + 1>>, "lookup")
    /\ UNCHANGED <<dbVars, file, pool, requestVars, mem, outcome, staged, broken,
                   faults>>

\* MUTANT: the queue retries a job that raised
RetryRaisedJob(r) ==
    /\ job[r] = "running"
    /\ pc[Run(r)] \in Ended
    /\ job' = [job EXCEPT ![r] = IF pc[Run(r)] = "raised" /\ tries[r] < MaxTries
                                THEN "queued" ELSE "finished"]
    /\ UNCHANGED <<dbVars, file, pool, requestVars, tries, taskVars, faults>>

\* extraction_job returned or raised: either way arq will not run it again
FinishJob(r) ==
    /\ job[r] = "running"
    /\ pc[Run(r)] \in Ended
    /\ job' = [job EXCEPT ![r] = "finished"]
    /\ UNCHANGED <<dbVars, file, pool, requestVars, tries, taskVars, faults>>

-----------------------------------------------------------------------------
(* _process_existing_inline and _process_document_pages *)

AfterLookup(t) ==
    IF ~IsRun(t) /\ Kind(t) = "existing_async" THEN "enqueueing" ELSE "starting"

LookupDocument(t) ==
    /\ pc[t] = "lookup"
    /\ status[Doc(t)] # "absent"
    /\ mem' = [mem EXCEPT ![t] = status[Doc(t)]]
    /\ Goto(t, AfterLookup(t))
    /\ UNCHANGED <<dbVars, file, pool, requestVars, queueVars, outcome, staged, broken,
                   faults>>

DocumentNotFound(t) ==
    /\ pc[t] = "lookup"
    /\ status[Doc(t)] = "absent"
    /\ Goto(t, "raised")
    /\ UNCHANGED <<dbVars, file, pool, requestVars, queueVars, mem, outcome, staged,
                   broken, faults>>

AfterStart(t) == IF MarksFailed(t) THEN "loading" ELSE "processing"

\* MUTANT: a known document is not set to PROCESSING before it is loaded
StartUnmarked(t) ==
    /\ pc[t] = "starting"
    /\ IF MarksFailed(t) THEN UNCHANGED <<status, mem>>
       ELSE WriteStatus(t, "PROCESSING") /\ mem' = [mem EXCEPT ![t] = "PROCESSING"]
    /\ Goto(t, AfterStart(t))
    /\ UNCHANGED <<extraction, usage, file, pool, requestVars, queueVars, outcome,
                   staged, broken, faults>>

\* _set_document_status(PROCESSING), with its commit
StartProcessing(t) ==
    /\ pc[t] = "starting"
    /\ WriteStatus(t, "PROCESSING")
    /\ mem' = [mem EXCEPT ![t] = "PROCESSING"]
    /\ Goto(t, AfterStart(t))
    /\ UNCHANGED <<extraction, usage, file, pool, requestVars, queueVars, outcome,
                   staged, broken, faults>>

\* load_document; no client knows of a document whose file is missing, so a
\* load raises for other reasons only (LoadFails)
LoadDocument(t) ==
    /\ pc[t] = "loading"
    /\ file[Doc(t)] = "saved"
    /\ Goto(t, "processing")
    /\ UNCHANGED <<dbVars, file, pool, requestVars, queueVars, mem, outcome, staged,
                   broken, faults>>

\* MUTANT: the file is loaded outside the try that marks the document FAILED
LoadUnguarded(t) ==
    /\ Strike("load")
    /\ pc[t] = "loading"
    /\ Goto(t, "raised")
    /\ UNCHANGED <<dbVars, file, pool, requestVars, queueVars, mem, outcome, staged,
                   broken>>

LoadFails(t) ==
    /\ Strike("load")
    /\ pc[t] = "loading"
    /\ Goto(t, "failing")
    /\ UNCHANGED <<dbVars, file, pool, requestVars, queueVars, mem, outcome, staged,
                   broken>>

\* process_pages: the LLM calls, validation and scoring, no write
ProcessPages(t) ==
    /\ pc[t] = "processing"
    /\ \E o \in Outcomes :
        /\ outcome' = [outcome EXCEPT ![t] = o]
        /\ Goto(t, IF o = "error" THEN OnProcessingError(t) ELSE "recording")
    /\ UNCHANGED <<dbVars, file, pool, requestVars, queueVars, mem, staged, broken,
                   faults>>

\* MUTANT: the final status is committed before the extraction is recorded
CommitStatusFirst(t) ==
    /\ pc[t] = "recording"
    /\ WriteStatus(t, DocumentStatusFor(outcome[t]))
    /\ mem' = [mem EXCEPT ![t] = DocumentStatusFor(outcome[t])]
    /\ Goto(t, "auditing")
    /\ UNCHANGED <<extraction, usage, file, pool, requestVars, queueVars, outcome,
                   staged, broken, faults>>

\* set_status of _record_processing_success and _record_processing_failure:
\* the flush takes the row lock, unless it has nothing to write
StageStatus(t) ==
    LET s == DocumentStatusFor(outcome[t]) IN
    /\ pc[t] = "recording"
    /\ \/ mem[t] = s /\ UNCHANGED staged
       \/ mem[t] # s /\ Unlocked(t) /\ staged' = [staged EXCEPT ![t] = [@ EXCEPT !.status = s]]
    /\ mem' = [mem EXCEPT ![t] = s]
    /\ Goto(t, "auditing")
    /\ UNCHANGED <<dbVars, file, pool, requestVars, queueVars, outcome, broken, faults>>

\* MUTANT: the classifier's usage events are not passed on
AuditExtractionOnly(t) ==
    /\ pc[t] = "auditing"
    /\ staged' = [staged EXCEPT ![t] =
                    [@ EXCEPT !.extraction = ExtractionStatusFor(outcome[t]),
                              !.usage = {"EXTRACTION"}]]
    /\ Goto(t, "committing")
    /\ UNCHANGED <<dbVars, file, pool, requestVars, queueVars, mem, outcome, broken,
                   faults>>

\* record_success and record_failure flush the extraction and its usage
StageAudit(t) ==
    /\ pc[t] = "auditing"
    /\ staged' = [staged EXCEPT ![t] =
                    [@ EXCEPT !.extraction = ExtractionStatusFor(outcome[t]),
                              !.usage = UsageOf(t)]]
    /\ Goto(t, "committing")
    /\ UNCHANGED <<dbVars, file, pool, requestVars, queueVars, mem, outcome, broken,
                   faults>>

\* the commit publishes everything the session staged, and frees the lock
Publish(t) ==
    /\ status' = IF staged[t].status = None THEN status
                 ELSE [status EXCEPT ![Doc(t)] = staged[t].status]
    /\ extraction' = [extraction EXCEPT ![t] = staged[t].extraction]
    /\ usage' = [usage EXCEPT ![t] = staged[t].usage]
    /\ staged' = [staged EXCEPT ![t] = NoWrites]

\* a recorded failure still raises the ExtractionError it records
AfterCommit(t) ==
    IF outcome[t] = "extraction_error" THEN OnProcessingError(t) ELSE "returned"

CommitRecord(t) ==
    /\ pc[t] = "committing"
    /\ Publish(t)
    /\ Goto(t, AfterCommit(t))
    /\ UNCHANGED <<file, pool, requestVars, queueVars, mem, outcome, broken, faults>>

\* the except clause of _process_existing_inline
MarkFailed(t) ==
    /\ pc[t] = "failing"
    /\ ~broken[t]
    /\ WriteStatus(t, "FAILED")
    /\ mem' = [mem EXCEPT ![t] = "FAILED"]
    /\ Goto(t, "raised")
    /\ UNCHANGED <<extraction, usage, file, pool, requestVars, queueVars, outcome,
                   staged, broken, faults>>

\* the same clause on a session that needs a rollback first: set_status raises
MarkFailedRaises(t) ==
    /\ pc[t] = "failing"
    /\ broken[t]
    /\ Goto(t, "raised")
    /\ UNCHANGED <<dbVars, file, pool, requestVars, queueVars, mem, outcome, staged,
                   broken, faults>>

-----------------------------------------------------------------------------
(* Faults *)

DatabaseSteps == {"creating", "refreshing", "lookup", "starting", "recording",
                  "auditing", "committing", "failing"}

\* MUTANT: the cleanup keeps the path and also runs when only the refresh failed
UndoAfterCommit(t) ==
    CASE pc[t] \in {"creating", "refreshing"} -> "undoing"
      [] pc[t] \in {"recording", "auditing", "committing"} -> OnProcessingError(t)
      [] OTHER -> "raised"

\* MUTANT: a failed insert leaves without the cleanup
NoUndo(t) ==
    IF pc[t] \in {"recording", "auditing", "committing"}
    THEN OnProcessingError(t) ELSE "raised"

OnDatabaseError(t) ==
    CASE pc[t] = "creating" -> "undoing"
      [] pc[t] \in {"recording", "auditing", "committing"} -> OnProcessingError(t)
      [] OTHER -> "raised"

SessionBreaks(t) ==
    /\ broken' = [broken EXCEPT ![t] = TRUE]
    /\ Goto(t, OnDatabaseError(t))

\* MUTANT: the session is returned to the pool without a rollback
NoRollback(t) ==
    /\ Strike("db")
    /\ pc[t] \in DatabaseSteps
    /\ ~broken[t]
    /\ SessionBreaks(t)
    /\ UNCHANGED <<dbVars, file, pool, requestVars, queueVars, mem, outcome, staged>>

\* a statement or a commit raises, and Postgres has rolled back
DatabaseError(t) ==
    /\ Strike("db")
    /\ pc[t] \in DatabaseSteps
    /\ ~broken[t]
    /\ SessionBreaks(t)
    /\ staged' = [staged EXCEPT ![t] = NoWrites]
    /\ UNCHANGED <<dbVars, file, pool, requestVars, queueVars, mem, outcome>>

\* the connection is lost after Postgres committed and before it said so
CommitInDoubt(t) ==
    /\ Strike("in_doubt")
    /\ ~broken[t]
    /\ \/ /\ pc[t] = "creating"
          /\ InsertDocument(t)
          /\ UNCHANGED <<extraction, usage, staged>>
       \/ /\ pc[t] = "starting"
          /\ WriteStatus(t, "PROCESSING")
          /\ UNCHANGED <<extraction, usage, staged>>
       \/ /\ pc[t] = "failing"
          /\ WriteStatus(t, "FAILED")
          /\ UNCHANGED <<extraction, usage, staged>>
       \/ pc[t] = "committing" /\ Publish(t)
    /\ SessionBreaks(t)
    /\ UNCHANGED <<file, pool, requestVars, queueVars, mem, outcome>>

\* the tasks in S are gone, and Postgres rolls their sessions back
Kill(S) ==
    /\ pc' = [t \in Tasks |-> IF t \in S /\ Live(t) THEN "killed" ELSE pc[t]]
    /\ staged' = [t \in Tasks |-> IF t \in S THEN NoWrites ELSE staged[t]]

\* arq cancels a job that ran too long; CancelledError passes every
\* "except Exception", and the job is not retried
JobTimeout(r) ==
    /\ Strike("timeout")
    /\ job[r] = "running"
    /\ Live(Run(r))
    /\ Kill({Run(r)})
    /\ job' = [job EXCEPT ![r] = "finished"]
    /\ UNCHANGED <<dbVars, file, pool, requestVars, tries, mem, outcome, broken>>

\* the API process restarts and may or may not reach Redis this time
CrashApi ==
    /\ Strike("api_crash")
    /\ Kill({Handler(r) : r \in Requests})
    /\ pool' \in BOOLEAN
    /\ UNCHANGED <<dbVars, file, requestVars, queueVars, mem, outcome, broken>>

\* MUTANT: a job is acknowledged when it is delivered
LoseJobsInCrash ==
    /\ Strike("worker_crash")
    /\ Kill({t \in Tasks : IsRun(t)})
    /\ job' = [r \in Requests |-> IF job[r] # "running" THEN job[r] ELSE "dropped"]
    /\ UNCHANGED <<dbVars, file, pool, requestVars, tries, mem, outcome, broken>>

\* arq delivers again what a dead worker had not finished, MaxTries times
CrashWorker ==
    /\ Strike("worker_crash")
    /\ Kill({t \in Tasks : IsRun(t)})
    /\ job' = [r \in Requests |->
                 IF job[r] # "running" THEN job[r]
                 ELSE IF tries[r] < MaxTries THEN "queued" ELSE "dropped"]
    /\ UNCHANGED <<dbVars, file, pool, requestVars, tries, mem, outcome, broken>>

-----------------------------------------------------------------------------
Step(t) ==
    \/ SaveUpload(t) \/ CreateDocument(t) \/ RefreshDocument(t) \/ UndoUpload(t)
    \/ EnqueueJob(t) \/ LookupDocument(t) \/ DocumentNotFound(t)
    \/ StartProcessing(t) \/ LoadDocument(t)
    \/ ProcessPages(t) \/ StageStatus(t) \/ StageAudit(t) \/ CommitRecord(t)
    \/ MarkFailed(t) \/ MarkFailedRaises(t)

Fault(t) ==
    \/ SaveFails(t) \/ EnqueueFails(t) \/ LoadFails(t)
    \/ DatabaseError(t) \/ CommitInDoubt(t)

Receive(r) == ReceiveUpload(r) \/ RejectUpload(r) \/ ReceiveDocumentId(r)

Terminated ==
    /\ \A t \in Tasks : ~Live(t)
    /\ \A r \in Requests : job[r] \notin {"queued", "running"}
    /\ UNCHANGED vars

Next ==
    \/ \E t \in Tasks : Step(t) \/ Fault(t)
    \/ \E r \in Requests : Receive(r) \/ StartJob(r) \/ FinishJob(r) \/ JobTimeout(r)
    \/ CrashApi
    \/ CrashWorker
    \/ Terminated

Spec == Init /\ [][Next]_vars

\* The event loop resumes a coroutine whose await completed; arq polls its
\* queue and stores results.  Nothing obliges a client or a fault.
Fairness ==
    /\ \A t \in Tasks : WF_vars(Step(t))
    /\ \A r \in Requests : WF_vars(StartJob(r)) /\ WF_vars(FinishJob(r))

FairSpec == Spec /\ Fairness
-----------------------------------------------------------------------------
(* What the service promises *)

Successful == {"completed", "partial"}

\* A COMPLETED document has an extraction a client can read: the status and the
\* extractions row are flushed apart and must become visible together, whatever
\* other run of the same document commits, fails or dies in between.
CompletedHasResult ==
    \A d \in Docs : status[d] = "COMPLETED" =>
        \E t \in Tasks : Doc(t) = d /\ extraction[t] \in Successful

\* Every extraction is billed in full and nothing else is billed: the usage of
\* the extraction call, and that of the classifier when it chose the type.
UsageIsLedgered ==
    \A t \in Tasks :
        usage[t] = IF extraction[t] = None THEN {} ELSE UsageOf(t)

Retried == {"reply_lost", "worker_crash"}

\* One request is extracted and billed at most once, by its handler or by its
\* job, unless Redis lost the reply to an accepted job or a worker died.
ExtractedOnce ==
    Spared(Retried) =>
        \A t, u \in Tasks :
            t[1] = u[1] /\ extraction[t] # None /\ extraction[u] # None => t = u

\* A registered document has its file, unless the answer to a commit was lost:
\* the cleanup of a failed upload deletes no file that a committed row refers to.
DocumentHasFile ==
    Spared({"in_doubt"}) => \A d \in Docs : status[d] # "absent" => file[d] = "saved"

\* The upload that a handler deletes is "orphaned", as its log message calls it:
\* no committed document points to it.
OnlyOrphansDeleted ==
    [][\A d \in Docs : file[d] = "saved" /\ file'[d] # "saved" => status[d] = "absent"]_vars

\* When Redis refuses a job, an async extraction runs inline: the refusal does
\* not reach the client.
RefusedJobRunsInline ==
    [][\A t \in Tasks : pc[t] = "enqueueing" => pc'[t] # "raised"]_vars

\* A file without a row is the business of a handler that is still running: no
\* upload is left on disk that nothing in the database points to, unless storage
\* itself failed or the API process died.
NoOrphanUpload ==
    Spared({"save", "undo", "api_crash"}) =>
        \A d \in Docs : status[d] = "absent" /\ file[d] # None =>
            \E t \in Tasks : Doc(t) = d /\ Live(t)

\* The run was cut off, lost its session, or was an upload whose processing
\* raised something that is not an ExtractionError: no one records these.
LeavesDocumentOpen(t) ==
    \/ pc[t] = "killed"
    \/ broken[t]
    \/ outcome[t] = "error" /\ ~MarksFailed(t)

\* A document is never just forgotten in UPLOADED or PROCESSING: a task or a
\* job is working on it, or one of the known ways to abandon it happened.
AbandonedIsExplained ==
    \A d \in Docs : status[d] \in {"UPLOADED", "PROCESSING"} =>
        \/ \E t \in Tasks : Doc(t) = d /\ (Live(t) \/ LeavesDocumentOpen(t))
        \/ \E r \in Requests : doc[r] = d /\ job[r] \in {"queued", "running"}

Settled(d) == d # None /\ status[d] \in {"COMPLETED", "FAILED"}

\* An extraction answered with "processing" comes to a COMPLETED or FAILED
\* document, through worker crashes as long as deliveries remain, unless the
\* session of one of its own runs broke.
AcceptedIsSettled ==
    \A r \in Requests : job[r] = "queued" ~>
        Settled(doc[r]) \/ \E t \in Tasks : t[1] = r /\ IsRun(t) /\ broken[t]

\* No handler or job waits for ever: on a row lock or on one another.
TasksEnd == \A t \in Tasks : Live(t) ~> ~Live(t)

\* the committed extractions
Results ==
    {[run |-> t, doc |-> Doc(t), status |-> extraction[t]] :
        t \in {u \in Tasks : extraction[u] # None}}

Lifecycle == INSTANCE DocumentLifecycle WITH Runs <- Tasks, results <- Results

\* The service implements DocumentLifecycle, under every fault: an extraction
\* appears in one step with the status that goes with it, a document becomes
\* COMPLETED in no other way, and no extraction or document ever vanishes.
ImplementsLifecycle == Lifecycle!Spec
=============================================================================
