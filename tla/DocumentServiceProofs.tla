------------------------ MODULE DocumentServiceProofs ------------------------
(* Theorems about DocumentService, for any requests, documents, bounds and   *)
(* faults: its types and what completed documents have (part 1), that it     *)
(* implements DocumentLifecycle (part 2), and what it keeps until certain    *)
(* faults strike: a request is extracted once, rows have their files, files  *)
(* their rows or a handler that minds them, and no document is abandoned     *)
(* without a reason (part 3); that no step goes back and no task is stuck,   *)
(* and that a job settles its document (part 4).                             *)
EXTENDS DocumentService, TLAPS

-----------------------------------------------------------------------------
(* PART 1: types, and what is recorded *)

-----------------------------------------------------------------------------
(* Tasks are pairs. *)

LEMMA TaskParts ==
    ASSUME NEW t \in Tasks
    PROVE  t[1] \in Requests /\ t[2] \in 0..MaxTries /\ t = <<t[1], t[2]>>
BY DEF Tasks

LEMMA HandlerIsTask ==
    ASSUME NEW r \in Requests
    PROVE  Handler(r) \in Tasks /\ Handler(r)[1] = r /\ Handler(r)[2] = 0
BY TriesAssumption DEF Tasks, Handler

LEMMA RunIsTask ==
    ASSUME NEW r \in Requests, NEW n \in 0..MaxTries
    PROVE  <<r, n>> \in Tasks /\ <<r, n>>[1] = r /\ <<r, n>>[2] = n
BY DEF Tasks

-----------------------------------------------------------------------------
(* Staged writes *)

LEMMA PendingStatus ==
    ASSUME NEW p \in Pending, NEW s \in DocumentStatus
    PROVE  [p EXCEPT !.status = s] \in Pending
BY DEF Pending

LEMMA PendingAudit ==
    ASSUME NEW p \in Pending, NEW e \in ExtractionStatus, NEW u \in SUBSET UsagePurpose
    PROVE  [p EXCEPT !.extraction = e, !.usage = u] \in Pending
<1> DEFINE q == [p EXCEPT !.extraction = e]
<1>1. q \in Pending
  BY DEF Pending
<1>2. [q EXCEPT !.usage = u] \in Pending
  BY <1>1 DEF Pending
<1> QED BY <1>2

LEMMA NothingPending == NoWrites \in Pending
BY DEF NoWrites, Pending

-----------------------------------------------------------------------------
(* Type correctness *)

\* A running task has a document; so has a job, whose handler took it before.
HasDocument ==
    /\ \A t \in Tasks : Live(t) => Doc(t) \in Docs
    /\ \A r \in Requests : job[r] # None => doc[r] \in Docs

\* Nothing runs for a request that has not arrived.
IdleRequest ==
    \A r \in Requests : pc[Handler(r)] = "idle" =>
        /\ job[r] = None
        /\ \A n \in 0..MaxTries : pc[<<r, n>>] = "idle"

\* Deliveries of a job happen one after the other, in the order of their numbers.
Undelivered ==
    \A r \in Requests : \A n \in 0..MaxTries : n > tries[r] => pc[<<r, n>>] = "idle"

\* What a task works on after the insert, or after its lookup, is in the database.
WorkSteps == Steps \ {"saving", "creating", "undoing", "lookup"}
Registered == \A t \in Tasks : pc[t] \in WorkSteps => status[Doc(t)] # "absent"

\* What is being recorded is an extraction or an ExtractionError.
Recording == {"recording", "auditing", "committing"}
OutcomeKnown ==
    \A t \in Tasks :
        pc[t] \in Recording => outcome[t] \in ExtractionStatus \cup {"extraction_error"}

Shape == TypeOK /\ HasDocument /\ IdleRequest /\ Undelivered /\ Registered /\ OutcomeKnown

\* A fault is counted within its bound.
LEMMA StrikeType ==
    ASSUME TypeOK, NEW f, Strike(f)
    PROVE  faults' \in FaultLog
BY FaultsAssumption DEF Strike, TypeOK, FaultLog

LEMMA InitShape == Init => Shape
BY TriesAssumption, FaultsAssumption
   DEF Init, FaultLog, Shape, TypeOK, HasDocument, IdleRequest, Undelivered, Registered,
       WorkSteps, OutcomeKnown, Recording, Live,
       Handler, Steps, Tasks,
       Pending, NoWrites, DocumentStatus, ExtractionStatus, UsagePurpose

\* A step of a live task t moves t to a live or an ended state and nothing else
\* that HasDocument and IdleRequest look at.
LEMMA MoveKeepsShape ==
    ASSUME Shape, NEW t \in Tasks, Live(t),
           NEW l \in Steps \cup Ended, Goto(t, l),
           UNCHANGED <<doc, tries>>, job' = job \/ PutJob(t)
    PROVE  /\ HasDocument' /\ IdleRequest' /\ Undelivered'
           /\ pc' \in [Tasks -> {"idle"} \cup Steps \cup Ended]
<1> USE TaskParts, HandlerIsTask DEF Shape, TypeOK, Goto, Live, PutJob
<1>1. pc' \in [Tasks -> {"idle"} \cup Steps \cup Ended]
  OBVIOUS
<1>2. HasDocument'
  BY DEF HasDocument, Doc
<1>3. IdleRequest'
  <2> SUFFICES ASSUME NEW r \in Requests, pc'[Handler(r)] = "idle"
               PROVE  job'[r] = None /\ \A n \in 0..MaxTries : pc'[<<r, n>>] = "idle"
    BY DEF IdleRequest
  <2>1. pc[Handler(r)] = "idle"
    BY DEF Steps, Ended
  <2>2. t[1] # r
    BY <2>1 DEF IdleRequest, Steps
  <2> QED BY <2>1, <2>2, RunIsTask DEF IdleRequest
<1>4. Undelivered'
  BY RunIsTask DEF Undelivered, Steps
<1> QED BY <1>1, <1>2, <1>3, <1>4

\* A commit keeps every row, and the types of the rows.
LEMMA PublishType ==
    ASSUME TypeOK, NEW t \in Tasks, Publish(t)
    PROVE  /\ status' \in [Docs -> DocumentStatus \cup {"absent"}]
           /\ \A d \in Docs : status[d] # "absent" => status'[d] # "absent"
           /\ extraction' \in [Tasks -> ExtractionStatus \cup {None}]
           /\ usage' \in [Tasks -> SUBSET UsagePurpose]
           /\ staged' \in [Tasks -> Pending]
<1>1. /\ staged[t].status \in DocumentStatus \cup {None}
      /\ staged[t].extraction \in ExtractionStatus \cup {None}
      /\ staged[t].usage \in SUBSET UsagePurpose
  BY DEF TypeOK, Pending
<1>2. "absent" \notin DocumentStatus
  BY DEF DocumentStatus
<1> QED BY <1>1, <1>2, NothingPending DEF TypeOK, Publish

-----------------------------------------------------------------------------
(* Steps of a task *)

\* The code itself keeps the shape of the state.
LEMMA StepShape ==
    ASSUME Shape, NEW t \in Tasks, Step(t)
    PROVE  Shape'
<1> USE TaskParts DEF Shape
<1> DEFINE Moved == /\ HasDocument' /\ IdleRequest' /\ Undelivered'
                   /\ pc' \in [Tasks -> {"idle"} \cup Steps \cup Ended]
<1>1. CASE SaveUpload(t)
  <2>1. Moved
    BY <1>1, MoveKeepsShape DEF SaveUpload, Live, Steps, Ended, requestVars, queueVars
  <2>2. Registered'
    BY <1>1 DEF SaveUpload, Registered, WorkSteps, HasDocument, Live, TypeOK, Doc,
                Goto, Steps, Ended, dbVars, requestVars
  <2>3. OutcomeKnown'
    BY <1>1 DEF SaveUpload, OutcomeKnown, Recording, TypeOK, Goto
  <2> QED BY <1>1, <2>1, <2>2, <2>3
          DEF SaveUpload, TypeOK, HasDocument, Live, Steps, dbVars, requestVars,
              queueVars
<1>2. CASE CreateDocument(t)
  <2>1. Moved
    BY <1>2, MoveKeepsShape DEF CreateDocument, Live, Steps, Ended, requestVars,
                                queueVars
  <2>2. Registered'
    BY <1>2 DEF CreateDocument, Registered, WorkSteps, HasDocument, Live, TypeOK, Doc,
                Goto, Steps, Ended, dbVars, requestVars, InsertDocument, InitialStatus,
                DocumentStatus
  <2>3. OutcomeKnown'
    BY <1>2 DEF CreateDocument, OutcomeKnown, Recording, TypeOK, Goto
  <2> QED BY <1>2, <2>1, <2>2, <2>3
          DEF CreateDocument, TypeOK, HasDocument, Live, Steps, dbVars, requestVars,
              queueVars, InsertDocument, InitialStatus, DocumentStatus
<1>3. CASE RefreshDocument(t)
  <2>1. Moved
    BY <1>3, MoveKeepsShape DEF RefreshDocument, Live, Steps, Ended, requestVars,
                                queueVars, AfterRefresh
  <2>2. Registered'
    BY <1>3 DEF RefreshDocument, Registered, WorkSteps, HasDocument, Live, TypeOK, Doc,
                Goto, Steps, Ended, dbVars, requestVars, AfterRefresh
  <2>3. OutcomeKnown'
    BY <1>3 DEF RefreshDocument, OutcomeKnown, Recording, TypeOK, Goto, AfterRefresh
  <2>4. status[Doc(t)] \in DocumentStatus
    BY <1>3 DEF RefreshDocument, Registered, WorkSteps, Steps, HasDocument, Live, TypeOK
  <2> QED BY <1>3, <2>1, <2>2, <2>3, <2>4
          DEF RefreshDocument, TypeOK, HasDocument, Live, Steps, dbVars, requestVars,
              queueVars
<1>4. CASE UndoUpload(t)
  <2>1. Moved
    BY <1>4, MoveKeepsShape DEF UndoUpload, Live, Steps, Ended, requestVars, queueVars
  <2>2. Registered'
    BY <1>4 DEF UndoUpload, Registered, WorkSteps, HasDocument, Live, TypeOK, Doc,
                Goto, Steps, Ended, dbVars, requestVars
  <2>3. OutcomeKnown'
    BY <1>4 DEF UndoUpload, OutcomeKnown, Recording, TypeOK, Goto
  <2> QED BY <1>4, <2>1, StrikeType, <2>2, <2>3
          DEF UndoUpload, TypeOK, HasDocument, Live, Steps, dbVars, requestVars,
              queueVars
<1>5. CASE EnqueueJob(t)
  <2>1. Moved
    BY <1>5, MoveKeepsShape DEF EnqueueJob, Live, Steps, Ended, requestVars, queueVars
  <2>2. Registered'
    BY <1>5 DEF EnqueueJob, Registered, WorkSteps, HasDocument, Live, TypeOK, Doc,
                Goto, Steps, Ended, dbVars, requestVars, PutJob
  <2>3. OutcomeKnown'
    BY <1>5 DEF EnqueueJob, OutcomeKnown, Recording, TypeOK, Goto
  <2> QED BY <1>5, <2>1, <2>2, <2>3
          DEF EnqueueJob, TypeOK, HasDocument, Live, Steps, dbVars, requestVars,
              queueVars, PutJob
<1>6. CASE LookupDocument(t)
  <2>1. Moved
    BY <1>6, MoveKeepsShape DEF LookupDocument, Live, Steps, Ended, requestVars,
                                queueVars, AfterLookup
  <2>2. Registered'
    BY <1>6 DEF LookupDocument, Registered, WorkSteps, HasDocument, Live, TypeOK, Doc,
                Goto, Steps, Ended, dbVars, requestVars, AfterLookup
  <2>3. OutcomeKnown'
    BY <1>6 DEF LookupDocument, OutcomeKnown, Recording, TypeOK, Goto, AfterLookup
  <2> QED BY <1>6, <2>1, <2>2, <2>3
          DEF LookupDocument, TypeOK, HasDocument, Live, Steps, dbVars, requestVars,
              queueVars
<1>7. CASE DocumentNotFound(t)
  <2>1. Moved
    BY <1>7, MoveKeepsShape DEF DocumentNotFound, Live, Steps, Ended, requestVars,
                                queueVars
  <2>2. Registered'
    BY <1>7 DEF DocumentNotFound, Registered, WorkSteps, HasDocument, Live, TypeOK,
                Doc, Goto, Steps, Ended, dbVars, requestVars
  <2>3. OutcomeKnown'
    BY <1>7 DEF DocumentNotFound, OutcomeKnown, Recording, TypeOK, Goto
  <2> QED BY <1>7, <2>1, <2>2, <2>3
          DEF DocumentNotFound, TypeOK, HasDocument, Live, Steps, dbVars, requestVars,
              queueVars
<1>8. CASE StartProcessing(t)
  <2>1. Moved
    BY <1>8, MoveKeepsShape DEF StartProcessing, Live, Steps, Ended, requestVars,
                                queueVars, AfterStart
  <2>2. Registered'
    BY <1>8 DEF StartProcessing, Registered, WorkSteps, HasDocument, Live, TypeOK, Doc,
                Goto, Steps, Ended, dbVars, requestVars, AfterStart, WriteStatus,
                DocumentStatus
  <2>3. OutcomeKnown'
    BY <1>8 DEF StartProcessing, OutcomeKnown, Recording, TypeOK, Goto, AfterStart
  <2> QED BY <1>8, <2>1, <2>2, <2>3
          DEF StartProcessing, TypeOK, HasDocument, Live, Steps, dbVars, requestVars,
              queueVars, WriteStatus, DocumentStatus
<1>9. CASE LoadDocument(t)
  <2>1. Moved
    BY <1>9, MoveKeepsShape DEF LoadDocument, Live, Steps, Ended, requestVars, queueVars
  <2>2. Registered'
    BY <1>9 DEF LoadDocument, Registered, WorkSteps, HasDocument, Live, TypeOK, Doc,
                Goto, Steps, Ended, dbVars, requestVars
  <2>3. OutcomeKnown'
    BY <1>9 DEF LoadDocument, OutcomeKnown, Recording, TypeOK, Goto
  <2> QED BY <1>9, <2>1, <2>2, <2>3
          DEF LoadDocument, TypeOK, HasDocument, Live, Steps, dbVars, requestVars,
              queueVars
<1>10. CASE ProcessPages(t)
  <2>1. Moved
    BY <1>10, MoveKeepsShape DEF ProcessPages, Live, Steps, Ended, requestVars,
                                 queueVars, OnProcessingError
  <2>2. Registered'
    BY <1>10 DEF ProcessPages, Registered, WorkSteps, HasDocument, Live, TypeOK, Doc,
                 Goto, Steps, Ended, dbVars, requestVars, OnProcessingError
  <2>3. OutcomeKnown'
    BY <1>10, OutcomesAssumption DEF ProcessPages, OutcomeKnown, Recording, TypeOK,
                                     Goto, AllOutcomes, OnProcessingError
  <2> QED BY <1>10, <2>1, OutcomesAssumption, <2>2, <2>3
          DEF ProcessPages, TypeOK, HasDocument, Live, Steps, dbVars, requestVars,
              queueVars
<1>11. CASE StageStatus(t)
  <2>1. Moved
    BY <1>11, MoveKeepsShape DEF StageStatus, Live, Steps, Ended, requestVars, queueVars
  <2>2. Registered'
    BY <1>11 DEF StageStatus, Registered, WorkSteps, HasDocument, Live, TypeOK, Doc,
                 Goto, Steps, Ended, dbVars, requestVars, DocumentStatusFor,
                 DocumentStatus, Pending
  <2>3. OutcomeKnown'
    BY <1>11 DEF StageStatus, OutcomeKnown, Recording, TypeOK, Goto
  <2>4. staged' \in [Tasks -> Pending]
    <3>1. DocumentStatusFor(outcome[t]) \in DocumentStatus
      BY DEF DocumentStatusFor, DocumentStatus
    <3>2. [staged[t] EXCEPT !.status = DocumentStatusFor(outcome[t])] \in Pending
      BY <3>1, PendingStatus DEF TypeOK
    <3>3. staged' = staged \/
          staged' = [staged EXCEPT
               ![t] = [staged[t] EXCEPT !.status = DocumentStatusFor(outcome[t])]]
      BY <1>11 DEF StageStatus, TypeOK
    <3> QED BY <3>2, <3>3 DEF TypeOK
  <2>5. mem' \in [Tasks -> DocumentStatus \cup {None}]
    BY <1>11 DEF StageStatus, TypeOK, DocumentStatusFor, DocumentStatus
  <2> QED BY <1>11, <2>1, OutcomesAssumption, <2>2, <2>3, <2>4, <2>5
          DEF StageStatus, TypeOK, HasDocument, Live, Steps, dbVars, requestVars,
              queueVars, DocumentStatusFor, DocumentStatus, Pending
<1>12. CASE StageAudit(t)
  <2>1. Moved
    BY <1>12, MoveKeepsShape DEF StageAudit, Live, Steps, Ended, requestVars, queueVars
  <2>2. Registered'
    BY <1>12 DEF StageAudit, Registered, WorkSteps, HasDocument, Live, TypeOK, Doc,
                 Goto, Steps, Ended, dbVars, requestVars, ExtractionStatusFor, UsageOf,
                 Pending, ExtractionStatus, UsagePurpose, AllOutcomes
  <2>3. OutcomeKnown'
    BY <1>12 DEF StageAudit, OutcomeKnown, Recording, TypeOK, Goto
  <2>4. staged' \in [Tasks -> Pending]
    <3>1. UsageOf(t) \in SUBSET UsagePurpose
      BY DEF UsageOf, UsagePurpose
    <3>2. ExtractionStatusFor(outcome[t]) \in ExtractionStatus
      BY <1>12 DEF StageAudit, OutcomeKnown, Recording, ExtractionStatusFor,
                   ExtractionStatus
    <3> DEFINE p == [staged[t] EXCEPT !.extraction = ExtractionStatusFor(outcome[t]),
                                      !.usage = UsageOf(t)]
    <3>3. p \in Pending
      BY <3>1, <3>2, PendingAudit DEF TypeOK
    <3>4. staged' = [staged EXCEPT ![t] = p]
      BY <1>12 DEF StageAudit, TypeOK
    <3> HIDE DEF p
    <3> QED BY <3>3, <3>4 DEF TypeOK
  <2> QED BY <1>12, <2>1, OutcomesAssumption, <2>2, <2>3, <2>4
          DEF StageAudit, TypeOK, HasDocument, Live, Steps, dbVars, requestVars,
              queueVars, ExtractionStatusFor, UsageOf, Pending, ExtractionStatus,
              UsagePurpose, AllOutcomes
<1>13. CASE CommitRecord(t)
  <2>1. Moved
    BY <1>13, MoveKeepsShape DEF CommitRecord, Live, Steps, Ended, requestVars,
                                 queueVars, AfterCommit, OnProcessingError
  <2>2. Registered'
    BY <1>13, PublishType
       DEF CommitRecord, Registered, WorkSteps, HasDocument, Live, TypeOK, Doc, Goto,
           Steps, Ended, requestVars, AfterCommit, OnProcessingError
  <2>3. OutcomeKnown'
    BY <1>13 DEF CommitRecord, OutcomeKnown, Recording, TypeOK, Goto, AfterCommit,
                 OnProcessingError
  <2> QED BY <1>13, <2>1, <2>2, <2>3, PublishType
          DEF CommitRecord, TypeOK, requestVars, queueVars
<1>14. CASE MarkFailed(t)
  <2>1. Moved
    BY <1>14, MoveKeepsShape DEF MarkFailed, Live, Steps, Ended, requestVars, queueVars
  <2>2. Registered'
    BY <1>14 DEF MarkFailed, Registered, WorkSteps, HasDocument, Live, TypeOK, Doc,
                 Goto, Steps, Ended, dbVars, requestVars, WriteStatus, DocumentStatus
  <2>3. OutcomeKnown'
    BY <1>14 DEF MarkFailed, OutcomeKnown, Recording, TypeOK, Goto
  <2> QED BY <1>14, <2>1, <2>2, <2>3
          DEF MarkFailed, TypeOK, HasDocument, Live, Steps, dbVars, requestVars,
              queueVars, WriteStatus, DocumentStatus
<1>15. CASE MarkFailedRaises(t)
  <2>1. Moved
    BY <1>15, MoveKeepsShape DEF MarkFailedRaises, Live, Steps, Ended, requestVars,
                                 queueVars
  <2>2. Registered'
    BY <1>15 DEF MarkFailedRaises, Registered, WorkSteps, HasDocument, Live, TypeOK,
                 Doc, Goto, Steps, Ended, dbVars, requestVars
  <2>3. OutcomeKnown'
    BY <1>15 DEF MarkFailedRaises, OutcomeKnown, Recording, TypeOK, Goto
  <2> QED BY <1>15, <2>1, <2>2, <2>3
          DEF MarkFailedRaises, TypeOK, HasDocument, Live, Steps, dbVars, requestVars,
              queueVars
<1> QED BY <1>1, <1>2, <1>3, <1>4, <1>5, <1>6, <1>7, <1>8,
           <1>9, <1>10, <1>11, <1>12, <1>13, <1>14, <1>15
       DEF Step

\* So do the faults that hit one task.
LEMMA FaultShape ==
    ASSUME Shape, NEW t \in Tasks, Fault(t)
    PROVE  Shape'
<1> USE TaskParts DEF Shape
<1> DEFINE Moved == /\ HasDocument' /\ IdleRequest' /\ Undelivered'
                   /\ pc' \in [Tasks -> {"idle"} \cup Steps \cup Ended]
<1>1. CASE SaveFails(t)
  <2>1. Moved
    BY <1>1, MoveKeepsShape DEF SaveFails, Live, Steps, Ended, requestVars, queueVars
  <2>2. Registered'
    BY <1>1 DEF SaveFails, Registered, WorkSteps, HasDocument, Live, TypeOK, Doc, Goto,
                Steps, Ended, dbVars, requestVars
  <2>3. OutcomeKnown'
    BY <1>1 DEF SaveFails, OutcomeKnown, Recording, TypeOK, Goto
  <2> QED BY <1>1, <2>1, StrikeType, <2>2, <2>3
          DEF SaveFails, TypeOK, HasDocument, Live, Steps, dbVars, requestVars,
              queueVars
<1>2. CASE EnqueueFails(t)
  <2>1. Moved
    BY <1>2, MoveKeepsShape DEF EnqueueFails, Live, Steps, Ended, requestVars,
                                queueVars, PutJob, OnEnqueueError
  <2>2. Registered'
    BY <1>2 DEF EnqueueFails, Registered, WorkSteps, HasDocument, Live, TypeOK, Doc,
                Goto, Steps, Ended, dbVars, requestVars, OnEnqueueError, PutJob
  <2>3. OutcomeKnown'
    BY <1>2 DEF EnqueueFails, OutcomeKnown, Recording, TypeOK, Goto, OnEnqueueError
  <2> QED BY <1>2, <2>1, StrikeType, <2>2, <2>3
          DEF EnqueueFails, TypeOK, HasDocument, Live, Steps, dbVars, requestVars,
              queueVars, PutJob
<1>3. CASE LoadFails(t)
  <2>1. Moved
    BY <1>3, MoveKeepsShape DEF LoadFails, Live, Steps, Ended, requestVars, queueVars
  <2>2. Registered'
    BY <1>3 DEF LoadFails, Registered, WorkSteps, HasDocument, Live, TypeOK, Doc, Goto,
                Steps, Ended, dbVars, requestVars
  <2>3. OutcomeKnown'
    BY <1>3 DEF LoadFails, OutcomeKnown, Recording, TypeOK, Goto
  <2> QED BY <1>3, <2>1, StrikeType, <2>2, <2>3
          DEF LoadFails, TypeOK, HasDocument, Live, Steps, dbVars, requestVars,
              queueVars
<1>4. CASE DatabaseError(t)
  <2>1. Moved
    BY <1>4, MoveKeepsShape DEF DatabaseError, Live, Steps, Ended, requestVars,
                                queueVars, SessionBreaks, OnDatabaseError,
                                OnProcessingError, DatabaseSteps
  <2>2. Registered'
    BY <1>4 DEF DatabaseError, Registered, WorkSteps, HasDocument, Live, TypeOK, Doc,
                Goto, Steps, Ended, dbVars, requestVars, SessionBreaks,
                OnDatabaseError, OnProcessingError, DatabaseSteps, Pending,
                NoWrites
  <2>3. OutcomeKnown'
    BY <1>4 DEF DatabaseError, OutcomeKnown, Recording, TypeOK, Goto, SessionBreaks,
                OnDatabaseError, OnProcessingError, DatabaseSteps
  <2>4. staged' \in [Tasks -> Pending]
    BY <1>4 DEF DatabaseError, TypeOK, Pending, NoWrites
  <2> QED BY <1>4, <2>1, StrikeType, <2>2, <2>3, <2>4
          DEF DatabaseError, TypeOK, HasDocument, Live, Steps, dbVars, requestVars,
              queueVars, SessionBreaks, Pending, NoWrites
<1>5. CASE CommitInDoubt(t)
  <2>1. Moved
    BY <1>5, MoveKeepsShape
       DEF CommitInDoubt, Live, Steps, Ended, requestVars, queueVars, SessionBreaks,
           OnDatabaseError, OnProcessingError
  <2>2. /\ status' \in [Docs -> DocumentStatus \cup {"absent"}]
        /\ \A d \in Docs : status[d] # "absent" => status'[d] # "absent"
        /\ extraction' \in [Tasks -> ExtractionStatus \cup {None}]
        /\ usage' \in [Tasks -> SUBSET UsagePurpose]
        /\ staged' \in [Tasks -> Pending]
    <3>1. CASE Publish(t)
      BY <3>1, PublishType
    <3>2. CASE ~Publish(t)
      <4>1. /\ UNCHANGED <<extraction, usage, staged>>
            /\ \/ UNCHANGED status
               \/ \E s \in DocumentStatus : status' = [status EXCEPT ![Doc(t)] = s]
        BY <1>5, <3>2
           DEF CommitInDoubt, InsertDocument, InitialStatus, WriteStatus, DocumentStatus
      <4>2. "absent" \notin DocumentStatus
        BY DEF DocumentStatus
      <4> QED BY <4>1, <4>2 DEF TypeOK
    <3> QED BY <3>1, <3>2
  <2>3. Registered'
    BY <1>5, <2>2
       DEF CommitInDoubt, SessionBreaks, OnDatabaseError, OnProcessingError, Registered,
           WorkSteps, HasDocument, Live, TypeOK, Doc, Goto, Steps, Ended, requestVars
  <2>4. OutcomeKnown'
    BY <1>5 DEF CommitInDoubt, SessionBreaks, OnDatabaseError, OnProcessingError,
                OutcomeKnown, Recording, TypeOK, Goto
  <2>5. /\ broken' \in [Tasks -> BOOLEAN]
        /\ faults' \in FaultLog
    BY <1>5, StrikeType DEF CommitInDoubt, SessionBreaks, TypeOK
  <2>6. UNCHANGED <<file, pool, requestVars, queueVars, mem, outcome>>
    BY <1>5 DEF CommitInDoubt
  <2> QED BY <2>1, <2>2, <2>3, <2>4, <2>5, <2>6 DEF TypeOK, requestVars, queueVars
<1> QED BY <1>1, <1>2, <1>3, <1>4, <1>5 DEF Fault

-----------------------------------------------------------------------------
(* Requests, jobs and crashes *)

\* A request that arrives finds none of its tasks started.
LEMMA ReceiveShape ==
    ASSUME Shape, NEW r \in Requests, Receive(r)
    PROVE  Shape'
<1> USE DEF Shape
<1>1. PICK k \in Kinds, d \in Docs \cup {None}, l \in {"saving", "raised", "lookup"} :
        /\ ReceiveRequest(r, k, d)
        /\ Goto(Handler(r), l)
        /\ l # "raised" => d \in Docs
        /\ file' = file \/ (d \in Docs /\ file' = [file EXCEPT ![d] = "partial"])
        /\ UNCHANGED <<dbVars, pool, queueVars, mem, outcome, staged, broken, faults>>
  BY DEF Receive, ReceiveUpload, RejectUpload, ReceiveDocumentId, Kinds
<1>2. \A t \in Tasks : t[1] = r => pc[t] = "idle"
  BY <1>1, TaskParts DEF ReceiveRequest, IdleRequest
<1>3. TypeOK'
  BY <1>1, HandlerIsTask
     DEF ReceiveRequest, TypeOK, Goto, dbVars, queueVars, Steps, Ended
<1>4. HasDocument'
  <2>1. \A q \in Requests : job'[q] # None => doc'[q] \in Docs
    BY <1>1, HandlerIsTask DEF ReceiveRequest, HasDocument, IdleRequest, TypeOK,
                               queueVars
  <2>2. ASSUME NEW t \in Tasks, Live(t)' PROVE Doc(t)' \in Docs
    BY <1>1, <1>2, <2>2, HandlerIsTask, TaskParts
       DEF ReceiveRequest, HasDocument, TypeOK, Live, Goto, Doc, Steps
  <2> QED BY <2>1, <2>2 DEF HasDocument
<1>5. IdleRequest'
  <2> SUFFICES ASSUME NEW q \in Requests, pc'[Handler(q)] = "idle"
               PROVE  job'[q] = None /\ \A n \in 0..MaxTries : pc'[<<q, n>>] = "idle"
    BY DEF IdleRequest
  <2>1. q # r /\ pc[Handler(q)] = "idle"
    BY <1>1, HandlerIsTask DEF Goto, TypeOK
  <2> QED BY <1>1, <2>1, RunIsTask, HandlerIsTask DEF IdleRequest, Goto, TypeOK,
          queueVars
<1>6. Registered' /\ OutcomeKnown'
  BY <1>1, <1>2, HandlerIsTask, TaskParts
     DEF ReceiveRequest, Registered, OutcomeKnown, WorkSteps, Recording, Steps, Goto,
         Doc,
         TypeOK, dbVars
<1>7. Undelivered'
  BY <1>1, HandlerIsTask, RunIsTask DEF Undelivered, Handler, Goto, TypeOK, queueVars
<1> QED BY <1>3, <1>4, <1>5, <1>6, <1>7

\* A job is delivered to a task that has not run before, of a request that has.
LEMMA StartJobShape ==
    ASSUME Shape, NEW r \in Requests, StartJob(r)
    PROVE  Shape'
<1> USE DEF Shape
<1> DEFINE t == <<r, tries[r] + 1>>
<1>1. tries[r] + 1 \in 0..MaxTries /\ t \in Tasks /\ t[1] = r /\ t[2] > 0
  BY TriesAssumption, RunIsTask DEF StartJob, TypeOK
<1>2. pc' = [pc EXCEPT ![t] = "lookup"]
  BY DEF StartJob, Goto
<1> HIDE DEF t
<1>3. TypeOK'
  BY <1>1, <1>2 DEF StartJob, TypeOK, dbVars, requestVars, Steps
<1>4. HasDocument'
  BY <1>1, <1>2 DEF StartJob, None, HasDocument, TypeOK, Live, Doc, requestVars
<1>5. IdleRequest'
  <2> SUFFICES ASSUME NEW q \in Requests, pc'[Handler(q)] = "idle"
               PROVE  job'[q] = None /\ \A n \in 0..MaxTries : pc'[<<q, n>>] = "idle"
    BY DEF IdleRequest
  <2>1. pc[Handler(q)] = "idle"
    BY <1>1, <1>2, HandlerIsTask DEF TypeOK
  <2>2. q # r
    BY <2>1 DEF IdleRequest, StartJob, None
  <2> QED BY <1>1, <1>2, <2>1, <2>2, RunIsTask DEF IdleRequest, StartJob, TypeOK
<1>6. Registered' /\ OutcomeKnown'
  BY <1>1, <1>2
     DEF StartJob, Registered, OutcomeKnown, WorkSteps, Recording, Doc, TypeOK, dbVars,
         requestVars
<1>7. Undelivered'
  BY <1>1, RunIsTask DEF Undelivered, StartJob, Goto, TypeOK
<1> QED BY <1>3, <1>4, <1>5, <1>6, <1>7

LEMMA FinishJobShape ==
    ASSUME Shape, NEW r \in Requests, FinishJob(r)
    PROVE  Shape'
<1> USE DEF Shape
<1>1. TypeOK'
  BY DEF FinishJob, TypeOK, dbVars, requestVars, taskVars
<1>2. HasDocument' /\ Registered' /\ OutcomeKnown'
  BY DEF FinishJob, HasDocument, Registered, OutcomeKnown, Live, Doc, TypeOK, dbVars,
         requestVars, taskVars, None
<1>3. IdleRequest' /\ Undelivered'
  BY DEF FinishJob, IdleRequest, Undelivered, TypeOK, taskVars, None
<1> QED BY <1>1, <1>2, <1>3

\* Killing tasks takes live tasks to "killed" and their staged writes away.
LEMMA KillShape ==
    ASSUME Shape, NEW S, Kill(S), UNCHANGED <<dbVars, doc, tries, outcome>>,
           job' \in [Requests -> {None, "queued", "running", "finished", "dropped"}],
           \A r \in Requests : job'[r] # None => job[r] # None
    PROVE  /\ HasDocument' /\ IdleRequest' /\ Undelivered' /\ Registered' /\ OutcomeKnown'
           /\ pc' \in [Tasks -> {"idle"} \cup Steps \cup Ended]
           /\ staged' \in [Tasks -> Pending]
<1> USE DEF Shape
<1>1. \A t \in Tasks : pc'[t] = pc[t] \/ (Live(t) /\ pc'[t] = "killed")
  BY DEF Kill
<1>2. /\ pc' \in [Tasks -> {"idle"} \cup Steps \cup Ended]
      /\ staged' \in [Tasks -> Pending]
  BY NothingPending DEF Kill, TypeOK, Ended
<1>3. HasDocument' /\ Registered' /\ OutcomeKnown'
  BY <1>1 DEF HasDocument, Registered, OutcomeKnown, WorkSteps, Recording, Live, Steps,
              Doc, dbVars
<1>4. IdleRequest' /\ Undelivered'
  BY <1>1, HandlerIsTask, RunIsTask DEF IdleRequest, Undelivered, Live, Steps
<1> QED BY <1>2, <1>3, <1>4

LEMMA JobTimeoutShape ==
    ASSUME Shape, NEW r \in Requests, JobTimeout(r)
    PROVE  Shape'
<1> USE DEF Shape
<1>1. /\ job' \in [Requests -> {None, "queued", "running", "finished", "dropped"}]
      /\ \A q \in Requests : job'[q] # None => job[q] # None
  BY DEF JobTimeout, TypeOK, None
<1>2. Kill({Run(r)}) /\ UNCHANGED <<dbVars, doc, tries, outcome>>
  BY DEF JobTimeout, requestVars
<1> QED BY <1>1, <1>2, KillShape, StrikeType
        DEF JobTimeout, TypeOK, dbVars, requestVars

LEMMA CrashShape ==
    ASSUME Shape, CrashApi \/ CrashWorker
    PROVE  Shape'
<1> USE DEF Shape
<1>1. CASE CrashApi
  <2>1. \E S : Kill(S)
    BY <1>1 DEF CrashApi
  <2>2. UNCHANGED <<dbVars, doc, tries, outcome, job>>
    BY <1>1 DEF CrashApi, requestVars, queueVars
  <2> QED BY <1>1, <2>1, <2>2, KillShape, StrikeType
          DEF CrashApi, TypeOK, dbVars, requestVars, queueVars
<1>2. CASE CrashWorker
  <2>1. \E S : Kill(S)
    BY <1>2 DEF CrashWorker
  <2>2. /\ job' \in [Requests -> {None, "queued", "running", "finished", "dropped"}]
        /\ \A q \in Requests : job'[q] # None => job[q] # None
    BY <1>2 DEF CrashWorker, TypeOK, None
  <2>3. UNCHANGED <<dbVars, doc, tries, outcome>>
    BY <1>2 DEF CrashWorker, requestVars
  <2> QED BY <1>2, <2>1, <2>2, <2>3, KillShape, StrikeType
          DEF CrashWorker, TypeOK, dbVars, requestVars
<1> QED BY <1>1, <1>2

LEMMA NextShape == Shape /\ [Next]_vars => Shape'
<1> SUFFICES ASSUME Shape, [Next]_vars PROVE Shape'
  OBVIOUS
<1>1. ASSUME NEW t \in Tasks, Step(t) \/ Fault(t) PROVE Shape'
  BY <1>1, StepShape, FaultShape
<1>2. ASSUME NEW r \in Requests, Receive(r) \/ StartJob(r) \/ FinishJob(r) \/ JobTimeout(r)
      PROVE  Shape'
  BY <1>2, ReceiveShape, StartJobShape, FinishJobShape, JobTimeoutShape
<1>3. ASSUME UNCHANGED vars PROVE Shape'
  BY <1>3 DEF Shape, TypeOK, HasDocument, IdleRequest, Undelivered, Registered,
              OutcomeKnown, Live, Doc,
              vars, dbVars, requestVars, queueVars, taskVars
<1> QED BY <1>1, <1>2, <1>3, CrashShape DEF Next, Terminated

LEMMA AlwaysShape == Spec => []Shape
<1>1. Init => Shape
  BY InitShape
<1>2. Shape /\ [Next]_vars => Shape'
  BY NextShape
<1> QED BY <1>1, <1>2, PTL DEF Spec

\* Every variable keeps its type in every reachable state: in particular a
\* document never gets a status that is not one, and a session never loads or
\* refreshes a row that is not there.
THEOREM TypeCorrect == Spec => []TypeOK
<1>1. Shape => TypeOK
  BY DEF Shape
<1> QED BY <1>1, AlwaysShape, PTL

-----------------------------------------------------------------------------
(* Recording *)

\* A task's step leaves the sessions and the results of the others alone.
LEMMA OthersUnmoved ==
    ASSUME Shape, NEW t \in Tasks, Step(t) \/ Fault(t), NEW u \in Tasks, u # t
    PROVE  /\ pc'[u] = pc[u] /\ mem'[u] = mem[u] /\ outcome'[u] = outcome[u]
           /\ staged'[u] = staged[u] /\ broken'[u] = broken[u]
           /\ extraction'[u] = extraction[u] /\ usage'[u] = usage[u]
<1> USE DEF Shape, TypeOK, Goto, dbVars, requestVars, queueVars
<1>1. CASE Step(t)
  BY <1>1 DEF Step, SaveUpload, CreateDocument, RefreshDocument, UndoUpload, EnqueueJob,
              LookupDocument, DocumentNotFound, StartProcessing, LoadDocument,
              ProcessPages, StageStatus, StageAudit, CommitRecord, Publish,
              MarkFailed, MarkFailedRaises
<1>2. CASE Fault(t)
  BY <1>2 DEF Fault, SaveFails, EnqueueFails, LoadFails, DatabaseError,
              CommitInDoubt, SessionBreaks, Publish
<1> QED BY <1>1, <1>2

LEMMA RequestsUnmoved ==
    ASSUME NEW t \in Tasks, Step(t) \/ Fault(t)
    PROVE  UNCHANGED requestVars
BY DEF Step, SaveUpload, CreateDocument, RefreshDocument, UndoUpload, EnqueueJob,
       LookupDocument, DocumentNotFound, StartProcessing, LoadDocument, ProcessPages,
       StageStatus, StageAudit, CommitRecord, MarkFailed,
       MarkFailedRaises, Fault, SaveFails, EnqueueFails, LoadFails, DatabaseError,
       CommitInDoubt

\* What a run stages, and when it shows: the status that goes with its outcome,
\* then the extraction and its usage, then all of them committed, once.
RunRecords(t) ==
    /\ staged[t].status # None =>
         pc[t] \in {"auditing", "committing"} /\ staged[t].status = DocumentStatusFor(outcome[t])
    /\ pc[t] = "committing" =>
         /\ staged[t].extraction = ExtractionStatusFor(outcome[t])
         /\ staged[t].usage = UsageOf(t)
    /\ extraction[t] # None => pc[t] \in {"failing"} \cup Ended
    /\ usage[t] = IF extraction[t] = None THEN {} ELSE UsageOf(t)

Recorded == CompletedHasResult /\ \A t \in Tasks : RunRecords(t)

LEMMA InitRecorded == Init => Recorded
BY DEF Init, Recorded, RunRecords, CompletedHasResult, NoWrites

\* The commit shows an extraction and its usage.
LEMMA PublishRecords ==
    ASSUME Shape, NEW t \in Tasks, RunRecords(t), pc[t] = "committing", Publish(t),
           UNCHANGED <<typed, outcome>>, pc'[t] \in {"failing"} \cup Ended
    PROVE  RunRecords(t)'
<1>1. /\ staged'[t] = NoWrites
      /\ extraction'[t] = staged[t].extraction
      /\ usage'[t] = staged[t].usage
  BY DEF Shape, TypeOK, Publish
<1>2. staged[t].extraction # None /\ staged[t].usage = UsageOf(t)
  BY DEF RunRecords, Shape, OutcomeKnown, Recording, ExtractionStatusFor,
         ExtractionStatus, None
<1>3. UsageOf(t)' = UsageOf(t)
  BY DEF UsageOf
<1>4. pc'[t] # "committing" /\ staged'[t].status = None
  BY <1>1 DEF NoWrites, Ended
<1> QED BY <1>1, <1>2, <1>3, <1>4 DEF RunRecords

LEMMA StepRecords ==
    ASSUME Shape, NEW t \in Tasks, RunRecords(t), Step(t)
    PROVE  RunRecords(t)'
<1> USE DEF Shape, TypeOK, Goto, RunRecords, UsageOf, dbVars, requestVars, queueVars
<1>1. CASE StageStatus(t)
  BY <1>1 DEF StageStatus, Pending, Ended
<1>2. CASE StageAudit(t)
  BY <1>2 DEF StageAudit, Pending, Ended
<1>3. CASE CommitRecord(t)
  BY <1>3, PublishRecords DEF CommitRecord, AfterCommit, OnProcessingError, Ended
<1>4. ASSUME pc[t] \notin {"recording", "auditing", "committing"},
             pc'[t] \notin {"auditing", "committing"},
             pc[t] = "failing" => pc'[t] \in Ended,
             Live(t), UNCHANGED <<extraction, usage, typed, staged>>
      PROVE  RunRecords(t)'
  BY <1>4 DEF Live, Steps, Ended
<1>5. CASE ~StageStatus(t) /\ ~StageAudit(t) /\ ~CommitRecord(t)
  BY <1>4, <1>5
     DEF Step, SaveUpload, CreateDocument, RefreshDocument, UndoUpload, EnqueueJob,
         LookupDocument, DocumentNotFound, StartProcessing, LoadDocument, ProcessPages,
         MarkFailed, MarkFailedRaises, AfterRefresh, AfterLookup,
         AfterStart, OnProcessingError, Live, Steps, Ended
<1> QED BY <1>1, <1>2, <1>3, <1>5

LEMMA FaultRecords ==
    ASSUME Shape, NEW t \in Tasks, RunRecords(t), Fault(t)
    PROVE  RunRecords(t)'
<1> USE DEF Shape, TypeOK, Goto, RunRecords, UsageOf, dbVars, requestVars, queueVars,
            Ended
<1>1. CASE SaveFails(t) \/ EnqueueFails(t) \/ LoadFails(t)
  BY <1>1 DEF SaveFails, EnqueueFails, LoadFails, OnEnqueueError
<1>2. CASE DatabaseError(t)
  BY <1>2 DEF DatabaseError, SessionBreaks, OnDatabaseError, OnProcessingError,
              DatabaseSteps, NoWrites
<1>3. CASE CommitInDoubt(t)
  <2>1. CASE pc[t] = "committing"
    BY <1>3, <2>1, PublishRecords
       DEF CommitInDoubt, SessionBreaks, OnDatabaseError, OnProcessingError
  <2>2. CASE pc[t] # "committing"
    BY <1>3, <2>2 DEF CommitInDoubt, SessionBreaks, OnDatabaseError, OnProcessingError
  <2> QED BY <2>1, <2>2
<1> QED BY <1>1, <1>2, <1>3 DEF Fault

\* A document becomes COMPLETED only by a commit that also shows the extraction.
LEMMA TaskCompletes ==
    ASSUME Shape, Recorded, NEW t \in Tasks, Step(t) \/ Fault(t)
    PROVE  CompletedHasResult'
<1> USE DEF Shape
<1> SUFFICES ASSUME NEW d \in Docs, status'[d] = "COMPLETED"
             PROVE  \E u \in Tasks : Doc(u)' = d /\ extraction'[u] \in Successful
  BY DEF CompletedHasResult
<1>1. \A u \in Tasks : Doc(u)' = Doc(u)
  BY RequestsUnmoved DEF requestVars, Doc
<1>2. CASE Publish(t) /\ Doc(t) = d /\ pc[t] = "committing" /\ staged[t].status # None
  <2>1. staged[t].status = "COMPLETED" /\ outcome[t] \in Successful
    BY <1>2 DEF Publish, TypeOK, Recorded, RunRecords, DocumentStatusFor, Successful
  <2>2. extraction'[t] \in Successful
    BY <1>2, <2>1 DEF Publish, TypeOK, Recorded, RunRecords, ExtractionStatusFor,
                      Successful
  <2> QED BY <1>1, <1>2, <2>2
<1>3. CASE status[d] = "COMPLETED"
  <2>1. PICK u \in Tasks : Doc(u) = d /\ extraction[u] \in Successful
    BY <1>3 DEF Recorded, CompletedHasResult
  <2>2. extraction[u] # None /\ pc[u] # "committing"
    BY <2>1 DEF Successful, None, Recorded, RunRecords, Ended
  <2>3. extraction'[u] = extraction[u]
    <3>1. CASE u # t
      BY <3>1, OthersUnmoved
    <3>2. CASE u = t
      BY <2>2, <3>2
         DEF Step, SaveUpload, CreateDocument, RefreshDocument, UndoUpload, EnqueueJob,
             LookupDocument, DocumentNotFound, StartProcessing, LoadDocument,
             ProcessPages, StageStatus, StageAudit, CommitRecord, MarkFailed,
             MarkFailedRaises, Fault, SaveFails, EnqueueFails, LoadFails, DatabaseError,
             CommitInDoubt, dbVars
    <3> QED BY <3>1, <3>2
  <2> QED BY <1>1, <2>1, <2>3
<1>4. CASE status[d] # "COMPLETED"
  <2>1. pc[t] = "committing" /\ Publish(t)
    BY <1>4
       DEF Step, SaveUpload, CreateDocument, RefreshDocument, UndoUpload, EnqueueJob,
           LookupDocument, DocumentNotFound, StartProcessing, LoadDocument,
           ProcessPages, StageStatus, StageAudit, CommitRecord, MarkFailed,
           MarkFailedRaises, Fault, SaveFails, EnqueueFails, LoadFails, DatabaseError,
           CommitInDoubt, dbVars, InsertDocument, InitialStatus, WriteStatus, TypeOK
  <2>2. Doc(t) = d /\ staged[t].status # None
    BY <1>4, <2>1 DEF Publish, TypeOK
  <2> QED BY <1>2, <2>1, <2>2
<1> QED BY <1>3, <1>4

\* Arrivals, jobs and crashes commit nothing; a request that arrives has no
\* results yet, so every result keeps its document and its usage.
LEMMA OtherRecords ==
    ASSUME Shape, Recorded, UNCHANGED <<dbVars, outcome>>,
           \A t \in Tasks :
             \/ pc'[t] = pc[t] /\ staged'[t] = staged[t]
             \/ pc[t] = "idle" /\ pc'[t] # "committing" /\ staged'[t] = staged[t]
             \/ pc'[t] \in {pc[t], "killed"} \ {"committing"} /\ staged'[t] = NoWrites,
           \A r \in Requests : pc[Handler(r)] # "idle" => doc'[r] = doc[r] /\ typed'[r] = typed[r]
    PROVE  Recorded'
<1> USE DEF Shape, Recorded
<1>1. \A t \in Tasks : pc[t] # "idle" => Doc(t)' = Doc(t) /\ UsageOf(t)' = UsageOf(t)
  BY TaskParts DEF IdleRequest, Doc, UsageOf
<1>2. \A t \in Tasks : extraction[t] # None => pc[t] # "idle"
  BY DEF RunRecords, Ended
<1>3. CompletedHasResult'
  BY <1>1, <1>2 DEF CompletedHasResult, Successful, None, dbVars
<1>4. ASSUME NEW t \in Tasks PROVE RunRecords(t)'
  <2>1. RunRecords(t)
    OBVIOUS
  <2>2. usage'[t] = IF extraction'[t] = None THEN {} ELSE UsageOf(t)'
    BY <1>1, <1>2, <2>1 DEF RunRecords, dbVars
  <2>3. CASE pc'[t] = pc[t] /\ staged'[t] = staged[t]
    BY <1>1, <2>1, <2>2, <2>3 DEF RunRecords, dbVars
  <2>4. CASE pc[t] = "idle" /\ pc'[t] # "committing" /\ staged'[t] = staged[t]
    BY <1>2, <2>1, <2>2, <2>4 DEF RunRecords, dbVars
  <2>5. CASE pc'[t] \in {pc[t], "killed"} \ {"committing"} /\ staged'[t] = NoWrites
    BY <2>1, <2>2, <2>5 DEF RunRecords, NoWrites, Ended, dbVars
  <2> QED BY <2>3, <2>4, <2>5
<1> QED BY <1>3, <1>4

LEMMA NextRecorded == Shape /\ Recorded /\ [Next]_vars => Recorded'
<1> SUFFICES ASSUME Shape, Recorded, [Next]_vars PROVE Recorded'
  OBVIOUS
<1>1. ASSUME NEW t \in Tasks, Step(t) \/ Fault(t) PROVE Recorded'
  <2>1. ASSUME NEW u \in Tasks, u # t PROVE RunRecords(u)'
    BY <1>1, <2>1, OthersUnmoved, RequestsUnmoved DEF Recorded, RunRecords, UsageOf,
            requestVars
  <2>2. RunRecords(t)'
    BY <1>1, StepRecords, FaultRecords DEF Recorded
  <2> QED BY <1>1, <2>1, <2>2, TaskCompletes DEF Recorded
<1>2. ASSUME NEW r \in Requests, Receive(r) PROVE Recorded'
  <2>1. /\ UNCHANGED <<dbVars, outcome, staged>>
        /\ \A q \in Requests : q # r => doc'[q] = doc[q] /\ typed'[q] = typed[q]
        /\ \A t \in Tasks : t # Handler(r) => pc'[t] = pc[t]
        /\ pc[Handler(r)] = "idle" /\ pc'[Handler(r)] # "committing"
    BY <1>2, HandlerIsTask
       DEF Receive, ReceiveUpload, RejectUpload, ReceiveDocumentId, ReceiveRequest,
           Goto,
           Shape, TypeOK
  <2> QED BY <2>1, OtherRecords
<1>3. ASSUME NEW r \in Requests, StartJob(r) PROVE Recorded'
  <2> DEFINE t == <<r, tries[r] + 1>>
  <2>1. t \in Tasks /\ pc[t] = "idle"
    BY <1>3, RunIsTask, TriesAssumption DEF StartJob, Shape, TypeOK, Undelivered
  <2>2. pc' = [pc EXCEPT ![t] = "lookup"]
    BY <1>3 DEF StartJob, Goto
  <2> HIDE DEF t
  <2>3. UNCHANGED <<dbVars, requestVars, outcome, staged>>
    BY <1>3 DEF StartJob
  <2> QED BY <2>1, <2>2, <2>3, OtherRecords DEF Shape, TypeOK, requestVars
<1>4. ASSUME NEW r \in Requests, FinishJob(r) PROVE Recorded'
  BY <1>4, OtherRecords DEF FinishJob, taskVars, requestVars
<1>5. ASSUME NEW S, Kill(S), UNCHANGED <<dbVars, requestVars, outcome>> PROVE Recorded'
  <2>1. \A t \in Tasks :
          \/ pc'[t] = pc[t] /\ staged'[t] = staged[t]
          \/ pc'[t] \in {pc[t], "killed"} \ {"committing"} /\ staged'[t] = NoWrites
    BY <1>5 DEF Kill, Live, Steps
  <2> QED BY <1>5, <2>1, OtherRecords DEF requestVars
<1>6. ASSUME NEW r \in Requests, JobTimeout(r) PROVE Recorded'
  BY <1>5, <1>6 DEF JobTimeout
<1>7. CASE CrashApi \/ CrashWorker
  BY <1>5, <1>7 DEF CrashApi, CrashWorker
<1>8. CASE UNCHANGED vars
  BY <1>8, OtherRecords DEF vars, taskVars, requestVars
<1> QED BY <1>1, <1>2, <1>3, <1>4, <1>6, <1>7, <1>8 DEF Next, Terminated

LEMMA AlwaysRecorded == Spec => []Recorded
<1>1. Init => Recorded
  BY InitRecorded
<1>2. Shape /\ Recorded /\ [Next]_vars => Recorded'
  BY NextRecorded
<1> QED BY <1>1, <1>2, AlwaysShape, PTL DEF Spec

\* A COMPLETED document has a readable extraction, for any number of requests
\* and documents and under every fault: no schedule, lost commit or crash shows
\* the status without the row.
THEOREM CompletedIsBacked == Spec => []CompletedHasResult
<1>1. Recorded => CompletedHasResult
  BY DEF Recorded
<1> QED BY <1>1, AlwaysRecorded, PTL

\* No extraction is committed without its full usage and no usage without its
\* extraction, whatever fails between the flushes.
THEOREM UsageIsComplete == Spec => []UsageIsLedgered
<1>1. Recorded => UsageIsLedgered
  BY DEF Recorded, RunRecords, UsageIsLedgered
<1> QED BY <1>1, AlwaysRecorded, PTL

-----------------------------------------------------------------------------
(* PART 2: DocumentService implements DocumentLifecycle *)

-----------------------------------------------------------------------------
(* What a task may rely on *)

Intake == {"saving", "creating", "undoing", "refreshing"}

\* no other task has begun to work on t's document
Alone(t) == \A u \in Tasks \ {t} : Doc(u) = Doc(t) => pc[u] = "idle"

\* Until an upload is registered and read back its handler has the document to
\* itself: no client knows the id, and no job exists.
Claim(t) ==
    pc[t] \in Intake =>
        /\ ~IsRun(t) /\ Kind(t) \in {"upload", "upload_async"}
        /\ job[t[1]] = None
        /\ Alone(t)
        /\ pc[t] \in {"saving", "creating"} => status[Doc(t)] = "absent"
        /\ pc[t] = "refreshing" => status[Doc(t)] = InitialStatus(t)

\* A task that processes or records loaded PROCESSING, or set it itself, so that
\* the UPDATE of its final status is never elided.
InHand(t) ==
    /\ pc[t] \in {"loading", "processing", "recording"} => mem[t] = "PROCESSING"
    /\ pc[t] = "enqueueing" /\ Kind(t) = "upload_async" => mem[t] = "PROCESSING"
    /\ pc[t] \in {"auditing", "committing"} => staged[t].status # None

Owned == \A t \in Tasks : Claim(t) /\ InHand(t)

LEMMA InitOwned == Init => Owned
BY DEF Init, Owned, Claim, InHand, Intake

\* A step of a task touches its own document and its own job only.
LEMMA OwnDocument ==
    ASSUME Shape, NEW t \in Tasks, Step(t) \/ Fault(t)
    PROVE  /\ Live(t)
           /\ \A d \in Docs : d # Doc(t) => status'[d] = status[d]
           /\ \A r \in Requests : r # t[1] => job'[r] = job[r]
<1> USE TaskParts DEF Shape, TypeOK, Live, Steps, dbVars, queueVars, PutJob
<1>1. CASE Step(t)
  BY <1>1 DEF Step, SaveUpload, CreateDocument, InsertDocument, RefreshDocument,
              UndoUpload,
              EnqueueJob, LookupDocument, DocumentNotFound, StartProcessing,
              WriteStatus,
              LoadDocument, ProcessPages, StageStatus, StageAudit, CommitRecord,
              Publish,
              MarkFailed, MarkFailedRaises
<1>2. CASE Fault(t)
  BY <1>2 DEF Fault, SaveFails, EnqueueFails, LoadFails, DatabaseError, CommitInDoubt,
              DatabaseSteps, InsertDocument, WriteStatus, Publish
<1> QED BY <1>1, <1>2

LEMMA OthersOwned ==
    ASSUME Shape, Owned, NEW t \in Tasks, Step(t) \/ Fault(t), NEW u \in Tasks, u # t
    PROVE  Claim(u)' /\ InHand(u)'
<1>1. /\ pc'[u] = pc[u] /\ mem'[u] = mem[u] /\ staged'[u] = staged[u]
      /\ UNCHANGED <<kind, doc>>
  BY OthersUnmoved, RequestsUnmoved DEF requestVars
<1>2. InHand(u)'
  BY <1>1 DEF Owned, InHand, Kind
<1>3. CASE pc[u] \in Intake
  <2>1. Claim(u) /\ Live(u) /\ Doc(u) \in Docs
    BY <1>3 DEF Owned, Intake, Live, Steps, Shape, HasDocument
  <2>2. Doc(t) # Doc(u) /\ t[1] # u[1]
    BY <1>3, <2>1, OwnDocument DEF Claim, Alone, Live, Steps, Doc
  <2>3. status'[Doc(u)] = status[Doc(u)] /\ job'[u[1]] = job[u[1]]
    BY <2>1, <2>2, OwnDocument, TaskParts
  <2>4. Alone(u)'
    BY <1>1, <1>3, <2>1, <2>2, OthersUnmoved DEF Claim, Alone, Doc
  <2> QED BY <1>1, <1>2, <1>3, <2>1, <2>3, <2>4 DEF Claim, Kind, Doc, InitialStatus
<1>4. CASE pc[u] \notin Intake
  BY <1>1, <1>2, <1>4 DEF Claim
<1> QED BY <1>3, <1>4

\* An upload is registered UPLOADED or PROCESSING, and read back as it was
\* written; with an error it leaves the intake or is undone.
LEMMA TaskOwns ==
    ASSUME Shape, Owned, NEW t \in Tasks, Step(t) \/ Fault(t)
    PROVE  Claim(t)' /\ InHand(t)'
<1> USE TaskParts DEF Shape, TypeOK, Goto, dbVars, requestVars, queueVars
<1>1. UNCHANGED <<kind, doc>> /\ \A u \in Tasks : u # t => pc'[u] = pc[u]
  BY RequestsUnmoved, OthersUnmoved DEF requestVars
<1>2. Alone(t) => Alone(t)'
  BY <1>1 DEF Alone, Doc
<1>3. Claim(t)'
  <2>1. CASE pc'[t] \notin Intake
    BY <2>1 DEF Claim
  <2>2. CASE SaveUpload(t)
    BY <1>1, <1>2, <2>2 DEF SaveUpload, Owned, Claim, Intake, Kind, Doc
  <2>3. CASE CreateDocument(t) \/ (CommitInDoubt(t) /\ pc[t] = "creating")
    <3>1. status' = [status EXCEPT ![Doc(t)] = InitialStatus(t)] /\ Doc(t) \in Docs
      BY <2>3 DEF CreateDocument, CommitInDoubt, InsertDocument, HasDocument, Live,
                  Steps
    <3>2. pc'[t] \in {"refreshing", "undoing"} /\ UNCHANGED job
      BY <2>3 DEF CreateDocument, CommitInDoubt, SessionBreaks, OnDatabaseError
    <3> QED BY <1>1, <1>2, <2>3, <3>1, <3>2
            DEF CreateDocument, CommitInDoubt, Owned, Claim, Intake, Kind, Doc,
                InitialStatus
  <2>4. CASE DatabaseError(t) /\ pc[t] = "creating"
    BY <1>1, <1>2, <2>4
       DEF DatabaseError, SessionBreaks, OnDatabaseError, Owned, Claim, Intake, Kind,
           Doc
  <2>5. pc'[t] \in Intake =>
          \/ SaveUpload(t) \/ CreateDocument(t)
          \/ ((DatabaseError(t) \/ CommitInDoubt(t)) /\ pc[t] = "creating")
    BY DEF Step, RefreshDocument, AfterRefresh, UndoUpload, EnqueueJob, LookupDocument,
           AfterLookup, DocumentNotFound, StartProcessing, AfterStart, LoadDocument,
           ProcessPages, OnProcessingError, StageStatus, StageAudit, CommitRecord,
           AfterCommit, MarkFailed, MarkFailedRaises, Fault, SaveFails, EnqueueFails,
           OnEnqueueError, LoadFails, DatabaseError, CommitInDoubt, SessionBreaks,
           OnDatabaseError, Intake
  <2> QED BY <2>1, <2>2, <2>3, <2>4, <2>5
<1>4. InHand(t)'
  <2> USE <1>1 DEF InHand, Owned, Kind
  <2>1. CASE \/ SaveUpload(t) \/ CreateDocument(t) \/ UndoUpload(t)
            \/ EnqueueJob(t) \/ DocumentNotFound(t)
    BY <2>1 DEF SaveUpload, CreateDocument, UndoUpload, EnqueueJob, DocumentNotFound
  <2>2. CASE RefreshDocument(t)
    BY <2>2 DEF RefreshDocument, AfterRefresh, Claim, Intake, InitialStatus
  <2>3. CASE LookupDocument(t)
    BY <2>3 DEF LookupDocument, AfterLookup
  <2>4. CASE StartProcessing(t) \/ LoadDocument(t)
    BY <2>4 DEF StartProcessing, AfterStart, LoadDocument
  <2>5. CASE ProcessPages(t)
    BY <2>5 DEF ProcessPages, OnProcessingError
  <2>6. CASE StageStatus(t)
    <3>1. mem[t] = "PROCESSING" /\ DocumentStatusFor(outcome[t]) \in {"COMPLETED", "FAILED"}
      BY <2>6 DEF StageStatus, DocumentStatusFor
    <3>2. staged'[t].status # None
      BY <2>6, <3>1 DEF StageStatus, Pending, None
    <3> QED BY <2>6, <3>2 DEF StageStatus
  <2>7. CASE StageAudit(t)
    <3>1. staged[t].status # None
      BY <2>7 DEF StageAudit
    <3>2. staged'[t].status = staged[t].status
      BY <2>7 DEF StageAudit, Pending
    <3> QED BY <2>7, <3>1, <3>2 DEF StageAudit
  <2>8. CASE CommitRecord(t) \/ MarkFailed(t) \/ MarkFailedRaises(t)
    BY <2>8 DEF CommitRecord, AfterCommit, OnProcessingError, MarkFailed,
                MarkFailedRaises
  <2>9. CASE Fault(t)
    BY <2>9 DEF Fault, SaveFails, EnqueueFails, OnEnqueueError, LoadFails,
                DatabaseError,
                CommitInDoubt, SessionBreaks, OnDatabaseError, OnProcessingError
  <2> QED BY <2>1, <2>2, <2>3, <2>4, <2>5, <2>6, <2>7, <2>8, <2>9 DEF Step
<1> QED BY <1>3, <1>4

\* A document a client has been told of is past its intake.
LEMMA AnnouncedIsPastIntake ==
    ASSUME Owned, NEW d \in Docs, Announced(d), NEW t \in Tasks, pc[t] \in Intake
    PROVE  Doc(t) # d
<1>1. PICK r \in Requests : doc[r] = d /\ pc[Handler(r)] = "returned"
  BY DEF Announced
<1>2. Handler(r) \in Tasks /\ Doc(Handler(r)) = d /\ Handler(r) # t
  BY <1>1, HandlerIsTask DEF Doc, Intake
<1>3. Alone(t)
  BY DEF Owned, Claim
<1> QED BY <1>1, <1>2, <1>3 DEF Alone

\* A request that arrives takes a fresh id, or one that is past its intake.
LEMMA ReceiveOwned ==
    ASSUME Shape, Owned, NEW r \in Requests, Receive(r)
    PROVE  Owned'
<1> USE TaskParts, HandlerIsTask DEF Shape, TypeOK, dbVars, queueVars
<1> DEFINE h == Handler(r)
<1>1. /\ pc[h] = "idle" /\ \A u \in Tasks : u # h => pc'[u] = pc[u]
      /\ UNCHANGED <<status, job, mem, staged>>
      /\ \A q \in Requests : q # r => doc'[q] = doc[q] /\ kind'[q] = kind[q]
      /\ pc'[h] \in {"saving", "raised", "lookup"}
  BY DEF Receive, ReceiveUpload, RejectUpload, ReceiveDocumentId, ReceiveRequest, Goto
<1>2. \A u \in Tasks : u[1] = r => pc[u] = "idle"
  BY <1>1 DEF IdleRequest
<1>3. ASSUME NEW t \in Tasks, t # h PROVE Claim(t)' /\ InHand(t)'
  <2>1. CASE pc[t] = "idle"
    BY <1>1, <1>3, <2>1 DEF Claim, InHand, Intake
  <2>2. CASE pc[t] # "idle"
    <3>1. t[1] # r /\ UNCHANGED <<pc[t], mem[t], staged[t], Doc(t), Kind(t), job[t[1]]>>
      BY <1>1, <1>2, <1>3, <2>2 DEF Doc, Kind
    <3>2. ASSUME pc[t] \in Intake PROVE doc'[r] # Doc(t)
      <4>1. CASE RejectUpload(r)
        BY <3>2, <4>1, DocsAssumption
           DEF RejectUpload, ReceiveRequest, HasDocument, Live, Steps, Intake
      <4>2. CASE ReceiveUpload(r)
        BY <3>1, <4>2 DEF ReceiveUpload, ReceiveRequest, Unused, Doc
      <4>3. CASE ReceiveDocumentId(r)
        BY <3>1, <3>2, <4>3, AnnouncedIsPastIntake
           DEF ReceiveDocumentId, ReceiveRequest, Unused, Doc
      <4> QED BY <4>1, <4>2, <4>3 DEF Receive
    <3>3. ASSUME pc[t] \in Intake PROVE Alone(t)'
      <4>1. Alone(t) /\ Doc(t)' = Doc(t)
        BY <3>1, <3>3 DEF Owned, Claim
      <4>2. ASSUME NEW u \in Tasks, u # t, Doc(u)' = Doc(t) PROVE pc'[u] = "idle"
        <5>1. u[1] # r
          BY <3>2, <3>3, <4>2 DEF Doc
        <5>2. Doc(u) = Doc(t) /\ pc'[u] = pc[u]
          BY <1>1, <4>2, <5>1, TaskParts DEF Doc, Handler
        <5> QED BY <4>1, <4>2, <5>2 DEF Alone
      <4> QED BY <4>1, <4>2 DEF Alone
    <3> QED BY <1>1, <1>3, <3>1, <3>3
            DEF Owned, Claim, InHand, InitialStatus, IsRun
  <2> QED BY <2>1, <2>2
<1>4. InHand(h)'
  BY <1>1 DEF InHand
<1>5. Claim(h)'
  <2>1. CASE pc'[h] # "saving"
    BY <1>1, <2>1 DEF Claim, Intake
  <2>2. CASE pc'[h] = "saving"
    <3>1. PICK k \in {"upload", "upload_async"}, d \in Docs :
            /\ Unused(d) /\ kind'[r] = k /\ doc'[r] = d
      BY <2>2 DEF Receive, ReceiveUpload, RejectUpload, ReceiveDocumentId,
                  ReceiveRequest, Goto
    <3>2. Kind(h)' = k /\ Doc(h)' = d /\ ~IsRun(h)
      BY <3>1 DEF Kind, Doc, IsRun
    <3>3. status'[d] = "absent" /\ job'[r] = None
      BY <1>1, <3>1 DEF Unused, IdleRequest
    <3>4. Alone(h)'
      BY <1>1, <1>2, <3>1, <3>2 DEF Alone, Doc, Unused
    <3> QED BY <2>2, <3>1, <3>2, <3>3, <3>4 DEF Claim, IsRun
  <2> QED BY <2>1, <2>2
<1> QED BY <1>3, <1>4, <1>5 DEF Owned

\* Deliveries concern documents that have a job; what ends, or is killed, leaves
\* the intake.
LEMMA OtherOwned ==
    ASSUME Shape, Owned, UNCHANGED <<status, mem, requestVars>>,
           \A t \in Tasks :
             \/ pc'[t] = pc[t] /\ (Live(t) => staged'[t] = staged[t])
             \/ Live(t) /\ pc'[t] = "killed"
             \/ pc[t] = "idle" /\ pc'[t] = "lookup" /\ job[t[1]] # None,
           \A r \in Requests : job[r] = None => job'[r] = None
    PROVE  Owned'
<1> USE TaskParts DEF Shape, requestVars
<1> SUFFICES ASSUME NEW t \in Tasks PROVE Claim(t)' /\ InHand(t)'
  BY DEF Owned
<1>1. CASE pc'[t] \in {"killed", "lookup"}
  BY <1>1 DEF Claim, InHand, Intake
<1>2. CASE pc'[t] = pc[t] /\ (Live(t) => staged'[t] = staged[t])
  <2>1. ASSUME pc[t] \in Intake PROVE Alone(t)'
    <3> SUFFICES ASSUME NEW u \in Tasks \ {t}, Doc(u) = Doc(t) PROVE pc'[u] = "idle"
      BY DEF Alone, Doc
    <3>1. pc[u] = "idle" /\ job[t[1]] = None
      BY <2>1 DEF Owned, Claim, Alone
    <3>2. job[u[1]] = None
      <4> DEFINE h == Handler(u[1])
      <4>1. h \in Tasks /\ Doc(h) = Doc(t)
        BY HandlerIsTask DEF Doc
      <4>2. CASE h = t
        BY <3>1, <4>2, HandlerIsTask
      <4>3. CASE h # t
        BY <2>1, <4>1, <4>3 DEF Owned, Claim, Alone, IdleRequest
      <4> QED BY <4>2, <4>3
    <3> QED BY <3>1, <3>2 DEF Live, Steps
  <2> QED BY <1>2, <2>1 DEF Owned, Claim, InHand, Kind, Doc, InitialStatus, Live, Steps
<1> QED BY <1>1, <1>2

LEMMA NextOwned == Shape /\ Owned /\ [Next]_vars => Owned'
<1> SUFFICES ASSUME Shape, Owned, [Next]_vars PROVE Owned'
  OBVIOUS
<1>1. ASSUME NEW t \in Tasks, Step(t) \/ Fault(t) PROVE Owned'
  BY <1>1, TaskOwns, OthersOwned DEF Owned
<1>2. ASSUME NEW r \in Requests, Receive(r) PROVE Owned'
  BY <1>2, ReceiveOwned
<1>3. ASSUME NEW r \in Requests, StartJob(r) PROVE Owned'
  <2> DEFINE t == <<r, tries[r] + 1>>
  <2>1. t \in Tasks /\ t[1] = r /\ pc[t] = "idle" /\ job[r] # None
    BY <1>3, RunIsTask, TriesAssumption DEF StartJob, Shape, TypeOK, Undelivered, None
  <2>2. pc' = [pc EXCEPT ![t] = "lookup"]
    BY <1>3 DEF StartJob, Goto
  <2> HIDE DEF t
  <2>3. UNCHANGED <<status, mem, requestVars, staged>>
    BY <1>3 DEF StartJob, dbVars
  <2>4. job' = [job EXCEPT ![r] = "running"]
    BY <1>3 DEF StartJob
  <2> QED BY <2>1, <2>2, <2>3, <2>4, OtherOwned DEF Shape, TypeOK
<1>4. ASSUME NEW r \in Requests, FinishJob(r) PROVE Owned'
  BY <1>4, OtherOwned DEF FinishJob, taskVars, dbVars, Shape, TypeOK, None
<1>5. ASSUME NEW S, Kill(S), UNCHANGED <<status, mem, requestVars>>,
             \A r \in Requests : job[r] = None => job'[r] = None
      PROVE  Owned'
  <2>1. \A t \in Tasks :
          \/ pc'[t] = pc[t] /\ (Live(t) => staged'[t] = staged[t])
          \/ Live(t) /\ pc'[t] = "killed"
    BY <1>5 DEF Kill
  <2> QED BY <1>5, <2>1, OtherOwned
<1>6. ASSUME NEW r \in Requests, JobTimeout(r) PROVE Owned'
  BY <1>5, <1>6 DEF JobTimeout, dbVars, Shape, TypeOK, None
<1>7. CASE CrashApi
  BY <1>5, <1>7 DEF CrashApi, dbVars, queueVars
<1>8. CASE CrashWorker
  BY <1>5, <1>8 DEF CrashWorker, dbVars, None
<1>9. CASE UNCHANGED vars
  BY <1>9, OtherOwned DEF vars, dbVars, taskVars, queueVars
<1> QED BY <1>1, <1>2, <1>3, <1>4, <1>6, <1>7, <1>8, <1>9 DEF Next, Terminated

LEMMA AlwaysOwned == Spec => []Owned
<1>1. Init => Owned
  BY InitOwned
<1>2. Shape /\ Owned /\ [Next]_vars => Owned'
  BY NextOwned
<1> QED BY <1>1, <1>2, AlwaysShape, PTL DEF Spec

-----------------------------------------------------------------------------
(* Steps of the service are steps of the lifecycle *)

\* Results are made by commits only, and keep their document.
LEMMA ResultsUnmoved ==
    ASSUME Shape, Recorded, UNCHANGED extraction,
           \A r \in Requests : pc[Handler(r)] # "idle" => doc'[r] = doc[r]
    PROVE  Results' = Results
<1>1. \A t \in Tasks : extraction[t] # None => Doc(t)' = Doc(t)
  BY TaskParts DEF Recorded, RunRecords, Ended, Shape, IdleRequest, Doc
<1> QED BY <1>1 DEF Results

LEMMA PublishedIsNew ==
    ASSUME Shape, Recorded, NEW t \in Tasks, pc[t] = "committing", Publish(t), UNCHANGED doc
    PROVE  /\ Results' = Results \cup
                  {[run |-> t, doc |-> Doc(t), status |-> ExtractionStatusFor(outcome[t])]}
           /\ \A p \in Results : p.run # t
<1>1. extraction[t] = None
  BY DEF Recorded, RunRecords, Ended
<1>2. \A p \in Results : p.run # t
  BY <1>1 DEF Results
<1>3. extraction' = [extraction EXCEPT ![t] = ExtractionStatusFor(outcome[t])]
  BY DEF Publish, Recorded, RunRecords
<1>4. ExtractionStatusFor(outcome[t]) # None
  BY DEF Shape, OutcomeKnown, Recording, ExtractionStatusFor, ExtractionStatus, None
<1>5. \A u \in Tasks : Doc(u)' = Doc(u)
  BY DEF Doc
<1>6. {u \in Tasks : extraction'[u] # None} = {u \in Tasks : extraction[u] # None} \cup {t}
  BY <1>1, <1>3, <1>4 DEF Shape, TypeOK
<1>7. \A u \in Tasks : u # t => extraction'[u] = extraction[u]
  BY <1>3 DEF Shape, TypeOK
<1>8. extraction'[t] = ExtractionStatusFor(outcome[t])
  BY <1>3 DEF Shape, TypeOK
<1> QED BY <1>1, <1>2, <1>5, <1>6, <1>7, <1>8 DEF Results

\* The commit of a recording publishes a result with the status that goes with it.
LEMMA CommitIsPublish ==
    ASSUME Shape, Recorded, Owned, NEW t \in Tasks, pc[t] = "committing", Publish(t),
           UNCHANGED doc
    PROVE  \E d \in Docs : Lifecycle!Publish(t, d)
<1> DEFINE s == ExtractionStatusFor(outcome[t])
<1>1. Doc(t) \in Docs /\ status[Doc(t)] # "absent"
  BY DEF Shape, HasDocument, Registered, WorkSteps, Live, Steps
<1>2. /\ s \in Lifecycle!ExtractionStatus
      /\ DocumentStatusFor(outcome[t]) = Lifecycle!StatusFor(s)
  BY DEF Shape, OutcomeKnown, Recording, ExtractionStatusFor, ExtractionStatus,
         Lifecycle!ExtractionStatus, DocumentStatusFor, Lifecycle!StatusFor
<1>3. status' = [status EXCEPT ![Doc(t)] = Lifecycle!StatusFor(s)]
  BY <1>2 DEF Publish, Owned, InHand, Recorded, RunRecords
<1>4. /\ Results' = Results \cup {[run |-> t, doc |-> Doc(t), status |-> s]}
      /\ \A p \in Results : p.run # t
  BY PublishedIsNew
<1> HIDE DEF s
<1>5. Lifecycle!Publish(t, Doc(t))
  BY <1>1, <1>2, <1>3, <1>4 DEF Lifecycle!Publish
<1> QED BY <1>1, <1>5

\* A status write that is not elided begins a run or gives one up.
LEMMA WriteIsStep ==
    ASSUME Shape, Recorded, NEW t \in Tasks, pc[t] \in {"starting", "failing"},
           WriteStatus(t, IF pc[t] = "starting" THEN "PROCESSING" ELSE "FAILED"),
           UNCHANGED <<extraction, doc>>
    PROVE  [Lifecycle!Next]_Lifecycle!vars
<1>1. Doc(t) \in Docs /\ status[Doc(t)] # "absent"
  BY DEF Shape, HasDocument, Registered, WorkSteps, Live, Steps
<1>2. Results' = Results
  BY ResultsUnmoved
<1>3. \/ UNCHANGED status
      \/ status' = [status EXCEPT ![Doc(t)] = "PROCESSING"]
      \/ status' = [status EXCEPT ![Doc(t)] = "FAILED"]
  BY DEF WriteStatus
<1> QED BY <1>1, <1>2, <1>3
        DEF Lifecycle!Next, Lifecycle!vars, Lifecycle!Begin, Lifecycle!GiveUp

LEMMA InsertIsRegister ==
    ASSUME Shape, Recorded, Owned, NEW t \in Tasks, pc[t] = "creating", InsertDocument(t),
           UNCHANGED <<extraction, doc>>
    PROVE  Lifecycle!Next
<1>1. Doc(t) \in Docs /\ status[Doc(t)] = "absent"
  BY DEF Shape, HasDocument, Live, Steps, Owned, Claim, Intake
<1>2. Results' = Results
  BY ResultsUnmoved
<1> QED BY <1>1, <1>2 DEF InsertDocument, InitialStatus, Lifecycle!Next,
                          Lifecycle!Register

LEMMA TaskRefines ==
    ASSUME Shape, Recorded, Owned, NEW t \in Tasks, Step(t) \/ Fault(t)
    PROVE  [Lifecycle!Next]_Lifecycle!vars
<1> USE DEF dbVars, requestVars
<1>1. UNCHANGED doc
  BY RequestsUnmoved
<1>2. CASE UNCHANGED <<status, extraction>>
  BY <1>1, <1>2, ResultsUnmoved DEF Lifecycle!vars
<1>3. CASE CommitRecord(t) \/ (CommitInDoubt(t) /\ pc[t] = "committing")
  BY <1>1, <1>3, CommitIsPublish DEF CommitRecord, CommitInDoubt, Lifecycle!Next
<1>4. CASE CreateDocument(t) \/ (CommitInDoubt(t) /\ pc[t] = "creating")
  BY <1>1, <1>4, InsertIsRegister DEF CreateDocument, CommitInDoubt
<1>5. CASE \/ StartProcessing(t) \/ MarkFailed(t)
           \/ CommitInDoubt(t) /\ pc[t] \in {"starting", "failing"}
  BY <1>1, <1>5, WriteIsStep DEF StartProcessing, MarkFailed, CommitInDoubt
<1>6. CASE SaveUpload(t) \/ RefreshDocument(t) \/ UndoUpload(t) \/ EnqueueJob(t)
           \/ LookupDocument(t) \/ DocumentNotFound(t) \/ LoadDocument(t) \/ ProcessPages(t)
           \/ StageStatus(t) \/ StageAudit(t) \/ MarkFailedRaises(t)
           \/ SaveFails(t) \/ EnqueueFails(t) \/ LoadFails(t) \/ DatabaseError(t)
  <2>1. UNCHANGED <<status, extraction>>
    BY <1>6 DEF SaveUpload, RefreshDocument, UndoUpload, EnqueueJob, LookupDocument,
                DocumentNotFound, LoadDocument, ProcessPages, StageStatus, StageAudit,
                MarkFailedRaises, SaveFails, EnqueueFails, LoadFails, DatabaseError
  <2> QED BY <1>2, <2>1
<1>7. CommitInDoubt(t) => pc[t] \in {"creating", "starting", "failing", "committing"}
  BY DEF CommitInDoubt
<1> QED BY <1>3, <1>4, <1>5, <1>6, <1>7 DEF Step, Fault

\* Arrivals, deliveries and crashes change nothing a client of the lifecycle sees.
LEMMA OtherRefines ==
    ASSUME Shape, Recorded, NEW r \in Requests,
           Receive(r) \/ StartJob(r) \/ FinishJob(r) \/ JobTimeout(r)
    PROVE  UNCHANGED Lifecycle!vars
<1>1. /\ UNCHANGED <<status, extraction>>
      /\ \A q \in Requests : pc[Handler(q)] # "idle" => doc'[q] = doc[q]
  BY DEF Receive, ReceiveUpload, RejectUpload, ReceiveDocumentId, ReceiveRequest,
         StartJob, FinishJob, JobTimeout, dbVars, requestVars, Shape, TypeOK
<1> QED BY <1>1, ResultsUnmoved DEF Lifecycle!vars

\* The service implements the document lifecycle for any number of requests,
\* documents and deliveries and under every fault: a result and its status appear
\* in one step, an id is registered once, and nothing vanishes (documents.py:118-374).
THEOREM ServiceImplementsLifecycle == Spec => ImplementsLifecycle
<1>1. Init => Lifecycle!Init
  BY DEF Init, Lifecycle!Init, Results
<1>2. Shape /\ Recorded /\ Owned /\ [Next]_vars => [Lifecycle!Next]_Lifecycle!vars
  <2> SUFFICES ASSUME Shape, Recorded, Owned, [Next]_vars
               PROVE  [Lifecycle!Next]_Lifecycle!vars
    OBVIOUS
  <2>1. ASSUME NEW t \in Tasks, Step(t) \/ Fault(t) PROVE [Lifecycle!Next]_Lifecycle!vars
    BY <2>1, TaskRefines
  <2>2. ASSUME NEW r \in Requests,
               Receive(r) \/ StartJob(r) \/ FinishJob(r) \/ JobTimeout(r)
        PROVE  [Lifecycle!Next]_Lifecycle!vars
    BY <2>2, OtherRefines
  <2>3. CASE CrashApi \/ CrashWorker \/ UNCHANGED vars
    <3>1. UNCHANGED <<status, extraction, doc>>
      BY <2>3 DEF CrashApi, CrashWorker, vars, dbVars, requestVars
    <3> QED BY <3>1, ResultsUnmoved DEF Lifecycle!vars
  <2> QED BY <2>1, <2>2, <2>3 DEF Next, Terminated
<1> QED BY <1>1, <1>2, AlwaysShape, AlwaysRecorded, AlwaysOwned, PTL
        DEF Spec, ImplementsLifecycle, Lifecycle!Spec

-----------------------------------------------------------------------------
(* PART 3: until a fault strikes *)

-----------------------------------------------------------------------------
(* Faults are not forgotten *)

LEMMA FaultsGrow ==
    ASSUME Shape, [Next]_vars
    PROVE  faults.kinds \subseteq faults'.kinds
<1>1. faults' = faults \/ \E f : Strike(f) => faults.kinds \subseteq faults'.kinds
  BY DEF Strike
<1>2. \A f : Strike(f) => faults.kinds \subseteq faults'.kinds
  BY DEF Strike
<1>3. ASSUME NEW t \in Tasks, Step(t) PROVE faults' = faults \/ \E f : Strike(f)
  BY <1>3 DEF Step, SaveUpload, CreateDocument, RefreshDocument, UndoUpload, EnqueueJob,
              LookupDocument, DocumentNotFound, StartProcessing, LoadDocument,
              ProcessPages, StageStatus, StageAudit, CommitRecord, MarkFailed,
              MarkFailedRaises
<1>4. ASSUME NEW t \in Tasks, Fault(t) PROVE \E f : Strike(f)
  BY <1>4 DEF Fault, SaveFails, EnqueueFails, LoadFails, DatabaseError, CommitInDoubt
<1>5. ASSUME NEW r \in Requests,
             Receive(r) \/ StartJob(r) \/ FinishJob(r) \/ JobTimeout(r)
      PROVE  faults' = faults \/ \E f : Strike(f)
  BY <1>5 DEF Receive, ReceiveUpload, RejectUpload, ReceiveDocumentId, StartJob,
              FinishJob, JobTimeout
<1>6. CASE CrashApi \/ CrashWorker
  BY <1>2, <1>6 DEF CrashApi, CrashWorker
<1>7. CASE UNCHANGED vars
  BY <1>7 DEF vars
<1> QED BY <1>2, <1>3, <1>4, <1>5, <1>6, <1>7 DEF Next, Terminated

\* What is spared after a step was spared before it, and the step struck none of it.
LEMMA SparedStays ==
    ASSUME Shape, [Next]_vars, NEW F, Spared(F)'
    PROVE  Spared(F) /\ \A f \in F : ~Strike(f)
BY FaultsGrow DEF Spared, Strike

\* A request that arrives moves its own handler only.
LEMMA ReceiveMoves ==
    ASSUME Shape, NEW r \in Requests, Receive(r)
    PROVE  /\ pc[Handler(r)] = "idle"
           /\ pc'[Handler(r)] \in {"saving", "raised", "lookup"}
           /\ \A t \in Tasks : t # Handler(r) => pc'[t] = pc[t]
           /\ \A q \in Requests : q # r => doc'[q] = doc[q] /\ kind'[q] = kind[q]
           /\ UNCHANGED <<status, extraction, job, tries, mem, outcome, broken, faults>>
<1> USE HandlerIsTask DEF Shape, TypeOK, Goto, dbVars, queueVars, ReceiveRequest
<1>1. CASE ReceiveUpload(r)
  BY <1>1 DEF ReceiveUpload
<1>2. CASE RejectUpload(r)
  BY <1>2 DEF RejectUpload
<1>3. CASE ReceiveDocumentId(r)
  BY <1>3 DEF ReceiveDocumentId
<1> QED BY <1>1, <1>2, <1>3 DEF Receive

-----------------------------------------------------------------------------
(* One request, one extraction *)

\* Without a retry a request with a job has an idle handler that extracted
\* nothing, and the job is delivered once.
Once(r) ==
    /\ job[r] # None => pc[Handler(r)] = "returned" /\ extraction[Handler(r)] = None
    /\ job[r] \in {None, "queued"} => tries[r] = 0
    /\ tries[r] \in {0, 1}

EnqueuedByHandler == \A t \in Tasks : pc[t] = "enqueueing" => ~IsRun(t)

Single == EnqueuedByHandler /\ (Spared(Retried) => \A r \in Requests : Once(r))

LEMMA InitSingle == Init => Single
BY DEF Init, Single, EnqueuedByHandler, Once

\* Only a handler that nothing was delivered for puts a job on the queue.
LEMMA TaskOnce ==
    ASSUME Shape, Recorded, Owned, EnqueuedByHandler, \A r \in Requests : Once(r),
           NEW t \in Tasks, Step(t) \/ Fault(t), \A f \in Retried : ~Strike(f),
           NEW r \in Requests
    PROVE  Once(r)'
<1> USE TaskParts, HandlerIsTask DEF Shape, TypeOK
<1>1. Live(t) /\ UNCHANGED tries
  BY OwnDocument
     DEF Step, SaveUpload, CreateDocument, RefreshDocument, UndoUpload, EnqueueJob,
              LookupDocument, DocumentNotFound, StartProcessing, LoadDocument,
              ProcessPages, StageStatus, StageAudit, CommitRecord, MarkFailed,
              MarkFailedRaises, Fault, SaveFails, EnqueueFails, LoadFails, DatabaseError,
              CommitInDoubt, queueVars
<1>2. Once(r)
  OBVIOUS
<1>3. ASSUME job'[r] = job[r] PROVE Once(r)'
  <2>1. CASE job[r] = None
    BY <1>1, <1>2, <1>3, <2>1 DEF Once
  <2>2. CASE job[r] # None
    <3>1. Handler(r) # t
      BY <1>1, <1>2, <2>2 DEF Once, Live, Steps
    <3> QED BY <1>1, <1>2, <1>3, <3>1, OthersUnmoved DEF Once, Handler
  <2> QED BY <2>1, <2>2
<1>4. CASE EnqueueJob(t) /\ t[1] = r
  <2>1. t = Handler(r)
    BY <1>4 DEF EnqueueJob, EnqueuedByHandler, IsRun, Handler
  <2>2. job[r] = None /\ extraction[t] = None
    BY <1>2, <1>4, <2>1 DEF EnqueueJob, Once, Recorded, RunRecords, Ended
  <2> QED BY <1>1, <1>2, <1>4, <2>1, <2>2
          DEF EnqueueJob, Once, Goto, PutJob, dbVars, Handler
<1>5. job'[r] = job[r] \/ (EnqueueJob(t) /\ t[1] = r)
  <2>1. CASE t[1] # r
    BY <2>1, OwnDocument
  <2>2. CASE t[1] = r
    BY <2>2 DEF Step, SaveUpload, CreateDocument, RefreshDocument, UndoUpload,
         LookupDocument, DocumentNotFound, StartProcessing, LoadDocument,
         ProcessPages, StageStatus, StageAudit, CommitRecord, MarkFailed,
         MarkFailedRaises, Fault, SaveFails, EnqueueFails, LoadFails, DatabaseError,
         CommitInDoubt, queueVars, Retried
  <2> QED BY <2>1, <2>2
<1> QED BY <1>3, <1>4, <1>5

LEMMA TaskEnqueues ==
    ASSUME Shape, Owned, EnqueuedByHandler, NEW t \in Tasks, Step(t) \/ Fault(t)
    PROVE  EnqueuedByHandler'
<1> SUFFICES ASSUME NEW u \in Tasks, pc'[u] = "enqueueing" PROVE ~IsRun(u)
  BY DEF EnqueuedByHandler, IsRun
<1>1. CASE u # t
  BY <1>1, OthersUnmoved DEF EnqueuedByHandler
<1>2. CASE u = t
  <2>1. RefreshDocument(t) \/ LookupDocument(t)
    BY <1>2 DEF Step, SaveUpload, CreateDocument, UndoUpload, EnqueueJob,
         DocumentNotFound, StartProcessing, AfterStart, LoadDocument,
         ProcessPages, OnProcessingError, StageStatus, StageAudit, CommitRecord,
         AfterCommit, MarkFailed, MarkFailedRaises, Fault, SaveFails, EnqueueFails,
         OnEnqueueError, LoadFails, DatabaseError, CommitInDoubt, SessionBreaks,
         OnDatabaseError, Goto, Shape, TypeOK
  <2>2. CASE RefreshDocument(t)
    BY <1>2, <2>2 DEF RefreshDocument, Owned, Claim, Intake
  <2>3. CASE LookupDocument(t)
    BY <1>2, <2>3 DEF LookupDocument, AfterLookup, Goto, Shape, TypeOK
  <2> QED BY <2>1, <2>2, <2>3
<1> QED BY <1>1, <1>2

LEMMA NextSingle == Shape /\ Recorded /\ Owned /\ Single /\ [Next]_vars => Single'
<1> SUFFICES ASSUME Shape, Recorded, Owned, Single, [Next]_vars PROVE Single'
  OBVIOUS
<1> USE TaskParts, HandlerIsTask DEF Shape, TypeOK
<1>1. ASSUME NEW t \in Tasks, Step(t) \/ Fault(t) PROVE Single'
  BY <1>1, TaskEnqueues, TaskOnce, SparedStays DEF Single
<1>2. ASSUME UNCHANGED <<extraction, faults>>,
             \A t \in Tasks : pc'[t] = "enqueueing" => pc[t] = "enqueueing",
             \A r \in Requests : Once(r) =>
                /\ job'[r] # None => job[r] # None /\ pc'[Handler(r)] = pc[Handler(r)]
                /\ job'[r] \in {None, "queued"} => tries'[r] = 0
                /\ tries'[r] \in {0, 1}
      PROVE  Single'
  BY <1>2 DEF Single, EnqueuedByHandler, Once, Spared
<1>3. ASSUME NEW r \in Requests, Receive(r) PROVE Single'
  <2>1. /\ pc[Handler(r)] = "idle" /\ pc'[Handler(r)] # "enqueueing"
        /\ \A t \in Tasks : t # Handler(r) => pc'[t] = pc[t]
        /\ UNCHANGED <<extraction, faults, job, tries>>
    BY <1>3, ReceiveMoves
  <2>2. job[r] = None
    BY <2>1 DEF IdleRequest
  <2> QED BY <1>2, <2>1, <2>2 DEF Once
<1>4. ASSUME NEW r \in Requests, StartJob(r) PROVE Single'
  <2> DEFINE t == <<r, tries[r] + 1>>
  <2>1. t \in Tasks /\ t[2] # 0 /\ pc' = [pc EXCEPT ![t] = "lookup"]
    BY <1>4, RunIsTask, TriesAssumption DEF StartJob, Goto
  <2>2. \A q \in Requests : Handler(q) # t
    BY <2>1
  <2> HIDE DEF t
  <2>3. /\ job' = [job EXCEPT ![r] = "running"] /\ job[r] = "queued"
        /\ tries' = [tries EXCEPT ![r] = tries[r] + 1]
        /\ UNCHANGED <<extraction, faults>>
    BY <1>4 DEF StartJob, dbVars
  <2> QED BY <1>2, <2>1, <2>2, <2>3 DEF Once, None
<1>5. ASSUME NEW r \in Requests, FinishJob(r) PROVE Single'
  BY <1>2, <1>5 DEF FinishJob, Once, dbVars, taskVars, None
<1>6. ASSUME NEW S, Kill(S), UNCHANGED <<extraction, tries>>,
             \A r \in Requests : job'[r] = job[r]
                \/ (job[r] = "running" /\ job'[r] = "finished")
      PROVE  Single'
  <2>1. \A t \in Tasks : pc'[t] = pc[t] \/ (Live(t) /\ pc'[t] = "killed")
    BY <1>6 DEF Kill
  <2>2. EnqueuedByHandler'
    BY <2>1 DEF Single, EnqueuedByHandler, IsRun
  <2>3. ASSUME Spared(Retried)', NEW r \in Requests PROVE Once(r)'
    <3>1. Once(r)
      BY <2>3, SparedStays DEF Single
    <3>2. job'[r] # None => pc'[Handler(r)] = "returned"
      BY <1>6, <2>1, <3>1 DEF Once, Live, Steps, None
    <3> QED BY <1>6, <3>1, <3>2 DEF Once, None
  <2> QED BY <2>2, <2>3 DEF Single
<1>7. ASSUME NEW r \in Requests, JobTimeout(r) PROVE Single'
  BY <1>6, <1>7 DEF JobTimeout, dbVars
<1>8. CASE CrashApi
  BY <1>6, <1>8 DEF CrashApi, dbVars, queueVars
<1>9. CASE CrashWorker
  <2>1. EnqueuedByHandler'
    BY <1>9 DEF CrashWorker, Kill, Single, EnqueuedByHandler, IsRun
  <2>2. ~Spared(Retried)'
    BY <1>9, SparedStays DEF CrashWorker, Retried
  <2> QED BY <2>1, <2>2 DEF Single
<1>10. CASE UNCHANGED vars
  BY <1>2, <1>10 DEF vars, dbVars, queueVars, taskVars, Once
<1> QED BY <1>1, <1>3, <1>4, <1>5, <1>7, <1>8, <1>9, <1>10 DEF Next, Terminated

LEMMA AlwaysSingle == Spec => []Single
<1>1. Init => Single
  BY InitSingle
<1>2. Shape /\ Recorded /\ Owned /\ Single /\ [Next]_vars => Single'
  BY NextSingle
<1> QED BY <1>1, <1>2, AlwaysShape, AlwaysRecorded, AlwaysOwned, PTL DEF Spec

\* A request is extracted and billed at most once, by its handler or by its job,
\* for any number of requests and any faults other than a lost reply of Redis
\* and the death of a worker.
THEOREM RequestExtractedOnce == Spec => []ExtractedOnce
<1>1. Shape /\ Recorded /\ Single => ExtractedOnce
  <2> SUFFICES ASSUME Shape, Recorded, \A r \in Requests : Once(r),
                      NEW t \in Tasks, NEW u \in Tasks, t[1] = u[1],
                      extraction[t] # None, extraction[u] # None
               PROVE  t = u
    BY DEF Single, ExtractedOnce
  <2> DEFINE r == t[1]
  <2>1. pc[t] # "idle" /\ pc[u] # "idle"
    BY DEF Recorded, RunRecords, Ended
  <2>2. t[2] <= tries[r] /\ u[2] <= tries[r]
    BY <2>1, TaskParts DEF Shape, TypeOK, Undelivered
  <2>3. tries[r] = 1 => extraction[Handler(r)] = None
    BY TaskParts DEF Once
  <2>4. t[2] \in {0, 1} /\ u[2] \in {0, 1}
    BY <2>2, TaskParts DEF Once
  <2>5. t = <<r, t[2]>> /\ u = <<r, u[2]>>
    BY TaskParts
  <2>6. CASE tries[r] = 0
    BY <2>2, <2>4, <2>5, <2>6
  <2>7. CASE tries[r] = 1
    <3>1. t # <<r, 0>> /\ u # <<r, 0>>
      BY <2>3, <2>7 DEF Handler
    <3> QED BY <2>4, <2>5, <3>1
  <2> QED BY <2>6, <2>7, TaskParts DEF Once
<1> QED BY <1>1, AlwaysShape, AlwaysRecorded, AlwaysSingle, PTL

-----------------------------------------------------------------------------
(* Rows and files *)

LEMMA FileMoves ==
    ASSUME Shape, NEW t \in Tasks, Step(t) \/ Fault(t)
    PROVE  /\ UNCHANGED file \/ SaveUpload(t) \/ SaveFails(t) \/ UndoUpload(t)
           /\ \A d \in Docs : d # Doc(t) => file'[d] = file[d]
BY DEF Shape, TypeOK, Step, SaveUpload, CreateDocument, RefreshDocument, UndoUpload,
       EnqueueJob, LookupDocument, DocumentNotFound, StartProcessing, LoadDocument, ProcessPages,
       StageStatus, StageAudit, CommitRecord, MarkFailed, MarkFailedRaises, Fault,
       SaveFails, EnqueueFails, LoadFails, DatabaseError, CommitInDoubt

LEMMA PublishedStatus ==
    ASSUME Shape, NEW t \in Tasks, Doc(t) \in Docs, Publish(t)
    PROVE  status' = status \/ status'[Doc(t)] \in DocumentStatus
BY DEF Publish, Shape, TypeOK, Pending

\* Only CreateDocument makes a row, unless the answer to its commit is lost; no
\* step removes one.
LEMMA RowMoves ==
    ASSUME Shape, Recorded, NEW t \in Tasks, Step(t) \/ Fault(t), NEW d \in Docs
    PROVE  /\ status[d] # "absent" => status'[d] # "absent"
           /\ status[d] = "absent" /\ status'[d] # "absent" =>
                CreateDocument(t) \/ (CommitInDoubt(t) /\ pc[t] = "creating")
<1> USE DEF Shape, TypeOK, dbVars
<1>1. CASE UNCHANGED status
  BY <1>1
<1>2. CASE CreateDocument(t) \/ (CommitInDoubt(t) /\ pc[t] = "creating")
  BY <1>2 DEF CreateDocument, CommitInDoubt, InsertDocument, InitialStatus
<1>3. CASE StartProcessing(t) \/ MarkFailed(t) \/ CommitRecord(t)
           \/ (CommitInDoubt(t) /\ pc[t] # "creating")
  <2>1. status[Doc(t)] # "absent"
    BY <1>3 DEF StartProcessing, MarkFailed, CommitRecord, CommitInDoubt, Registered,
                WorkSteps, Steps
  <2>2. \A e \in Docs : e # Doc(t) => status'[e] = status[e]
    BY OwnDocument
  <2>3. status' = status \/ status'[Doc(t)] \in DocumentStatus
    BY <1>3, PublishedStatus
       DEF StartProcessing, MarkFailed, CommitRecord, CommitInDoubt, WriteStatus,
           DocumentStatus, HasDocument, Live, Steps
  <2> QED BY <2>1, <2>2, <2>3 DEF DocumentStatus
<1> QED BY <1>1, <1>2, <1>3
        DEF Step, SaveUpload, RefreshDocument, UndoUpload, EnqueueJob, LookupDocument,
            DocumentNotFound, LoadDocument, ProcessPages, StageStatus, StageAudit,
            MarkFailedRaises, Fault, SaveFails, EnqueueFails, LoadFails, DatabaseError

\* A row has its file, the file is stored before its row is inserted, and what is
\* undone has no row.
FileKept ==
    Spared({"in_doubt"}) =>
        /\ \A d \in Docs : status[d] # "absent" => file[d] = "saved"
        /\ \A t \in Tasks : pc[t] = "creating" => file[Doc(t)] = "saved"
        /\ \A t \in Tasks : pc[t] = "undoing" => status[Doc(t)] = "absent"

LEMMA TaskKeepsFile ==
    ASSUME Shape, Recorded, Owned, FileKept, NEW t \in Tasks, Step(t) \/ Fault(t),
           Spared({"in_doubt"}), ~Strike("in_doubt")
    PROVE  FileKept'
<1> USE DEF Shape, TypeOK, dbVars
<1> DEFINE d == Doc(t)
<1>1. Live(t) /\ UNCHANGED doc /\ d \in Docs
  BY OwnDocument, RequestsUnmoved DEF requestVars, HasDocument
<1>2. ASSUME NEW u \in Tasks, u # t, pc[u] \in Intake PROVE Doc(u) # d /\ Doc(u) \in Docs
  BY <1>1, <1>2 DEF Owned, Claim, Alone, Live, Steps, Intake, HasDocument
<1>3. ~CommitInDoubt(t)
  BY DEF CommitInDoubt
<1>4. ASSUME NEW e \in Docs, status'[e] # "absent" PROVE file'[e] = "saved"
  <2>1. CASE status[e] # "absent"
    <3>1. file[e] = "saved"
      BY <2>1 DEF FileKept
    <3>2. SaveFails(t) \/ UndoUpload(t) => e # d
      BY <2>1 DEF SaveFails, UndoUpload, FileKept, Owned, Claim, Intake
    <3> QED BY <1>1, <3>1, <3>2, FileMoves DEF SaveUpload
  <2>2. CASE status[e] = "absent"
    <3>1. CreateDocument(t)
      BY <1>3, <1>4, <2>2, RowMoves
    <3>2. e = d
      BY <1>4, <2>2, OwnDocument
    <3> QED BY <3>1, <3>2 DEF CreateDocument, FileKept
  <2> QED BY <2>1, <2>2
<1>5. ASSUME NEW u \in Tasks, pc'[u] = "creating" PROVE file'[Doc(u)] = "saved"
  <2>1. CASE u # t
    BY <1>2, <1>5, <2>1, OthersUnmoved, FileMoves DEF Intake, FileKept
  <2>2. CASE u = t
    <3>1. SaveUpload(t)
      BY <1>3, <1>5, <2>2
         DEF Step, CreateDocument, RefreshDocument, AfterRefresh, UndoUpload, EnqueueJob,
             LookupDocument, AfterLookup, DocumentNotFound, StartProcessing, AfterStart,
             LoadDocument, ProcessPages, OnProcessingError, StageStatus, StageAudit,
             CommitRecord, AfterCommit, MarkFailed, MarkFailedRaises, Fault, SaveFails,
             EnqueueFails, OnEnqueueError, LoadFails, DatabaseError, SessionBreaks,
             OnDatabaseError, Goto
    <3> QED BY <1>1, <2>2, <3>1 DEF SaveUpload
  <2> QED BY <2>1, <2>2
<1>6. ASSUME NEW u \in Tasks, pc'[u] = "undoing" PROVE status'[Doc(u)] = "absent"
  <2>1. CASE u # t
    BY <1>2, <1>6, <2>1, OthersUnmoved, OwnDocument DEF Intake, FileKept
  <2>2. CASE u = t
    <3>1. DatabaseError(t) /\ pc[t] = "creating"
      BY <1>3, <1>6, <2>2
         DEF Step, SaveUpload, CreateDocument, RefreshDocument, AfterRefresh, UndoUpload,
             EnqueueJob, LookupDocument, AfterLookup, DocumentNotFound, StartProcessing, AfterStart,
             LoadDocument, ProcessPages, OnProcessingError, StageStatus, StageAudit,
             CommitRecord, AfterCommit, MarkFailed, MarkFailedRaises, Fault, SaveFails,
             EnqueueFails, OnEnqueueError, LoadFails, DatabaseError, SessionBreaks,
             OnDatabaseError, Goto
    <3> QED BY <2>2, <3>1 DEF DatabaseError, Owned, Claim, Intake
  <2> QED BY <2>1, <2>2
<1>7. \A u \in Tasks : Doc(u)' = Doc(u)
  BY <1>1 DEF Doc
<1> QED BY <1>4, <1>5, <1>6, <1>7 DEF FileKept

LEMMA NextFileKept == Shape /\ Recorded /\ Owned /\ FileKept /\ [Next]_vars => FileKept'
<1> SUFFICES ASSUME Shape, Recorded, Owned, FileKept, [Next]_vars, Spared({"in_doubt"})'
             PROVE  FileKept'
  BY DEF FileKept
<1> USE DEF Shape, TypeOK, dbVars, requestVars
<1>1. Spared({"in_doubt"}) /\ ~Strike("in_doubt")
  BY SparedStays
<1>2. ASSUME NEW t \in Tasks, Step(t) \/ Fault(t) PROVE FileKept'
  BY <1>1, <1>2, TaskKeepsFile
<1>3. ASSUME UNCHANGED <<status, file>>,
             \A t \in Tasks : pc'[t] \in {"creating", "undoing"} =>
                pc'[t] = pc[t] /\ Doc(t)' = Doc(t)
      PROVE  FileKept'
  BY <1>1, <1>3 DEF FileKept
<1>4. ASSUME NEW r \in Requests, Receive(r) PROVE FileKept'
  <2>1. /\ UNCHANGED status
        /\ \A t \in Tasks : pc'[t] \in {"creating", "undoing"} =>
                pc'[t] = pc[t] /\ Doc(t)' = Doc(t)
    <3>1. \A t \in Tasks : t[1] = r => pc[t] = "idle"
      BY <1>4, ReceiveMoves, TaskParts DEF IdleRequest
    <3>2. /\ \A t \in Tasks : t # Handler(r) => pc'[t] = pc[t]
          /\ \A q \in Requests : q # r => doc'[q] = doc[q]
          /\ pc'[Handler(r)] \notin {"creating", "undoing"} /\ UNCHANGED status
      BY <1>4, ReceiveMoves
    <3>3. ASSUME NEW t \in Tasks, pc'[t] \in {"creating", "undoing"}
          PROVE  pc'[t] = pc[t] /\ Doc(t)' = Doc(t)
      <4>1. t # Handler(r) /\ pc'[t] = pc[t]
        BY <3>2, <3>3
      <4>2. t[1] # r
        BY <3>1, <3>3, <4>1
      <4> QED BY <3>2, <4>1, <4>2, TaskParts DEF Doc
    <3> QED BY <3>2, <3>3
  <2>2. CASE UNCHANGED file
    BY <1>3, <2>1, <2>2
  <2>3. CASE ReceiveUpload(r)
    <3>1. PICK d \in Docs : Unused(d) /\ file' = [file EXCEPT ![d] = "partial"]
      BY <2>3 DEF ReceiveUpload
    <3>2. \A t \in Tasks : Doc(t) # d
      BY <3>1, TaskParts DEF Unused, Doc
    <3>3. \A e \in Docs : e # d => file'[e] = file[e]
      BY <3>1
    <3>4. \A t \in Tasks : pc[t] = "creating" => Doc(t) \in Docs
      BY DEF HasDocument, Live, Steps
    <3> QED BY <1>1, <2>1, <3>1, <3>2, <3>3, <3>4 DEF FileKept, Unused
  <2> QED BY <1>4, <2>2, <2>3 DEF Receive, RejectUpload, ReceiveDocumentId
<1>5. ASSUME NEW r \in Requests, StartJob(r) PROVE FileKept'
  BY <1>3, <1>5 DEF StartJob, Goto, Doc
<1>6. ASSUME NEW r \in Requests, FinishJob(r) PROVE FileKept'
  BY <1>3, <1>6 DEF FinishJob, taskVars, Doc
<1>7. ASSUME NEW S, Kill(S), UNCHANGED <<status, file, doc>> PROVE FileKept'
  BY <1>3, <1>7 DEF Kill, Doc
<1>8. CASE CrashApi \/ CrashWorker \/ \E r \in Requests : JobTimeout(r)
  BY <1>7, <1>8 DEF CrashApi, CrashWorker, JobTimeout
<1>9. CASE UNCHANGED vars
  BY <1>3, <1>9 DEF vars, taskVars, Doc
<1> QED BY <1>2, <1>4, <1>5, <1>6, <1>8, <1>9 DEF Next, Terminated

\* A registered document has its file for any number of requests, whatever races,
\* fails or dies, as long as no answer to a commit is lost (documents.py:118-184).
THEOREM DocumentKeepsFile == Spec => []DocumentHasFile
<1>1. Init => FileKept
  BY DEF Init, FileKept
<1>2. Shape /\ Recorded /\ Owned /\ FileKept /\ [Next]_vars => FileKept'
  BY NextFileKept
<1>3. FileKept => DocumentHasFile
  BY DEF FileKept, DocumentHasFile
<1> QED BY <1>1, <1>2, <1>3, AlwaysShape, AlwaysRecorded, AlwaysOwned, PTL DEF Spec

\* A file without a row is being saved, registered or deleted by its handler.
Attending == {"saving", "creating", "undoing"}
Unattended == {"save", "undo", "api_crash"}

Attended ==
    Spared(Unattended) =>
        \A d \in Docs : status[d] = "absent" /\ file[d] # None =>
            \E t \in Tasks : Doc(t) = d /\ pc[t] \in Attending

LEMMA TaskAttends ==
    ASSUME Shape, Recorded, Owned, NEW t \in Tasks, Step(t) \/ Fault(t),
           \A f \in Unattended : ~Strike(f),
           NEW d \in Docs, status'[d] = "absent", file'[d] # None,
           file[d] # None => \E u \in Tasks : Doc(u) = d /\ pc[u] \in Attending
    PROVE  \E u \in Tasks : Doc(u)' = d /\ pc'[u] \in Attending
<1> USE DEF Shape, TypeOK, dbVars
<1>1. status[d] = "absent" /\ Live(t) /\ \A u \in Tasks : Doc(u)' = Doc(u)
  BY RowMoves, OwnDocument, RequestsUnmoved DEF requestVars, Doc
<1>2. CASE d # Doc(t)
  <2>1. PICK u \in Tasks : Doc(u) = d /\ pc[u] \in Attending
    BY <1>2, FileMoves
  <2>2. pc'[u] = pc[u]
    BY <1>2, <2>1, OthersUnmoved
  <2> QED BY <1>1, <2>1, <2>2
<1>3. CASE d = Doc(t)
  <2>1. ~SaveFails(t)
    BY DEF SaveFails, Unattended
  <2>2. ~UndoUpload(t)
    BY <1>3 DEF UndoUpload, Unattended, None
  <2>3. CASE SaveUpload(t)
    BY <1>1, <1>3, <2>3 DEF SaveUpload, Goto, Attending
  <2>4. CASE UNCHANGED file
    <3>1. PICK u \in Tasks : Doc(u) = d /\ pc[u] \in Attending
      BY <2>4
    <3>2. u = t
      BY <1>1, <1>3, <3>1 DEF Owned, Claim, Alone, Intake, Attending, Live, Steps
    <3>3. (DatabaseError(t) /\ pc[t] = "creating") \/ SaveUpload(t)
      <4>1. ~CreateDocument(t) /\ ~(CommitInDoubt(t) /\ pc[t] = "creating")
        BY <1>3 DEF CreateDocument, CommitInDoubt, InsertDocument, InitialStatus
      <4> QED BY <2>1, <2>2, <3>1, <3>2, <4>1
              DEF Attending, Step, RefreshDocument, EnqueueJob, LookupDocument,
                  DocumentNotFound, StartProcessing, LoadDocument, ProcessPages,
                  StageStatus, StageAudit, CommitRecord, MarkFailed, MarkFailedRaises,
                  Fault, EnqueueFails, LoadFails, DatabaseError, DatabaseSteps,
                  CommitInDoubt
    <3> QED BY <1>1, <1>3, <2>3, <3>3
            DEF DatabaseError, SessionBreaks, OnDatabaseError, Goto, Attending
  <2> QED BY <2>1, <2>2, <2>3, <2>4, FileMoves
<1> QED BY <1>2, <1>3

LEMMA NextAttended == Shape /\ Recorded /\ Owned /\ Attended /\ [Next]_vars => Attended'
<1> SUFFICES ASSUME Shape, Recorded, Owned, Attended, [Next]_vars, Spared(Unattended)',
                    NEW d \in Docs, status'[d] = "absent", file'[d] # None
             PROVE  \E t \in Tasks : Doc(t)' = d /\ pc'[t] \in Attending
  BY DEF Attended
<1> USE DEF Shape, TypeOK, dbVars, requestVars
<1>1. Spared(Unattended) /\ \A f \in Unattended : ~Strike(f)
  BY SparedStays
<1>2. ASSUME NEW t \in Tasks, Step(t) \/ Fault(t)
      PROVE  \E u \in Tasks : Doc(u)' = d /\ pc'[u] \in Attending
  <2>1. status[d] = "absent"
    BY <1>2, RowMoves
  <2>2. file[d] # None => \E u \in Tasks : Doc(u) = d /\ pc[u] \in Attending
    BY <1>1, <2>1 DEF Attended
  <2> QED BY <1>1, <1>2, <2>2, TaskAttends
<1>3. ASSUME status'[d] = status[d], file'[d] = file[d],
             \A t \in Tasks : pc[t] \in Attending => pc'[t] = pc[t] /\ Doc(t)' = Doc(t)
      PROVE  \E t \in Tasks : Doc(t)' = d /\ pc'[t] \in Attending
  <2>1. PICK t \in Tasks : Doc(t) = d /\ pc[t] \in Attending
    BY <1>1, <1>3 DEF Attended
  <2> QED BY <1>3, <2>1
<1>4. ASSUME NEW r \in Requests, Receive(r)
      PROVE  \E t \in Tasks : Doc(t)' = d /\ pc'[t] \in Attending
  <2>1. CASE file'[d] = file[d]
    <3>1. \A t \in Tasks : t[1] = r => pc[t] = "idle"
      BY <1>4, ReceiveMoves, TaskParts DEF IdleRequest
    <3> QED BY <1>3, <1>4, <2>1, <3>1, ReceiveMoves, TaskParts DEF Doc, Attending
  <2>2. CASE file'[d] # file[d]
    <3>1. doc'[r] = d /\ pc'[Handler(r)] = "saving"
      BY <1>4, <2>2, HandlerIsTask
         DEF Receive, ReceiveUpload, RejectUpload, ReceiveDocumentId, ReceiveRequest, Goto
    <3> QED BY <3>1, HandlerIsTask DEF Doc, Attending
  <2> QED BY <2>1, <2>2
<1>5. ASSUME NEW r \in Requests, StartJob(r)
      PROVE  \E t \in Tasks : Doc(t)' = d /\ pc'[t] \in Attending
  <2> DEFINE n == tries[r] + 1
  <2>1. <<r, n>> \in Tasks /\ pc[<<r, n>>] = "idle"
    BY <1>5, RunIsTask, TriesAssumption DEF StartJob, Undelivered
  <2>2. UNCHANGED <<status, file, doc>> /\ \A t \in Tasks : t # <<r, n>> => pc'[t] = pc[t]
    BY <1>5, <2>1 DEF StartJob, Goto
  <2> QED BY <1>3, <2>1, <2>2 DEF Doc, Attending
<1>6. ASSUME NEW r \in Requests, FinishJob(r)
      PROVE  \E t \in Tasks : Doc(t)' = d /\ pc'[t] \in Attending
  BY <1>3, <1>6 DEF FinishJob, taskVars, Doc
<1>7. ASSUME NEW S, Kill(S), UNCHANGED <<status, file, doc>>,
             \A t \in S \cap Tasks : pc[t] \notin Attending
      PROVE  \E t \in Tasks : Doc(t)' = d /\ pc'[t] \in Attending
  BY <1>3, <1>7 DEF Kill, Doc
<1>8. ASSUME NEW r \in Requests, JobTimeout(r)
      PROVE  \E t \in Tasks : Doc(t)' = d /\ pc'[t] \in Attending
  <2>1. Run(r) \in Tasks /\ Run(r)[1] = r /\ job[r] # None
    BY <1>8, RunIsTask DEF JobTimeout, Run, None
  <2>2. pc[Run(r)] \notin Attending
    BY <2>1 DEF Owned, Claim, Intake, Attending
  <2> QED BY <1>7, <1>8, <2>2 DEF JobTimeout
<1>9. CASE CrashWorker
  BY <1>7, <1>9 DEF CrashWorker, Owned, Claim, Intake, Attending
<1>10. ~CrashApi
  BY <1>1 DEF CrashApi, Unattended
<1>11. CASE UNCHANGED vars
  BY <1>3, <1>11 DEF vars, taskVars, Doc
<1> QED BY <1>2, <1>4, <1>5, <1>6, <1>8, <1>9, <1>10, <1>11 DEF Next, Terminated

\* No upload is left on disk without a row, for any number of requests and any
\* faults but a failing storage and a dead API process: the handler that minds it
\* is never cut off by what happens to jobs and workers (documents.py:118-184).
THEOREM UploadsHaveOwners == Spec => []NoOrphanUpload
<1>1. Init => Attended
  BY DEF Init, Attended
<1>2. Shape /\ Recorded /\ Owned /\ Attended /\ [Next]_vars => Attended'
  BY NextAttended
<1>3. Attended => NoOrphanUpload
  BY DEF Attended, NoOrphanUpload, Unattended, Attending, Live, Steps
<1> QED BY <1>1, <1>2, <1>3, AlwaysShape, AlwaysRecorded, AlwaysOwned, PTL DEF Spec

-----------------------------------------------------------------------------
(* No document is forgotten *)

Open(d) == status[d] \in {"UPLOADED", "PROCESSING"}

\* What t does next settles its document, leaves t in charge, hands it to the
\* queue, or abandons it in one of the known ways.
InCharge(t) ==
    \/ pc[t] \in {"refreshing", "starting", "loading", "processing", "recording",
                  "auditing", "committing"}
    \/ pc[t] = "enqueueing" /\ Kind(t) = "upload_async"
    \/ pc[t] = "failing" /\ mem[t] # "FAILED"

Minds(t) == InCharge(t) \/ LeavesDocumentOpen(t)

\* the job waits for a delivery, or was delivered and is about to read its row
Awaited(r) ==
    \/ job[r] = "queued"
    \/ job[r] = "running" /\ tries[r] > 0 /\ pc[Run(r)] = "lookup"

Minded(d) ==
    \/ \E t \in Tasks : Doc(t) = d /\ Minds(t)
    \/ \E r \in Requests : doc[r] = d /\ Awaited(r)

\* A request that has not arrived has no document.
Fresh == \A r \in Requests : pc[Handler(r)] = "idle" => doc[r] = None

NoneForgotten == Fresh /\ \A d \in Docs : Open(d) => Minded(d)

LEMMA MindsOn ==
    ASSUME Shape, Recorded, Owned, NEW t \in Tasks, Step(t) \/ Fault(t), Open(Doc(t))',
           Open(Doc(t)) => Minds(t) \/ (IsRun(t) /\ pc[t] = "lookup")
    PROVE  Minds(t)' \/ job'[t[1]] = "queued"
<1> USE TaskParts
        DEF Shape, TypeOK, Goto, dbVars, requestVars, queueVars, Minds, InCharge,
            LeavesDocumentOpen
<1>1. UNCHANGED <<kind, doc>> /\ Live(t) /\ Doc(t) \in Docs
  BY RequestsUnmoved, OwnDocument DEF requestVars, HasDocument
<1>2. Kind(t)' = Kind(t) /\ Doc(t)' = Doc(t) /\ MarksFailed(t)' = MarksFailed(t)
  BY <1>1 DEF Kind, Doc, MarksFailed, IsRun
<1>3. UNCHANGED status => Minds(t) \/ (IsRun(t) /\ pc[t] = "lookup")
  BY <1>2 DEF Open
<1> HIDE DEF Minds
<1>4. ASSUME broken'[t] = TRUE PROVE Minds(t)'
  BY <1>4 DEF Minds
<1>5. ASSUME Minds(t), UNCHANGED <<broken, outcome>>, InCharge(t) => InCharge(t)'
      PROVE  Minds(t)'
  BY <1>1, <1>2, <1>5 DEF Minds, Live, Steps
<1>6. CASE SaveUpload(t) \/ UndoUpload(t) \/ SaveFails(t)
  BY <1>3, <1>5, <1>6 DEF SaveUpload, UndoUpload, SaveFails
<1>7. CASE CreateDocument(t) \/ StartProcessing(t)
  BY <1>7 DEF CreateDocument, StartProcessing, AfterStart, Minds
<1>8. CASE RefreshDocument(t)
  BY <1>2, <1>8 DEF RefreshDocument, AfterRefresh, Minds
<1>9. CASE EnqueueJob(t)
  BY <1>9 DEF EnqueueJob, PutJob
<1>10. CASE EnqueueFails(t)
  <2>1. Minds(t)
    BY <1>3, <1>10 DEF EnqueueFails
  <2> QED BY <1>2, <1>5, <1>10, <2>1 DEF EnqueueFails, OnEnqueueError
<1>11. CASE LookupDocument(t)
  <2>1. CASE IsRun(t)
    BY <1>11, <2>1 DEF LookupDocument, AfterLookup, Minds
  <2>2. CASE ~IsRun(t)
    BY <1>3, <1>5, <1>11, <2>2 DEF LookupDocument
  <2> QED BY <2>1, <2>2
<1>12. CASE DocumentNotFound(t)
  BY <1>2, <1>12 DEF DocumentNotFound, Open
<1>13. CASE LoadDocument(t) \/ LoadFails(t)
  BY <1>13 DEF LoadDocument, LoadFails, Owned, InHand, Minds
<1>14. CASE ProcessPages(t)
  BY <1>2, <1>14 DEF ProcessPages, OnProcessingError, Owned, InHand, Minds
<1>15. CASE StageStatus(t) \/ StageAudit(t)
  BY <1>15 DEF StageStatus, StageAudit, Minds
<1>16. CASE CommitRecord(t)
  <2>1. status'[Doc(t)] = DocumentStatusFor(outcome[t])
    BY <1>1, <1>16 DEF CommitRecord, Publish, Owned, InHand, Recorded, RunRecords
  <2> QED BY <1>2, <2>1 DEF DocumentStatusFor, Open
<1>17. CASE MarkFailed(t)
  <2>1. CASE mem[t] # "FAILED"
    BY <1>1, <1>2, <1>17, <2>1 DEF MarkFailed, WriteStatus, Open
  <2>2. CASE mem[t] = "FAILED"
    BY <1>3, <1>5, <1>17, <2>2 DEF MarkFailed, WriteStatus
  <2> QED BY <2>1, <2>2
<1>18. CASE MarkFailedRaises(t)
  BY <1>4, <1>18 DEF MarkFailedRaises
<1>19. CASE DatabaseError(t) \/ CommitInDoubt(t)
  BY <1>4, <1>19 DEF DatabaseError, CommitInDoubt, SessionBreaks
<1> QED BY <1>6, <1>7, <1>8, <1>9, <1>10, <1>11, <1>12, <1>13, <1>14, <1>15, <1>16,
           <1>17, <1>18, <1>19 DEF Step, Fault

\* A task changes nothing about the others.
LEMMA TaskLeavesAlone ==
    ASSUME Shape, NEW t \in Tasks, Step(t) \/ Fault(t), NEW u \in Tasks, u # t
    PROVE  /\ Doc(u)' = Doc(u) /\ Kind(u)' = Kind(u)
           /\ pc'[u] = pc[u] /\ mem'[u] = mem[u]
           /\ broken'[u] = broken[u] /\ outcome'[u] = outcome[u]
<1>1. UNCHANGED <<kind, doc>>
  BY RequestsUnmoved DEF requestVars
<1>2. broken'[u] = broken[u] /\ outcome'[u] = outcome[u]
  BY DEF Shape, TypeOK, Step, SaveUpload, CreateDocument, RefreshDocument, UndoUpload,
         EnqueueJob, LookupDocument, DocumentNotFound, StartProcessing, LoadDocument,
         ProcessPages, StageStatus, StageAudit, CommitRecord, MarkFailed,
         MarkFailedRaises, Fault, SaveFails, EnqueueFails, LoadFails, DatabaseError,
         CommitInDoubt, SessionBreaks
<1> QED BY <1>1, <1>2, OthersUnmoved DEF Doc, Kind

LEMMA MindsAlike ==
    ASSUME NEW u \in Tasks, Minds(u),
           UNCHANGED <<Kind(u), mem[u], broken[u], outcome[u]>>,
           \/ pc'[u] = pc[u]
           \/ pc'[u] = "killed"
           \/ pc[u] = "idle" /\ pc'[u] = "lookup"
    PROVE  Minds(u)'
BY DEF Minds, InCharge, LeavesDocumentOpen, MarksFailed, IsRun

LEMMA TaskForgetsNone ==
    ASSUME Shape, Recorded, Owned, NEW t \in Tasks, Step(t) \/ Fault(t),
           NEW d \in Docs, Open(d)', Open(d) => Minded(d)
    PROVE  Minded(d)'
<1> USE TaskParts DEF Shape, TypeOK
<1>1. Live(t) /\ UNCHANGED doc /\ UNCHANGED tries
  BY OwnDocument, RequestsUnmoved
     DEF requestVars, Step, SaveUpload, CreateDocument, RefreshDocument, UndoUpload,
         EnqueueJob, LookupDocument, DocumentNotFound, StartProcessing, LoadDocument,
         ProcessPages, StageStatus, StageAudit, CommitRecord, MarkFailed,
         MarkFailedRaises, Fault, SaveFails, EnqueueFails, LoadFails, DatabaseError,
         CommitInDoubt, queueVars
<1>2. ASSUME NEW u \in Tasks, u # t, Doc(u) = d, Minds(u) PROVE Minded(d)'
  BY <1>2, TaskLeavesAlone, MindsAlike DEF Minded
<1>3. ASSUME NEW r \in Requests, doc[r] = d, Awaited(r), job'[r] = job[r],
             job[r] = "queued" \/ Run(r) # t
      PROVE  Minded(d)'
  <2>1. Run(r) \in Tasks
    BY RunIsTask DEF Run
  <2>2. Awaited(r)'
    BY <1>1, <1>3, <2>1, OthersUnmoved DEF Awaited, Run
  <2> QED BY <1>1, <1>3, <2>2 DEF Minded
<1>4. ASSUME NEW r \in Requests, doc[r] = d, job'[r] = "queued" PROVE Minded(d)'
  BY <1>1, <1>4 DEF Minded, Awaited
<1>5. CASE d # Doc(t)
  <2>1. Minded(d)
    BY <1>5, OwnDocument DEF Open
  <2>2. ASSUME NEW r \in Requests, doc[r] = d, Awaited(r) PROVE Minded(d)'
    <3>1. r # t[1] /\ Run(r) # t
      BY <1>5, <2>2 DEF Doc, Run
    <3> QED BY <1>3, <2>2, <3>1, OwnDocument
  <2> QED BY <1>2, <1>5, <2>1, <2>2 DEF Minded
<1>6. CASE d = Doc(t)
  <2>1. CASE Open(d) => Minds(t) \/ (IsRun(t) /\ pc[t] = "lookup")
    <3>1. Minds(t)' \/ job'[t[1]] = "queued"
      <4>1. Doc(t)' = Doc(t)
        BY <1>1 DEF Doc
      <4>2. Open(Doc(t))'
        BY <1>6, <4>1 DEF Open
      <4> QED BY <1>6, <2>1, <4>2, MindsOn
    <3>2. CASE Minds(t)'
      BY <1>1, <1>6, <3>2 DEF Minded, Doc
    <3>3. CASE job'[t[1]] = "queued"
      BY <1>4, <1>6, <3>3 DEF Doc
    <3> QED BY <3>1, <3>2, <3>3
  <2>2. ASSUME Open(d), ~Minds(t), ~(IsRun(t) /\ pc[t] = "lookup") PROVE Minded(d)'
    <3>1. ASSUME NEW r \in Requests, doc[r] = d, Awaited(r) PROVE Minded(d)'
      <4>1. job[r] = "queued" \/ Run(r) # t
        BY <2>2, <3>1 DEF Awaited, Run, IsRun
      <4>2. job'[r] = job[r] \/ job'[r] = "queued"
        BY OwnDocument DEF Step, SaveUpload, CreateDocument, RefreshDocument, UndoUpload,
           EnqueueJob, LookupDocument, DocumentNotFound, StartProcessing, LoadDocument,
           ProcessPages, StageStatus, StageAudit, CommitRecord, MarkFailed,
           MarkFailedRaises, Fault, SaveFails, EnqueueFails, LoadFails, DatabaseError,
           CommitInDoubt, queueVars, PutJob
      <4> QED BY <1>3, <1>4, <3>1, <4>1, <4>2
    <3> QED BY <1>2, <2>2, <3>1 DEF Minded
  <2> QED BY <2>1, <2>2
<1> QED BY <1>5, <1>6

LEMMA StepsKeepFresh == Shape /\ Fresh /\ [Next]_vars => Fresh'
<1> SUFFICES ASSUME Shape, Fresh, [Next]_vars PROVE Fresh'
  OBVIOUS
<1> USE TaskParts, HandlerIsTask DEF Shape, TypeOK, requestVars
<1>1. ASSUME UNCHANGED doc, \A t \in Tasks : pc'[t] = "idle" => pc[t] = "idle"
      PROVE  Fresh'
  BY <1>1 DEF Fresh
<1>2. ASSUME NEW t \in Tasks, Step(t) \/ Fault(t) PROVE Fresh'
  <2>1. UNCHANGED doc /\ pc[t] # "idle"
    BY <1>2, RequestsUnmoved, OwnDocument DEF Live, Steps
  <2>2. \A u \in Tasks : u # t => pc'[u] = pc[u]
    BY <1>2, OthersUnmoved
  <2>3. \A r \in Requests : pc'[Handler(r)] = "idle" => pc[Handler(r)] = "idle"
    <3> SUFFICES ASSUME NEW r \in Requests, pc'[Handler(r)] = "idle", Handler(r) = t
                 PROVE  FALSE
      BY <2>2
    <3> QED BY <1>2 DEF Step, SaveUpload, CreateDocument, RefreshDocument, AfterRefresh,
              UndoUpload, EnqueueJob, LookupDocument, AfterLookup, DocumentNotFound,
              StartProcessing, AfterStart, LoadDocument, ProcessPages, OnProcessingError,
              StageStatus, StageAudit, CommitRecord, AfterCommit, MarkFailed,
              MarkFailedRaises, Fault, SaveFails, EnqueueFails, OnEnqueueError, LoadFails,
              DatabaseError, CommitInDoubt, SessionBreaks, OnDatabaseError, Goto
  <2> QED BY <2>1, <2>3 DEF Fresh
<1>3. ASSUME NEW r \in Requests, Receive(r) PROVE Fresh'
  <2>1. /\ pc'[Handler(r)] \in {"saving", "raised", "lookup"}
        /\ \A q \in Requests : q # r =>
             doc'[q] = doc[q] /\ pc'[Handler(q)] = pc[Handler(q)]
    BY <1>3, ReceiveMoves DEF Handler
  <2> QED BY <2>1 DEF Fresh
<1>4. ASSUME NEW r \in Requests, StartJob(r) \/ FinishJob(r) PROVE Fresh'
  <2>1. CASE StartJob(r)
    <3>1. UNCHANGED doc /\ pc' = [pc EXCEPT ![<<r, tries[r] + 1>>] = "lookup"]
      BY <2>1 DEF StartJob, Goto
    <3>2. \A t \in Tasks : pc'[t] \in {pc[t], "lookup"}
      BY <3>1
    <3> QED BY <1>1, <3>1, <3>2
  <2>2. CASE FinishJob(r)
    BY <1>1, <2>2 DEF FinishJob, taskVars
  <2> QED BY <1>4, <2>1, <2>2
<1>5. CASE CrashApi \/ CrashWorker \/ \E r \in Requests : JobTimeout(r)
  BY <1>1, <1>5 DEF CrashApi, CrashWorker, JobTimeout, Kill
<1>6. CASE UNCHANGED vars
  BY <1>1, <1>6 DEF vars, taskVars
<1> QED BY <1>2, <1>3, <1>4, <1>5, <1>6 DEF Next, Terminated

LEMMA NextForgetsNone ==
    ASSUME Shape, Recorded, Owned, NoneForgotten, [Next]_vars, NEW d \in Docs, Open(d)'
    PROVE  Minded(d)'
<1> USE TaskParts, HandlerIsTask, RunIsTask DEF Shape, TypeOK, dbVars, requestVars
<1>1. ASSUME NEW t \in Tasks, Step(t) \/ Fault(t) PROVE Minded(d)'
  BY <1>1, TaskForgetsNone DEF NoneForgotten
<1>2. ASSUME UNCHANGED status,
             \A t \in Tasks : Doc(t) = d /\ Minds(t) => Doc(t)' = d /\ Minds(t)',
             \A r \in Requests : doc[r] = d /\ Awaited(r) =>
                doc'[r] = d /\ (Awaited(r)' \/ \E t \in Tasks : t[1] = r /\ Minds(t)')
      PROVE  Minded(d)'
  <2>1. Minded(d)
    BY <1>2 DEF NoneForgotten, Open
  <2> QED BY <1>2, <2>1 DEF Minded, Doc
<1>3. ASSUME NEW r \in Requests, Receive(r) PROVE Minded(d)'
  <2>1. /\ UNCHANGED <<status, job, tries, mem, broken, outcome>>
        /\ \A t \in Tasks : t # Handler(r) => pc'[t] = pc[t]
    BY <1>3, ReceiveMoves
  <2>2. /\ doc[r] = None
        /\ \A q \in Requests : q # r => doc'[q] = doc[q] /\ kind'[q] = kind[q]
    BY <1>3, ReceiveMoves DEF NoneForgotten, Fresh
  <2>3. ASSUME NEW t \in Tasks, Doc(t) = d, Minds(t) PROVE Doc(t)' = d /\ Minds(t)'
    <3>1. t[1] # r
      BY <2>2, <2>3, DocsAssumption DEF Doc
    <3>2. pc'[t] = pc[t] /\ Kind(t)' = Kind(t) /\ Doc(t)' = d
      BY <2>1, <2>2, <2>3, <3>1 DEF Doc, Kind
    <3> QED BY <2>1, <2>3, <3>2, MindsAlike
  <2>4. \A q \in Requests : doc[q] = d /\ Awaited(q) => doc'[q] = d /\ Awaited(q)'
    BY <2>1, <2>2, DocsAssumption DEF Awaited, Run
  <2> QED BY <1>2, <2>1, <2>3, <2>4
<1>4. ASSUME NEW r \in Requests, StartJob(r) PROVE Minded(d)'
  <2> DEFINE n == tries[r] + 1
  <2>1. n \in 0..MaxTries /\ n > 0 /\ n > tries[r]
    BY <1>4, TriesAssumption DEF StartJob
  <2>6. <<r, n>> \in Tasks /\ pc[<<r, n>>] = "idle"
    BY <2>1 DEF Undelivered
  <2>2. /\ UNCHANGED <<status, doc, kind, mem, broken, outcome>>
        /\ job' = [job EXCEPT ![r] = "running"] /\ tries' = [tries EXCEPT ![r] = n]
        /\ pc' = [pc EXCEPT ![<<r, n>>] = "lookup"]
    BY <1>4 DEF StartJob, Goto
  <2> HIDE DEF n
  <2>3. ASSUME NEW t \in Tasks, Doc(t) = d, Minds(t) PROVE Doc(t)' = d /\ Minds(t)'
    <3>1. pc'[t] = pc[t] \/ (pc[t] = "idle" /\ pc'[t] = "lookup")
      <4>1. CASE t = <<r, n>>
        BY <2>2, <2>6, <4>1
      <4>2. CASE t # <<r, n>>
        <5>1. pc \in [Tasks -> {"idle"} \cup Steps \cup Ended]
          OBVIOUS
        <5> QED BY ONLY <2>2, <4>2, <5>1, t \in Tasks
      <4> QED BY <4>1, <4>2
    <3>2. Kind(t)' = Kind(t) /\ Doc(t)' = d
      BY <2>2, <2>3 DEF Doc, Kind
    <3> QED BY <2>2, <2>3, <3>1, <3>2, MindsAlike
  <2>4. Awaited(r)'
    BY <2>1, <2>2, <2>6 DEF Awaited, Run
  <2>5. \A q \in Requests : q # r /\ Awaited(q) => Awaited(q)'
    BY <2>2 DEF Awaited, Run
  <2> QED BY <1>2, <2>2, <2>3, <2>4, <2>5
<1>5. ASSUME NEW r \in Requests, FinishJob(r) PROVE Minded(d)'
  <2>1. /\ UNCHANGED <<status, tries, doc, kind, pc, mem, broken, outcome>>
        /\ \A q \in Requests : q # r => job'[q] = job[q]
        /\ ~Awaited(r)
    BY <1>5 DEF FinishJob, taskVars, Awaited, Ended
  <2>2. \A t \in Tasks : Doc(t) = d /\ Minds(t) => Doc(t)' = d /\ Minds(t)'
    BY <2>1, MindsAlike DEF Doc, Kind
  <2> QED BY <1>2, <2>1, <2>2 DEF Awaited, Run
<1>6. ASSUME NEW S, Kill(S), UNCHANGED <<status, tries, doc, kind, mem, broken, outcome>>,
             \A r \in Requests :
                \/ /\ job'[r] = job[r]
                   /\ job[r] = "running" /\ tries[r] > 0 => Run(r) \notin S
                \/ job[r] # "queued" /\ Run(r) \in S
      PROVE  Minded(d)'
  <2>1. \A t \in Tasks : pc'[t] = IF t \in S /\ Live(t) THEN "killed" ELSE pc[t]
    BY <1>6 DEF Kill
  <2>2. \A t \in Tasks : Doc(t) = d /\ Minds(t) => Doc(t)' = d /\ Minds(t)'
    BY <1>6, <2>1, MindsAlike DEF Doc, Kind
  <2>3. ASSUME NEW r \in Requests, Awaited(r)
        PROVE  Awaited(r)' \/ \E t \in Tasks : t[1] = r /\ Minds(t)'
    <3>1. Run(r) \in Tasks /\ Run(r)[1] = r
      BY DEF Run
    <3>2. CASE job'[r] = job[r] /\ (job[r] = "running" /\ tries[r] > 0 => Run(r) \notin S)
      BY <1>6, <2>1, <2>3, <3>1, <3>2 DEF Awaited, Run
    <3>3. CASE job[r] # "queued" /\ Run(r) \in S
      <4>1. pc'[Run(r)] = "killed"
        BY <2>1, <2>3, <3>1, <3>3 DEF Awaited, Live, Steps
      <4> QED BY <3>1, <4>1 DEF Minds, LeavesDocumentOpen
    <3> QED BY <1>6, <3>2, <3>3
  <2> QED BY <1>2, <1>6, <2>2, <2>3
<1>7. ASSUME NEW r \in Requests, JobTimeout(r) PROVE Minded(d)'
  <2>1. \A q \in Requests : q # r => job'[q] = job[q] /\ Run(q) # Run(r)
    BY <1>7 DEF JobTimeout, Run
  <2>2. job[r] # "queued"
    BY <1>7 DEF JobTimeout
  <2> QED BY <1>6, <1>7, <2>1, <2>2 DEF JobTimeout
<1>8. CASE CrashApi
  <2>1. \A r \in Requests : tries[r] > 0 => Run(r) \notin {Handler(q) : q \in Requests}
    BY DEF Run, Handler
  <2> QED BY <1>6, <1>8, <2>1 DEF CrashApi, queueVars
<1>9. CASE CrashWorker
  <2> DEFINE S == {t \in Tasks : IsRun(t)}
  <2>1. \A r \in Requests : job[r] # "running" => job'[r] = job[r]
    BY <1>9 DEF CrashWorker
  <2>2. \A r \in Requests : tries[r] > 0 => Run(r) \in S
    BY DEF Run, IsRun
  <2>3. \A t \in Tasks : pc'[t] = IF t \in S /\ Live(t) THEN "killed" ELSE pc[t]
    BY <1>9 DEF CrashWorker, Kill
  <2>4. UNCHANGED <<status, tries, doc, kind, mem, broken, outcome>>
    BY <1>9 DEF CrashWorker
  <2>5. \A t \in Tasks : Doc(t) = d /\ Minds(t) => Doc(t)' = d /\ Minds(t)'
    BY <2>3, <2>4, MindsAlike DEF Doc, Kind
  <2>6. ASSUME NEW r \in Requests, Awaited(r)
        PROVE  Awaited(r)' \/ \E t \in Tasks : t[1] = r /\ Minds(t)'
    <3>1. CASE job[r] = "queued"
      BY <2>1, <3>1 DEF Awaited
    <3>2. CASE job[r] # "queued"
      <4>1. Run(r) \in Tasks /\ Run(r)[1] = r /\ pc'[Run(r)] = "killed"
        BY <2>2, <2>3, <2>6, <3>2 DEF Awaited, Live, Steps, Run
      <4> QED BY <4>1 DEF Minds, LeavesDocumentOpen
    <3> QED BY <3>1, <3>2
  <2> QED BY <1>2, <2>4, <2>5, <2>6
<1>10. CASE UNCHANGED vars
  <2>1. UNCHANGED <<status, job, tries, doc, kind, pc, mem, broken, outcome>>
    BY <1>10 DEF vars, taskVars, queueVars
  <2>2. \A t \in Tasks : Doc(t) = d /\ Minds(t) => Doc(t)' = d /\ Minds(t)'
    BY <2>1, MindsAlike DEF Doc, Kind
  <2> QED BY <1>2, <2>1, <2>2 DEF Awaited, Run
<1> QED BY <1>1, <1>3, <1>4, <1>5, <1>7, <1>8, <1>9, <1>10 DEF Next, Terminated

\* No document is left UPLOADED or PROCESSING without someone working on it or
\* one of the known ways to abandon it, for any number of requests and whatever
\* fails, dies or is delivered again (documents.py:186-374).
THEOREM NoDocumentForgotten == Spec => []AbandonedIsExplained
<1>1. Init => NoneForgotten
  BY DEF Init, NoneForgotten, Fresh, Open
<1>2. Shape /\ Recorded /\ Owned /\ NoneForgotten /\ [Next]_vars => NoneForgotten'
  BY StepsKeepFresh, NextForgetsNone DEF NoneForgotten
<1>3. NoneForgotten => AbandonedIsExplained
  BY DEF NoneForgotten, Open, Minded, Minds, InCharge, Awaited, AbandonedIsExplained,
         Live, Steps
<1> QED BY <1>1, <1>2, <1>3, AlwaysShape, AlwaysRecorded, AlwaysOwned, PTL DEF Spec

-----------------------------------------------------------------------------
(* PART 4: nothing goes back, nothing waits for ever, and jobs settle *)

-----------------------------------------------------------------------------
(* The way of a task *)

\* where the await at each label may lead, with an error or without
Flow ==
    [saving     |-> {"creating", "raised"},
     creating   |-> {"refreshing", "undoing"},
     undoing    |-> {"raised"},
     refreshing |-> {"enqueueing", "starting", "raised"},
     lookup     |-> {"enqueueing", "starting", "raised"},
     enqueueing |-> {"processing", "returned", "raised"},
     starting   |-> {"loading", "processing", "raised"},
     loading    |-> {"processing", "failing"},
     processing |-> {"recording", "failing", "raised"},
     recording  |-> {"auditing", "failing", "raised"},
     auditing   |-> {"committing", "failing", "raised"},
     committing |-> {"returned", "failing", "raised"},
     failing    |-> {"raised"}]

\* how many awaits a task has before it at most
Rank ==
    [idle |-> 11, saving |-> 10, lookup |-> 10, creating |-> 9, refreshing |-> 8,
     enqueueing |-> 7, starting |-> 7, loading |-> 6, processing |-> 5, recording |-> 4,
     auditing |-> 3, committing |-> 2, undoing |-> 1, failing |-> 1,
     returned |-> 0, raised |-> 0, killed |-> 0]

LEMMA FlowFalls ==
    ASSUME NEW l \in Steps, NEW m \in Flow[l]
    PROVE  /\ m \in Steps \cup Ended /\ m # "idle"
           /\ m \in Intake \cup {"enqueueing"} => l \in Intake \cup {"lookup"}
           /\ m # "lookup"
           /\ Rank[l] \in Nat /\ Rank[m] \in Nat /\ Rank[m] < Rank[l] /\ Rank[l] < Rank["idle"]
BY DEF Flow, Rank, Steps, Ended, Intake

LEMMA TaskFlows ==
    ASSUME Shape, NEW t \in Tasks, Step(t) \/ Fault(t)
    PROVE  pc[t] \in Steps /\ pc'[t] \in Flow[pc[t]]
<1> USE DEF Shape, TypeOK, Goto
<1>1. CASE Step(t)
  <2>1. CASE SaveUpload(t) \/ CreateDocument(t) \/ UndoUpload(t)
    BY <2>1 DEF SaveUpload, CreateDocument, UndoUpload, Flow, Steps
  <2>2. CASE RefreshDocument(t) \/ LookupDocument(t) \/ DocumentNotFound(t) \/ EnqueueJob(t)
    BY <2>2 DEF RefreshDocument, LookupDocument, DocumentNotFound, EnqueueJob, AfterRefresh,
                AfterLookup, Flow, Steps
  <2>3. CASE StartProcessing(t) \/ LoadDocument(t) \/ ProcessPages(t)
    BY <2>3 DEF StartProcessing, LoadDocument, ProcessPages, AfterStart, OnProcessingError,
                Flow, Steps
  <2>4. CASE StageStatus(t) \/ StageAudit(t) \/ CommitRecord(t)
    BY <2>4 DEF StageStatus, StageAudit, CommitRecord, AfterCommit, OnProcessingError, Flow,
                Steps
  <2>5. CASE MarkFailed(t) \/ MarkFailedRaises(t)
    BY <2>5 DEF MarkFailed, MarkFailedRaises, Flow, Steps
  <2> QED BY <1>1, <2>1, <2>2, <2>3, <2>4, <2>5 DEF Step
<1>2. CASE Fault(t)
  <2>1. CASE SaveFails(t) \/ EnqueueFails(t) \/ LoadFails(t)
    BY <2>1 DEF SaveFails, EnqueueFails, OnEnqueueError, LoadFails, Flow, Steps
  <2>2. CASE DatabaseError(t) \/ CommitInDoubt(t)
    BY <2>2 DEF DatabaseError, CommitInDoubt, DatabaseSteps, SessionBreaks, OnDatabaseError,
                OnProcessingError, Flow, Steps
  <2> QED BY <1>2, <2>1, <2>2 DEF Fault
<1> QED BY <1>1, <1>2

-----------------------------------------------------------------------------
(* The queue *)

\* A request has no job while its handler has not been at the queue; a job that is
\* queued has a delivery left, and one that is running has been delivered.
Queued ==
    \A r \in Requests :
        /\ pc[Handler(r)] \in Intake \cup {"lookup", "enqueueing"} => job[r] = None
        /\ job[r] = None => tries[r] = 0
        /\ job[r] = "queued" => tries[r] < MaxTries
        /\ job[r] = "running" => tries[r] > 0 /\ pc[Run(r)] # "idle"

LEMMA InitQueued == Init => Queued
BY DEF Init, Queued, Handler, Intake, Tasks, None

\* Which steps of a task touch its job.
LEMMA JobMoves ==
    ASSUME Shape, NEW t \in Tasks, Step(t) \/ Fault(t)
    PROVE  /\ UNCHANGED tries
           /\ job' = job \/ (pc[t] = "enqueueing" /\ PutJob(t))
<1>1. CASE Step(t)
  BY <1>1 DEF Step, SaveUpload, CreateDocument, RefreshDocument, UndoUpload, EnqueueJob,
              LookupDocument, DocumentNotFound, StartProcessing, LoadDocument,
              ProcessPages, StageStatus, StageAudit, CommitRecord, MarkFailed,
              MarkFailedRaises, queueVars
<1>2. CASE Fault(t)
  BY <1>2 DEF Fault, SaveFails, EnqueueFails, LoadFails, DatabaseError, CommitInDoubt,
              queueVars
<1> QED BY <1>1, <1>2

LEMMA TaskQueued ==
    ASSUME Shape, Owned, EnqueuedByHandler, Queued, NEW t \in Tasks, Step(t) \/ Fault(t)
    PROVE  Queued'
<1> USE TaskParts, HandlerIsTask DEF Shape, TypeOK
<1> SUFFICES ASSUME NEW r \in Requests
             PROVE  /\ pc'[Handler(r)] \in Intake \cup {"lookup", "enqueueing"} => job'[r] = None
                    /\ job'[r] = None => tries'[r] = 0
                    /\ job'[r] = "queued" => tries'[r] < MaxTries
                    /\ job'[r] = "running" => tries'[r] > 0 /\ pc'[<<r, tries'[r]>>] # "idle"
  BY DEF Queued, Handler, Run
<1>1. UNCHANGED tries /\ Live(t) /\ pc[t] \in Steps /\ pc'[t] \in Flow[pc[t]]
      /\ \A u \in Tasks : u # t => pc'[u] = pc[u]
  BY JobMoves, OwnDocument, OthersUnmoved, TaskFlows
<1>2. <<r, tries[r]>> \in Tasks
  BY RunIsTask
<1>3. CASE job'[r] = job[r]
  <2>1. pc'[Handler(r)] \in Intake \cup {"lookup", "enqueueing"} =>
           pc[Handler(r)] \in Intake \cup {"lookup", "enqueueing"}
    BY <1>1, FlowFalls
  <2>2. pc[<<r, tries[r]>>] # "idle" => pc'[<<r, tries[r]>>] # "idle"
    BY <1>1, <1>2, FlowFalls
  <2> QED BY <1>1, <1>3, <2>1, <2>2 DEF Queued, Run
<1>4. CASE job'[r] # job[r]
  <2>1. pc[t] = "enqueueing" /\ job'[r] = "queued" /\ t = Handler(r)
    BY <1>4, JobMoves DEF PutJob, EnqueuedByHandler, IsRun, Handler
  <2>2. tries[r] = 0
    BY <2>1 DEF Queued
  <2>3. pc'[t] \notin Intake \cup {"lookup", "enqueueing"}
    BY <1>1, <2>1 DEF Flow, Intake
  <2> QED BY <1>1, <2>1, <2>2, <2>3, TriesAssumption DEF None
<1> QED BY <1>3, <1>4

LEMMA NextQueued ==
    Shape /\ Owned /\ Single /\ Queued /\ [Next]_vars => Queued'
<1> SUFFICES ASSUME Shape, Owned, Single, Queued, [Next]_vars PROVE Queued'
  OBVIOUS
<1> USE TaskParts, HandlerIsTask DEF Shape, TypeOK
<1>1. ASSUME NEW t \in Tasks, Step(t) \/ Fault(t) PROVE Queued'
  BY <1>1, TaskQueued DEF Single
<1>2. ASSUME NEW r \in Requests, Receive(r) PROVE Queued'
  <2>1. /\ pc[Handler(r)] = "idle" /\ UNCHANGED <<job, tries>>
        /\ \A t \in Tasks : t # Handler(r) => pc'[t] = pc[t]
        /\ pc'[Handler(r)] # "idle"
    BY <1>2, ReceiveMoves
  <2>2. job[r] = None
    BY <2>1 DEF IdleRequest
  <2>3. ASSUME NEW q \in Requests, q # r
        PROVE  pc'[Handler(q)] = pc[Handler(q)] /\ pc'[Run(q)] = pc[Run(q)]
    BY <2>1, <2>3, RunIsTask DEF Run, Handler
  <2>4. \A q \in Requests : Run(q)' = <<q, tries[q]>> /\ Handler(q)' = Handler(q)
    BY <2>1 DEF Run, Handler
  <2> QED BY <2>1, <2>2, <2>3, <2>4 DEF Queued, Run, None
<1>3. ASSUME NEW r \in Requests, StartJob(r) PROVE Queued'
  <2> DEFINE t == <<r, tries[r] + 1>>
  <2>1. t \in Tasks /\ t[1] = r /\ t[2] # 0 /\ pc' = [pc EXCEPT ![t] = "lookup"]
    BY <1>3, RunIsTask, TriesAssumption DEF StartJob, Goto
  <2>2. \A q \in Requests : Handler(q) # t /\ pc'[Handler(q)] = pc[Handler(q)]
    BY <2>1
  <2>3. /\ job' = [job EXCEPT ![r] = "running"] /\ job[r] = "queued"
        /\ tries' = [tries EXCEPT ![r] = tries[r] + 1]
    BY <1>3 DEF StartJob
  <2>4. ASSUME NEW q \in Requests, q # r
        PROVE  <<q, tries[q]>> # t /\ pc'[<<q, tries[q]>>] = pc[<<q, tries[q]>>]
    BY <2>1, <2>4, RunIsTask
  <2>5. pc'[t] # "idle"
    BY <2>1
  <2>6. \A q \in Requests : Handler(q)' = Handler(q) /\ Run(q)' = <<q, tries'[q]>>
    BY DEF Handler, Run
  <2>7. tries'[r] = tries[r] + 1 /\ tries[r] \in Nat /\ pc[Handler(r)] \notin Intake \cup {"lookup", "enqueueing"}
    BY <2>3 DEF Queued, None
  <2> HIDE DEF t
  <2>8. Run(r)' = t
    BY <2>6, <2>7 DEF t
  <2> SUFFICES ASSUME NEW q \in Requests
               PROVE  /\ pc'[Handler(q)] \in Intake \cup {"lookup", "enqueueing"} => job'[q] = None
                      /\ job'[q] = None => tries'[q] = 0
                      /\ job'[q] = "queued" => tries'[q] < MaxTries
                      /\ job'[q] = "running" => tries'[q] > 0 /\ pc'[Run(q)'] # "idle"
    BY <2>6 DEF Queued
  <2>9. CASE q = r
    BY <2>2, <2>3, <2>5, <2>7, <2>8, <2>9 DEF None
  <2>10. CASE q # r
    <3>1. /\ job'[q] = job[q] /\ tries'[q] = tries[q] /\ pc'[Handler(q)] = pc[Handler(q)]
      BY <2>2, <2>3, <2>10
    <3>2. Run(q)' = Run(q) /\ pc'[Run(q)] = pc[Run(q)]
      BY <2>4, <2>6, <2>10, <3>1 DEF Run
    <3> QED BY <3>1, <3>2 DEF Queued
  <2> QED BY <2>9, <2>10
<1>4. ASSUME \A t \in Tasks : pc'[t] = pc[t] \/ pc'[t] = "killed",
             UNCHANGED tries,
             \A r \in Requests :
                \/ job'[r] = job[r]
                \/ job[r] = "running" /\ job'[r] \in {"finished", "dropped"}
                \/ job[r] = "running" /\ job'[r] = "queued" /\ tries[r] < MaxTries
      PROVE  Queued'
  <2>1. \A r \in Requests : /\ Run(r) \in Tasks /\ Run(r)' = Run(r)
                            /\ Handler(r)' = Handler(r)
    BY <1>4, RunIsTask DEF Run, Handler
  <2>2. SUFFICES ASSUME NEW r \in Requests
                 PROVE  /\ pc'[Handler(r)] \in Intake \cup {"lookup", "enqueueing"} => job'[r] = None
                        /\ job'[r] = None => tries'[r] = 0
                        /\ job'[r] = "queued" => tries'[r] < MaxTries
                        /\ job'[r] = "running" => tries'[r] > 0 /\ pc'[Run(r)] # "idle"
    BY <2>1 DEF Queued
  <2>3. /\ pc'[Handler(r)] = pc[Handler(r)] \/ pc'[Handler(r)] = "killed"
        /\ pc'[Run(r)] = pc[Run(r)] \/ pc'[Run(r)] = "killed"
    BY <1>4, <2>1
  <2>4. /\ pc[Handler(r)] \in Intake \cup {"lookup", "enqueueing"} => job[r] = None
        /\ job[r] = None => tries[r] = 0
        /\ job[r] = "queued" => tries[r] < MaxTries
        /\ job[r] = "running" => tries[r] > 0 /\ pc[Run(r)] # "idle"
    BY DEF Queued
  <2>5. job[r] = None => job'[r] = None
    BY <1>4 DEF None
  <2> QED BY <1>4, <2>3, <2>4, <2>5 DEF None, Intake
<1>5. ASSUME NEW r \in Requests, FinishJob(r) PROVE Queued'
  BY <1>4, <1>5 DEF FinishJob, taskVars
<1>6. ASSUME NEW r \in Requests, JobTimeout(r) PROVE Queued'
  BY <1>4, <1>6 DEF JobTimeout, Kill
<1>7. CASE CrashApi
  BY <1>4, <1>7 DEF CrashApi, Kill, queueVars
<1>8. CASE CrashWorker
  BY <1>4, <1>8 DEF CrashWorker, Kill
<1>9. CASE UNCHANGED vars
  BY <1>4, <1>9 DEF vars, queueVars, taskVars
<1> QED BY <1>1, <1>2, <1>3, <1>5, <1>6, <1>7, <1>8, <1>9 DEF Next, Terminated

LEMMA AlwaysQueued == Spec => []Queued
<1>1. Init => Queued
  BY InitQueued
<1>2. Shape /\ Owned /\ Single /\ Queued /\ [Next]_vars => Queued'
  BY NextQueued
<1> QED BY <1>1, <1>2, AlwaysShape, AlwaysOwned, AlwaysSingle, PTL DEF Spec

-----------------------------------------------------------------------------
(* Nothing goes back *)

\* how many steps a job has before it at most: one to each delivery and one from it
JobRank(r) ==
    CASE job[r] = None -> 2 * MaxTries + 3
      [] job[r] = "queued" -> 2 * (MaxTries - tries[r]) + 2
      [] job[r] = "running" -> 2 * (MaxTries - tries[r]) + 3
      [] OTHER -> 0

LEMMA JobRanks ==
    ASSUME TypeOK, NEW r \in Requests
    PROVE  /\ JobRank(r) \in 0..(2 * MaxTries + 3)
           /\ job[r] = None => JobRank(r) = 2 * MaxTries + 3
           /\ job[r] = "queued" => JobRank(r) = 2 * (MaxTries - tries[r]) + 2
           /\ job[r] = "running" => JobRank(r) = 2 * (MaxTries - tries[r]) + 3
           /\ job[r] \in {"finished", "dropped"} => JobRank(r) = 0
<1>1. /\ tries[r] \in Nat /\ tries[r] <= MaxTries /\ MaxTries \in Nat
      /\ job[r] \in {None, "queued", "running", "finished", "dropped"}
  BY TriesAssumption DEF TypeOK
<1> QED BY <1>1 DEF JobRank, None

LEMMA RankType ==
    ASSUME TypeOK, NEW t \in Tasks
    PROVE  Rank[pc[t]] \in 0..11
<1>1. pc[t] \in {"idle"} \cup Steps \cup Ended
  BY DEF TypeOK
<1> QED BY <1>1 DEF Rank, Steps, Ended

TasksMoveOn == \A t \in Tasks : pc'[t] # pc[t] => Rank[pc'[t]] < Rank[pc[t]]
JobsMoveOn == \A r \in Requests : job'[r] # job[r] => JobRank(r)' < JobRank(r)
TriesGoWithJobs == \A r \in Requests : tries'[r] # tries[r] => job'[r] # job[r]

Advance ==
    /\ \A t \in Tasks : pc'[t] = pc[t] \/ Rank[pc'[t]] < Rank[pc[t]]
    /\ \A r \in Requests : JobRank(r)' = JobRank(r) \/ JobRank(r)' < JobRank(r)
    /\ faults'.count >= faults.count
    /\ \/ \E t \in Tasks : Rank[pc'[t]] < Rank[pc[t]]
       \/ \E r \in Requests : JobRank(r)' < JobRank(r)
       \/ faults'.count > faults.count

\* A job that is left alone keeps its rank.
LEMMA Advances ==
    ASSUME TypeOK, TypeOK', TasksMoveOn, JobsMoveOn, TriesGoWithJobs,
           faults' = faults \/ \E f : Strike(f),
           \/ \E t \in Tasks : pc'[t] # pc[t]
           \/ \E r \in Requests : job'[r] # job[r]
           \/ faults' # faults
    PROVE  Advance
<1>1. \A r \in Requests : job'[r] = job[r] => JobRank(r)' = JobRank(r)
  BY DEF TriesGoWithJobs, JobRank
<1>2. faults' # faults => faults'.count > faults.count
  BY FaultsAssumption DEF Strike, TypeOK, FaultLog
<1>3. faults.count \in Nat /\ faults'.count \in Nat
  BY FaultsAssumption DEF TypeOK, FaultLog
<1>4. faults'.count >= faults.count
  BY <1>2, <1>3
<1> QED BY <1>1, <1>2, <1>4 DEF Advance, TasksMoveOn, JobsMoveOn

LEMMA StepFaults ==
    ASSUME NEW t \in Tasks, Step(t) \/ Fault(t)
    PROVE  faults' = faults \/ \E f : Strike(f)
BY DEF Step, SaveUpload, CreateDocument, RefreshDocument, UndoUpload, EnqueueJob,
       LookupDocument, DocumentNotFound, StartProcessing, LoadDocument, ProcessPages,
       StageStatus, StageAudit, CommitRecord, MarkFailed, MarkFailedRaises, Fault,
       SaveFails, EnqueueFails, LoadFails, DatabaseError, CommitInDoubt

LEMMA NextAdvances ==
    ASSUME Shape, Shape', Owned, Single, Queued, Next
    PROVE  Advance \/ UNCHANGED vars
<1> USE TaskParts, HandlerIsTask DEF Shape
<1>1. ASSUME NEW t \in Tasks, Step(t) \/ Fault(t) PROVE Advance
  <2>1. /\ pc[t] \in Steps /\ pc'[t] \in Flow[pc[t]] /\ \A u \in Tasks : u # t => pc'[u] = pc[u]
        /\ UNCHANGED tries
    BY <1>1, TaskFlows, OthersUnmoved, JobMoves
  <2>2. Rank[pc'[t]] < Rank[pc[t]] /\ pc'[t] # pc[t]
    BY <2>1, FlowFalls
  <2>3. TasksMoveOn /\ TriesGoWithJobs
    BY <2>1, <2>2 DEF TasksMoveOn, TriesGoWithJobs
  <2>4. JobsMoveOn
    <3> SUFFICES ASSUME NEW r \in Requests, job'[r] # job[r] PROVE JobRank(r)' < JobRank(r)
      BY DEF JobsMoveOn
    <3>1. pc[t] = "enqueueing" /\ job'[r] = "queued" /\ t = Handler(r)
      BY <1>1, JobMoves DEF PutJob, Single, EnqueuedByHandler, IsRun, Handler, TypeOK
    <3>2. job[r] = None /\ tries[r] = 0 /\ tries'[r] = 0
      BY <2>1, <3>1 DEF Queued
    <3>3. JobRank(r) = 2 * MaxTries + 3
      BY <3>2, JobRanks
    <3>4. JobRank(r)' = 2 * MaxTries + 2
      BY <3>1, <3>2, TriesAssumption DEF JobRank, None
    <3> QED BY <3>3, <3>4, TriesAssumption
  <2> QED BY <1>1, <2>2, <2>3, <2>4, StepFaults, Advances
<1>2. ASSUME NEW r \in Requests, Receive(r) PROVE Advance
  <2>1. /\ pc[Handler(r)] = "idle" /\ pc'[Handler(r)] \in {"saving", "raised", "lookup"}
        /\ \A t \in Tasks : t # Handler(r) => pc'[t] = pc[t]
        /\ UNCHANGED <<job, tries, faults>>
    BY <1>2, ReceiveMoves
  <2>2. Rank[pc'[Handler(r)]] < Rank[pc[Handler(r)]] /\ pc'[Handler(r)] # pc[Handler(r)]
    BY <2>1 DEF Rank
  <2>3. TasksMoveOn /\ TriesGoWithJobs /\ JobsMoveOn
    BY <2>1, <2>2 DEF TasksMoveOn, TriesGoWithJobs, JobsMoveOn
  <2> QED BY <2>1, <2>2, <2>3, Advances
<1>3. ASSUME NEW r \in Requests, StartJob(r) PROVE Advance
  <2> DEFINE t == <<r, tries[r] + 1>>
  <2>1. t \in Tasks /\ pc[t] = "idle"
    BY <1>3, RunIsTask, TriesAssumption DEF StartJob, TypeOK, Undelivered
  <2>2. pc' = [pc EXCEPT ![t] = "lookup"]
    BY <1>3 DEF StartJob, Goto
  <2> HIDE DEF t
  <2>3. pc'[t] = "lookup" /\ \A u \in Tasks : u # t => pc'[u] = pc[u]
    BY <2>1, <2>2 DEF TypeOK
  <2>4. /\ job' = [job EXCEPT ![r] = "running"] /\ job[r] = "queued"
        /\ tries' = [tries EXCEPT ![r] = tries[r] + 1] /\ UNCHANGED faults
    BY <1>3 DEF StartJob
  <2>5. TasksMoveOn
    BY <2>1, <2>3 DEF TasksMoveOn, Rank
  <2>6. TriesGoWithJobs
    BY <2>4 DEF TriesGoWithJobs, TypeOK
  <2>7. JobRank(r)' < JobRank(r)
    <3>1. job'[r] = "running" /\ tries'[r] = tries[r] + 1 /\ tries[r] \in Nat /\ MaxTries \in Nat
      BY <2>4, TriesAssumption DEF TypeOK
    <3>2. JobRank(r) = 2 * (MaxTries - tries[r]) + 2
      BY <2>4, JobRanks
    <3>3. JobRank(r)' = 2 * (MaxTries - (tries[r] + 1)) + 3
      BY <3>1 DEF JobRank, None
    <3> QED BY <3>1, <3>2, <3>3
  <2>8. JobsMoveOn
    BY <2>4, <2>7 DEF JobsMoveOn, TypeOK
  <2> QED BY <2>1, <2>3, <2>4, <2>5, <2>6, <2>8, Advances
<1>4. ASSUME \A t \in Tasks : pc'[t] = pc[t] \/ (Live(t) /\ pc'[t] = "killed"),
             UNCHANGED tries,
             faults' = faults \/ \E f : Strike(f),
             \A r \in Requests :
                \/ job'[r] = job[r]
                \/ job[r] = "running" /\ job'[r] \in {"queued", "finished", "dropped"},
             faults' # faults \/ \E r \in Requests : job'[r] # job[r]
      PROVE  Advance
  <2>1. TriesGoWithJobs
    BY <1>4 DEF TriesGoWithJobs
  <2>2. TasksMoveOn
    BY <1>4 DEF TasksMoveOn, Live, Steps, Rank
  <2>3. JobsMoveOn
    <3> SUFFICES ASSUME NEW r \in Requests, job'[r] # job[r] PROVE JobRank(r)' < JobRank(r)
      BY DEF JobsMoveOn
    <3>1. job[r] = "running" /\ job'[r] \in {"queued", "finished", "dropped"}
          /\ tries'[r] = tries[r] /\ tries[r] \in Nat /\ MaxTries \in Nat /\ tries[r] <= MaxTries
      BY <1>4, TriesAssumption DEF TypeOK
    <3>2. JobRank(r) = 2 * (MaxTries - tries[r]) + 3
      BY <3>1, JobRanks
    <3>3. JobRank(r)' \in {0, 2 * (MaxTries - tries[r]) + 2}
      BY <3>1 DEF JobRank, None
    <3> QED BY <3>1, <3>2, <3>3
  <2> QED BY <1>4, <2>1, <2>2, <2>3, Advances
<1>5. \A f : Strike(f) => faults' # faults
  BY FaultsAssumption DEF Strike, TypeOK, FaultLog
<1>6. ASSUME NEW r \in Requests, FinishJob(r) PROVE Advance
  BY <1>4, <1>6 DEF FinishJob, taskVars, TypeOK
<1>7. ASSUME NEW r \in Requests, JobTimeout(r) PROVE Advance
  BY <1>4, <1>5, <1>7 DEF JobTimeout, Kill, TypeOK
<1>8. CASE CrashApi
  BY <1>4, <1>5, <1>8 DEF CrashApi, Kill, queueVars
<1>9. CASE CrashWorker
  BY <1>4, <1>5, <1>9 DEF CrashWorker, Kill
<1> QED BY <1>1, <1>2, <1>3, <1>6, <1>7, <1>8, <1>9 DEF Next, Terminated

\* No task returns to an await it left, no job is delivered more often than allowed,
\* and every step takes a task, a job or the count of faults on: whatever the
\* schedule and the faults, all requests together take a bounded number of steps
\* (documents.py:80-262, worker.py:42-91).
THEOREM NothingGoesBack ==
    Spec => /\ [](/\ \A t \in Tasks : Rank[pc[t]] \in 0..11
                  /\ \A r \in Requests : JobRank(r) \in 0..(2 * MaxTries + 3)
                  /\ faults.count \in 0..MaxFaults)
            /\ [][Advance]_vars
<1> DEFINE Bounded == /\ \A t \in Tasks : Rank[pc[t]] \in 0..11
                      /\ \A r \in Requests : JobRank(r) \in 0..(2 * MaxTries + 3)
                      /\ faults.count \in 0..MaxFaults
<1>1. Shape => Bounded
  BY RankType, JobRanks DEF Shape, TypeOK, FaultLog
<1>2. Shape /\ Shape' /\ Owned /\ Single /\ Queued /\ [Next]_vars => [Advance]_vars
  BY NextAdvances
<1> QED BY <1>1, <1>2, AlwaysShape, AlwaysOwned, AlwaysSingle, AlwaysQueued, PTL DEF Spec

-----------------------------------------------------------------------------
(* Files in use *)

\* What a task works on, what was answered to a client and what a job is about has
\* its file, whatever faults struck; a document that is being looked up has it or
\* does not exist.
InUse ==
    /\ \A t \in Tasks : pc[t] = "returned" => Doc(t) \in Docs
    /\ \A t \in Tasks : pc[t] \in WorkSteps \cup {"creating", "returned"} => file[Doc(t)] = "saved"
    /\ \A t \in Tasks : pc[t] = "lookup" => file[Doc(t)] = "saved" \/ status[Doc(t)] = "absent"
    /\ \A r \in Requests : job[r] # None => file[doc[r]] = "saved"

\* Who changes a file has the document to itself, and no job for it.
LEMMA FileOwner ==
    ASSUME Shape, Owned, NEW t \in Tasks, pc[t] \in Intake
    PROVE  /\ \A u \in Tasks : u # t /\ Doc(u) = Doc(t) => pc[u] = "idle"
           /\ \A r \in Requests : doc[r] = Doc(t) => job[r] = None
<1>1. Alone(t) /\ job[t[1]] = None
  BY DEF Owned, Claim
<1>2. ASSUME NEW r \in Requests, doc[r] = Doc(t) PROVE job[r] = None
  <2>1. Handler(r) \in Tasks /\ Doc(Handler(r)) = Doc(t)
    BY <1>2, HandlerIsTask DEF Doc
  <2>2. CASE Handler(r) = t
    BY <1>1, <2>2, HandlerIsTask
  <2>3. CASE Handler(r) # t
    BY <1>1, <2>1, <2>3 DEF Alone, Shape, IdleRequest
  <2> QED BY <2>2, <2>3
<1> QED BY <1>1, <1>2 DEF Alone

LEMMA TaskKeepsInUse ==
    ASSUME Shape, Recorded, Owned, InUse, NEW t \in Tasks, Step(t) \/ Fault(t)
    PROVE  InUse'
<1> USE TaskParts DEF Shape, TypeOK
<1>1. /\ UNCHANGED doc /\ Live(t) /\ Doc(t) \in Docs
      /\ \A u \in Tasks : u # t => pc'[u] = pc[u]
      /\ pc[t] \in Steps /\ pc'[t] \in Flow[pc[t]]
  BY OwnDocument, RequestsUnmoved, OthersUnmoved, TaskFlows DEF requestVars, HasDocument
<1>2. \A u \in Tasks : Doc(u)' = Doc(u)
  BY <1>1 DEF Doc
<1>3. \/ UNCHANGED file
      \/ file'[Doc(t)] = "saved" /\ \A d \in Docs : d # Doc(t) => file'[d] = file[d]
      \/ /\ pc[t] \in {"saving", "undoing"} /\ pc'[t] = "raised"
         /\ \A d \in Docs : d # Doc(t) => file'[d] = file[d]
  BY <1>1, FileMoves DEF SaveUpload, SaveFails, UndoUpload, Goto
<1>4. \A d \in Docs : file[d] = "saved" =>
         file'[d] = "saved" \/ (d = Doc(t) /\ pc[t] \in Intake /\ pc'[t] = "raised")
  BY <1>1, <1>3 DEF Intake
<1>5. \A u \in Tasks : pc[u] # "idle" /\ u # t /\ Doc(u) = Doc(t) => pc[t] \notin Intake
  BY FileOwner
<1>6. \A u \in Tasks :
         pc[u] \in WorkSteps \cup {"creating", "lookup", "returned"} => Doc(u) \in Docs
  BY DEF HasDocument, Live, WorkSteps, Steps, InUse
<1>7. \A u \in Tasks : /\ file[Doc(u)] = "saved" /\ u # t
                       /\ pc[u] \in WorkSteps \cup {"creating", "lookup", "returned"}
                       => file'[Doc(u)] = "saved"
  BY <1>3, <1>5, <1>6 DEF Intake, WorkSteps, Steps
<1>8. ASSUME NEW u \in Tasks, pc'[u] \in WorkSteps \cup {"creating", "returned"}
      PROVE  file'[Doc(u)] = "saved"
  <2>1. CASE u # t
    BY <1>1, <1>7, <1>8, <2>1 DEF InUse, WorkSteps, Steps
  <2>2. CASE u = t
    <3>1. pc[t] = "saving" \/ pc[t] \in WorkSteps \cup {"creating"} \/ pc[t] = "lookup"
      BY <1>1, <1>8, <2>2 DEF Flow, WorkSteps, Steps
    <3>2. CASE pc[t] = "saving"
      <4>1. SaveUpload(t)
        BY <1>8, <2>2, <3>2
           DEF Step, CreateDocument, RefreshDocument, UndoUpload, EnqueueJob, LookupDocument,
               DocumentNotFound, StartProcessing, LoadDocument, ProcessPages, StageStatus,
               StageAudit, CommitRecord, MarkFailed, MarkFailedRaises, Fault, SaveFails, Goto,
               EnqueueFails, LoadFails, DatabaseError, DatabaseSteps, CommitInDoubt, WorkSteps,
               Steps
      <4> QED BY <1>1, <2>2, <4>1 DEF SaveUpload
    <3>3. CASE pc[t] \in WorkSteps \cup {"creating"}
      <4>1. file[Doc(t)] = "saved"
        BY <3>3 DEF InUse
      <4>2. pc'[t] # "raised"
        BY <1>8, <2>2 DEF WorkSteps, Steps
      <4> QED BY <1>1, <1>4, <2>2, <4>1, <4>2
    <3>4. CASE pc[t] = "lookup"
      <4>1. LookupDocument(t)
        BY <1>8, <2>2, <3>4
           DEF Step, SaveUpload, CreateDocument, RefreshDocument, UndoUpload, EnqueueJob,
               DocumentNotFound, StartProcessing, LoadDocument, ProcessPages, StageStatus,
               StageAudit, CommitRecord, MarkFailed, MarkFailedRaises, Fault, SaveFails, Goto,
               EnqueueFails, LoadFails, DatabaseError, SessionBreaks, OnDatabaseError,
               CommitInDoubt, WorkSteps, Steps
      <4>2. file[Doc(t)] = "saved"
        BY <3>4, <4>1 DEF LookupDocument, InUse
      <4> QED BY <1>1, <1>4, <2>2, <3>4, <4>2 DEF Intake
    <3> QED BY <3>1, <3>2, <3>3, <3>4
  <2> QED BY <2>1, <2>2
<1>9. ASSUME NEW u \in Tasks, pc'[u] = "lookup"
      PROVE  file'[Doc(u)] = "saved" \/ status'[Doc(u)] = "absent"
  <2>1. u # t /\ pc[u] = "lookup" /\ Doc(u) \in Docs
    BY <1>1, <1>6, <1>9, FlowFalls
  <2>2. CASE file[Doc(u)] = "saved"
    BY <1>7, <2>1, <2>2
  <2>3. CASE status[Doc(u)] = "absent"
    <3>1. status'[Doc(u)] # "absent" => pc[t] = "creating" /\ Doc(u) = Doc(t)
      BY <2>1, <2>3, RowMoves, OwnDocument DEF CreateDocument
    <3> QED BY <1>5, <2>1, <3>1 DEF Intake
  <2> QED BY <2>1, <2>2, <2>3 DEF InUse
<1>10. ASSUME NEW r \in Requests, job'[r] # None PROVE file'[doc[r]] = "saved"
  <2>1. CASE job[r] # None
    <3>1. file[doc[r]] = "saved" /\ doc[r] \in Docs
      BY <2>1 DEF InUse, HasDocument
    <3>2. doc[r] = Doc(t) => pc[t] \notin Intake
      BY <2>1, FileOwner
    <3> QED BY <1>4, <3>1, <3>2
  <2>2. CASE job[r] = None
    <3>1. pc[t] = "enqueueing" /\ t[1] = r
      BY <1>10, <2>2, JobMoves DEF PutJob
    <3>2. file[Doc(t)] = "saved"
      BY <3>1 DEF InUse, WorkSteps, Steps
    <3> QED BY <1>1, <1>4, <3>1, <3>2 DEF Doc, Intake
  <2> QED BY <2>1, <2>2
<1>11. \A u \in Tasks : pc'[u] = "returned" => Doc(u) \in Docs
  BY <1>1 DEF InUse
<1> QED BY <1>1, <1>2, <1>8, <1>9, <1>10, <1>11 DEF InUse

LEMMA NextInUse == Shape /\ Recorded /\ Owned /\ InUse /\ [Next]_vars => InUse'
<1> SUFFICES ASSUME Shape, Recorded, Owned, InUse, [Next]_vars PROVE InUse'
  OBVIOUS
<1> USE TaskParts, HandlerIsTask DEF Shape, TypeOK, dbVars, requestVars
<1>1. ASSUME NEW t \in Tasks, Step(t) \/ Fault(t) PROVE InUse'
  BY <1>1, TaskKeepsInUse
<1>2. ASSUME UNCHANGED <<status, file, doc>>,
             \A r \in Requests : job[r] = None => job'[r] = None,
             \A t \in Tasks :
                \/ pc'[t] = pc[t] \/ pc'[t] = "killed"
                \/ pc'[t] = "lookup" /\ job[t[1]] # None
      PROVE  InUse'
  <2>1. \A t \in Tasks : Doc(t)' = Doc(t)
    BY <1>2 DEF Doc
  <2>2. \A t \in Tasks : pc'[t] = "lookup" => file[Doc(t)] = "saved" \/ status[Doc(t)] = "absent"
    BY <1>2 DEF InUse, Doc
  <2>3. \A t \in Tasks : pc'[t] \in WorkSteps \cup {"creating", "returned"} => pc'[t] = pc[t]
    BY <1>2 DEF WorkSteps, Steps
  <2> QED BY <1>2, <2>1, <2>2, <2>3 DEF InUse
<1>3. ASSUME NEW r \in Requests, Receive(r) PROVE InUse'
  <2>1. /\ pc[Handler(r)] = "idle" /\ pc'[Handler(r)] \in {"saving", "raised", "lookup"}
        /\ \A t \in Tasks : t # Handler(r) => pc'[t] = pc[t]
        /\ \A q \in Requests : q # r => doc'[q] = doc[q]
        /\ UNCHANGED <<status, job>>
    BY <1>3, ReceiveMoves
  <2>2. /\ job[r] = None
        /\ \A t \in Tasks : t[1] = r => pc[t] = "idle"
    BY <2>1 DEF IdleRequest
  <2>3. \A t \in Tasks : t # Handler(r) /\ pc[t] # "idle" =>
           t[1] # r /\ Doc(t)' = Doc(t) /\ pc'[t] = pc[t]
    BY <2>1, <2>2 DEF Doc
  <2>4. /\ \A t \in Tasks : t # Handler(r) /\ file[Doc(t)] = "saved"
                          /\ pc[t] \in WorkSteps \cup {"creating", "returned", "lookup"}
                          => file'[Doc(t)] = "saved"
        /\ \A q \in Requests : q # r /\ job[q] # None => file'[doc[q]] = "saved"
    <3>1. CASE UNCHANGED file
      BY <3>1, <2>2 DEF InUse
    <3>2. CASE ReceiveUpload(r)
      <4>1. PICK d \in Docs : Unused(d) /\ file' = [file EXCEPT ![d] = "partial"]
        BY <3>2 DEF ReceiveUpload
      <4>2. \A e \in Docs : e # d => file'[e] = file[e]
        BY <4>1
      <4>3. /\ \A t \in Tasks : Doc(t) # d
            /\ \A q \in Requests : doc[q] # d
        BY <4>1 DEF Unused, Doc
      <4>4. /\ \A t \in Tasks : pc[t] \in WorkSteps \cup {"creating", "returned", "lookup"}
                                 => Doc(t) \in Docs
            /\ \A q \in Requests : job[q] # None => doc[q] \in Docs
        BY DEF HasDocument, Live, WorkSteps, Steps, InUse
      <4> QED BY <4>2, <4>3, <4>4 DEF InUse
    <3> QED BY <1>3, <3>1, <3>2 DEF Receive, RejectUpload, ReceiveDocumentId
  <2>5. pc'[Handler(r)] = "lookup" =>
           file'[Doc(Handler(r))'] = "saved" \/ status'[Doc(Handler(r))'] = "absent"
    <3> SUFFICES ASSUME pc'[Handler(r)] = "lookup"
                 PROVE  file'[Doc(Handler(r))'] = "saved" \/ status'[Doc(Handler(r))'] = "absent"
      OBVIOUS
    <3>1. ReceiveDocumentId(r)
      BY <1>3 DEF Receive, ReceiveUpload, RejectUpload, Goto
    <3>2. PICK d \in Docs : (Announced(d) \/ Unused(d)) /\ doc'[r] = d
      BY <3>1 DEF ReceiveDocumentId, ReceiveRequest
    <3>3. Doc(Handler(r))' = d /\ UNCHANGED <<file, status>>
      BY <3>1, <3>2 DEF ReceiveDocumentId, Doc
    <3>4. Announced(d) => file[d] = "saved"
      BY DEF Announced, InUse, Doc
    <3> QED BY <3>2, <3>3, <3>4 DEF Unused
  <2>6. ASSUME NEW t \in Tasks
        PROVE  /\ pc'[t] = "returned" => Doc(t)' \in Docs
               /\ pc'[t] \in WorkSteps \cup {"creating", "returned"} => file'[Doc(t)'] = "saved"
               /\ pc'[t] = "lookup" => file'[Doc(t)'] = "saved" \/ status'[Doc(t)'] = "absent"
    <3>1. CASE t = Handler(r)
      BY <2>1, <2>5, <3>1 DEF WorkSteps, Steps
    <3>2. CASE t # Handler(r) /\ pc[t] = "idle"
      BY <2>1, <3>2 DEF WorkSteps, Steps
    <3>3. CASE t # Handler(r) /\ pc[t] # "idle"
      BY <2>1, <2>3, <2>4, <3>3 DEF InUse
    <3> QED BY <3>1, <3>2, <3>3
  <2>7. ASSUME NEW q \in Requests, job'[q] # None PROVE file'[doc'[q]] = "saved"
    BY <2>1, <2>2, <2>4, <2>7
  <2> QED BY <2>6, <2>7 DEF InUse
<1>4. ASSUME NEW r \in Requests, StartJob(r) PROVE InUse'
  <2> DEFINE t == <<r, tries[r] + 1>>
  <2>1. t \in Tasks /\ t[1] = r /\ pc' = [pc EXCEPT ![t] = "lookup"]
    BY <1>4, RunIsTask, TriesAssumption DEF StartJob, Goto
  <2> HIDE DEF t
  <2>2. /\ job' = [job EXCEPT ![r] = "running"] /\ job[r] = "queued"
        /\ UNCHANGED <<status, file, doc>>
    BY <1>4 DEF StartJob
  <2> QED BY <1>2, <2>1, <2>2 DEF None
<1>5. ASSUME NEW r \in Requests, FinishJob(r) PROVE InUse'
  BY <1>2, <1>5 DEF FinishJob, taskVars, None
<1>6. ASSUME NEW r \in Requests, JobTimeout(r) PROVE InUse'
  BY <1>2, <1>6 DEF JobTimeout, Kill, None
<1>7. CASE CrashApi \/ CrashWorker
  BY <1>2, <1>7 DEF CrashApi, CrashWorker, Kill, queueVars, None
<1>8. CASE UNCHANGED vars
  BY <1>2, <1>8 DEF vars, queueVars, taskVars
<1> QED BY <1>1, <1>3, <1>4, <1>5, <1>6, <1>7, <1>8 DEF Next, Terminated

LEMMA AlwaysInUse == Spec => []InUse
<1>1. Init => InUse
  BY DEF Init, InUse, WorkSteps, Steps, None
<1>2. Shape /\ Recorded /\ Owned /\ InUse /\ [Next]_vars => InUse'
  BY NextInUse
<1> QED BY <1>1, <1>2, AlwaysShape, AlwaysRecorded, AlwaysOwned, PTL DEF Spec

-----------------------------------------------------------------------------
(* Nobody is stuck *)

\* The guards of Step(t), for a task that is under way, other than its label: a
\* document is loaded when it is there, a row is updated when no one has it locked.
Free(t) ==
    /\ pc[t] = "loading" => file[Doc(t)] = "saved"
    /\ pc[t] \in {"starting", "recording", "failing"} => Unlocked(t)

\* at these labels the next step has no guard
Committing == {"auditing", "committing"}

\* A task is free to go on, or waits for one that is; a job that is queued has a
\* delivery left, and one that is running has a run that is under way or ended.
NobodyStuck ==
    /\ \A t \in Tasks : Live(t) =>
          Free(t) \/ \E u \in Tasks \ {t} : Doc(u) = Doc(t) /\ pc[u] \in Committing
    /\ \A r \in Requests :
          /\ job[r] = "queued" => tries[r] < MaxTries
          /\ job[r] = "running" => Run(r) \in Tasks /\ (Live(Run(r)) \/ pc[Run(r)] \in Ended)

\* Whatever faults struck, no file that a task is about to load is missing, the row
\* lock a task waits for belongs to a task that waits for nothing, so that there is
\* no cycle, and no job is left where arq would not take it up
\* (documents.py:287-300, 328-389, document_intake.py:53).
THEOREM NothingIsStuck == Spec => []NobodyStuck
<1>1. Shape /\ Recorded /\ InUse /\ Queued => NobodyStuck
  <2> SUFFICES ASSUME Shape, Recorded, InUse, Queued PROVE NobodyStuck
    OBVIOUS
  <2>1. ASSUME NEW t \in Tasks, Live(t), ~Free(t)
        PROVE  \E u \in Tasks \ {t} : Doc(u) = Doc(t) /\ pc[u] \in Committing
    <3>1. pc[t] = "loading" => file[Doc(t)] = "saved"
      BY DEF InUse, WorkSteps, Steps
    <3>2. ~Unlocked(t)
      BY <2>1, <3>1 DEF Free
    <3>3. PICK u \in Tasks \ {t} : Doc(u) = Doc(t) /\ staged[u].status # None
      BY <3>2 DEF Unlocked
    <3> QED BY <3>3 DEF Recorded, RunRecords, Committing
  <2>2. ASSUME NEW r \in Requests, job[r] = "running"
        PROVE  Run(r) \in Tasks /\ (Live(Run(r)) \/ pc[Run(r)] \in Ended)
    <3>1. Run(r) \in Tasks /\ pc[Run(r)] # "idle"
      BY <2>2, RunIsTask DEF Queued, Run, Shape, TypeOK
    <3> QED BY <3>1 DEF Shape, TypeOK, Live
  <2> QED BY <2>1, <2>2 DEF NobodyStuck, Queued
<1> QED BY <1>1, AlwaysShape, AlwaysRecorded, AlwaysInUse, AlwaysQueued, PTL

-----------------------------------------------------------------------------
(* Jobs settle their documents *)

\* A run that has to mark its document FAILED has it as PROCESSING, unless its
\* result was committed or its session broke.
FailingKnown ==
    \A t \in Tasks : pc[t] = "failing" =>
        broken[t] \/ extraction[t] # None \/ mem[t] = "PROCESSING"

\* The document of a job is a row, and runs belong to jobs.
JobHasRow ==
    /\ \A r \in Requests : job[r] # None => status[doc[r]] # "absent"
    /\ \A t \in Tasks : IsRun(t) /\ pc[t] # "idle" => job[t[1]] # None

Handled == FailingKnown /\ JobHasRow

\* A commit of a run settles its document and is the only way to an extraction.
LEMMA CommitSettles ==
    ASSUME Shape, Recorded, Owned, NEW t \in Tasks, Step(t) \/ Fault(t)
    PROVE  \/ extraction'[t] = extraction[t]
           \/ /\ pc[t] = "committing" /\ Publish(t)
              /\ extraction'[t] # None /\ Settled(Doc(t))'
<1>1. extraction'[t] = extraction[t] \/ (pc[t] = "committing" /\ Publish(t))
  BY DEF Step, SaveUpload, CreateDocument, RefreshDocument, UndoUpload, EnqueueJob,
         LookupDocument, DocumentNotFound, StartProcessing, LoadDocument, ProcessPages,
         StageStatus, StageAudit, CommitRecord, MarkFailed, MarkFailedRaises, Fault,
         SaveFails, EnqueueFails, LoadFails, DatabaseError, CommitInDoubt, dbVars
<1>2. CASE pc[t] = "committing" /\ Publish(t)
  <2>1. /\ staged[t].status = DocumentStatusFor(outcome[t]) /\ staged[t].status # None
        /\ staged[t].extraction = ExtractionStatusFor(outcome[t])
        /\ outcome[t] \in ExtractionStatus \cup {"extraction_error"}
    BY <1>2 DEF Recorded, RunRecords, Owned, InHand, Shape, OutcomeKnown, Recording
  <2>2. /\ DocumentStatusFor(outcome[t]) \in {"COMPLETED", "FAILED"}
        /\ ExtractionStatusFor(outcome[t]) \in ExtractionStatus
    BY <2>1 DEF DocumentStatusFor, ExtractionStatusFor, ExtractionStatus
  <2>3. Doc(t) \in Docs /\ UNCHANGED doc
    BY <1>2, RequestsUnmoved DEF Shape, HasDocument, Live, Steps, requestVars
  <2>4. extraction'[t] # None /\ status'[Doc(t)] \in {"COMPLETED", "FAILED"}
    BY <1>2, <2>1, <2>2, <2>3 DEF Publish, Shape, TypeOK, ExtractionStatus, None
  <2>5. Doc(t)' = Doc(t) /\ Doc(t) # None
    BY <2>3, DocsAssumption DEF Doc
  <2> QED BY <1>2, <2>4, <2>5 DEF Settled
<1> QED BY <1>1, <1>2

LEMMA TaskHandled ==
    ASSUME Shape, Recorded, Owned, EnqueuedByHandler, Handled, NEW t \in Tasks,
           Step(t) \/ Fault(t)
    PROVE  Handled'
<1> USE TaskParts DEF Shape, TypeOK
<1>1. /\ UNCHANGED <<doc, kind>> /\ Live(t) /\ Doc(t) \in Docs
      /\ pc[t] \in Steps /\ pc'[t] \in Flow[pc[t]]
      /\ \A u \in Tasks : u # t => /\ pc'[u] = pc[u] /\ broken'[u] = broken[u]
                                   /\ extraction'[u] = extraction[u] /\ mem'[u] = mem[u]
  BY OwnDocument, RequestsUnmoved, OthersUnmoved, TaskFlows DEF requestVars, HasDocument
<1>2. ASSUME pc'[t] = "failing"
      PROVE  broken'[t] \/ extraction'[t] # None \/ mem'[t] = "PROCESSING"
  <2>1. CASE LoadFails(t) \/ ProcessPages(t)
    BY <2>1 DEF LoadFails, ProcessPages, Owned, InHand
  <2>2. CASE DatabaseError(t) \/ CommitInDoubt(t)
    BY <2>2 DEF DatabaseError, CommitInDoubt, SessionBreaks
  <2>3. CASE CommitRecord(t)
    <3>1. staged[t].extraction # None
      BY <2>3 DEF CommitRecord, Recorded, RunRecords, OutcomeKnown, Recording,
                  ExtractionStatusFor, ExtractionStatus, None
    <3> QED BY <2>3, <3>1 DEF CommitRecord, Publish
  <2> QED BY <1>2, <2>1, <2>2, <2>3
          DEF Step, SaveUpload, CreateDocument, RefreshDocument, AfterRefresh, UndoUpload,
              EnqueueJob, LookupDocument, AfterLookup, DocumentNotFound, StartProcessing,
              AfterStart, LoadDocument, StageStatus, StageAudit, MarkFailed,
              MarkFailedRaises, Fault, SaveFails, EnqueueFails, OnEnqueueError, Goto
<1>3. FailingKnown'
  BY <1>1, <1>2 DEF Handled, FailingKnown
<1>4. ASSUME NEW r \in Requests, job'[r] # None PROVE status'[doc[r]] # "absent"
  <2>1. doc[r] \in Docs /\ status[doc[r]] # "absent"
    <3>1. CASE job[r] # None
      BY <3>1 DEF Handled, JobHasRow, HasDocument
    <3>2. CASE job[r] = None
      <4>1. pc[t] = "enqueueing" /\ t[1] = r
        BY <1>4, <3>2, JobMoves DEF PutJob
      <4> QED BY <1>1, <4>1 DEF Registered, WorkSteps, Steps, Doc
    <3> QED BY <3>1, <3>2
  <2> QED BY <2>1, RowMoves
<1>5. \A r \in Requests : job[r] # None => job'[r] # None
  BY JobMoves DEF PutJob, None
<1>6. \A u \in Tasks : pc[u] = "idle" => pc'[u] = "idle" \/ u = t
  BY <1>1
<1> QED BY <1>1, <1>3, <1>4, <1>5, <1>6 DEF Handled, JobHasRow, Live, Steps, IsRun

LEMMA NextHandled ==
    Shape /\ Recorded /\ Owned /\ Single /\ Handled /\ [Next]_vars => Handled'
<1> SUFFICES ASSUME Shape, Recorded, Owned, Single, Handled, [Next]_vars PROVE Handled'
  OBVIOUS
<1> USE TaskParts, HandlerIsTask DEF Shape, TypeOK, dbVars, requestVars
<1>1. ASSUME NEW t \in Tasks, Step(t) \/ Fault(t) PROVE Handled'
  BY <1>1, TaskHandled DEF Single
<1>2. ASSUME UNCHANGED <<status, extraction, mem, broken>>,
             \A r \in Requests : job[r] # None <=> job'[r] # None,
             \A r \in Requests : job[r] # None => doc'[r] = doc[r],
             \A t \in Tasks :
                \/ pc'[t] = pc[t] \/ (Live(t) /\ pc'[t] = "killed")
                \/ pc'[t] # "failing" /\ (IsRun(t) => job[t[1]] # None)
      PROVE  Handled'
  <2>1. FailingKnown'
    BY <1>2 DEF Handled, FailingKnown
  <2>2. JobHasRow'
    BY <1>2 DEF Handled, JobHasRow, IsRun, Live, Steps
  <2> QED BY <2>1, <2>2 DEF Handled
<1>3. ASSUME NEW r \in Requests, Receive(r) PROVE Handled'
  <2>1. /\ pc[Handler(r)] = "idle" /\ pc'[Handler(r)] # "failing"
        /\ \A t \in Tasks : t # Handler(r) => pc'[t] = pc[t]
        /\ \A q \in Requests : q # r => doc'[q] = doc[q]
        /\ UNCHANGED <<status, extraction, job, mem, broken>>
    BY <1>3, ReceiveMoves
  <2>2. job[r] = None /\ ~IsRun(Handler(r))
    BY <2>1 DEF IdleRequest, IsRun
  <2> QED BY <1>2, <2>1, <2>2
<1>4. ASSUME NEW r \in Requests, StartJob(r) PROVE Handled'
  <2> DEFINE t == <<r, tries[r] + 1>>
  <2>1. t \in Tasks /\ t[1] = r /\ pc' = [pc EXCEPT ![t] = "lookup"]
    BY <1>4, RunIsTask, TriesAssumption DEF StartJob, Goto
  <2> HIDE DEF t
  <2>2. /\ job' = [job EXCEPT ![r] = "running"] /\ job[r] = "queued"
        /\ UNCHANGED <<status, extraction, mem, broken, doc>>
    BY <1>4 DEF StartJob
  <2> QED BY <1>2, <2>1, <2>2 DEF None
<1>5. ASSUME NEW r \in Requests, FinishJob(r) PROVE Handled'
  BY <1>2, <1>5 DEF FinishJob, taskVars, None
<1>6. ASSUME NEW r \in Requests, JobTimeout(r) PROVE Handled'
  BY <1>2, <1>6 DEF JobTimeout, Kill, None
<1>7. CASE CrashApi
  <2>1. /\ UNCHANGED <<status, extraction, mem, broken, job, doc>>
        /\ \A t \in Tasks : pc'[t] = pc[t] \/ (Live(t) /\ pc'[t] = "killed")
    BY <1>7 DEF CrashApi, Kill, queueVars
  <2> QED BY <1>2, <2>1
<1>8. CASE CrashWorker
  <2>1. /\ UNCHANGED <<status, extraction, mem, broken, doc>>
        /\ \A t \in Tasks : pc'[t] = pc[t] \/ (Live(t) /\ pc'[t] = "killed")
        /\ \A r \in Requests : job[r] # None <=> job'[r] # None
    BY <1>8 DEF CrashWorker, Kill, None
  <2> QED BY <1>2, <2>1
<1>9. CASE UNCHANGED vars
  BY <1>2, <1>9 DEF vars, queueVars, taskVars
<1> QED BY <1>1, <1>3, <1>4, <1>5, <1>6, <1>7, <1>8, <1>9 DEF Next, Terminated

LEMMA AlwaysHandled == Spec => []Handled
<1>1. Init => Handled
  BY DEF Init, Handled, FailingKnown, JobHasRow, None
<1>2. Shape /\ Recorded /\ Owned /\ Single /\ Handled /\ [Next]_vars => Handled'
  BY NextHandled
<1> QED BY <1>1, <1>2, AlwaysShape, AlwaysRecorded, AlwaysOwned, AlwaysSingle, PTL DEF Spec

\* A run of a job ends with its document settled, or after it was settled by the
\* commit of its result, unless its session broke.
JobSettles(t) ==
    IsRun(t) /\ pc'[t] # pc[t] /\ pc'[t] \in {"returned", "raised"} =>
        broken'[t] \/ extraction'[t] # None \/ Settled(Doc(t))'

\* The commit of a result settles its document.
ResultSettles(t) ==
    extraction'[t] # extraction[t] => extraction'[t] # None /\ Settled(Doc(t))'

\* An accepted job comes to a COMPLETED or FAILED document when its run ends, by its
\* own commit even where another run has begun on the document since: only a kill or
\* a broken session leave it open (documents.py:277-300, 328-389, worker.py:42-70).
THEOREM JobsSettle == Spec => [][\A t \in Tasks : JobSettles(t) /\ ResultSettles(t)]_vars
<1> USE TaskParts DEF Shape, TypeOK
<1>1. ASSUME Shape, Recorded, Owned, Single, Handled, NEW t \in Tasks, Step(t) \/ Fault(t)
      PROVE  JobSettles(t) /\ ResultSettles(t)
  <2> SUFFICES ASSUME IsRun(t), pc'[t] \in {"returned", "raised"}
               PROVE  broken'[t] \/ extraction'[t] # None \/ Settled(Doc(t))'
    BY <1>1, CommitSettles DEF JobSettles, ResultSettles
  <2> USE <1>1
  <2>1. /\ pc[t] \in Steps /\ pc[t] \notin Intake \cup {"enqueueing"} /\ MarksFailed(t)
        /\ UNCHANGED doc /\ Doc(t) \in Docs
    BY TaskFlows, RequestsUnmoved
       DEF Owned, Claim, Single, EnqueuedByHandler, MarksFailed, HasDocument, Live, requestVars
  <2>2. CASE CommitRecord(t)
    <3>1. staged[t].extraction # None
      BY <2>2 DEF CommitRecord, Recorded, RunRecords, OutcomeKnown, Recording,
                  ExtractionStatusFor, ExtractionStatus, None
    <3> QED BY <2>2, <3>1 DEF CommitRecord, Publish
  <2>3. CASE DatabaseError(t) \/ CommitInDoubt(t)
    BY <2>3 DEF DatabaseError, CommitInDoubt, SessionBreaks
  <2>4. CASE MarkFailed(t)
    <3>1. CASE mem[t] = "FAILED"
      BY <2>4, <3>1 DEF MarkFailed, Handled, FailingKnown
    <3>2. CASE mem[t] # "FAILED"
      <4>1. status'[Doc(t)] = "FAILED"
        BY <2>1, <2>4, <3>2 DEF MarkFailed, WriteStatus
      <4>2. Doc(t)' = Doc(t) /\ Doc(t) # None
        BY <2>1, DocsAssumption DEF Doc
      <4> QED BY <4>1, <4>2 DEF Settled
    <3> QED BY <3>1, <3>2
  <2>5. CASE MarkFailedRaises(t)
    BY <2>5 DEF MarkFailedRaises
  <2>6. ~DocumentNotFound(t)
    BY <2>1 DEF DocumentNotFound, Handled, JobHasRow, Doc
  <2> QED BY <2>1, <2>2, <2>3, <2>4, <2>5, <2>6
          DEF Step, SaveUpload, CreateDocument, RefreshDocument, UndoUpload, EnqueueJob,
              LookupDocument, AfterLookup, StartProcessing, AfterStart, LoadDocument,
              ProcessPages, OnProcessingError, StageStatus, StageAudit, Fault, SaveFails,
              EnqueueFails, LoadFails, Goto, Intake
<1>2. ASSUME Shape, Recorded, Owned, Single, Handled, NEW t \in Tasks, Step(t) \/ Fault(t)
      PROVE  \A u \in Tasks : JobSettles(u) /\ ResultSettles(u)
  BY <1>1, <1>2, OthersUnmoved DEF JobSettles, ResultSettles
<1>3. ASSUME Shape, NEW r \in Requests, Receive(r)
      PROVE  \A u \in Tasks : JobSettles(u) /\ ResultSettles(u)
  <2> TAKE u \in Tasks
  <2>1. UNCHANGED extraction /\ (u # Handler(r) => pc'[u] = pc[u])
    BY <1>3, ReceiveMoves
  <2>2. ~IsRun(Handler(r))
    BY HandlerIsTask DEF IsRun
  <2> QED BY <2>1, <2>2 DEF JobSettles, ResultSettles
<1>4. ASSUME Shape, UNCHANGED extraction,
             \A u \in Tasks : pc'[u] = pc[u] \/ pc'[u] \notin {"returned", "raised"}
      PROVE  \A u \in Tasks : JobSettles(u) /\ ResultSettles(u)
  BY <1>4 DEF JobSettles, ResultSettles
<1>5. ASSUME Shape, NEW r \in Requests, StartJob(r) \/ FinishJob(r) \/ JobTimeout(r)
      PROVE  \A u \in Tasks : JobSettles(u) /\ ResultSettles(u)
  <2> DEFINE t == <<r, tries[r] + 1>>
  <2>1. CASE StartJob(r)
    <3>1. UNCHANGED extraction /\ pc' = [pc EXCEPT ![t] = "lookup"]
      BY <2>1 DEF StartJob, Goto, dbVars
    <3> HIDE DEF t
    <3> QED BY <1>4, <1>5, <3>1
  <2>2. CASE FinishJob(r)
    BY <1>4, <1>5, <2>2 DEF FinishJob, taskVars, dbVars
  <2>3. CASE JobTimeout(r)
    <3>1. UNCHANGED extraction /\ \A u \in Tasks : pc'[u] = pc[u] \/ pc'[u] = "killed"
      BY <2>3 DEF JobTimeout, Kill, dbVars
    <3> QED BY <1>4, <1>5, <3>1
  <2> QED BY <1>5, <2>1, <2>2, <2>3
<1>6. ASSUME Shape, CrashApi \/ CrashWorker
      PROVE  \A u \in Tasks : JobSettles(u) /\ ResultSettles(u)
  <2>1. UNCHANGED extraction /\ \A u \in Tasks : pc'[u] = pc[u] \/ pc'[u] = "killed"
    BY <1>6 DEF CrashApi, CrashWorker, Kill, dbVars
  <2> QED BY <1>4, <1>6, <2>1
<1>7. Shape /\ Recorded /\ Owned /\ Single /\ Handled /\ [Next]_vars
        => [\A t \in Tasks : JobSettles(t) /\ ResultSettles(t)]_vars
  BY <1>2, <1>3, <1>5, <1>6 DEF Next, Terminated
<1> QED BY <1>7, AlwaysShape, AlwaysRecorded, AlwaysOwned, AlwaysSingle, AlwaysHandled, PTL
        DEF Spec
=============================================================================
