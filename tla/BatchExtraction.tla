--------------------------- MODULE BatchExtraction ---------------------------
(* Batches of uploads: DocumentService.batch_extract runs the items of each  *)
(* batch as coroutines of their own, at most Limit of them past a semaphore  *)
(* that belongs to the batch, and each with a database session of its own.   *)
(* All sessions of the process draw on one connection pool, those of the     *)
(* other requests too.  What an item does to its document is the subject of  *)
(* DocumentService; here it counts when the item holds a connection and what *)
(* status it ends with.                                                      *)
EXTENDS Naturals, FiniteSets, FiniteSetsExt

CONSTANTS
    Batches,     \* requests to POST /documents/extractions/batch
    Files,       \* uploads in each batch
    Limit,       \* BATCH_CONCURRENCY_LIMIT
    PoolSize,    \* DB_POOL_SIZE + DB_MAX_OVERFLOW
    Others       \* transactions of the process's other requests: single uploads,
                 \* known documents, reads, corrections, cost reports

ASSUME BatchesAssumption == IsFiniteSet(Batches)
ASSUME FilesAssumption == Files \in Nat \ {0}
ASSUME LimitAssumption == Limit \in Nat \ {0}
ASSUME PoolAssumption == PoolSize \in Nat \ {0}
ASSUME OthersAssumption == IsFiniteSet(Others)

VARIABLES
    async_mode,  \* TRUE for a batch of background jobs, with Redis connected
    pc,          \* what each item waits for
    connected,   \* items whose session holds a connection
    others,      \* how far each of the other transactions is
    result,      \* the BatchItemResult of each item
    response     \* the counts each batch was answered with

vars == <<async_mode, pc, connected, others, result, response>>

None == "none"
Items == Batches \X (1..Files)
ItemsOf(b) == {t \in Items : t[1] = b}

Statuses == {"completed", "partial", "failed", "processing"}
\* why an item failed: its own document, or no connection in time
Errors == {None, "raised", "pool_timeout"}
Results == [status : Statuses \cup {None}, error : Errors]
NoResult == [status |-> None, error |-> None]
Responses == [total : Nat, succeeded : Nat, failed : Nat]
NoResponse == [total |-> 0, succeeded |-> 0, failed |-> 0]

InFlight == {"preparing", "creating", "refreshing", "marking", "enqueueing",
             "processing", "recording"}
\* states at whose first statement the session checks a connection out
Querying == {"creating", "refreshing", "recording"}

\* the other transactions that hold a connection, and all connections in use
Open == {o \in Others : others[o] = "open"}
InUse == Cardinality(connected) + Cardinality(Open)

TypeOK ==
    /\ async_mode \in [Batches -> BOOLEAN]
    /\ pc \in [Items -> {"waiting", "done"} \cup InFlight]
    /\ connected \subseteq Items
    /\ others \in [Others -> {"new", "open", "closed"}]
    /\ InUse <= PoolSize
    /\ result \in [Items -> Results]
    /\ response \in [Batches -> Responses]

Init ==
    /\ async_mode \in [Batches -> BOOLEAN]
    /\ pc = [t \in Items |-> "waiting"]
    /\ connected = {}
    /\ others = [o \in Others |-> "new"]
    /\ result = [t \in Items |-> NoResult]
    /\ response = [b \in Batches |-> NoResponse]

-----------------------------------------------------------------------------
Goto(t, label) == pc' = [pc EXCEPT ![t] = label]

\* MUTANT: the item's session is not closed when it ends
EndItemOnly(t, s, e) ==
    /\ Goto(t, "done")
    /\ result' = [result EXCEPT ![t] = [status |-> s, error |-> e]]
    /\ UNCHANGED <<async_mode, connected, others, response>>

\* The item's result; leaving the two `async with` closes the session, which
\* returns its connection, and releases the permit
EndItem(t, s, e) ==
    /\ Goto(t, "done")
    /\ result' = [result EXCEPT ![t] = [status |-> s, error |-> e]]
    /\ connected' = connected \ {t}
    /\ UNCHANGED <<async_mode, others, response>>

UnderWay(S) == {t \in S : pc[t] \in InFlight}

\* MUTANT: the items are gathered without a semaphore
Ungated(b) == TRUE

PermitFree(b) == Cardinality(UnderWay(ItemsOf(b))) < Limit

Acquire(t) ==
    /\ pc[t] = "waiting" /\ PermitFree(t[1])
    /\ Goto(t, "preparing")
    /\ UNCHANGED <<async_mode, connected, others, result, response>>

\* prepare_document parses and stores the upload without the database
Prepare(t) ==
    /\ pc[t] = "preparing"
    /\ \/ /\ Goto(t, "creating")
          /\ UNCHANGED <<async_mode, connected, others, result, response>>
       \/ EndItem(t, "failed", "raised")

\* MUTANT: sessions do not share a pool
ConnectUnpooled(t) ==
    /\ pc[t] \in Querying /\ t \notin connected
    /\ connected' = connected \cup {t}
    /\ UNCHANGED <<async_mode, pc, others, result, response>>

\* the first statement of a transaction checks a connection out of the pool
Connect(t) ==
    /\ pc[t] \in Querying /\ t \notin connected
    /\ InUse < PoolSize
    /\ connected' = connected \cup {t}
    /\ UNCHANGED <<async_mode, pc, others, result, response>>

\* the pool raises when it stays exhausted for its timeout
PoolTimeout(t) ==
    /\ pc[t] \in Querying /\ t \notin connected
    /\ InUse = PoolSize
    /\ EndItem(t, "failed", "pool_timeout")

\* _create_document up to its commit, which returns the connection
Create(t) ==
    /\ pc[t] = "creating" /\ t \in connected
    /\ \/ /\ Goto(t, "refreshing")
          /\ connected' = connected \ {t}
          /\ UNCHANGED <<async_mode, others, result, response>>
       \/ EndItem(t, "failed", "raised")

\* the refresh opens a transaction, which the session keeps
Refresh(t) ==
    /\ pc[t] = "refreshing" /\ t \in connected
    /\ \/ /\ Goto(t, IF async_mode[t[1]] THEN "enqueueing" ELSE "marking")
          /\ UNCHANGED <<async_mode, connected, others, result, response>>
       \/ EndItem(t, "failed", "raised")

\* the job is queued, or Redis refuses and the item runs inline with the
\* transaction of the refresh still open
Enqueue(t) ==
    /\ pc[t] = "enqueueing"
    /\ \/ EndItem(t, "processing", None)
       \/ /\ Goto(t, "processing")
          /\ UNCHANGED <<async_mode, connected, others, result, response>>

\* inline, PROCESSING is committed first, and the LLM calls hold no connection
Mark(t) ==
    /\ pc[t] = "marking"
    /\ \/ /\ Goto(t, "processing")
          /\ connected' = connected \ {t}
          /\ UNCHANGED <<async_mode, others, result, response>>
       \/ EndItem(t, "failed", "raised")

Process(t) ==
    /\ pc[t] = "processing"
    /\ \/ /\ Goto(t, "recording")
          /\ UNCHANGED <<async_mode, connected, others, result, response>>
       \/ EndItem(t, "failed", "raised")

\* the extraction is committed; a failed one raises all the same
Record(t) ==
    /\ pc[t] = "recording" /\ t \in connected
    /\ \/ \E s \in {"completed", "partial", "failed"} : EndItem(t, s, None)
       \/ EndItem(t, "failed", "raised")

Step(t) ==
    \/ Acquire(t) \/ Prepare(t) \/ Connect(t) \/ Create(t) \/ Refresh(t)
    \/ Enqueue(t) \/ Mark(t) \/ Process(t) \/ Record(t)

\* A transaction of another request takes a connection and returns it with its
\* commit, rollback or close.  A request has one session, so it waits for no other
\* connection meanwhile.  One that gives up waiting leaves the pool as it was.
Borrow(o) ==
    /\ others[o] = "new" /\ InUse < PoolSize
    /\ others' = [others EXCEPT ![o] = "open"]
    /\ UNCHANGED <<async_mode, pc, connected, result, response>>

Return(o) ==
    /\ others[o] = "open"
    /\ others' = [others EXCEPT ![o] = "closed"]
    /\ UNCHANGED <<async_mode, pc, connected, result, response>>

\* MUTANT: gather without return_exceptions: the first failure ends the batch
SomeItemEnded(b) ==
    \/ \A t \in ItemsOf(b) : pc[t] = "done"
    \/ \E t \in ItemsOf(b) : result[t].error # None

Gathered(b) == \A t \in ItemsOf(b) : pc[t] = "done"

CountOf(b, S) == Quantify(ItemsOf(b), LAMBDA t : result[t].status \in S)

Answer(b) ==
    /\ response[b] = NoResponse /\ Gathered(b)
    /\ response' = [response EXCEPT ![b] =
           [total |-> Files,
            succeeded |-> CountOf(b, {"completed", "partial", "processing"}),
            failed |-> CountOf(b, {"failed"})]]
    /\ UNCHANGED <<async_mode, pc, connected, others, result>>

Terminated == (\A b \in Batches : response[b] # NoResponse) /\ UNCHANGED vars

Next ==
    \/ \E t \in Items : Step(t) \/ PoolTimeout(t)
    \/ \E o \in Others : Borrow(o) \/ Return(o)
    \/ \E b \in Batches : Answer(b)
    \/ Terminated

Spec == Init /\ [][Next]_vars

\* Every coroutine is resumed when what it awaits is there, and a transaction that
\* holds a connection comes to its end.  Nothing makes another request begin, nor
\* the pool time out: the batches must be answered without it.
FairSpec ==
    /\ Spec
    /\ \A t \in Items : WF_vars(Step(t))
    /\ \A o \in Others : WF_vars(Return(o))
    /\ \A b \in Batches : WF_vars(Answer(b))

-----------------------------------------------------------------------------
(* Properties *)

\* A batch is answered when each of its files has a result, and every file
\* counts as either succeeded or failed (documents.py:391-399, 421-437).
AnswersAddUp ==
    \A b \in Batches : response[b] # NoResponse =>
        /\ \A t \in ItemsOf(b) : result[t].status # None
        /\ response[b].succeeded + response[b].failed = response[b].total

\* An item fails for want of a connection only while the items under way and the
\* open transactions of other requests outnumber the connections of the pool they
\* share, and a batch never has more items under way than its own limit
\* (documents.py:49, 409, database.py:14-30, config.py:24-25): an ended item holds
\* neither a connection nor a permit, and the limits of concurrent batches add.
LimitsFit ==
    /\ [][\A t \in Items : result'[t].error = "pool_timeout" /\ pc[t] # "done" =>
              Cardinality(UnderWay(Items)) + Cardinality(Open) > PoolSize]_vars
    /\ [](\A b \in Batches : Cardinality(UnderWay(ItemsOf(b))) <= Limit)

\* Every batch is answered, also when items outnumber permits and permits
\* outnumber connections: no item waits for a connection while holding one
\* (documents.py:412, 448).
BatchesAnswered == \A b \in Batches : <>(response[b] # NoResponse)

=============================================================================
