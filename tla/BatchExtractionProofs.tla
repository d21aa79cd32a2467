----------------------- MODULE BatchExtractionProofs -----------------------
(* Theorems about BatchExtraction, for any number of batches, files, permits *)
(* and connections, and of other requests that share the pool.               *)
EXTENDS BatchExtraction, FiniteSetTheorems, TLAPS

-----------------------------------------------------------------------------
(* Counting items *)

LEMMA ItemParts ==
    ASSUME NEW t \in Items
    PROVE  t[1] \in Batches /\ t \in ItemsOf(t[1])
BY DEF Items, ItemsOf

LEMMA ItemsFinite ==
    /\ IsFiniteSet(Items)
    /\ \A S \in SUBSET Items : IsFiniteSet(S) /\ Cardinality(S) \in Nat
    /\ \A b : ItemsOf(b) \subseteq Items
<1>1. IsFiniteSet(1..Files)
  BY FilesAssumption, FS_Interval
<1>2. IsFiniteSet(Items)
  BY <1>1, BatchesAssumption, FS_Product DEF Items
<1>3. \A S \in SUBSET Items : IsFiniteSet(S) /\ Cardinality(S) \in Nat
  BY <1>2, FS_Subset, FS_CardinalityType
<1> QED BY <1>2, <1>3 DEF ItemsOf

LEMMA OthersFinite ==
    /\ IsFiniteSet(Open) /\ Open \subseteq Others
    /\ Cardinality(Open) \in Nat
BY OthersAssumption, FS_Subset, FS_CardinalityType DEF Open

\* A batch has as many items as files.
LEMMA BatchSize ==
    ASSUME NEW b \in Batches
    PROVE  Cardinality(ItemsOf(b)) = Files
<1>1. ItemsOf(b) = {b} \X (1..Files)
  BY DEF ItemsOf, Items
<1>2. IsFiniteSet({b}) /\ Cardinality({b}) = 1
  BY FS_Singleton
<1>3. IsFiniteSet(1..Files) /\ Cardinality(1..Files) = Files
  BY FilesAssumption, FS_Interval
<1>4. Cardinality({b} \X (1..Files)) = Cardinality({b}) * Cardinality(1..Files)
  BY <1>2, <1>3, FS_Product
<1>5. Cardinality({b}) * Cardinality(1..Files) = Files
  BY <1>2, <1>3, FilesAssumption
<1> QED BY <1>1, <1>4, <1>5

-----------------------------------------------------------------------------
(* The inductive invariant *)

Succeeded == {"completed", "partial", "processing"}

\* Only items under way hold a connection.
Holding == \A t \in connected : pc[t] \in InFlight

\* An item has a result when, and only when, it is done.
ResultWhenDone ==
    \A t \in Items :
        /\ pc[t] = "done" => result[t].status \in Statuses
        /\ pc[t] # "done" => result[t] = NoResult

\* no batch has more items under way than permits
Permits == \A b \in Batches : Cardinality(UnderWay(ItemsOf(b))) <= Limit

\* A batch is answered after its last item, by what its items came to.
Answered ==
    \A b \in Batches : response[b] # NoResponse =>
        /\ Gathered(b)
        /\ response[b].succeeded = Cardinality({t \in ItemsOf(b) : result[t].status \in Succeeded})
        /\ response[b].failed = Cardinality({t \in ItemsOf(b) : result[t].status = "failed"})
        /\ response[b].total = Files

Balance == TypeOK /\ Holding /\ ResultWhenDone /\ Permits /\ Answered

LEMMA InitBalance == Init => Balance
<1> SUFFICES ASSUME Init PROVE Balance
  OBVIOUS
<1>1. Cardinality({}) = 0
  BY FS_EmptySet
<1>2. TypeOK
  <2>1. Open = {}
    BY DEF Init, Open
  <2>2. InUse = 0
    BY <1>1, <2>1 DEF Init, InUse
  <2> QED BY <2>2, PoolAssumption
     DEF Init, TypeOK, NoResult, NoResponse, Results, Responses, Errors
<1>3. \A b : UnderWay(ItemsOf(b)) = {}
  BY ItemsFinite DEF Init, UnderWay, InFlight
<1> QED BY <1>1, <1>2, <1>3, LimitAssumption
        DEF Init, Balance, Holding, ResultWhenDone, Permits, Answered, InFlight

\* What a step of an item does to the item, and that it does nothing else.
Moves(t) ==
    /\ pc[t] # "done"
    /\ \E l \in InFlight \cup {"done"}, s \in Statuses, e \in Errors :
        /\ Goto(t, l)
        /\ IF l = "done" THEN result' = [result EXCEPT ![t] = [status |-> s, error |-> e]]
                         ELSE UNCHANGED result
        /\ pc[t] = "waiting" => PermitFree(t[1])
        /\ \/ connected' = connected \ {t}
           \/ connected' = connected /\ (l = "done" => t \notin connected)
           \/ /\ connected' = connected \cup {t} /\ l # "done"
              /\ t \in connected \/ InUse < PoolSize
    /\ UNCHANGED <<async_mode, others, response>>

LEMMA EndMoves ==
    ASSUME NEW t, NEW s \in Statuses, NEW e \in Errors, EndItem(t, s, e),
           pc[t] \in InFlight
    PROVE  Moves(t)
<1>1. pc[t] # "done" /\ pc[t] # "waiting"
  BY DEF InFlight
<1>2. "done" \in InFlight \cup {"done"}
  OBVIOUS
<1> QED BY <1>1, <1>2 DEF EndItem, Moves

LEMMA GoMoves ==
    ASSUME NEW t, NEW l \in InFlight, Goto(t, l), pc[t] \in InFlight \cup {"waiting"},
           pc[t] = "waiting" => PermitFree(t[1]),
           connected' = connected \ {t} \/ connected' = connected,
           UNCHANGED <<async_mode, others, result, response>>
    PROVE  Moves(t)
<1>1. pc[t] # "done" /\ l # "done"
  BY DEF InFlight
<1>2. l \in InFlight \cup {"done"} /\ "failed" \in Statuses /\ None \in Errors
  BY DEF Statuses, Errors
<1> QED BY <1>1, <1>2 DEF Moves

LEMMA ItemMoves ==
    ASSUME TypeOK, NEW t \in Items, Step(t) \/ PoolTimeout(t)
    PROVE  Moves(t)
<1> USE DEF InFlight, Statuses, Errors, Querying
<1>1. CASE Acquire(t)
  BY <1>1, GoMoves DEF Acquire
<1>2. CASE Prepare(t)
  BY <1>2, GoMoves, EndMoves DEF Prepare
<1>3. CASE Connect(t)
  <2>1. Goto(t, pc[t]) /\ pc[t] \in InFlight
    BY <1>3 DEF Connect, Goto, TypeOK
  <2>2. pc[t] # "done" /\ pc[t] # "waiting" /\ "failed" \in Statuses /\ None \in Errors
    BY <1>3 DEF Connect
  <2> QED BY <1>3, <2>1, <2>2 DEF Connect, Moves
<1>4. CASE PoolTimeout(t)
  BY <1>4, EndMoves DEF PoolTimeout
<1>5. CASE Create(t)
  BY <1>5, GoMoves, EndMoves DEF Create
<1>6. CASE Refresh(t)
  BY <1>6, GoMoves, EndMoves DEF Refresh
<1>7. CASE Enqueue(t)
  BY <1>7, GoMoves, EndMoves DEF Enqueue
<1>8. CASE Mark(t)
  BY <1>8, GoMoves, EndMoves DEF Mark
<1>9. CASE Process(t)
  BY <1>9, GoMoves, EndMoves DEF Process
<1>10. CASE Record(t)
  BY <1>10, EndMoves DEF Record
<1> QED BY <1>1, <1>2, <1>3, <1>4, <1>5, <1>6, <1>7, <1>8, <1>9, <1>10 DEF Step

LEMMA MoveBalances ==
    ASSUME Balance, NEW t \in Items, Moves(t)
    PROVE  Balance'
<1> USE ItemsFinite DEF Balance
<1>1. PICK l \in InFlight \cup {"done"}, s \in Statuses, e \in Errors :
        /\ Goto(t, l)
        /\ IF l = "done" THEN result' = [result EXCEPT ![t] = [status |-> s, error |-> e]]
                         ELSE UNCHANGED result
        /\ pc[t] = "waiting" => PermitFree(t[1])
        /\ \/ connected' = connected \ {t}
           \/ connected' = connected /\ (l = "done" => t \notin connected)
           \/ /\ connected' = connected \cup {t} /\ l # "done"
              /\ t \in connected \/ InUse < PoolSize
  BY DEF Moves
<1>2. pc[t] # "done" /\ UNCHANGED <<async_mode, others, response>>
  BY DEF Moves
<1>3. pc'[t] = l /\ \A u \in Items : u # t => pc'[u] = pc[u] /\ result'[u] = result[u]
  BY <1>1 DEF Goto, TypeOK
<1>4. TypeOK'
  <2>1. pc' \in [Items -> {"waiting", "done"} \cup InFlight]
    BY <1>1 DEF Goto, TypeOK
  <2>2. [status |-> s, error |-> e] \in Results
    BY DEF Results
  <2>3. result' \in [Items -> Results]
    BY <1>1, <2>2 DEF TypeOK
  <2>4. connected \subseteq Items /\ IsFiniteSet(connected)
        /\ Cardinality(connected) \in Nat
    BY DEF TypeOK
  <2>5. Cardinality(connected \ {t}) \in {Cardinality(connected), Cardinality(connected) - 1}
    BY <2>4, FS_RemoveElement
  <2>6. t \in connected => connected \cup {t} = connected
    OBVIOUS
  <2>7. t \notin connected => Cardinality(connected \cup {t}) = Cardinality(connected) + 1
    BY <2>4, FS_AddElement
  <2>8. connected' \subseteq Items
    BY <1>1, <2>4
  <2>9. /\ InUse = Cardinality(connected) + Cardinality(Open) /\ InUse <= PoolSize
        /\ InUse' = Cardinality(connected') + Cardinality(Open)
    BY <1>2 DEF TypeOK, InUse, Open
  <2>10. InUse' <= PoolSize
    <3>1. CASE connected' = connected \ {t}
      BY <2>4, <2>5, <2>9, <3>1, OthersFinite, PoolAssumption
    <3>2. CASE connected' = connected
      BY <2>9, <3>2
    <3>3. CASE connected' = connected \cup {t} /\ InUse < PoolSize
      <4>1. CASE t \in connected
        BY <2>6, <2>9, <3>3, <4>1
      <4>2. CASE t \notin connected
        BY <2>4, <2>7, <2>9, <3>3, <4>2, OthersFinite, PoolAssumption
      <4> QED BY <4>1, <4>2
    <3> QED BY <1>1, <2>6, <3>1, <3>2, <3>3
  <2> QED BY <1>2, <2>1, <2>3, <2>8, <2>10 DEF TypeOK
<1>5. Holding'
  BY <1>1, <1>3 DEF Holding, TypeOK
<1>6. ResultWhenDone'
  <2>1. CASE l = "done"
    <3>1. result'[t] = [status |-> s, error |-> e]
      BY <1>1, <2>1 DEF TypeOK
    <3> QED BY <1>3, <2>1, <3>1 DEF ResultWhenDone
  <2>2. CASE l # "done"
    BY <1>1, <1>2, <1>3, <2>2 DEF ResultWhenDone
  <2> QED BY <2>1, <2>2
<1>7. Permits'
  <2> SUFFICES ASSUME NEW b \in Batches
               PROVE  Cardinality(UnderWay(ItemsOf(b))') <= Limit
    BY DEF Permits, ItemsOf
  <2> DEFINE U == UnderWay(ItemsOf(b))
  <2>1. /\ U \subseteq Items /\ U' \subseteq Items
        /\ IsFiniteSet(U) /\ IsFiniteSet(U')
        /\ Cardinality(U) \in Nat /\ Cardinality(U') \in Nat /\ Cardinality(U) <= Limit
    BY DEF UnderWay, Permits, ItemsOf
  <2>2. U' \subseteq U \cup {t}
    BY <1>3 DEF UnderWay, ItemsOf
  <2>3. CASE U' \subseteq U
    BY <2>1, <2>3, FS_Subset, LimitAssumption
  <2>4. CASE ~(U' \subseteq U)
    <3>1. t \in U' /\ t \notin U
      BY <2>2, <2>4
    <3>2. b = t[1] /\ pc[t] \notin InFlight
      BY <3>1 DEF UnderWay, ItemsOf
    <3>3. Cardinality(U) < Limit
      BY <1>1, <1>2, <3>2 DEF TypeOK, PermitFree
    <3>4. Cardinality(U \cup {t}) = Cardinality(U) + 1 /\ IsFiniteSet(U \cup {t})
      BY <2>1, <3>1, FS_AddElement
    <3>5. Cardinality(U') <= Cardinality(U \cup {t})
      BY <2>2, <3>4, FS_Subset
    <3> QED BY <2>1, <3>3, <3>4, <3>5, LimitAssumption
  <2> QED BY <2>3, <2>4
<1>8. Answered'
  <2>1. ASSUME NEW b \in Batches, response[b] # NoResponse
        PROVE  /\ Gathered(b)'
               /\ \A u \in ItemsOf(b) : result'[u] = result[u]
    <3>1. Gathered(b) /\ t \notin ItemsOf(b)
      BY <1>2, <2>1 DEF Answered, Gathered
    <3> QED BY <1>3, <3>1 DEF Gathered, ItemsOf
  <2>2. ASSUME NEW b \in Batches, response[b] # NoResponse
        PROVE  \A V : {u \in ItemsOf(b) : result'[u].status \in V}
                      = {u \in ItemsOf(b) : result[u].status \in V}
    BY <2>1, <2>2
  <2>3. ASSUME NEW b \in Batches, response[b] # NoResponse
        PROVE  {u \in ItemsOf(b) : result'[u].status = "failed"}
                      = {u \in ItemsOf(b) : result[u].status = "failed"}
    BY <2>1, <2>3
  <2>4. \A b : ItemsOf(b)' = ItemsOf(b)
    BY DEF ItemsOf
  <2> QED BY <1>2, <2>1, <2>2, <2>3, <2>4 DEF Answered
<1> QED BY <1>4, <1>5, <1>6, <1>7, <1>8

LEMMA AnswerBalances ==
    ASSUME Balance, NEW b \in Batches, Answer(b)
    PROVE  Balance'
<1> USE ItemsFinite DEF Balance, Answer
<1> DEFINE S == Cardinality({t \in ItemsOf(b) : result[t].status \in Succeeded})
           F == Cardinality({t \in ItemsOf(b) : result[t].status = "failed"})
<1>1. CountOf(b, Succeeded) = S /\ CountOf(b, {"failed"}) = F
  <2>1. {t \in ItemsOf(b) : result[t].status \in {"failed"}}
          = {t \in ItemsOf(b) : result[t].status = "failed"}
    OBVIOUS
  <2> QED BY <2>1 DEF CountOf, Quantify
<1>2. S \in Nat /\ F \in Nat
  BY DEF ItemsOf
<1> HIDE DEF S, F
<1>3. response' = [response EXCEPT ![b] = [total |-> Files, succeeded |-> S, failed |-> F]]
  BY <1>1 DEF Succeeded
<1>4. TypeOK'
  <2>1. [total |-> Files, succeeded |-> S, failed |-> F] \in Responses
    BY <1>2, FilesAssumption DEF Responses
  <2>2. InUse' = InUse
    BY DEF InUse, Open
  <2> QED BY <1>3, <2>1, <2>2 DEF TypeOK
<1>5. Holding' /\ ResultWhenDone' /\ Permits'
  BY DEF Holding, ResultWhenDone, Permits, UnderWay, ItemsOf
<1>6. Answered'
  <2>1. response'[b] = [total |-> Files, succeeded |-> S, failed |-> F]
        /\ \A c \in Batches : c # b => response'[c] = response[c]
    BY <1>3 DEF TypeOK
  <2>2. /\ UNCHANGED <<pc, result>> /\ Gathered(b)
        /\ \A c : ItemsOf(c)' = ItemsOf(c) /\ Gathered(c)' = Gathered(c)
    BY DEF Gathered, ItemsOf
  <2> SUFFICES ASSUME NEW c \in Batches, response'[c] # NoResponse
               PROVE  /\ Gathered(c)
                      /\ response'[c].succeeded = Cardinality({t \in ItemsOf(c) :
                                                       result[t].status \in Succeeded})
                      /\ response'[c].failed = Cardinality({t \in ItemsOf(c) :
                                                       result[t].status = "failed"})
                      /\ response'[c].total = Files
    BY <2>2 DEF Answered
  <2>3. CASE c = b
    BY <2>1, <2>2, <2>3 DEF S, F
  <2>4. CASE c # b
    BY <2>1, <2>4 DEF Answered
  <2> QED BY <2>3, <2>4
<1> QED BY <1>4, <1>5, <1>6

\* A transaction of another request takes a free connection, or returns its own.
LEMMA OtherBalances ==
    ASSUME Balance, NEW o \in Others, Borrow(o) \/ Return(o)
    PROVE  Balance'
<1> USE DEF Balance
<1>1. UNCHANGED <<async_mode, pc, connected, result, response>>
  BY DEF Borrow, Return
<1>2. Holding' /\ ResultWhenDone' /\ Permits' /\ Answered'
  BY <1>1 DEF Holding, ResultWhenDone, Permits, Answered, UnderWay, Gathered, ItemsOf
<1>3. Cardinality(connected) \in Nat /\ IsFiniteSet(connected)
  BY ItemsFinite DEF TypeOK
<1>4. others' \in [Others -> {"new", "open", "closed"}]
  BY DEF Borrow, Return, TypeOK
<1>5. InUse' = Cardinality(connected) + Cardinality(Open')
  BY <1>1 DEF InUse
<1>6. InUse' <= PoolSize
  <2>1. CASE Borrow(o)
    <3>1. Open' = Open \cup {o} /\ o \notin Open
      BY <2>1 DEF Borrow, Open, TypeOK
    <3>2. Cardinality(Open') = Cardinality(Open) + 1
      BY <3>1, OthersFinite, FS_AddElement
    <3> QED BY <1>3, <1>5, <2>1, <3>2, OthersFinite, PoolAssumption DEF Borrow, InUse
  <2>2. CASE Return(o)
    <3>1. Open' = Open \ {o} /\ o \in Open
      BY <2>2 DEF Return, Open, TypeOK
    <3>2. Cardinality(Open') = Cardinality(Open) - 1
      BY <3>1, OthersFinite, FS_RemoveElement
    <3> QED BY <1>3, <1>5, <3>2, OthersFinite, PoolAssumption DEF TypeOK, InUse
  <2> QED BY <2>1, <2>2
<1> QED BY <1>1, <1>2, <1>4, <1>6 DEF TypeOK

LEMMA NextBalance == Balance /\ [Next]_vars => Balance'
<1> SUFFICES ASSUME Balance, [Next]_vars PROVE Balance'
  OBVIOUS
<1>1. ASSUME NEW t \in Items, Step(t) \/ PoolTimeout(t) PROVE Balance'
  BY <1>1, ItemMoves, MoveBalances DEF Balance
<1>2. ASSUME NEW b \in Batches, Answer(b) PROVE Balance'
  BY <1>2, AnswerBalances
<1>3. ASSUME NEW o \in Others, Borrow(o) \/ Return(o) PROVE Balance'
  BY <1>3, OtherBalances
<1>4. CASE UNCHANGED vars
  <2> USE <1>4 DEF vars, Balance
  <2>1. TypeOK' /\ Holding' /\ ResultWhenDone'
    BY DEF TypeOK, Holding, ResultWhenDone, InUse, Open
  <2>2. \A b : /\ ItemsOf(b)' = ItemsOf(b)
              /\ UnderWay(ItemsOf(b))' = UnderWay(ItemsOf(b))
              /\ Gathered(b)' = Gathered(b)
    BY DEF ItemsOf, UnderWay, Gathered
  <2>3. Permits'
    BY <2>2 DEF Permits
  <2>4. Answered'
    BY <2>2 DEF Answered
  <2> QED BY <2>1, <2>3, <2>4
<1> QED BY <1>1, <1>2, <1>3, <1>4 DEF Next, Terminated

LEMMA AlwaysBalance == Spec => []Balance
BY InitBalance, NextBalance, PTL DEF Spec

-----------------------------------------------------------------------------
(* Theorems *)

\* The pool is never overdrawn, whatever the number of batches (documents.py:412).
THEOREM TypeCorrect == Spec => []TypeOK
BY AlwaysBalance, PTL DEF Balance

\* In every answer the files that succeeded and those that failed add up to the
\* files of the batch, for any number of batches at once (documents.py:391-399).
THEOREM BatchAnswersAddUp == Spec => []AnswersAddUp
<1>1. Balance => AnswersAddUp
  <2> SUFFICES ASSUME Balance, NEW b \in Batches, response[b] # NoResponse
               PROVE  /\ \A t \in ItemsOf(b) : result[t].status # None
                      /\ response[b].succeeded + response[b].failed = response[b].total
    BY DEF AnswersAddUp
  <2> DEFINE S == {t \in ItemsOf(b) : result[t].status \in Succeeded}
             F == {t \in ItemsOf(b) : result[t].status = "failed"}
  <2>1. \A t \in ItemsOf(b) : t \in Items /\ result[t].status \in Statuses
    BY DEF Balance, Answered, Gathered, ResultWhenDone, ItemsOf
  <2>2. S \cup F = ItemsOf(b) /\ S \cap F = {}
    BY <2>1 DEF Statuses, Succeeded
  <2>3. IsFiniteSet(S) /\ IsFiniteSet(F) /\ Cardinality(S) \in Nat /\ Cardinality(F) \in Nat
    BY ItemsFinite DEF ItemsOf
  <2>4. Cardinality(S) + Cardinality(F) = Files
    <3>1. Cardinality(S \cup F) = Cardinality(S) + Cardinality(F) - Cardinality(S \cap F)
      BY <2>3, FS_Union
    <3>2. Cardinality(S \cap F) = 0
      BY <2>2, FS_EmptySet
    <3>3. Cardinality(S \cup F) = Files
      BY <2>2, BatchSize
    <3> HIDE DEF S, F
    <3> QED BY <2>3, <3>1, <3>2, <3>3
  <2>5. /\ response[b].succeeded = Cardinality(S) /\ response[b].failed = Cardinality(F)
        /\ response[b].total = Files
    BY DEF Balance, Answered
  <2> QED BY <2>1, <2>4, <2>5 DEF Statuses, None
<1> QED BY <1>1, AlwaysBalance, PTL

\* The pool fails an item only when the items under way and the transactions of
\* other requests outnumber its connections, and no batch has more under way than
\* its limit, for any limits (documents.py:409, 412, database.py:14-30).
THEOREM LimitsAlwaysFit == Spec => LimitsFit
<1> DEFINE Exhausted == \A t \in Items : result'[t].error = "pool_timeout" /\ pc[t] # "done" =>
                            Cardinality(UnderWay(Items)) + Cardinality(Open) > PoolSize
<1>1. Balance /\ [Next]_vars => [Exhausted]_vars
  <2> SUFFICES ASSUME Balance, Next, NEW t \in Items,
                      result'[t].error = "pool_timeout", pc[t] # "done"
               PROVE  Cardinality(UnderWay(Items)) + Cardinality(Open) > PoolSize
    OBVIOUS
  <2>1. PoolTimeout(t)
    <3>1. result[t].error = None /\ None # "pool_timeout"
      BY DEF Balance, ResultWhenDone, NoResult, None
    <3>2. ASSUME NEW u \in Items, u # t, Step(u) \/ PoolTimeout(u) PROVE FALSE
      <4>1. result'[t] = result[t]
        BY <3>2, ItemMoves DEF Moves, Balance, TypeOK
      <4> QED BY <3>1, <4>1
    <3>3. ~Step(t)
      BY <3>1 DEF Step, Acquire, Prepare, Connect, Create, Refresh, Enqueue, Mark,
                  Process, Record, EndItem, Balance, TypeOK, None
    <3> QED BY <3>1, <3>2, <3>3 DEF Next, Answer, Borrow, Return, Terminated, vars
  <2> DEFINE U == UnderWay(Items)
  <2>2. t \in U /\ t \notin connected
    BY <2>1 DEF PoolTimeout, UnderWay, Querying, InFlight
  <2>3. connected \cup {t} \subseteq U /\ U \subseteq Items
    BY <2>2 DEF Balance, Holding, TypeOK, UnderWay
  <2>4. IsFiniteSet(connected) /\ IsFiniteSet(U) /\ Cardinality(U) \in Nat
    BY <2>3, ItemsFinite
  <2>5. /\ Cardinality(connected \cup {t}) = Cardinality(connected) + 1
        /\ Cardinality(connected) \in Nat
        /\ Cardinality(connected) + Cardinality(Open) = PoolSize
    BY <2>1, <2>2, <2>4, FS_AddElement, FS_CardinalityType DEF PoolTimeout, InUse
  <2>6. Cardinality(connected \cup {t}) <= Cardinality(U)
    BY <2>3, <2>4, FS_Subset
  <2> QED BY <2>4, <2>5, <2>6, OthersFinite, PoolAssumption
<1>2. Balance => \A b \in Batches : Cardinality(UnderWay(ItemsOf(b))) <= Limit
  BY DEF Balance, Permits
<1> QED BY <1>1, <1>2, AlwaysBalance, PTL DEF Spec, LimitsFit


-----------------------------------------------------------------------------
(* Batches come to an end *)

Stage ==
    [waiting |-> 7, preparing |-> 6, creating |-> 5, refreshing |-> 4, enqueueing |-> 3,
     marking |-> 3, processing |-> 2, recording |-> 1, done |-> 0]

\* how many steps an item has before it at most, where to connect is one
Rank(t) == 2 * Stage[pc[t]] - (IF t \in connected THEN 1 ELSE 0)

\* The same for a transaction of another request.
Left(o) == CASE others[o] = "new" -> 2 [] others[o] = "open" -> 1 [] OTHER -> 0

\* An item or a transaction goes on or stays as it is; every step takes one of them
\* on or answers a batch.
Advance ==
    /\ \A t \in Items : Rank(t)' = Rank(t) \/ Rank(t)' < Rank(t)
    /\ \A o \in Others : Left(o)' = Left(o) \/ Left(o)' < Left(o)
    /\ \A b \in Batches : response[b] # NoResponse => response'[b] = response[b]
    /\ \/ \E t \in Items : Rank(t)' < Rank(t)
       \/ \E o \in Others : Left(o)' < Left(o)
       \/ \E b \in Batches : response[b] = NoResponse /\ response'[b] # NoResponse

LEMMA StageValues ==
    /\ Stage["waiting"] = 7 /\ Stage["preparing"] = 6 /\ Stage["creating"] = 5
    /\ Stage["refreshing"] = 4 /\ Stage["enqueueing"] = 3 /\ Stage["marking"] = 3
    /\ Stage["processing"] = 2 /\ Stage["recording"] = 1 /\ Stage["done"] = 0
BY DEF Stage

LEMMA RankType ==
    ASSUME Balance, NEW t \in Items
    PROVE  Rank(t) \in 0..14
<1>1. pc[t] \in {"waiting", "done"} \cup InFlight /\ (t \in connected => pc[t] # "done")
  BY DEF Balance, TypeOK, Holding, InFlight
<1> QED BY <1>1 DEF Rank, Stage, InFlight

\* An item at a later stage has fewer steps before it, connected or not.
LEMMA RankFalls ==
    ASSUME NEW t, NEW m \in Nat, NEW n \in Nat, Stage[pc[t]] = m, Stage[pc'[t]] = n,
           n < m \/ (n = m /\ t \notin connected /\ t \in connected')
    PROVE  Rank(t)' < Rank(t)
<1>1. /\ Rank(t) = 2 * m - (IF t \in connected THEN 1 ELSE 0)
      /\ Rank(t)' = 2 * n - (IF t \in connected' THEN 1 ELSE 0)
  BY DEF Rank
<1> QED BY <1>1

\* A step of an item leaves the others, and what they hold, as they were.
LEMMA ItemAdvances ==
    ASSUME Balance, NEW t \in Items, Step(t) \/ PoolTimeout(t)
    PROVE  /\ Rank(t)' < Rank(t)
           /\ \A u \in Items : u # t => Rank(u)' = Rank(u)
<1>1. \A u \in Items : u # t => pc'[u] = pc[u] /\ (u \in connected' <=> u \in connected)
  BY ItemMoves DEF Moves, Balance, TypeOK, Goto
<1>2. pc \in [Items -> {"waiting", "done"} \cup InFlight]
  BY DEF Balance, TypeOK
<1>3. Rank(t)' < Rank(t)
  <2> USE <1>2, StageValues DEF Goto, EndItem
  <2>1. CASE Connect(t)
    BY <2>1, RankFalls DEF Connect, Querying
  <2>2. CASE PoolTimeout(t)
    <3>1. pc[t] \in Querying /\ pc'[t] = "done"
      BY <2>2 DEF PoolTimeout
    <3> QED BY <3>1, RankFalls DEF Querying
  <2>3. CASE Acquire(t) \/ Prepare(t)
    <3>1. \/ pc[t] = "waiting" /\ pc'[t] = "preparing"
          \/ pc[t] = "preparing" /\ pc'[t] \in {"creating", "done"}
      BY <2>3 DEF Acquire, Prepare
    <3> QED BY <3>1, RankFalls
  <2>4. CASE Create(t) \/ Refresh(t)
    <3>1. \/ pc[t] = "creating" /\ pc'[t] \in {"refreshing", "done"}
          \/ pc[t] = "refreshing" /\ pc'[t] \in {"enqueueing", "marking", "done"}
      BY <2>4 DEF Create, Refresh
    <3> QED BY <3>1, RankFalls
  <2>5. CASE Enqueue(t) \/ Mark(t)
    <3>1. pc[t] \in {"enqueueing", "marking"} /\ pc'[t] \in {"processing", "done"}
      BY <2>5 DEF Enqueue, Mark
    <3> QED BY <3>1, RankFalls
  <2>6. CASE Process(t) \/ Record(t)
    <3>1. \/ pc[t] = "processing" /\ pc'[t] \in {"recording", "done"}
          \/ pc[t] = "recording" /\ pc'[t] = "done"
      BY <2>6 DEF Process, Record
    <3> QED BY <3>1, RankFalls
  <2> QED BY <2>1, <2>2, <2>3, <2>4, <2>5, <2>6 DEF Step
<1>4. \A u \in Items : u # t => Rank(u)' = Rank(u)
  BY <1>1 DEF Rank
<1> QED BY <1>3, <1>4

\* Every step takes an item or another transaction on or answers a batch, and none
\* takes one back or answers a batch again: batches of any number take a bounded
\* number of steps (documents.py:391-466).
THEOREM ItemsMoveOn ==
    Spec => [](\A t \in Items : Rank(t) \in 0..14) /\ [][Advance]_vars
<1>1. Balance /\ [Next]_vars => [Advance]_vars
  <2> SUFFICES ASSUME Balance, Next PROVE Advance \/ UNCHANGED vars
    OBVIOUS
  <2>1. ASSUME NEW t \in Items, Step(t) \/ PoolTimeout(t) PROVE Advance
    <3>1. UNCHANGED <<others, response>>
      BY <2>1, ItemMoves DEF Moves, Balance
    <3> QED BY <2>1, <3>1, ItemAdvances DEF Advance, Left
  <2>2. ASSUME NEW b \in Batches, Answer(b) PROVE Advance
    <3>1. /\ \A t \in Items : Rank(t)' = Rank(t)
          /\ \A o \in Others : Left(o)' = Left(o)
      BY <2>2 DEF Answer, Rank, Left
    <3>2. /\ response[b] = NoResponse /\ response'[b].total = Files
          /\ \A c \in Batches : c # b => response'[c] = response[c]
      BY <2>2 DEF Answer, Balance, TypeOK
    <3>3. response'[b] # NoResponse
      BY <3>2, FilesAssumption DEF NoResponse
    <3> QED BY <3>1, <3>2, <3>3 DEF Advance
  <2>3. ASSUME NEW o \in Others, Borrow(o) \/ Return(o) PROVE Advance
    <3>1. /\ \A t \in Items : Rank(t)' = Rank(t)
          /\ UNCHANGED response
      BY <2>3 DEF Borrow, Return, Rank
    <3>2. Left(o)' < Left(o)
      BY <2>3 DEF Borrow, Return, Left, Balance, TypeOK
    <3>3. \A p \in Others : p # o => Left(p)' = Left(p)
      BY <2>3 DEF Borrow, Return, Left, Balance, TypeOK
    <3> QED BY <3>1, <3>2, <3>3 DEF Advance
  <2> QED BY <2>1, <2>2, <2>3 DEF Next, Terminated
<1>2. Balance => \A t \in Items : Rank(t) \in 0..14
  BY RankType
<1> QED BY <1>1, <1>2, AlwaysBalance, PTL DEF Spec

\* What an item that is not done can wait for: a permit, or a connection.  In all
\* other states the next step of the item has no guard.
Waits(t) ==
    \/ pc[t] = "waiting" /\ ~PermitFree(t[1])
    \/ pc[t] \in Querying /\ t \notin connected /\ ~(InUse < PoolSize)

\* A batch without an answer has all its results, or some item can go on, or the
\* transaction of another request can return its connection.
NobodyStuck ==
    \A b \in Batches : response[b] = NoResponse =>
        \/ Gathered(b)
        \/ \E t \in Items : pc[t] # "done" /\ ~Waits(t)
        \/ Open # {}

\* Batches do not block one another for ever, whatever the number of permits and
\* connections: a permit is held by an item under way, a connection by an item or a
\* transaction that waits for none, and it needs no pool timeout to go on
\* (documents.py:409-412, 448).
THEOREM NothingIsStuck == Spec => []NobodyStuck
<1>1. Balance => NobodyStuck
  <2> SUFFICES ASSUME Balance, NEW b \in Batches, ~Gathered(b),
                      \A t \in Items : pc[t] # "done" => Waits(t), Open = {}
               PROVE  FALSE
    BY DEF NobodyStuck
  <2>1. PICK t \in ItemsOf(b) : pc[t] # "done"
    BY DEF Gathered
  <2>2. t \in Items /\ t[1] = b
    BY <2>1 DEF ItemsOf
  <2>3. \E u \in Items : pc[u] \in InFlight
    <3>1. CASE pc[t] = "waiting"
      <4>1. ~(Cardinality(UnderWay(ItemsOf(b))) < Limit)
        BY <2>2, <3>1 DEF Waits, PermitFree, Querying
      <4>2. UnderWay(ItemsOf(b)) # {}
        BY <4>1, FS_EmptySet, LimitAssumption
      <4> QED BY <4>2, ItemsFinite DEF UnderWay
    <3>2. CASE pc[t] # "waiting"
      BY <2>1, <2>2, <3>2 DEF Balance, TypeOK
    <3> QED BY <3>1, <3>2
  <2>4. PICK u \in Items : pc[u] \in InFlight
    BY <2>3
  <2>5. ~(Cardinality(connected) < PoolSize)
    <3>1. ~(InUse < PoolSize)
      BY <2>4 DEF Waits, InFlight
    <3>2. Cardinality(Open) = 0
      BY FS_EmptySet
    <3>3. Cardinality(connected) \in Nat
      BY ItemsFinite DEF Balance, TypeOK
    <3> QED BY <3>1, <3>2, <3>3, PoolAssumption DEF InUse
  <2>6. PICK v : v \in connected
    BY <2>5, FS_EmptySet, PoolAssumption
  <2>7. v \in Items /\ pc[v] \in InFlight
    BY <2>6 DEF Balance, TypeOK, Holding
  <2> QED BY <2>6, <2>7 DEF Waits, InFlight
<1> QED BY <1>1, AlwaysBalance, PTL

=============================================================================
