------------------------ MODULE DocumentQueriesProofs ------------------------
(* What a client reads holds for any number of documents, runs and clients.  *)
(* A document stays COMPLETED only until the next run begins, so the answer  *)
(* need not match the state any more when it is sent; what makes it true is  *)
(* that results only grow and the status is read before them.                *)
EXTENDS DocumentQueries, TLAPS

\* a request that has read the status has yet to read the extractions
Underway ==
    \A c \in Clients : pc[c] = 2 =>
        /\ loaded[c].status # "absent"
        /\ loaded[c].status = "COMPLETED" =>
            \E p \in results : p.doc = loaded[c].doc /\ p.status # "failed"

\* what a client was told of is there
Told ==
    \A c \in Clients : \A x \in answer[c].listed :
        \E p \in results : p.run = x /\ p.doc = answer[c].doc

\* the invariant that is inductive
Consistent ==
    /\ TypeOK
    /\ Documents!CompletedHasResult
    /\ Underway
    /\ Told
    /\ CompletedIsReadable
    /\ ListedIsFound

\* The service only adds results (DocumentLifecycle).
LEMMA ResultsGrow ==
    ASSUME Documents!TypeOK, Documents!Next
    PROVE  Documents!TypeOK' /\ results \subseteq results'
<1>1. PICK d \in Docs : \/ Documents!Register(d) \/ Documents!Begin(d) \/ Documents!GiveUp(d)
                        \/ \E x \in Runs : Documents!Publish(x, d)
  BY DEF Documents!Next
<1>2. CASE Documents!Register(d) \/ Documents!Begin(d) \/ Documents!GiveUp(d)
  BY <1>2 DEF Documents!Register, Documents!Begin, Documents!GiveUp, Documents!TypeOK,
     Documents!Statuses
<1>3. ASSUME NEW x \in Runs, Documents!Publish(x, d)
      PROVE  Documents!TypeOK' /\ results \subseteq results'
  BY <1>3 DEF Documents!Publish, Documents!TypeOK, Documents!Statuses, Documents!StatusFor,
     Documents!ExtractionStatus
<1> QED BY <1>1, <1>2, <1>3

\* A COMPLETED document has a readable result after every step of the service.
LEMMA ResultsBackStatus ==
    ASSUME Documents!TypeOK, Documents!CompletedHasResult, Documents!Next
    PROVE  Documents!CompletedHasResult'
<1>1. PICK d \in Docs : \/ Documents!Register(d) \/ Documents!Begin(d) \/ Documents!GiveUp(d)
                        \/ \E x \in Runs : Documents!Publish(x, d)
  BY DEF Documents!Next
<1>2. CASE Documents!Register(d) \/ Documents!Begin(d) \/ Documents!GiveUp(d)
  BY <1>2 DEF Documents!Register, Documents!Begin, Documents!GiveUp, Documents!TypeOK,
     Documents!CompletedHasResult
<1>3. ASSUME NEW x \in Runs, Documents!Publish(x, d)
      PROVE  Documents!CompletedHasResult'
  <2>1. PICK s \in Documents!ExtractionStatus :
          /\ results' = results \cup {[run |-> x, doc |-> d, status |-> s]}
          /\ status' = [status EXCEPT ![d] = Documents!StatusFor(s)]
    BY <1>3 DEF Documents!Publish
  <2>2. ASSUME NEW e \in Docs, status'[e] = "COMPLETED"
        PROVE  \E p \in results' : p.doc = e /\ p.status # "failed"
    <3>1. CASE e = d
      <4>1. s # "failed"
        BY <2>1, <2>2, <3>1 DEF Documents!StatusFor, Documents!TypeOK
      <4>2. [run |-> x, doc |-> d, status |-> s] \in results'
        BY <2>1
      <4> QED BY <3>1, <4>1, <4>2
    <3>2. CASE e # d
      <4>1. status[e] = "COMPLETED"
        BY <2>1, <2>2, <3>2 DEF Documents!TypeOK
      <4> QED BY <2>1, <4>1 DEF Documents!CompletedHasResult
    <3> QED BY <3>1, <3>2
  <2> QED BY <2>2 DEF Documents!CompletedHasResult
<1> QED BY <1>1, <1>2, <1>3

\* Nothing has been read at first.
LEMMA InitConsistent == Init => Consistent
<1> SUFFICES ASSUME Init PROVE Consistent
  OBVIOUS
<1>1. Len(Statements) = 2
  BY DEF Statements
<1>2. NoResponse \in Response
  BY DEF NoResponse, Response, Documents!Statuses
<1>3. TypeOK
  BY <1>1, <1>2 DEF Init, TypeOK, Documents!Init, Documents!TypeOK, Documents!Statuses
<1> QED BY <1>3 DEF Init, Consistent, Underway, Told, CompletedIsReadable, ListedIsFound,
          Documents!Init, Documents!CompletedHasResult, NoResponse, None, NotFound

\* The service runs on under the readers.
LEMMA ServiceKeepsAnswers ==
    ASSUME Consistent, Documents!Next, UNCHANGED readers
    PROVE  Consistent'
<1>1. Documents!TypeOK' /\ results \subseteq results'
  BY ResultsGrow DEF Consistent, TypeOK
<1>2. Documents!CompletedHasResult'
  BY ResultsBackStatus DEF Consistent, TypeOK
<1>3. TypeOK'
  BY <1>1 DEF Consistent, TypeOK, readers
<1>4. Underway' /\ Told'
  BY <1>1 DEF Consistent, Underway, Told, readers
<1>5. CompletedIsReadable' /\ ListedIsFound'
  BY <1>1 DEF Consistent, CompletedIsReadable, ListedIsFound, readers
<1> QED BY <1>2, <1>3, <1>4, <1>5 DEF Consistent

\* A request begins.
LEMMA AskKeepsAnswers ==
    ASSUME Consistent, NEW c \in Clients, NEW d \in Docs, AskDocument(c, d)
    PROVE  Consistent'
<1>1. Len(Statements) = 2
  BY DEF Statements
<1>2. [NoResponse EXCEPT !.doc = d] \in Response /\ [NoResponse EXCEPT !.doc = d].doc \in Docs
  BY DEF NoResponse, Response, Documents!Statuses
<1>3. TypeOK'
  BY <1>1, <1>2 DEF Consistent, TypeOK, AskDocument, Documents!TypeOK
<1>4. Underway'
  BY DEF Consistent, TypeOK, Underway, AskDocument
<1>5. Documents!CompletedHasResult' /\ Told' /\ CompletedIsReadable' /\ ListedIsFound'
  BY DEF Consistent, Told, CompletedIsReadable, ListedIsFound, AskDocument,
     Documents!CompletedHasResult
<1> QED BY <1>3, <1>4, <1>5 DEF Consistent

\* A statement of get_with_extractions.
LEMMA SelectKeepsAnswers ==
    ASSUME Consistent, NEW c \in Clients, Select(c)
    PROVE  Consistent'
<1>1. Len(Statements) = 2 /\ Statements[1] = "document" /\ Statements[2] = "extractions"
  BY DEF Statements
<1>2. pc[c] \in {1, 2} /\ loaded[c] \in Response /\ loaded[c].doc \in Docs
  BY <1>1 DEF Consistent, TypeOK, Select
<1>3. CASE pc[c] = 1
  <2> DEFINE response == [loaded[c] EXCEPT !.status = status[loaded[c].doc]]
  <2>1. response \in Response /\ response.doc = loaded[c].doc
        /\ response.status = status[loaded[c].doc]
    BY <1>2 DEF Consistent, TypeOK, Response, Documents!TypeOK
  <2>2. /\ loaded' = [loaded EXCEPT ![c] = response]
        /\ \/ pc' = [pc EXCEPT ![c] = 0]
           \/ pc' = [pc EXCEPT ![c] = 2] /\ response.status # "absent"
        /\ UNCHANGED <<status, results, answer, found>>
    <3>1. pc \in [Clients -> 0..2] /\ loaded' = [loaded EXCEPT ![c] = response]
      BY <1>1, <1>3 DEF Select, Load, Consistent, TypeOK
    <3>2. \/ pc' = [pc EXCEPT ![c] = 0]
          \/ pc' = [pc EXCEPT ![c] = 2] /\ response.status # "absent"
      BY <1>1, <1>3, <3>1 DEF Select, Load, Missing
    <3>3. UNCHANGED <<status, results, answer, found>>
      BY <1>1, <1>3 DEF Select
    <3> QED BY <3>1, <3>2, <3>3
  <2>3. TypeOK'
    BY <1>1, <1>2, <2>1, <2>2 DEF Consistent, TypeOK, Documents!TypeOK
  <2>4. Underway'
    BY <1>2, <2>1, <2>2 DEF Consistent, TypeOK, Underway, Documents!CompletedHasResult
  <2>5. Documents!CompletedHasResult' /\ Told' /\ CompletedIsReadable' /\ ListedIsFound'
    BY <2>2 DEF Consistent, Told, CompletedIsReadable, ListedIsFound,
       Documents!CompletedHasResult
  <2> QED BY <2>3, <2>4, <2>5 DEF Consistent
<1>4. CASE pc[c] = 2
  <2> DEFINE listed == {p.run : p \in ExtractionsOf(loaded[c].doc)}
             response == [loaded[c] EXCEPT !.listed = listed]
  <2>1. listed \in SUBSET Runs
    BY DEF ExtractionsOf, Consistent, TypeOK, Documents!TypeOK
  <2>2. /\ response \in Response /\ response.doc = loaded[c].doc
        /\ response.status = loaded[c].status /\ response.listed = listed
    BY <1>2, <2>1 DEF Response
  <2>3. /\ loaded' = [loaded EXCEPT ![c] = response]
        /\ pc' = [pc EXCEPT ![c] = 0]
        /\ answer' = [answer EXCEPT ![c] = response]
        /\ UNCHANGED <<status, results, found>>
    <3>1. ~Missing(Statements[2], Load(Statements[2], loaded[c]))
      BY <1>1 DEF Missing
    <3>2. Load(Statements[2], loaded[c]) = response
      BY <1>1 DEF Load
    <3>3. ~(2 < Len(Statements)) /\ Statements[pc[c]] = Statements[2]
      BY <1>1, <1>4
    <3>4. pc' = [pc EXCEPT ![c] = 0] /\ UNCHANGED <<status, results, found>>
      BY <1>4, <3>1, <3>3 DEF Select
    <3>5. loaded' = [loaded EXCEPT ![c] = Load(Statements[2], loaded[c])]
      BY <3>3 DEF Select
    <3>6. answer' = [answer EXCEPT ![c] = Load(Statements[2], loaded[c])]
      BY <1>4, <3>1, <3>3 DEF Select
    <3> HIDE DEF response
    <3> QED BY <3>2, <3>4, <3>5, <3>6
  <2>4. TypeOK'
    <3>1. response.status # "absent"
      BY <1>4, <2>2 DEF Consistent, Underway
    <3> HIDE DEF response
    <3> QED BY <1>1, <1>2, <2>2, <2>3, <3>1 DEF Consistent, TypeOK, Documents!TypeOK
  <2>5. Underway' /\ Documents!CompletedHasResult' /\ ListedIsFound'
    BY <2>3 DEF Consistent, TypeOK, Underway, ListedIsFound, Documents!CompletedHasResult
  <2>6. Told'
    <3>1. \A x \in listed : \E p \in results : p.run = x /\ p.doc = loaded[c].doc
      BY DEF ExtractionsOf
    <3> HIDE DEF listed
    <3> QED BY <2>2, <2>3, <3>1 DEF Consistent, TypeOK, Told
  <2>7. CompletedIsReadable'
    <3>1. ASSUME loaded[c].status = "COMPLETED"
          PROVE  \E p \in results : /\ p.run \in listed
                                    /\ p.doc = loaded[c].doc /\ p.status # "failed"
      <4>1. PICK p \in results : p.doc = loaded[c].doc /\ p.status # "failed"
        BY <1>4, <3>1 DEF Consistent, Underway
      <4>2. p.run \in listed
        BY <4>1 DEF ExtractionsOf
      <4> QED BY <4>1, <4>2
    <3> HIDE DEF listed
    <3> QED BY <2>2, <2>3, <3>1 DEF Consistent, TypeOK, CompletedIsReadable
  <2> QED BY <2>4, <2>5, <2>6, <2>7 DEF Consistent
<1> QED BY <1>2, <1>3, <1>4

\* An extraction is read.
LEMMA ReadKeepsAnswers ==
    ASSUME Consistent, NEW c \in Clients, NEW x \in Runs,
           AskExtraction(c, x) \/ AskAudit(c, x)
    PROVE  Consistent'
<1>1. PICK reply \in {Lookup(x), Refused} : Reads(c, x, reply)
  BY DEF AskExtraction, AskAudit
<1>2. PICK p \in results : p.run = x
  BY <1>1 DEF Consistent, Told, Reads
<1>3. Lookup(x) \in Documents!ExtractionStatus
  <2>1. (CHOOSE q \in results : q.run = x) \in results
    BY <1>2
  <2> QED BY <1>2, <2>1 DEF Lookup, Consistent, TypeOK, Documents!TypeOK
<1>4. TypeOK'
  BY <1>1, <1>3 DEF Consistent, TypeOK, Reads, Documents!TypeOK
<1>5. ListedIsFound'
  BY <1>1, <1>3 DEF Consistent, TypeOK, ListedIsFound, Reads, Documents!ExtractionStatus,
     NotFound, Refused
<1>6. Documents!CompletedHasResult' /\ Underway' /\ Told' /\ CompletedIsReadable'
  BY <1>1 DEF Consistent, Underway, Told, CompletedIsReadable, Reads,
     Documents!CompletedHasResult
<1> QED BY <1>4, <1>5, <1>6 DEF Consistent

\* Every step keeps the invariant.
LEMMA NextConsistent == Consistent /\ [Next]_vars => Consistent'
<1> SUFFICES ASSUME Consistent, [Next]_vars PROVE Consistent'
  OBVIOUS
<1>1. CASE Documents!Next /\ UNCHANGED readers
  BY <1>1, ServiceKeepsAnswers
<1>2. ASSUME NEW c \in Clients, NEW d \in Docs, AskDocument(c, d) PROVE Consistent'
  BY <1>2, AskKeepsAnswers
<1>3. ASSUME NEW c \in Clients, Select(c) PROVE Consistent'
  BY <1>3, SelectKeepsAnswers
<1>4. ASSUME NEW c \in Clients, NEW x \in Runs, AskExtraction(c, x) \/ AskAudit(c, x)
      PROVE  Consistent'
  BY <1>4, ReadKeepsAnswers
<1>5. CASE UNCHANGED vars
  BY <1>5 DEF vars, readers, Consistent, TypeOK, Underway, Told, CompletedIsReadable,
     ListedIsFound, Documents!TypeOK, Documents!CompletedHasResult
<1> QED BY <1>1, <1>2, <1>3, <1>4, <1>5 DEF Next

\* The invariant holds in every behaviour.
LEMMA AlwaysConsistent == Spec => []Consistent
BY InitConsistent, NextConsistent, PTL DEF Spec

\* A request is at one of its two statements and has a document to ask for, and
\* an answer is never given for a document that is absent (documents.py:98-116).
THEOREM TypeCorrect == Spec => []TypeOK
<1>1. Consistent => TypeOK
  BY DEF Consistent
<1> QED BY <1>1, AlwaysConsistent, PTL

\* A document that is answered as COMPLETED lists an extraction with data, for
\* any number of documents, runs and clients (repositories/documents.py:38-43).
THEOREM CompletedCanBeRead == Spec => []CompletedIsReadable
<1>1. Consistent => CompletedIsReadable
  BY DEF Consistent
<1> QED BY <1>1, AlwaysConsistent, PTL

\* An extraction that was listed is never missing (documents.py:491-499).
THEOREM ListedCanBeFound == Spec => []ListedIsFound
<1>1. Consistent => ListedIsFound
  BY DEF Consistent
<1> QED BY <1>1, AlwaysConsistent, PTL

\* A client is never told of fewer extractions than before (documents.py:113-115).
THEOREM AnswersOnlyGrow == Spec => ListsGrow
<1>1. ASSUME Consistent, [Next]_vars, NEW c \in Clients, answer'[c].doc = answer[c].doc
      PROVE  answer[c].listed \subseteq answer'[c].listed
  <2>1. CASE answer'[c] = answer[c]
    BY <2>1
  <2>2. CASE answer'[c] # answer[c]
    <3>1. PICK e \in Clients : Select(e)
      BY <1>1, <2>2 DEF Next, vars, readers, AskDocument, AskExtraction, AskAudit, Reads
    <3>2. Len(Statements) = 2 /\ Statements[2] = "extractions"
      BY DEF Statements
    <3>3. e = c /\ pc[c] = 2
      BY <1>1, <2>2, <3>1, <3>2 DEF Select, Consistent, TypeOK
    <3> DEFINE listed == {p.run : p \in ExtractionsOf(loaded[c].doc)}
               response == [loaded[c] EXCEPT !.listed = listed]
    <3>4. answer'[c] = response
      BY <1>1, <2>2, <3>1, <3>2, <3>3 DEF Select, Load, Consistent, TypeOK
    <3>5. loaded[c] \in Response
      BY <1>1 DEF Consistent, TypeOK
    <3>6. response.doc = loaded[c].doc /\ response.listed = listed
      BY <3>5 DEF Response
    <3>7. \A x \in answer[c].listed : \E p \in results : p.run = x /\ p.doc = loaded[c].doc
      BY <1>1, <3>4, <3>6 DEF Consistent, Told
    <3>8. answer[c].listed \subseteq listed
      BY <3>7 DEF ExtractionsOf
    <3> QED BY <3>4, <3>6, <3>8
  <2> QED BY <2>1, <2>2
<1>2. Consistent /\ [Next]_vars =>
        [\A c \in Clients : answer'[c].doc = answer[c].doc =>
            answer[c].listed \subseteq answer'[c].listed]_vars
  BY <1>1
<1> QED BY <1>2, AlwaysConsistent, PTL DEF Spec, ListsGrow

=============================================================================
