--------------------------- MODULE DocumentQueries ---------------------------
(* Clients that read what DocumentLifecycle promises: GET /documents/{id},   *)
(* which is two SELECTs under READ COMMITTED, and GET of an extraction that  *)
(* a document lists, or of its audit.  Registrations, runs and results       *)
(* commit between them.                                                      *)
EXTENDS Naturals, Sequences

CONSTANTS
    Docs,
    Runs,      \* an extraction has the identity of the run that made it
    Clients

VARIABLES
    status,    \* as in DocumentLifecycle
    results,
    pc,        \* the statement that the request of a client is at, 0 without one
    loaded,    \* what the request has loaded
    answer,    \* the last DocumentResponse each client received
    found      \* what it received for the extraction it asked for last

readers == <<pc, loaded, answer, found>>
vars == <<status, results, readers>>

Documents == INSTANCE DocumentLifecycle

None == "none"
NotFound == "not_found"
Refused == "refused"

\* the columns of a DocumentResponse that change
Response == [doc : Docs \cup {None}, status : Documents!Statuses, listed : SUBSET Runs]
NoResponse == [doc |-> None, status |-> "absent", listed |-> {}]

\* MUTANT: the extractions are selected first
ExtractionsFirst == <<"extractions", "document">>

\* selectinload: the document, then the extractions that refer to it
Statements == <<"document", "extractions">>

TypeOK ==
    /\ Documents!TypeOK
    /\ pc \in [Clients -> 0..Len(Statements)]
    /\ loaded \in [Clients -> Response]
    /\ answer \in [Clients -> {r \in Response : r = NoResponse \/ r.status # "absent"}]
    /\ found \in [Clients -> Documents!ExtractionStatus \cup {None, NotFound, Refused}]
    /\ \A c \in Clients : pc[c] > 0 => loaded[c].doc \in Docs

Init ==
    /\ Documents!Init
    /\ pc = [c \in Clients |-> 0]
    /\ loaded = [c \in Clients |-> NoResponse]
    /\ answer = [c \in Clients |-> NoResponse]
    /\ found = [c \in Clients |-> None]

-----------------------------------------------------------------------------
AskDocument(c, d) ==
    /\ pc[c] = 0
    /\ pc' = [pc EXCEPT ![c] = 1]
    /\ loaded' = [loaded EXCEPT ![c] = [NoResponse EXCEPT !.doc = d]]
    /\ UNCHANGED <<status, results, answer, found>>

ExtractionsOf(d) == {p \in results : p.doc = d}

\* MUTANT: the extractions are looked up only for a document that is COMPLETED
LoadFinished(statement, response) ==
    IF statement = "document" THEN [response EXCEPT !.status = status[response.doc]]
    ELSE [response EXCEPT !.listed =
            IF response.status = "COMPLETED"
            THEN {p.run : p \in ExtractionsOf(response.doc)} ELSE {}]

\* what one statement adds to the response
Load(statement, response) ==
    IF statement = "document" THEN [response EXCEPT !.status = status[response.doc]]
    ELSE [response EXCEPT !.listed = {p.run : p \in ExtractionsOf(response.doc)}]

\* MUTANT: a document that is not there is answered like any other
NeverMissing(statement, response) == FALSE

Missing(statement, response) == statement = "document" /\ response.status = "absent"

\* each statement sees what is committed when it starts; without the document
\* the request ends in DocumentNotFoundError, after the last one it is answered
Select(c) ==
    /\ pc[c] > 0
    /\ LET statement == Statements[pc[c]]
           response == Load(statement, loaded[c])
       IN /\ loaded' = [loaded EXCEPT ![c] = response]
          /\ \/ /\ Missing(statement, response)
                /\ pc' = [pc EXCEPT ![c] = 0]
                /\ UNCHANGED answer
             \/ /\ ~Missing(statement, response) /\ pc[c] < Len(Statements)
                /\ pc' = [pc EXCEPT ![c] = pc[c] + 1]
                /\ UNCHANGED answer
             \/ /\ ~Missing(statement, response) /\ pc[c] = Len(Statements)
                /\ pc' = [pc EXCEPT ![c] = 0]
                /\ answer' = [answer EXCEPT ![c] = response]
    /\ UNCHANGED <<status, results, found>>

Lookup(x) ==
    IF \E p \in results : p.run = x
    THEN (CHOOSE p \in results : p.run = x).status ELSE NotFound

\* a client asks for an extraction that it was told of, and receives reply
Reads(c, x, reply) ==
    /\ pc[c] = 0 /\ x \in answer[c].listed
    /\ found' = [found EXCEPT ![c] = reply]
    /\ UNCHANGED <<status, results, pc, loaded, answer>>

AskExtraction(c, x) == Reads(c, x, Lookup(x))

\* The audit adds raw_tool_output, which ExtractionAuditResponse takes for an object.
\* A failed extraction may have stored other JSON there, which the response refuses.
AskAudit(c, x) ==
    \/ Reads(c, x, Lookup(x))
    \/ Lookup(x) = "failed" /\ Reads(c, x, Refused)

Next ==
    \/ Documents!Next /\ UNCHANGED readers
    \/ \E c \in Clients :
        \/ \E d \in Docs : AskDocument(c, d)
        \/ Select(c)
        \/ \E x \in Runs : AskExtraction(c, x) \/ AskAudit(c, x)

Spec == Init /\ [][Next]_vars

-----------------------------------------------------------------------------
(* Properties *)

\* A document that is answered as COMPLETED lists an extraction with data,
\* whatever commits between the two statements (repositories/documents.py:38-43).
CompletedIsReadable ==
    \A c \in Clients : answer[c].status = "COMPLETED" =>
        \E p \in results : /\ p.run \in answer[c].listed
                           /\ p.doc = answer[c].doc
                           /\ p.status # "failed"

\* An extraction that was listed is there from then on (documents.py:491-499).
ListedIsFound == \A c \in Clients : found[c] # NotFound

\* A later answer lists what an earlier one listed, also while the document is
\* extracted again (documents.py:113-115).
ListsGrow ==
    [][\A c \in Clients : answer'[c].doc = answer[c].doc =>
            answer[c].listed \subseteq answer'[c].listed]_vars

=============================================================================
