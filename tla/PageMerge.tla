------------------------------ MODULE PageMerge ------------------------------
(* PageStrategyRunner._merge_results: the outputs of the pages that gave     *)
(* useful data become one value per schema field, page by page, with the     *)
(* pages each value is attributed to (app/services/page_extraction.py).      *)
EXTENDS Naturals, SequencesExt

CONSTANTS
    Fields,    \* the fields of the schema
    PageCount, \* pages whose output is merged
    Items,     \* what a list may hold, and what tells scalars apart
    MaxSize    \* bound on the length of a text or of a page's list

ASSUME PageCountAssumption == PageCount \in Nat
ASSUME SizeAssumption == MaxSize \in Nat

VARIABLES
    outputs,   \* what the tool call returned for each page and field
    next,      \* the page to merge next
    merged,    \* the value of each field so far
    sources    \* field_source_pages

vars == <<outputs, next, merged, sources>>

(* A value is known by its kind, the length of a stripped text, and the items *)
(* of a list; the single item of a scalar tells it from others of its kind.   *)
Kinds == {"absent", "useless", "text", "list", "other"}
Value == [kind : Kinds, size : Nat, items : Seq(Items)]
Absent == [kind |-> "absent", size |-> 0, items |-> <<>>]

Lists == UNION {[1..n -> Items] : n \in 1..MaxSize}
Singletons == {<<x>> : x \in Items}

\* a field the page's output does not name, or names with None, "", [] or {}
PageValues ==
    {Absent, [kind |-> "useless", size |-> 0, items |-> <<>>]}
    \cup [kind : {"text"}, size : 1..MaxSize, items : Singletons]
    \cup [kind : {"list"}, size : {0}, items : Lists]
    \cup [kind : {"other"}, size : {0}, items : Singletons]

Pages == 1..PageCount

TypeOK ==
    /\ outputs \in [Pages -> [Fields -> Value]]
    /\ next \in 1..(PageCount + 1)
    /\ merged \in [Fields -> Value]
    /\ sources \in [Fields -> SUBSET Pages]

Init ==
    /\ outputs \in [Pages -> [Fields -> PageValues]]
    /\ next = 1
    /\ merged = [f \in Fields |-> Absent]
    /\ sources = [f \in Fields |-> {}]

-----------------------------------------------------------------------------
is_useful_value(v) == v.kind \notin {"absent", "useless"}

\* MUTANT: of two texts of the same length the later one wins
is_not_less_complete(candidate, current) ==
    candidate.kind = "text" /\ current.kind = "text" /\ candidate.size >= current.size

\* MUTANT: any longer value wins, whatever its kind
is_longer(candidate, current) ==
    candidate.size > current.size

is_more_complete(candidate, current) ==
    candidate.kind = "text" /\ current.kind = "text" /\ candidate.size > current.size

\* MUTANT: items are compared with the page that came first only
append_all(current, candidate) ==
    current \o SelectSeq(candidate, LAMBDA x : x \notin Range(current))

\* current.extend(_unique_list_items(current, candidate))
append_unique(current, candidate) ==
    FoldLeft(LAMBDA all, x : IF x \in Range(all) THEN all ELSE Append(all, x),
             current, candidate)

Replaces(candidate, current) ==
    /\ is_useful_value(candidate)
    /\ current.kind = "absent" \/ is_more_complete(candidate, current)

Extends(candidate, current) == candidate.kind = "list" /\ current.kind = "list"

MergeValue(candidate, current) ==
    IF Replaces(candidate, current) THEN candidate
    ELSE IF Extends(candidate, current)
         THEN [current EXCEPT !.items = append_unique(@, candidate.items)]
         ELSE current

\* MUTANT: every page that names a field is a source of it
NamingPages(f) ==
    IF is_useful_value(outputs[next][f]) THEN sources[f] \cup {next} ELSE sources[f]

\* MUTANT: pages are attributed by their printed number
ChangingPagesOffByOne(f) ==
    IF merged'[f] # merged[f] THEN sources[f] \cup {next + 1} ELSE sources[f]

ChangingPages(f) ==
    IF merged'[f] # merged[f] THEN sources[f] \cup {next} ELSE sources[f]

MergePage ==
    /\ next <= PageCount
    /\ merged' = [f \in Fields |-> MergeValue(outputs[next][f], merged[f])]
    /\ sources' = [f \in Fields |-> ChangingPages(f)]
    /\ next' = next + 1
    /\ UNCHANGED outputs

Terminated == next > PageCount /\ UNCHANGED vars

Next == MergePage \/ Terminated

Spec == Init /\ [][Next]_vars

-----------------------------------------------------------------------------
(* Properties *)

Seen == {p \in Pages : p < next}
UsefulPages(f) == {p \in Seen : is_useful_value(outputs[p][f])}
PagesOfKind(f, k) == {p \in Seen : outputs[p][f].kind = k}

\* A merged text is the longest the pages gave, the earliest of those, and the
\* page it comes from is among its sources (page_extraction.py:231-235, 254-261).
LongestTextWins ==
    \A f \in Fields : merged[f].kind = "text" =>
        \E p \in sources[f] :
            /\ p < next /\ outputs[p][f] = merged[f]
            /\ \A q \in PagesOfKind(f, "text") :
                /\ outputs[q][f].size <= merged[f].size
                /\ q < p => outputs[q][f].size < merged[f].size

\* A merged list holds every item of every page's list, and repeats an item
\* only if the first page that gave the list did (page_extraction.py:221-229, 263-278).
ListsUnite ==
    \A f \in Fields : merged[f].kind = "list" =>
        /\ Range(merged[f].items)
             = UNION {Range(outputs[p][f].items) : p \in PagesOfKind(f, "list")}
        /\ \E p \in sources[f] :
            /\ \A q \in UsefulPages(f) : p <= q
            /\ \A i, j \in DOMAIN merged[f].items :
                i < j /\ merged[f].items[i] = merged[f].items[j]
                  => j <= Len(outputs[p][f].items)

\* The pages a field is attributed to are those that brought something new: the
\* first useful value, a longer text, or a list item no earlier page had
\* (page_extraction.py:212-235).
SourcesBroughtNews ==
    \A f \in Fields : \A p \in Seen :
        p \in sources[f] <=>
            /\ p \in UsefulPages(f)
            /\ \A q \in UsefulPages(f) : q < p =>
                \/ /\ merged[f].kind = "text" /\ outputs[p][f].kind = "text"
                   /\ outputs[q][f].kind = "text"
                        => outputs[q][f].size < outputs[p][f].size
                \/ /\ merged[f].kind = "list" /\ outputs[p][f].kind = "list"
                   /\ \E x \in Range(outputs[p][f].items) :
                        \A r \in PagesOfKind(f, "list") :
                            r < p => x \notin Range(outputs[r][f].items)

\* What a field has is never lost to a later page: it keeps its kind, a text
\* never shrinks, a list keeps its items in their order, any other value stays
\* (page_extraction.py:216-235).
FieldsOnlyGrow ==
    [][\A f \in Fields : merged[f].kind # "absent" =>
        /\ merged'[f].kind = merged[f].kind
        /\ merged'[f].size >= merged[f].size
        /\ merged[f].kind = "list" => IsPrefix(merged[f].items, merged'[f].items)
        /\ merged[f].kind = "other" => merged'[f] = merged[f]]_vars

=============================================================================
