--------------------------- MODULE PageMergeProofs ---------------------------
(* What PageMerge promises, for any number of pages, fields, items and sizes: *)
(* the longest text wins; a merged list is the union of the pages' lists; a   *)
(* page is a source exactly when it brought something new; no field loses     *)
(* what it had.  append_unique is a fold, which Folding takes apart.          *)
EXTENDS PageMerge, Folding

-----------------------------------------------------------------------------
(* PART 1: TEXTS *)

\* a value without regard to its items
Sized(v) == \E k \in Kinds, n \in Nat : \E s : v = [kind |-> k, size |-> n, items |-> s]

\* The text of a field comes from page p: no text before p is as long, none after
\* it is longer.
LongestFrom(f, p) ==
    /\ p < next /\ outputs[p][f] = merged[f]
    /\ \A q \in PagesOfKind(f, "text") :
        /\ outputs[q][f].size <= merged[f].size
        /\ q < p => outputs[q][f].size < merged[f].size

\* A field without a value had nothing useful on any page so far.
NothingMissed ==
    \A f \in Fields : merged[f].kind = "absent" => UsefulPages(f) = {}

Sizes ==
    /\ next \in 1..(PageCount + 1)
    /\ \A f \in Fields : Sized(merged[f])
    /\ \A p \in Pages, f \in Fields : Sized(outputs[p][f])
    /\ \A f \in Fields : sources[f] \subseteq Pages

TextMerge == Sizes /\ NothingMissed /\ LongestTextWins

LEMMA InitTextMerge == Init => TextMerge
<1> SUFFICES ASSUME Init PROVE TextMerge
  OBVIOUS
<1>1. \A f \in Fields : merged[f] = Absent /\ Sized(merged[f])
  BY DEF Init, Absent, Sized, Kinds
<1>2. ASSUME NEW v \in PageValues PROVE Sized(v)
  BY SizeAssumption DEF PageValues, Absent, Sized, Kinds
<1>3. Seen = {}
  BY DEF Init, Seen, Pages
<1> QED BY <1>1, <1>2, <1>3, PageCountAssumption
        DEF Init, TextMerge, Sizes, NothingMissed, LongestTextWins, UsefulPages, Absent,
            Pages

LEMMA SizedParts ==
    ASSUME NEW v, Sized(v)
    PROVE  v.kind \in Kinds /\ v.size \in Nat
<1>1. PICK k \in Kinds, n \in Nat : \E s : v = [kind |-> k, size |-> n, items |-> s]
  BY DEF Sized
<1> QED BY <1>1

\* Merging keeps the kind and the size of what it extends.
LEMMA MergedIsSized ==
    ASSUME NEW v, NEW w, Sized(v), Sized(w)
    PROVE  /\ Sized(MergeValue(w, v))
           /\ ~Replaces(w, v) =>
                \/ MergeValue(w, v) = v
                \/ v.kind = "list" /\ MergeValue(w, v).kind = "list"
<1>1. CASE Replaces(w, v) \/ ~Extends(w, v)
  BY <1>1 DEF MergeValue
<1>2. CASE ~Replaces(w, v) /\ Extends(w, v)
  <2>1. PICK k \in Kinds, n \in Nat : \E s : v = [kind |-> k, size |-> n, items |-> s]
    BY DEF Sized
  <2>7. PICK s : v = [kind |-> k, size |-> n, items |-> s]
    BY <2>1
  <2> DEFINE a == append_unique(v.items, w.items)
  <2>2. MergeValue(w, v) = [v EXCEPT !.items = a]
    BY <1>2 DEF MergeValue
  <2> HIDE DEF a
  <2>3. MergeValue(w, v) = [kind |-> k, size |-> n, items |-> a]
    BY <2>2, <2>7
  <2>4. k = "list"
    BY <1>2, <2>7 DEF Extends
  <2>5. Sized(MergeValue(w, v))
    BY <2>3 DEF Sized
  <2>6. v.kind = "list" /\ MergeValue(w, v).kind = "list"
    BY <2>3, <2>4, <2>7
  <2> QED BY <2>5, <2>6
<1> QED BY <1>1, <1>2

LEMMA PageTextMerge == TextMerge /\ MergePage => TextMerge'
<1> SUFFICES ASSUME TextMerge, MergePage PROVE TextMerge'
  OBVIOUS
<1> USE PageCountAssumption DEF TextMerge
<1>1. /\ next \in Pages /\ next' = next + 1 /\ UNCHANGED outputs
      /\ Seen' = Seen \cup {next} /\ next \notin Seen /\ Seen \subseteq Pages
  BY DEF MergePage, Sizes, Pages, Seen
<1>2. \A f \in Fields :
        /\ merged'[f] = MergeValue(outputs[next][f], merged[f])
        /\ sources'[f] = IF merged'[f] # merged[f] THEN sources[f] \cup {next} ELSE sources[f]
  BY DEF MergePage, ChangingPages
<1>3. Sizes'
  <2>1. \A f \in Fields : Sized(merged'[f])
    <3> SUFFICES ASSUME NEW f \in Fields PROVE Sized(MergeValue(outputs[next][f], merged[f]))
      BY <1>2
    <3>1. Sized(merged[f]) /\ Sized(outputs[next][f])
      BY <1>1 DEF Sizes
    <3> QED BY <3>1, MergedIsSized
  <2>2. next' \in 1..(PageCount + 1)
    BY <1>1 DEF Pages
  <2>3. \A f \in Fields : sources'[f] \subseteq Pages
    BY <1>1, <1>2 DEF Sizes
  <2>4. \A p \in Pages, f \in Fields : Sized(outputs'[p][f])
    BY <1>1 DEF Sizes
  <2> QED BY <2>1, <2>2, <2>3, <2>4 DEF Sizes, Sized, Pages
<1>4. ASSUME NEW f \in Fields
      PROVE  /\ merged'[f].kind = "absent" => UsefulPages(f)' = {}
             /\ merged'[f].kind = "text" => \E p \in sources'[f] : LongestFrom(f, p)'
  <2> DEFINE v == merged[f]
             w == outputs[next][f]
  <2>1. v.kind \in Kinds /\ v.size \in Nat /\ w.kind \in Kinds /\ w.size \in Nat
    BY <1>1, SizedParts DEF Sizes
  <2>2. merged'[f] = MergeValue(w, v) /\ Sized(v) /\ Sized(w)
    BY <1>1, <1>2 DEF Sizes
  <2>3. ASSUME v.kind = "absent" PROVE UsefulPages(f) = {} /\ PagesOfKind(f, "text") = {}
    BY <2>3 DEF NothingMissed, UsefulPages, PagesOfKind, is_useful_value
  <2>4. ASSUME v.kind = "text" PROVE \E p \in sources[f] : LongestFrom(f, p)
    BY <2>4 DEF LongestTextWins, LongestFrom
  <2>5. \A q \in PagesOfKind(f, "text") : q < next /\ q \in Pages /\ outputs[q][f].size \in Nat
    BY SizedParts DEF PagesOfKind, Seen, Sizes
  <2>6. PagesOfKind(f, "text")' =
          IF w.kind = "text" THEN PagesOfKind(f, "text") \cup {next} ELSE PagesOfKind(f, "text")
    BY <1>1 DEF PagesOfKind
  <2> HIDE DEF v, w
  <2>7. CASE Replaces(w, v)
    <3>1. merged'[f] = w /\ w # v
      BY <2>1, <2>2, <2>7 DEF MergeValue, Replaces, is_useful_value, is_more_complete
    <3>2. next \in sources'[f] /\ w.kind # "absent"
      BY <1>2, <2>7, <3>1 DEF Replaces, is_useful_value, v
    <3>3. ASSUME w.kind = "text", NEW p, p = next PROVE LongestFrom(f, p)'
      <4>1. \A q \in PagesOfKind(f, "text") : outputs[q][f].size < w.size
        <5>1. CASE v.kind = "absent"
          BY <2>3, <5>1
        <5>2. CASE v.kind # "absent"
          <6>1. v.kind = "text" /\ w.size > v.size
            BY <2>7, <5>2 DEF Replaces, is_more_complete
          <6>2. \A q \in PagesOfKind(f, "text") : outputs[q][f].size <= v.size
            BY <2>4, <6>1 DEF LongestFrom, v
          <6> QED BY <2>1, <2>5, <6>1, <6>2
        <5> QED BY <5>1, <5>2
      <4>2. p < next' /\ outputs'[p][f] = merged'[f]
        BY <1>1, <3>1, <3>3 DEF w, Pages
      <4>3. \A q \in PagesOfKind(f, "text")' :
              /\ outputs[q][f].size <= w.size
              /\ q < p => outputs[q][f].size < w.size
        BY <1>1, <2>1, <2>5, <2>6, <3>3, <4>1 DEF w, Pages
      <4> QED BY <1>1, <3>1, <4>2, <4>3 DEF LongestFrom
    <3> QED BY <3>1, <3>2, <3>3
  <2>8. CASE ~Replaces(w, v)
    <3>1. merged'[f] = v \/ (v.kind = "list" /\ merged'[f].kind = "list")
      BY <2>2, <2>8, MergedIsSized
    <3>2. ASSUME merged'[f].kind = "absent" PROVE UsefulPages(f)' = {}
      <4>1. v.kind = "absent" /\ ~is_useful_value(w)
        BY <2>8, <3>1, <3>2 DEF Replaces
      <4> QED BY <1>1, <2>3, <4>1 DEF UsefulPages, w
    <3>3. ASSUME merged'[f].kind = "text" PROVE \E p \in sources'[f] : LongestFrom(f, p)'
      <4>1. merged'[f] = v /\ v.kind = "text"
        BY <3>1, <3>3
      <4>2. PICK p \in sources[f] : LongestFrom(f, p)
        BY <2>4, <4>1
      <4>3. w.kind = "text" => w.size <= v.size
        BY <2>1, <2>8, <4>1 DEF Replaces, is_useful_value, is_more_complete
      <4>4. p \in sources'[f] /\ p \in Pages
        BY <1>2, <4>2 DEF Sizes
      <4>5. p < next' /\ outputs'[p][f] = merged'[f]
        BY <1>1, <4>1, <4>2, <4>4 DEF LongestFrom, v, Pages
      <4>6. \A q \in PagesOfKind(f, "text")' :
              /\ outputs[q][f].size <= v.size
              /\ q < p => outputs[q][f].size < v.size
        BY <1>1, <2>6, <4>2, <4>3, <4>4 DEF LongestFrom, v, w, Pages
      <4> QED BY <1>1, <4>1, <4>4, <4>5, <4>6 DEF LongestFrom
    <3> QED BY <3>2, <3>3
  <2> QED BY <2>7, <2>8
<1> QED BY <1>3, <1>4 DEF NothingMissed, LongestTextWins, LongestFrom

\* A merged text is the longest its pages gave and the earliest of those, for any
\* number of pages (page_extraction.py:231-235, 254-261).
THEOREM LongestTextIsKept == Spec => []LongestTextWins
<1>1. TextMerge /\ [Next]_vars => TextMerge'
  <2>1. TextMerge /\ UNCHANGED vars => TextMerge'
    BY DEF vars, TextMerge, Sizes, NothingMissed, LongestTextWins, UsefulPages, Seen,
           PagesOfKind
  <2> QED BY <2>1, PageTextMerge DEF Next, Terminated
<1>2. TextMerge => LongestTextWins
  BY DEF TextMerge
<1> QED BY <1>1, <1>2, InitTextMerge, PTL DEF Spec

-----------------------------------------------------------------------------
(* PART 2: append_unique *)

\* the largest number of a set
LEMMA LargestNumber ==
    ASSUME NEW n \in Nat, NEW s \in SUBSET (1..n), s # {}
    PROVE  Max(s) \in s /\ \A i \in s : i <= Max(s)
<1> DEFINE T == {n - i : i \in s}
<1>1. PICK m \in T : \A k \in T : m <= k
  <2>1. T \subseteq Nat
    <3>1. \A i \in s : n - i \in Nat
      OBVIOUS
    <3> QED BY <3>1
  <2>2. T # {}
    OBVIOUS
  <2> HIDE DEF T
  <2> QED BY <2>1, <2>2, LeastNumber
<1>2. PICK x \in s : m = n - x
  BY <1>1
<1>3. \A i \in s : x >= i
  <2> TAKE i \in s
  <2>1. m <= n - i
    BY <1>1
  <2> QED BY <1>2, <2>1
<1>4. Max(s) \in s /\ \A i \in s : Max(s) >= i
  BY <1>3, Zenon DEF Max
<1> QED BY <1>4

LEMMA LastNumber ==
    ASSUME NEW n \in Nat, NEW i \in 1..n
    PROVE  Max(1..i) = i /\ (1..i) \ {i} = 1..(i - 1) /\ 1..i \in SUBSET (1..n) /\ 1..i # {}
<1>1. 1..i \in SUBSET (1..n) /\ i \in 1..i
  OBVIOUS
<1>2. Max(1..i) \in 1..i /\ i <= Max(1..i)
  BY <1>1, LargestNumber
<1> QED BY <1>1, <1>2

Added(all, x) == IF x \in Range(all) THEN all ELSE Append(all, x)

\* The steps of append_unique
Unites(all, current, candidate) ==
    /\ all \in [0..Len(candidate) -> Seq(Items)]
    /\ all[0] = current
    /\ \A i \in 1..Len(candidate) : all[i] = Added(all[i - 1], candidate[i])

LEMMA UniteStepByStep ==
    ASSUME NEW current \in Seq(Items), NEW candidate \in Seq(Items)
    PROVE  \E all : /\ Unites(all, current, candidate)
                    /\ append_unique(current, candidate) = all[Len(candidate)]
<1> DEFINE n == Len(candidate)
           D == 1..n
           Iter(g) == g = [s \in SUBSET D |->
                             IF s = {} THEN current
                             ELSE Added(g[s \ {Max(s)}], candidate[Max(s)])]
           pick == [s \in SUBSET D |-> Max(s)]
           plus == [p \in D \X Seq(Items) |-> Added(p[2], candidate[p[1]])]
<1>1. n \in Nat /\ DOMAIN candidate = D /\ \A i \in D : candidate[i] \in Items
  OBVIOUS
<1>2. append_unique(current, candidate) = (CHOOSE g : Iter(g))[D]
  BY <1>1 DEF append_unique, FoldLeft, MapThenFoldSet, Added
<1>3. Picks(pick, D) /\ IsFiniteSet(D)
  <2>1. \A s \in SUBSET D : s # {} => Max(s) \in s
    BY <1>1, LargestNumber
  <2>2. IsFiniteSet(D)
    BY <1>1, FS_Interval
  <2> QED BY <2>1, <2>2 DEF Picks
<1>4. plus \in [D \X Seq(Items) -> Seq(Items)]
  BY <1>1 DEF Added
<1>5. PICK h \in [SUBSET D -> Seq(Items)] : IsFold(h, D, current, pick, plus)
  <2> HIDE DEF pick, plus, D
  <2> QED BY <1>3, <1>4, FoldExists
<1>6. ASSUME NEW s \in SUBSET D, s # {}
      PROVE  plus[<<pick[s], h[s \ {pick[s]}]>>] = Added(h[s \ {Max(s)}], candidate[Max(s)])
  BY <1>3, <1>6 DEF Picks
<1>7. Iter(h)
  <2> HIDE DEF plus
  <2> QED BY <1>5, <1>6 DEF IsFold
<1>8. Iter(CHOOSE g : Iter(g))
  <2> HIDE DEF Iter
  <2> QED BY <1>7, Zenon
<1>9. ASSUME NEW g, Iter(g) PROVE g[D] = h[D]
  <2> DEFINE Q == {s \in SUBSET D : g[s] = h[s]}
  <2>1. {} \in Q
    BY <1>7, <1>9
  <2>2. ASSUME NEW s \in SUBSET D, s # {}, s \ {pick[s]} \in Q PROVE s \in Q
    <3>1. g[s] = Added(g[s \ {Max(s)}], candidate[Max(s)])
      BY <1>9, <2>2
    <3>2. h[s] = Added(h[s \ {Max(s)}], candidate[Max(s)])
      BY <1>7, <2>2
    <3> QED BY <2>2, <3>1, <3>2
  <2>3. \A s \in SUBSET D : s # {} /\ s \ {pick[s]} \in Q => s \in Q
    BY <2>2
  <2>4. D \in Q
    <3> HIDE DEF Q, pick, D
    <3> QED BY <1>3, <2>1, <2>3, PickInduction
  <2> QED BY <2>4
<1> DEFINE all == [i \in 0..n |-> h[1..i]]
<1>10. append_unique(current, candidate) = all[n]
  <2>1. append_unique(current, candidate) = h[D]
    <3> HIDE DEF Iter
    <3> QED BY <1>2, <1>8, <1>9
  <2> QED BY <1>1, <2>1
<1>11. Unites(all, current, candidate)
  <2>1. all \in [0..n -> Seq(Items)]
    <3>1. \A i \in 0..n : 1..i \in SUBSET D
      BY <1>1
    <3> QED BY <1>5, <3>1
  <2>2. all[0] = current
    <3>1. 1..0 = {} /\ 0 \in 0..n
      BY <1>1
    <3> QED BY <1>7, <3>1
  <2>3. ASSUME NEW i \in 1..n PROVE all[i] = Added(all[i - 1], candidate[i])
    <3>1. /\ Max(1..i) = i /\ (1..i) \ {i} = 1..(i - 1) /\ 1..i \in SUBSET D /\ 1..i # {}
          /\ i \in 0..n /\ i - 1 \in 0..n
      BY <1>1, LastNumber
    <3>2. h[1..i] = Added(h[(1..i) \ {Max(1..i)}], candidate[Max(1..i)])
      BY <1>7, <3>1
    <3> QED BY <3>1, <3>2
  <2> HIDE DEF all
  <2>4. \A i \in 1..Len(candidate) : all[i] = Added(all[i - 1], candidate[i])
    BY <2>3
  <2>5. all \in [0..Len(candidate) -> Seq(Items)]
    BY <2>1
  <2> QED BY <2>2, <2>4, <2>5, Zenon DEF Unites
<1> QED BY <1>10, <1>11

\* What append_unique has done to the list after i items
United(list, i, current, candidate) ==
    /\ Len(current) <= Len(list)
    /\ \A j \in 1..Len(current) : list[j] = current[j]
    /\ Range(list) = Range(current) \cup {candidate[j] : j \in 1..i}
    /\ \A k, j \in 1..Len(list) : k < j /\ list[k] = list[j] => j <= Len(current)
    /\ (\A j \in 1..i : candidate[j] \in Range(current)) => list = current

\* One item more keeps that.
LEMMA UniteOneMore ==
    ASSUME NEW current \in Seq(Items), NEW candidate \in Seq(Items),
           NEW a \in Seq(Items), NEW i \in Nat, NEW x \in Items, x = candidate[i + 1],
           United(a, i, current, candidate)
    PROVE  United(Added(a, x), i + 1, current, candidate)
<1>1. {candidate[j] : j \in 1..(i + 1)} = {candidate[j] : j \in 1..i} \cup {x}
  <2>1. 1..(i + 1) = 1..i \cup {i + 1}
    OBVIOUS
  <2> QED BY <2>1
<1>2. (\A j \in 1..(i + 1) : candidate[j] \in Range(current))
        => x \in Range(current) /\ \A j \in 1..i : candidate[j] \in Range(current)
  OBVIOUS
<1>3. CASE x \in Range(a)
  <2>1. Range(a) = Range(current) \cup {candidate[j] : j \in 1..(i + 1)}
    BY <1>1, <1>3 DEF United
  <2> QED BY <1>2, <1>3, <2>1 DEF United, Added
<1>4. CASE x \notin Range(a)
  <2>1. PICK b : b = Append(a, x)
    OBVIOUS
  <2>2. b \in Seq(Items) /\ Len(a) \in Nat /\ Len(current) \in Nat
    BY <2>1
  <2>3. Len(b) = Len(a) + 1 /\ b[Len(a) + 1] = x
    BY <2>1
  <2>4. \A j \in 1..Len(a) : b[j] = a[j]
    BY <2>1
  <2>5. Range(b) = Range(a) \cup {x} /\ \A j \in 1..Len(a) : a[j] # x
    <3>1. DOMAIN a = 1..Len(a) /\ DOMAIN b = 1..Len(b)
      BY <2>2
    <3>2. 1..Len(b) = 1..Len(a) \cup {Len(a) + 1}
      BY <2>2, <2>3
    <3> QED BY <1>4, <2>3, <2>4, <3>1, <3>2 DEF Range
  <2>6. Len(current) <= Len(b) /\ \A j \in 1..Len(current) : b[j] = current[j]
    BY <2>2, <2>3, <2>4 DEF United
  <2>7. Range(b) = Range(current) \cup {candidate[j] : j \in 1..(i + 1)}
    BY <1>1, <2>5 DEF United
  <2>8. ASSUME NEW k \in 1..Len(b), NEW j \in 1..Len(b), k < j, b[k] = b[j]
        PROVE  j <= Len(current)
    <3>1. k \in 1..Len(a)
      BY <2>2, <2>3, <2>8
    <3>2. CASE j = Len(a) + 1
      BY <2>3, <2>4, <2>5, <2>8, <3>1, <3>2
    <3>3. CASE j # Len(a) + 1
      <4>1. j \in 1..Len(a)
        BY <2>2, <2>3, <3>3
      <4>2. a[k] = a[j]
        BY <2>4, <2>8, <3>1, <4>1
      <4> QED BY <2>8, <3>1, <4>1, <4>2 DEF United
    <3> QED BY <3>2, <3>3
  <2>9. x \notin Range(current)
    BY <1>4 DEF United
  <2>10. United(b, i + 1, current, candidate)
    BY <1>2, <2>6, <2>7, <2>8, <2>9 DEF United
  <2> QED BY <1>4, <2>1, <2>10 DEF Added
<1> QED BY <1>3, <1>4

LEMMA UniteInvariant ==
    ASSUME NEW current \in Seq(Items), NEW candidate \in Seq(Items),
           NEW all, Unites(all, current, candidate)
    PROVE  United(all[Len(candidate)], Len(candidate), current, candidate)
<1> DEFINE n == Len(candidate)
           N == {i \in Nat : i \in 0..n => United(all[i], i, current, candidate)}
<1>1. /\ n \in Nat /\ \A i \in 0..n : all[i] \in Seq(Items)
      /\ all[0] = current
      /\ \A i \in 1..n : all[i] = Added(all[i - 1], candidate[i])
  <2>1. n \in Nat
    OBVIOUS
  <2>2. all \in [0..n -> Seq(Items)]
    BY Zenon DEF Unites
  <2>3. all[0] = current
    BY Zenon DEF Unites
  <2>4. \A i \in 1..n : all[i] = Added(all[i - 1], candidate[i])
    BY Zenon DEF Unites
  <2> QED BY <2>1, <2>2, <2>3, <2>4
<1>2. 0 \in N
  <2>1. Len(current) \in Nat /\ 1..0 = {}
    OBVIOUS
  <2>2. ASSUME NEW k \in 1..Len(current), NEW j \in 1..Len(current)
        PROVE  j <= Len(current)
    BY <2>1, <2>2
  <2>3. United(current, 0, current, candidate)
    BY <2>1, <2>2 DEF United
  <2> QED BY <1>1, <2>3
<1>3. ASSUME NEW i \in Nat, i \in N PROVE i + 1 \in N
  <2> SUFFICES ASSUME i + 1 \in 0..n PROVE United(all[i + 1], i + 1, current, candidate)
    OBVIOUS
  <2>1. i \in 0..n /\ i + 1 \in 1..n /\ (i + 1) - 1 = i
    BY <1>1
  <2>2. all[i] \in Seq(Items) /\ candidate[i + 1] \in Items
    BY <1>1, <2>1
  <2>3. United(all[i], i, current, candidate)
    BY <1>3, <2>1
  <2>4. PICK a, x : a = all[i] /\ x = candidate[i + 1]
    OBVIOUS
  <2>5. United(Added(a, x), i + 1, current, candidate)
    BY <2>2, <2>3, <2>4, UniteOneMore
  <2>6. all[i + 1] = Added(a, x)
    BY <1>1, <2>1, <2>4
  <2> QED BY <2>5, <2>6
<1>4. Nat \subseteq N
  <2> HIDE DEF N
  <2> QED BY <1>2, <1>3, NumberInduction
<1> QED BY <1>1, <1>4

\* append_unique keeps what was there and adds every new item once.
LEMMA UniteLists ==
    ASSUME NEW current \in Seq(Items), NEW candidate \in Seq(Items),
           NEW result, result = append_unique(current, candidate)
    PROVE  /\ result \in Seq(Items)
           /\ IsPrefix(current, result)
           /\ Range(result) = Range(current) \cup Range(candidate)
           /\ \A i \in DOMAIN result, j \in DOMAIN result :
                i < j /\ result[i] = result[j] => j <= Len(current)
           /\ result = current <=> Range(candidate) \subseteq Range(current)
<1>1. PICK all : Unites(all, current, candidate) /\ result = all[Len(candidate)]
  BY UniteStepByStep
<1>2. Len(candidate) \in Nat /\ Len(candidate) \in 0..Len(candidate)
  OBVIOUS
<1>3. result \in Seq(Items)
  BY <1>1, <1>2 DEF Unites
<1>4. Range(candidate) = {candidate[j] : j \in 1..Len(candidate)}
  BY DEF Range
<1>5. /\ Len(current) <= Len(result)
      /\ \A j \in 1..Len(current) : result[j] = current[j]
      /\ Range(result) = Range(current) \cup {candidate[j] : j \in 1..Len(candidate)}
      /\ \A k \in 1..Len(result), j \in 1..Len(result) :
            k < j /\ result[k] = result[j] => j <= Len(current)
      /\ (\A j \in 1..Len(candidate) : candidate[j] \in Range(current)) => result = current
  <2>1. United(result, Len(candidate), current, candidate)
    BY <1>1, UniteInvariant
  <2> QED BY <2>1 DEF United
<1>6. IsPrefix(current, result)
  <2>1. SubSeq(current, 1, Len(current)) = SubSeq(result, 1, Len(current))
    BY <1>3, <1>5
  <2> QED BY <1>5, <2>1 DEF IsPrefix
<1>7. result = current <=> Range(candidate) \subseteq Range(current)
  BY <1>4, <1>5
<1>8. DOMAIN result = 1..Len(result)
  BY <1>3
<1> QED BY <1>3, <1>4, <1>5, <1>6, <1>7, <1>8

-----------------------------------------------------------------------------
(* PART 3: LISTS, SOURCES AND GROWTH *)

LEMMA ValueParts ==
    ASSUME NEW v \in Value
    PROVE  /\ v.kind \in Kinds /\ v.size \in Nat /\ v.items \in Seq(Items)
           /\ v = [kind |-> v.kind, size |-> v.size, items |-> v.items]
BY DEF Value

\* A page's value is a value.
LEMMA PageValuesAreValues == PageValues \subseteq Value
<1>1. <<>> \in Seq(Items)
  OBVIOUS
<1>2. \A x \in Items : <<x>> \in Seq(Items)
  OBVIOUS
<1>3. Lists \subseteq Seq(Items)
  <2> SUFFICES ASSUME NEW n \in 1..MaxSize, NEW l \in [1..n -> Items] PROVE l \in Seq(Items)
    BY DEF Lists
  <2>1. n \in Nat
    BY SizeAssumption
  <2> QED BY <2>1
<1>4. 1..MaxSize \subseteq Nat /\ 0 \in Nat
  BY SizeAssumption
<1>5. Absent \in Value /\ [kind |-> "useless", size |-> 0, items |-> <<>>] \in Value
  BY <1>1 DEF Absent, Value, Kinds
<1>6. [kind : {"text"}, size : 1..MaxSize, items : Singletons] \subseteq Value
  BY <1>2, <1>4 DEF Value, Kinds, Singletons
<1>7. [kind : {"list"}, size : {0}, items : Lists] \subseteq Value
  BY <1>3 DEF Value, Kinds
<1>8. [kind : {"other"}, size : {0}, items : Singletons] \subseteq Value
  BY <1>2 DEF Value, Kinds, Singletons
<1> QED BY <1>5, <1>6, <1>7, <1>8 DEF PageValues

\* A page's value takes the place of what the field has, or its list adds what
\* is new, or the field keeps what it has.
LEMMA MergeCases ==
    ASSUME NEW v \in Value, NEW w \in Value
    PROVE  \/ /\ Replaces(w, v) /\ MergeValue(w, v) = w /\ w # v
              /\ v.kind \in {"absent", "text"}
           \/ /\ v.kind = "list" /\ w.kind = "list"
              /\ MergeValue(w, v)
                   = [kind |-> "list", size |-> v.size, items |-> append_unique(v.items, w.items)]
           \/ /\ ~Replaces(w, v) /\ ~Extends(w, v) /\ MergeValue(w, v) = v
<1>1. v.size \in Nat /\ w.size \in Nat
  BY ValueParts
<1>2. CASE Replaces(w, v)
  BY <1>1, <1>2 DEF MergeValue, Replaces, is_useful_value, is_more_complete
<1>3. CASE ~Replaces(w, v) /\ Extends(w, v)
  <2>1. PICK a : a = append_unique(v.items, w.items)
    OBVIOUS
  <2>2. MergeValue(w, v) = [v EXCEPT !.items = a]
    BY <1>3, <2>1 DEF MergeValue
  <2>3. v = [kind |-> "list", size |-> v.size, items |-> v.items] /\ w.kind = "list"
    BY <1>3, ValueParts DEF Extends
  <2>4. MergeValue(w, v) = [kind |-> "list", size |-> v.size, items |-> a]
    BY <2>2, <2>3
  <2> QED BY <2>1, <2>3, <2>4
<1>4. CASE ~Replaces(w, v) /\ ~Extends(w, v)
  BY <1>4 DEF MergeValue
<1> QED BY <1>2, <1>3, <1>4

LEMMA MergedIsValue ==
    ASSUME NEW v \in Value, NEW w \in Value
    PROVE  MergeValue(w, v) \in Value
<1>1. CASE v.kind = "list" /\ w.kind = "list"
  <2>1. v.items \in Seq(Items) /\ w.items \in Seq(Items) /\ v.size \in Nat
    BY ValueParts
  <2>2. append_unique(v.items, w.items) \in Seq(Items)
    BY <2>1, UniteLists
  <2>3. [kind |-> "list", size |-> v.size, items |-> append_unique(v.items, w.items)] \in Value
    BY <2>1, <2>2 DEF Value, Kinds
  <2> QED BY <1>1, <2>3, MergeCases DEF Extends
<1>2. CASE ~(v.kind = "list" /\ w.kind = "list")
  BY <1>2, MergeCases
<1> QED BY <1>1, <1>2

\* What one page does
LEMMA PageStep ==
    ASSUME TypeOK, MergePage
    PROVE  /\ next \in Pages /\ next' = next + 1 /\ outputs' = outputs
           /\ Seen' = Seen \cup {next} /\ next \notin Seen /\ Seen \subseteq Pages
           /\ \A p \in Seen : p < next
           /\ \A f \in Fields :
                /\ merged'[f] = MergeValue(outputs[next][f], merged[f])
                /\ sources'[f] = IF merged'[f] # merged[f] THEN sources[f] \cup {next}
                                 ELSE sources[f]
                /\ merged[f] \in Value /\ outputs[next][f] \in Value
                /\ sources[f] \subseteq Pages
<1>1. next \in Pages /\ next' = next + 1 /\ outputs' = outputs
  BY PageCountAssumption DEF TypeOK, MergePage, Pages
<1>2. Seen' = Seen \cup {next} /\ next \notin Seen /\ Seen \subseteq Pages
      /\ \A p \in Seen : p < next
  BY <1>1, PageCountAssumption DEF Seen, Pages
<1>3. \A f \in Fields : merged[f] \in Value /\ outputs[next][f] \in Value
                        /\ sources[f] \subseteq Pages
  BY <1>1 DEF TypeOK
<1>4. \A f \in Fields :
        /\ merged'[f] = MergeValue(outputs[next][f], merged[f])
        /\ sources'[f] = IF merged'[f] # merged[f] THEN sources[f] \cup {next}
                         ELSE sources[f]
  BY DEF MergePage, ChangingPages
<1> QED BY <1>1, <1>2, <1>3, <1>4

\* Every value a field takes is one, whatever the pages say (page_extraction.py:203-235).
LEMMA PageTyped == TypeOK /\ MergePage => TypeOK'
<1> SUFFICES ASSUME TypeOK, MergePage PROVE TypeOK'
  OBVIOUS
<1>1. outputs' \in [Pages -> [Fields -> Value]] /\ next' \in 1..(PageCount + 1)
  BY PageStep, PageCountAssumption DEF TypeOK, Pages
<1>2. merged' \in [Fields -> Value]
  <2>1. \A f \in Fields : MergeValue(outputs[next][f], merged[f]) \in Value
    BY PageStep, MergedIsValue
  <2> QED BY <2>1 DEF MergePage
<1>3. sources' \in [Fields -> SUBSET Pages]
  <2>1. \A f \in Fields : ChangingPages(f) \subseteq Pages
    BY PageStep DEF ChangingPages
  <2> QED BY <2>1 DEF MergePage
<1> QED BY <1>1, <1>2, <1>3 DEF TypeOK, Pages

\* Every merged value, list or not, is a value of the model and every source is
\* a page (page_extraction.py:203-235).
THEOREM TypeCorrect == Spec => []TypeOK
<1>1. Init => TypeOK
  BY PageValuesAreValues, PageCountAssumption DEF Init, TypeOK, Pages, PageValues
<1>2. TypeOK /\ [Next]_vars => TypeOK'
  <2>1. TypeOK /\ UNCHANGED vars => TypeOK'
    BY DEF TypeOK, vars
  <2> QED BY <2>1, PageTyped DEF Next, Terminated
<1> QED BY <1>1, <1>2, PTL DEF Spec

\* FieldsOnlyGrow, for one field
Grows(f) ==
    merged[f].kind # "absent" =>
        /\ merged'[f].kind = merged[f].kind
        /\ merged'[f].size >= merged[f].size
        /\ merged[f].kind = "list" => IsPrefix(merged[f].items, merged'[f].items)
        /\ merged[f].kind = "other" => merged'[f] = merged[f]

\* What a field has is never lost to a later page (page_extraction.py:216-235).
THEOREM NothingIsLost == Spec => FieldsOnlyGrow
<1>1. ASSUME NEW v \in Value
      PROVE  v.size >= v.size /\ IsPrefix(v.items, v.items)
  <2>1. v.size \in Nat /\ v.items \in Seq(Items)
    BY ValueParts
  <2> QED BY <2>1 DEF IsPrefix
<1>2. TypeOK /\ [Next]_vars => \A f \in Fields : Grows(f)
  <2>1. ASSUME TypeOK, UNCHANGED vars, NEW f \in Fields PROVE Grows(f)
    BY <1>1, <2>1 DEF vars, TypeOK, Grows
  <2>2. ASSUME TypeOK, MergePage, NEW f \in Fields PROVE Grows(f)
    <3>1. PICK v, w : v = merged[f] /\ w = outputs[next][f]
      OBVIOUS
    <3>2. v \in Value /\ w \in Value /\ merged'[f] = MergeValue(w, v)
      BY <2>2, <3>1, PageStep
    <3>3. v.size \in Nat /\ w.size \in Nat
      BY <3>2, ValueParts
    <3>4. CASE Replaces(w, v) /\ MergeValue(w, v) = w
      BY <3>1, <3>2, <3>3, <3>4 DEF Grows, Replaces, is_more_complete
    <3>5. CASE /\ v.kind = "list" /\ w.kind = "list"
               /\ MergeValue(w, v)
                   = [kind |-> "list", size |-> v.size, items |-> append_unique(v.items, w.items)]
      <4>1. IsPrefix(v.items, append_unique(v.items, w.items))
        BY <3>2, ValueParts, UniteLists
      <4> QED BY <3>1, <3>2, <3>3, <3>5, <4>1 DEF Grows
    <3>6. CASE MergeValue(w, v) = v
      BY <1>1, <3>1, <3>2, <3>6 DEF Grows
    <3> QED BY <3>2, <3>4, <3>5, <3>6, MergeCases
  <2> QED BY <2>1, <2>2 DEF Next, Terminated
<1> QED BY <1>2, TypeCorrect, PTL DEF Spec, FieldsOnlyGrow, Grows

\* The pages of a list field: the first useful one is among its sources, holds
\* every item the merged list repeats, and all of them together hold its items.
FirstList(f, p) ==
    /\ p \in sources[f]
    /\ \A q \in UsefulPages(f) : p <= q
    /\ \A i, j \in DOMAIN merged[f].items :
        i < j /\ merged[f].items[i] = merged[f].items[j] => j <= Len(outputs[p][f].items)

ItemsOf(f) == UNION {Range(outputs[p][f].items) : p \in PagesOfKind(f, "list")}

\* What page p gives field f that no page before it gave
News(f, p) ==
    /\ p \in UsefulPages(f)
    /\ \A q \in UsefulPages(f) : q < p =>
        \/ /\ merged[f].kind = "text" /\ outputs[p][f].kind = "text"
           /\ outputs[q][f].kind = "text"
                => outputs[q][f].size < outputs[p][f].size
        \/ /\ merged[f].kind = "list" /\ outputs[p][f].kind = "list"
           /\ \E x \in Range(outputs[p][f].items) :
                \A r \in PagesOfKind(f, "list") :
                    r < p => x \notin Range(outputs[r][f].items)

\* A field has a value only if a page gave one, and its sources are pages seen.
Grounded ==
    \A f \in Fields :
        /\ merged[f].kind # "absent" => UsefulPages(f) # {}
        /\ sources[f] \subseteq Seen

PageMerged == TypeOK /\ TextMerge /\ Grounded /\ ListsUnite /\ SourcesBroughtNews

LEMMA InitPageMerged == Init => PageMerged
<1> SUFFICES ASSUME Init PROVE PageMerged
  OBVIOUS
<1>1. TypeOK
  BY PageValuesAreValues, PageCountAssumption DEF Init, TypeOK, Pages, PageValues
<1>2. TextMerge
  BY InitTextMerge
<1>3. Seen = {} /\ \A f \in Fields : merged[f].kind = "absent" /\ sources[f] = {}
  BY DEF Init, Absent, Seen, Pages
<1> QED BY <1>1, <1>2, <1>3 DEF PageMerged, Grounded, ListsUnite, SourcesBroughtNews

\* How the next page changes what the properties look at
LEMMA PagesAfter ==
    ASSUME TypeOK, MergePage, NEW f \in Fields, NEW w, w = outputs[next][f]
    PROVE  /\ UsefulPages(f)' = UsefulPages(f) \cup (IF is_useful_value(w) THEN {next} ELSE {})
           /\ \A k : PagesOfKind(f, k)' = PagesOfKind(f, k) \cup (IF w.kind = k THEN {next} ELSE {})
           /\ \A k : k \notin {"absent", "useless"} => PagesOfKind(f, k) \subseteq UsefulPages(f)
           /\ \A k : PagesOfKind(f, k) \subseteq Seen
           /\ UsefulPages(f) \subseteq Seen
<1>1. /\ outputs' = outputs /\ Seen' = Seen \cup {next} /\ next \notin Seen
  BY PageStep
<1>2. UsefulPages(f)' = UsefulPages(f) \cup (IF is_useful_value(w) THEN {next} ELSE {})
  BY <1>1 DEF UsefulPages
<1>3. \A k : PagesOfKind(f, k)' = PagesOfKind(f, k) \cup (IF w.kind = k THEN {next} ELSE {})
  BY <1>1 DEF PagesOfKind
<1> QED BY <1>2, <1>3 DEF PagesOfKind, UsefulPages, is_useful_value

\* A list stays the union of its pages' lists.
LEMMA PageLists ==
    ASSUME PageMerged, MergePage, NEW f \in Fields, merged'[f].kind = "list"
    PROVE  Range(merged'[f].items) = ItemsOf(f)' /\ \E p \in sources'[f] : FirstList(f, p)'
<1>1. TypeOK /\ TextMerge /\ Grounded /\ ListsUnite
  BY DEF PageMerged
<1>2. PICK v, w : v = merged[f] /\ w = outputs[next][f]
  OBVIOUS
<1>3. /\ v \in Value /\ w \in Value /\ merged'[f] = MergeValue(w, v) /\ outputs' = outputs
      /\ sources'[f] = IF merged'[f] # v THEN sources[f] \cup {next} ELSE sources[f]
      /\ next \notin Seen /\ next \in Nat /\ \A p \in Seen : p < next /\ p \in Nat
  BY <1>1, <1>2, PageStep, PageCountAssumption DEF Pages
<1>4. v.items \in Seq(Items) /\ w.items \in Seq(Items)
  BY <1>3, ValueParts
<1>5. /\ UsefulPages(f)' = UsefulPages(f) \cup (IF is_useful_value(w) THEN {next} ELSE {})
      /\ PagesOfKind(f, "list")' = PagesOfKind(f, "list") \cup (IF w.kind = "list" THEN {next} ELSE {})
      /\ PagesOfKind(f, "list") \subseteq UsefulPages(f)
      /\ UsefulPages(f) \subseteq Seen
  BY <1>1, <1>2, PagesAfter
<1>6. ItemsOf(f)' = ItemsOf(f) \cup (IF w.kind = "list" THEN Range(w.items) ELSE {})
  BY <1>2, <1>3, <1>5 DEF ItemsOf
<1>7. CASE Replaces(w, v) /\ MergeValue(w, v) = w /\ w # v
  <2>1. w.kind = "list" /\ v.kind = "absent"
    BY <1>3, <1>7 DEF Replaces, is_more_complete
  <2>2. UsefulPages(f) = {}
    BY <1>1, <1>2, <2>1 DEF TextMerge, NothingMissed
  <2>3. UsefulPages(f)' = {next} /\ PagesOfKind(f, "list") = {}
    BY <1>5, <2>1, <2>2 DEF is_useful_value
  <2>4. Range(merged'[f].items) = ItemsOf(f)'
    BY <1>3, <1>6, <1>7, <2>1, <2>3 DEF ItemsOf
  <2>5. PICK p : p = next
    OBVIOUS
  <2>6. p \in sources'[f] /\ \A q \in UsefulPages(f)' : p <= q
    BY <1>2, <1>3, <1>7, <2>3, <2>5
  <2>7. \A i, j \in DOMAIN w.items : j <= Len(w.items)
    BY <1>4
  <2>8. FirstList(f, p)'
    BY <1>2, <1>3, <1>7, <2>5, <2>6, <2>7 DEF FirstList
  <2> QED BY <2>4, <2>6, <2>8
<1>8. CASE v.kind = "list"
  <2>1. Range(v.items) = ItemsOf(f)
    BY <1>1, <1>2, <1>8 DEF ListsUnite, ItemsOf
  <2>2. PICK p \in sources[f] : FirstList(f, p)
    BY <1>1, <1>2, <1>8 DEF ListsUnite, FirstList
  <2>3. p \in sources'[f] /\ p \in Seen /\ \A q \in UsefulPages(f)' : p <= q
    BY <1>1, <1>3, <1>5, <2>2 DEF FirstList, Grounded
  <2>4. CASE w.kind = "list"
    <3>1. PICK r : r = append_unique(v.items, w.items)
      OBVIOUS
    <3>2. /\ r \in Seq(Items)
          /\ Range(r) = Range(v.items) \cup Range(w.items)
          /\ \A i \in DOMAIN r, j \in DOMAIN r : i < j /\ r[i] = r[j] => j <= Len(v.items)
          /\ IsPrefix(v.items, r)
      BY <1>4, <3>1, UniteLists
    <3>3. merged'[f].items = r
      BY <1>3, <1>8, <2>4, <3>1, MergeCases DEF Replaces, is_more_complete, Extends
    <3>4. Range(merged'[f].items) = ItemsOf(f)'
      BY <1>6, <2>1, <2>4, <3>2, <3>3
    <3>5. ASSUME NEW i \in DOMAIN r, NEW j \in DOMAIN r, i < j, r[i] = r[j]
          PROVE  j <= Len(outputs[p][f].items)
      <4>1. Len(v.items) \in Nat /\ DOMAIN v.items = 1..Len(v.items) /\ i \in Nat /\ j \in Nat
            /\ i >= 1 /\ j >= 1
        BY <1>4, <3>2
      <4>2. i \in DOMAIN v.items /\ j \in DOMAIN v.items
        BY <3>2, <3>5, <4>1
      <4>3. r[i] = v.items[i] /\ r[j] = v.items[j]
        <5>1. \A k \in 1..Len(v.items) : v.items[k] = SubSeq(r, 1, Len(v.items))[k]
          BY <1>4, <3>2 DEF IsPrefix
        <5> QED BY <1>4, <3>2, <4>1, <4>2, <5>1 DEF IsPrefix
      <4> QED BY <1>2, <2>2, <3>5, <4>2, <4>3 DEF FirstList
    <3>6. FirstList(f, p)'
      BY <1>3, <2>3, <3>3, <3>5 DEF FirstList
    <3> QED BY <2>3, <3>4, <3>6
  <2>5. CASE w.kind # "list"
    <3>1. merged'[f] = v
      BY <1>3, <1>8, <2>5, MergeCases DEF Replaces, is_more_complete
    <3>2. Range(merged'[f].items) = ItemsOf(f)'
      BY <1>6, <2>1, <2>5, <3>1
    <3>3. FirstList(f, p)'
      BY <1>2, <1>3, <2>2, <2>3, <3>1 DEF FirstList
    <3> QED BY <2>3, <3>2, <3>3
  <2> QED BY <2>4, <2>5
<1> QED BY <1>3, <1>7, <1>8, MergeCases

\* A page becomes a source exactly when it brings something new.
LEMMA PageBringsNews ==
    ASSUME PageMerged, MergePage, NEW f \in Fields, NEW n, n = next
    PROVE  n \in sources'[f] <=> News(f, n)'
<1>1. TypeOK /\ TextMerge /\ Grounded /\ ListsUnite
  BY DEF PageMerged
<1>2. PICK v, w : v = merged[f] /\ w = outputs[next][f]
  OBVIOUS
<1>3. /\ v \in Value /\ w \in Value /\ merged'[f] = MergeValue(w, v) /\ outputs' = outputs
      /\ sources'[f] = IF merged'[f] # v THEN sources[f] \cup {n} ELSE sources[f]
      /\ n \notin Seen /\ n \in Nat /\ \A p \in Seen : p < n /\ p \in Nat
      /\ outputs[n][f] = w
  <2>1. /\ v \in Value /\ w \in Value /\ merged'[f] = MergeValue(w, v)
        /\ sources'[f] = IF merged'[f] # v THEN sources[f] \cup {n} ELSE sources[f]
    BY <1>1, <1>2, PageStep
  <2>2. outputs' = outputs /\ n \notin Seen /\ n \in Nat /\ \A p \in Seen : p < n /\ p \in Nat
    BY <1>1, PageStep, PageCountAssumption DEF Pages
  <2> QED BY <1>2, <2>1, <2>2
<1>4. v.items \in Seq(Items) /\ w.items \in Seq(Items) /\ v.size \in Nat /\ w.size \in Nat
  BY <1>3, ValueParts
<1>5. /\ UsefulPages(f)' = UsefulPages(f) \cup (IF is_useful_value(w) THEN {n} ELSE {})
      /\ \A k : PagesOfKind(f, k)' = PagesOfKind(f, k) \cup (IF w.kind = k THEN {n} ELSE {})
      /\ UsefulPages(f) \subseteq Seen
      /\ PagesOfKind(f, "text") \subseteq UsefulPages(f)
      /\ PagesOfKind(f, "list") \subseteq UsefulPages(f)
  BY <1>1, <1>2, PagesAfter
<1>6. n \in sources'[f] <=> merged'[f] # v
  BY <1>1, <1>3 DEF Grounded
<1>7. UsefulPages(f) = {} <=> v.kind = "absent"
  BY <1>1, <1>2 DEF TextMerge, NothingMissed, Grounded
<1>8. News(f, n)' <=>
        /\ is_useful_value(w)
        /\ \A q \in UsefulPages(f) :
            \/ /\ merged'[f].kind = "text" /\ w.kind = "text"
               /\ outputs[q][f].kind = "text" => outputs[q][f].size < w.size
            \/ /\ merged'[f].kind = "list" /\ w.kind = "list"
               /\ \E x \in Range(w.items) :
                    \A r \in PagesOfKind(f, "list") : x \notin Range(outputs[r][f].items)
  <2>1. n \in UsefulPages(f)' <=> is_useful_value(w)
    BY <1>3, <1>5
  <2>2. \A q \in UsefulPages(f)' : q < n <=> q \in UsefulPages(f)
    BY <1>3, <1>5
  <2>3. \A r \in PagesOfKind(f, "list")' : r < n <=> r \in PagesOfKind(f, "list")
    BY <1>3, <1>5
  <2> QED BY <1>3, <1>5, <2>1, <2>2, <2>3 DEF News
<1>9. CASE v.kind = "absent"
  <2>1. News(f, n)' <=> is_useful_value(w)
    BY <1>7, <1>8, <1>9
  <2>2. is_useful_value(w) <=> MergeValue(w, v) # v
    BY <1>9, MergeCases, <1>3 DEF Replaces
  <2> QED BY <1>3, <1>6, <2>1, <2>2
<1>10. CASE v.kind = "text"
  <2>1. PICK p \in UsefulPages(f) : outputs[p][f] = v
    BY <1>1, <1>2, <1>5, <1>10 DEF TextMerge, LongestTextWins, Grounded, UsefulPages,
                                   is_useful_value
  <2>2. \A q \in UsefulPages(f) : outputs[q][f].kind = "text" => outputs[q][f].size <= v.size
    BY <1>1, <1>2, <1>10 DEF TextMerge, LongestTextWins, UsefulPages, PagesOfKind
  <2>3. \A q \in UsefulPages(f) : q \in Seen
    BY <1>5
  <2>4. \A q \in UsefulPages(f) : outputs[q][f].size \in Nat
    BY <1>1, ValueParts DEF UsefulPages, Seen, TypeOK
  <2>5. CASE w.kind = "text" /\ w.size > v.size
    <3>1. merged'[f] = w /\ w # v /\ is_useful_value(w)
      <4>1. Replaces(w, v) /\ is_useful_value(w)
        BY <1>10, <2>5 DEF Replaces, is_useful_value, is_more_complete
      <4> QED BY <1>3, <1>10, <4>1, MergeCases
    <3>2. \A q \in UsefulPages(f) : outputs[q][f].kind = "text" => outputs[q][f].size < w.size
      BY <1>4, <2>2, <2>4, <2>5
    <3> QED BY <1>6, <1>8, <2>5, <3>1, <3>2
  <2>6. CASE ~(w.kind = "text" /\ w.size > v.size)
    <3>1. merged'[f] = v
      BY <1>3, <1>10, <2>6, MergeCases DEF Replaces, is_more_complete
    <3> QED BY <1>4, <1>6, <1>8, <1>10, <2>1, <2>6, <3>1
  <2> QED BY <2>5, <2>6
<1>11. CASE v.kind = "list"
  <2>1. Range(v.items) = ItemsOf(f)
    BY <1>1, <1>2, <1>11 DEF ListsUnite, ItemsOf
  <2>2. CASE w.kind = "list"
    <3>1. PICK r : r = append_unique(v.items, w.items)
      OBVIOUS
    <3>2. r = v.items <=> Range(w.items) \subseteq Range(v.items)
      BY <1>4, <3>1, UniteLists
    <3>3. merged'[f] = [kind |-> "list", size |-> v.size, items |-> r]
      BY <1>3, <1>11, <2>2, <3>1, MergeCases DEF Replaces, is_more_complete, Extends
    <3>4. v = [kind |-> "list", size |-> v.size, items |-> v.items]
      BY <1>3, <1>11, ValueParts
    <3>5. merged'[f] # v <=> r # v.items
      BY <3>3, <3>4
    <3>6. (\E x \in Range(w.items) :
              \A q \in PagesOfKind(f, "list") : x \notin Range(outputs[q][f].items))
            <=> ~(Range(w.items) \subseteq Range(v.items))
      BY <2>1 DEF ItemsOf
    <3>7. is_useful_value(w) /\ merged'[f].kind = "list"
      BY <2>2, <3>3 DEF is_useful_value
    <3>8. News(f, n)' <=> ~(Range(w.items) \subseteq Range(v.items))
      BY <1>7, <1>8, <1>11, <2>2, <3>6, <3>7
    <3> QED BY <1>6, <3>2, <3>5, <3>8
  <2>3. CASE w.kind # "list"
    <3>1. merged'[f] = v
      BY <1>3, <1>11, <2>3, MergeCases DEF Replaces, is_more_complete
    <3> QED BY <1>6, <1>7, <1>8, <1>11, <2>3, <3>1
  <2> QED BY <2>2, <2>3
<1>12. CASE v.kind \notin {"absent", "text", "list"}
  <2>1. merged'[f] = v
    BY <1>3, <1>12, MergeCases
  <2> QED BY <1>6, <1>7, <1>8, <1>12, <2>1
<1> QED BY <1>9, <1>10, <1>11, <1>12

\* A field keeps its kind once it has a value.
LEMMA KindStays ==
    ASSUME TypeOK, MergePage, NEW f \in Fields, merged[f].kind # "absent"
    PROVE  merged'[f].kind = merged[f].kind
<1>1. PICK v, w : v = merged[f] /\ w = outputs[next][f]
  OBVIOUS
<1>2. v \in Value /\ w \in Value /\ merged'[f] = MergeValue(w, v)
  BY <1>1, PageStep
<1> QED BY <1>1, <1>2, MergeCases DEF Replaces, is_more_complete

\* What an earlier page brought stays what it brought.
LEMMA NewsStay ==
    ASSUME PageMerged, MergePage, NEW f \in Fields, NEW p \in Seen
    PROVE  p \in sources'[f] <=> News(f, p)'
<1>1. TypeOK /\ TextMerge /\ Grounded /\ SourcesBroughtNews
  BY DEF PageMerged
<1>2. PICK n, w : n = next /\ w = outputs[next][f]
  OBVIOUS
<1>3. /\ outputs' = outputs /\ n \notin Seen /\ n \in Nat
      /\ p < n /\ p \in Nat /\ p # n
      /\ (p \in sources'[f] <=> p \in sources[f])
  <2>1. /\ outputs' = outputs /\ n \notin Seen /\ n \in Nat /\ p < n /\ p \in Nat /\ p # n
    BY <1>1, <1>2, PageStep, PageCountAssumption DEF Pages
  <2>2. sources'[f] = IF merged'[f] # merged[f] THEN sources[f] \cup {n} ELSE sources[f]
    BY <1>1, <1>2, PageStep
  <2> QED BY <2>1, <2>2
<1>4. p \in sources[f] <=> News(f, p)
  BY <1>1 DEF SourcesBroughtNews, News
<1>5. /\ UsefulPages(f)' = UsefulPages(f) \cup (IF is_useful_value(w) THEN {n} ELSE {})
      /\ \A k : PagesOfKind(f, k)' = PagesOfKind(f, k) \cup (IF w.kind = k THEN {n} ELSE {})
  BY <1>1, <1>2, PagesAfter
<1>6. /\ \A q \in UsefulPages(f)' : q < p => q \in UsefulPages(f)
      /\ \A r \in PagesOfKind(f, "list")' : r < p => r \in PagesOfKind(f, "list")
      /\ UsefulPages(f) \subseteq UsefulPages(f)'
      /\ PagesOfKind(f, "list") \subseteq PagesOfKind(f, "list")'
      /\ p \in UsefulPages(f)' <=> p \in UsefulPages(f)
  BY <1>3, <1>5
<1>7. CASE UsefulPages(f) = {}
  BY <1>3, <1>4, <1>6, <1>7 DEF News
<1>8. CASE UsefulPages(f) # {}
  <2>1. merged'[f].kind = merged[f].kind
    BY <1>1, <1>8, KindStays DEF TextMerge, NothingMissed
  <2>2. News(f, p)' <=> News(f, p)
    BY <1>3, <1>6, <2>1 DEF News
  <2> QED BY <1>3, <1>4, <2>2
<1> QED BY <1>7, <1>8

LEMMA PagePageMerged == PageMerged /\ MergePage => PageMerged'
<1> SUFFICES ASSUME PageMerged, MergePage PROVE PageMerged'
  OBVIOUS
<1>1. TypeOK /\ TextMerge /\ Grounded
  BY DEF PageMerged
<1>2. TypeOK' /\ TextMerge'
  BY <1>1, PageTyped, PageTextMerge
<1>3. Seen' = Seen \cup {next}
  BY <1>1, PageStep
<1>4. Grounded'
  <2> SUFFICES ASSUME NEW f \in Fields
               PROVE  /\ merged'[f].kind # "absent" => UsefulPages(f)' # {}
                      /\ sources'[f] \subseteq Seen'
    BY DEF Grounded
  <2>1. PICK v, w : v = merged[f] /\ w = outputs[next][f]
    OBVIOUS
  <2>2. v \in Value /\ w \in Value /\ merged'[f] = MergeValue(w, v)
        /\ sources'[f] \subseteq sources[f] \cup {next}
    BY <1>1, <2>1, PageStep
  <2>3. /\ UsefulPages(f)' = UsefulPages(f) \cup (IF is_useful_value(w) THEN {next} ELSE {})
    BY <1>1, <2>1, PagesAfter
  <2>4. is_useful_value(w) \/ MergeValue(w, v) = v
    BY <2>2, MergeCases DEF Replaces, is_useful_value
  <2> QED BY <1>1, <1>3, <2>1, <2>2, <2>3, <2>4 DEF Grounded
<1>5. ListsUnite'
  <2>1. \A f \in Fields : merged'[f].kind = "list" =>
          Range(merged'[f].items) = ItemsOf(f)' /\ \E p \in sources'[f] : FirstList(f, p)'
    BY PageLists
  <2> QED BY <2>1 DEF ListsUnite, ItemsOf, FirstList
<1>6. SourcesBroughtNews'
  <2>1. PICK n : n = next
    OBVIOUS
  <2>2. ASSUME NEW f \in Fields, NEW p \in Seen' PROVE p \in sources'[f] <=> News(f, p)'
    BY <1>3, <2>1, PageBringsNews, NewsStay
  <2> QED BY <2>2 DEF SourcesBroughtNews, News
<1> QED BY <1>2, <1>4, <1>5, <1>6 DEF PageMerged

LEMMA AlwaysPageMerged == Spec => []PageMerged
<1>1. PageMerged /\ [Next]_vars => PageMerged'
  <2>1. PageMerged /\ UNCHANGED vars => PageMerged'
    <3> SUFFICES ASSUME PageMerged, UNCHANGED vars PROVE PageMerged'
      OBVIOUS
    <3>1. /\ Seen' = Seen /\ \A f : UsefulPages(f)' = UsefulPages(f)
          /\ \A f, k : PagesOfKind(f, k)' = PagesOfKind(f, k)
      BY DEF vars, UsefulPages, Seen, PagesOfKind
    <3>2. TypeOK'
      BY DEF vars, PageMerged, TypeOK
    <3>3. TextMerge'
      BY <3>1 DEF vars, PageMerged, TextMerge, Sizes, NothingMissed, LongestTextWins
    <3>4. Grounded' /\ ListsUnite'
      BY <3>1 DEF vars, PageMerged, Grounded, ListsUnite
    <3>5. SourcesBroughtNews'
      <4>1. ASSUME NEW f \in Fields, NEW p \in Seen PROVE p \in sources[f] <=> News(f, p)
        BY DEF PageMerged, SourcesBroughtNews, News
      <4>2. \A f, p : News(f, p)' <=> News(f, p)
        BY <3>1 DEF vars, News
      <4>3. ASSUME NEW f \in Fields, NEW p \in Seen' PROVE p \in sources'[f] <=> News(f, p)'
        BY <3>1, <4>1, <4>2 DEF vars
      <4> QED BY <4>3 DEF SourcesBroughtNews, News
    <3> QED BY <3>2, <3>3, <3>4, <3>5 DEF PageMerged
  <2> QED BY <2>1, PagePageMerged DEF Next, Terminated
<1> QED BY <1>1, InitPageMerged, PTL DEF Spec

\* A merged list is the union of the pages' lists and repeats an item only where
\* its first page did (page_extraction.py:221-229, 263-278).
THEOREM ListsAreUnions == Spec => []ListsUnite
<1>1. PageMerged => ListsUnite
  BY DEF PageMerged
<1> QED BY <1>1, AlwaysPageMerged, PTL

\* A page is a source of a field exactly when it brought something new
\* (page_extraction.py:212-235).
THEOREM SourcesAreNews == Spec => []SourcesBroughtNews
<1>1. PageMerged => SourcesBroughtNews
  BY DEF PageMerged
<1> QED BY <1>1, AlwaysPageMerged, PTL

=============================================================================
