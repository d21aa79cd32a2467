-------------------------- MODULE CostReportProofs --------------------------
(* The cost report over any number of extractions, recorded while it is made. *)
EXTENDS CostReport, Folding

-----------------------------------------------------------------------------
(* Sums over finite sets *)

\* numbers may be added up over S
Summable(f, S) == IsFiniteSet(S) /\ \A x \in S : f[x] \in Nat

Pick(s) == CHOOSE x \in s : TRUE

\* sum maps each subset of S to its sum
AddsUp(sum, f, S) ==
    sum = [s \in SUBSET S |-> IF s = {} THEN 0 ELSE f[Pick(s)] + sum[s \ {Pick(s)}]]

LEMMA SumsExist ==
    ASSUME NEW S, NEW f, Summable(f, S)
    PROVE  \E sum \in [SUBSET S -> Nat] : AddsUp(sum, f, S)
<1> DEFINE pick == [s \in SUBSET S |-> Pick(s)]
           plus == [p \in S \X Nat |-> f[p[1]] + p[2]]
<1>1. Picks(pick, S)
  BY DEF Picks, Pick
<1>2. plus \in [S \X Nat -> Nat]
  BY DEF Summable
<1>3. PICK sum \in [SUBSET S -> Nat] : IsFold(sum, S, 0, pick, plus)
  <2> HIDE DEF pick, plus
  <2> QED BY <1>1, <1>2, FoldExists DEF Summable
<1>4. ASSUME NEW s \in SUBSET S, s # {}
      PROVE  plus[<<pick[s], sum[s \ {pick[s]}]>>] = f[Pick(s)] + sum[s \ {Pick(s)}]
  BY <1>1, <1>4 DEF Picks
<1>5. AddsUp(sum, f, S)
  <2> HIDE DEF plus
  <2> QED BY <1>3, <1>4 DEF IsFold, AddsUp
<1> QED BY <1>5

LEMMA SumsAgree ==
    ASSUME NEW S, IsFiniteSet(S), NEW T \in SUBSET S, NEW f,
           NEW g, AddsUp(g, f, S), NEW h, AddsUp(h, f, T)
    PROVE  g[T] = h[T]
<1> DEFINE pick == [s \in SUBSET T |-> Pick(s)]
           Q == {s \in SUBSET T : g[s] = h[s]}
<1>1. Picks(pick, T)
  BY DEF Picks, Pick
<1>2. {} \in Q
  BY DEF AddsUp
<1>3. ASSUME NEW s \in SUBSET T, s # {}, s \ {pick[s]} \in Q PROVE s \in Q
  <2>1. g[s] = f[Pick(s)] + g[s \ {Pick(s)}] /\ h[s] = f[Pick(s)] + h[s \ {Pick(s)}]
    BY <1>3 DEF AddsUp
  <2> QED BY <1>3, <2>1
<1>4. T \in Q
  <2> HIDE DEF pick, Q
  <2>1. IsFiniteSet(T)
    BY FS_Subset
  <2>2. \A s \in SUBSET T : s # {} /\ s \ {pick[s]} \in Q => s \in Q
    BY <1>3
  <2> QED BY <1>1, <1>2, <2>1, <2>2, PickInduction
<1> QED BY <1>4

\* SumOver is the sum that the fold of the whole set gives.
LEMMA SumIsFold ==
    ASSUME NEW S, NEW f, Summable(f, S), NEW sum, AddsUp(sum, f, S)
    PROVE  SumOver(f, S) = sum[S]
<1>1. SumOver(f, S) = (CHOOSE g : AddsUp(g, f, S))[S]
  BY DEF SumOver, MapThenSumSet, MapThenFoldSet, AddsUp, Pick
<1>2. AddsUp(CHOOSE g : AddsUp(g, f, S), f, S)
  BY Zenon
<1> QED BY <1>1, <1>2, SumsAgree DEF Summable

LEMMA SumParts ==
    ASSUME NEW S, NEW f, Summable(f, S), NEW T \in SUBSET S
    PROVE  /\ Summable(f, T)
           /\ SumOver(f, T) \in Nat
           /\ T = {} => SumOver(f, T) = 0
           /\ T # {} => Pick(T) \in T /\ SumOver(f, T) = f[Pick(T)] + SumOver(f, T \ {Pick(T)})
<1>1. Summable(f, T) /\ Summable(f, T \ {Pick(T)})
  BY FS_Subset DEF Summable
<1>2. PICK sum \in [SUBSET T -> Nat] : AddsUp(sum, f, T)
  BY <1>1, SumsExist
<1>3. SumOver(f, T) = sum[T]
  BY <1>1, <1>2, SumIsFold
<1>4. PICK rest \in [SUBSET (T \ {Pick(T)}) -> Nat] : AddsUp(rest, f, T \ {Pick(T)})
  BY <1>1, SumsExist
<1>5. SumOver(f, T \ {Pick(T)}) = sum[T \ {Pick(T)}]
  <2>1. SumOver(f, T \ {Pick(T)}) = rest[T \ {Pick(T)}]
    BY <1>1, <1>4, SumIsFold
  <2> QED BY <1>1, <1>2, <1>4, <2>1, SumsAgree DEF Summable
<1>6. T # {} => Pick(T) \in T
  BY DEF Pick
<1>7. sum[T] = IF T = {} THEN 0 ELSE f[Pick(T)] + sum[T \ {Pick(T)}]
  <2>1. T \in SUBSET T
    OBVIOUS
  <2> QED BY <1>2, <2>1 DEF AddsUp
<1>8. sum[T] \in Nat
  BY <1>2
<1> QED BY <1>1, <1>3, <1>5, <1>6, <1>7, <1>8

\* A sum does not depend on the order: any element can be taken apart.
LEMMA SumApart ==
    ASSUME NEW S, NEW f, Summable(f, S), NEW x \in S
    PROVE  SumOver(f, S) = f[x] + SumOver(f, S \ {x})
<1> DEFINE Apart(T) == \A y \in T : SumOver(f, T) = f[y] + SumOver(f, T \ {y})
           N == {n \in Nat : \A T \in SUBSET S : Cardinality(T) = n => Apart(T)}
<1>1. \A T \in SUBSET S : IsFiniteSet(T) /\ Cardinality(T) \in Nat
  BY FS_Subset, FS_CardinalityType DEF Summable
<1>2. 0 \in N
  <2> ASSUME NEW T \in SUBSET S, Cardinality(T) = 0 PROVE T = {}
    BY <1>1, FS_EmptySet
  <2> QED OBVIOUS
<1>3. ASSUME NEW n \in Nat, n \in N PROVE n + 1 \in N
  <2> SUFFICES ASSUME NEW T \in SUBSET S, Cardinality(T) = n + 1, NEW y \in T
               PROVE  SumOver(f, T) = f[y] + SumOver(f, T \ {y})
    OBVIOUS
  <2> DEFINE c == Pick(T)
  <2>1. c \in T /\ SumOver(f, T) = f[c] + SumOver(f, T \ {c})
    BY SumParts
  <2>2. CASE y # c
    <3>1. Cardinality(T \ {c}) = n /\ Cardinality(T \ {y}) = n
      <4>1. IsFiniteSet(T) /\ c \in T
        BY <1>1, <2>1
      <4>2. \A z \in T : Cardinality(T \ {z}) = Cardinality(T) - 1
        BY <4>1, FS_RemoveElement
      <4> HIDE DEF c
      <4> QED BY <4>1, <4>2
    <3>2. Apart(T \ {c}) /\ Apart(T \ {y})
      BY <1>3, <3>1
    <3> HIDE DEF c
    <3>3. SumOver(f, T \ {c}) = f[y] + SumOver(f, (T \ {c}) \ {y})
      BY <2>2, <3>2
    <3>4. SumOver(f, T \ {y}) = f[c] + SumOver(f, (T \ {y}) \ {c})
      BY <2>1, <2>2, <3>2
    <3>5. (T \ {c}) \ {y} = (T \ {y}) \ {c}
      OBVIOUS
    <3>6. f[c] \in Nat /\ f[y] \in Nat /\ SumOver(f, (T \ {y}) \ {c}) \in Nat
      BY <2>1, SumParts DEF Summable
    <3>7. /\ SumOver(f, T) = f[c] + (f[y] + SumOver(f, (T \ {y}) \ {c}))
          /\ f[y] + SumOver(f, T \ {y}) = f[y] + (f[c] + SumOver(f, (T \ {y}) \ {c}))
      BY <2>1, <3>3, <3>4, <3>5
    <3> QED BY <3>6, <3>7
  <2> QED BY <2>1, <2>2
<1>4. Cardinality(S) \in N
  <2> HIDE DEF N
  <2> QED BY <1>1, <1>2, <1>3, NumberInduction
<1> QED BY <1>4

\* Sums of the same numbers are the same.
LEMMA SumsEqual ==
    ASSUME NEW S, NEW f, NEW g, Summable(f, S), \A x \in S : f[x] = g[x]
    PROVE  Summable(g, S) /\ SumOver(f, S) = SumOver(g, S)
<1> DEFINE Q == {T \in SUBSET S : SumOver(f, T) = SumOver(g, T)}
<1>1. Summable(g, S)
  BY DEF Summable
<1>2. {} \in Q
  <2>1. {} \in SUBSET S
    OBVIOUS
  <2> QED BY <1>1, <2>1, SumParts
<1>3. ASSUME NEW T \in SUBSET S, NEW x \in S \ T, T \in Q PROVE T \cup {x} \in Q
  <2>1. Summable(f, T \cup {x}) /\ Summable(g, T \cup {x})
    BY <1>1, SumParts
  <2>2. (T \cup {x}) \ {x} = T /\ x \in T \cup {x}
    OBVIOUS
  <2>3. SumOver(f, T \cup {x}) = f[x] + SumOver(f, T)
    BY <2>1, <2>2, SumApart
  <2>4. SumOver(g, T \cup {x}) = g[x] + SumOver(g, T)
    BY <2>1, <2>2, SumApart
  <2> QED BY <1>3, <2>3, <2>4
<1>4. S \in Q
  <2> HIDE DEF Q
  <2> QED BY <1>2, <1>3, FiniteInduction DEF Summable
<1> QED BY <1>1, <1>4

\* Adding more can only make a sum larger.
LEMMA SumGrows ==
    ASSUME NEW S, NEW f, Summable(f, S), NEW T \in SUBSET S
    PROVE  SumOver(f, T) <= SumOver(f, S)
<1> DEFINE Q == {U \in SUBSET S : SumOver(f, U \cap T) <= SumOver(f, U)}
<1>1. {} \in Q
  <2>1. {} \in SUBSET S /\ {} \cap T = {}
    OBVIOUS
  <2>2. SumOver(f, {}) \in Nat
    BY <2>1, SumParts
  <2> QED BY <2>1, <2>2
<1>2. ASSUME NEW U \in SUBSET S, NEW x \in S \ U, U \in Q PROVE U \cup {x} \in Q
  <2> DEFINE V == U \cup {x}
  <2>1. /\ Summable(f, V) /\ Summable(f, V \cap T)
        /\ SumOver(f, U) \in Nat /\ SumOver(f, U \cap T) \in Nat
    BY SumParts
  <2>2. SumOver(f, V) = f[x] + SumOver(f, U) /\ f[x] \in Nat
    <3>1. V \ {x} = U /\ x \in V
      OBVIOUS
    <3> HIDE DEF V
    <3> QED BY <2>1, <3>1, SumApart DEF Summable
  <2>3. SumOver(f, V \cap T) \in {SumOver(f, U \cap T), f[x] + SumOver(f, U \cap T)}
    <3>1. CASE x \in T
      <4>1. (V \cap T) \ {x} = U \cap T /\ x \in V \cap T
        BY <3>1
      <4> HIDE DEF V
      <4> QED BY <2>1, <4>1, SumApart
    <3>2. CASE x \notin T
      <4>1. V \cap T = U \cap T
        BY <3>2
      <4> QED BY <4>1
    <3> QED BY <3>1, <3>2
  <2> QED BY <1>2, <2>1, <2>2, <2>3
<1>3. S \in Q
  <2> HIDE DEF Q
  <2> QED BY <1>1, <1>2, FiniteInduction DEF Summable
<1>4. S \cap T = T
  OBVIOUS
<1> QED BY <1>3, <1>4

\* g is f but for x, where it is larger by n
OneMore(g, f, S, x, n) == g[x] = f[x] + n /\ \A y \in S \ {x} : g[y] = f[y]

LEMMA SumDiffers ==
    ASSUME NEW S, NEW f, NEW g, NEW x \in S, NEW n \in Nat, Summable(f, S),
           OneMore(g, f, S, x, n)
    PROVE  Summable(g, S) /\ SumOver(g, S) = SumOver(f, S) + n
<1>1. Summable(g, S) /\ Summable(f, S \ {x})
  <2>1. \A y \in S : g[y] \in Nat
    <3>1. \A y \in S \ {x} : g[y] \in Nat
      BY DEF Summable, OneMore
    <3>2. g[x] \in Nat
      BY DEF Summable, OneMore
    <3> QED BY <3>1, <3>2
  <2> QED BY <2>1, SumParts DEF Summable
<1>2. SumOver(f, S) = f[x] + SumOver(f, S \ {x}) /\ f[x] \in Nat
  BY SumApart DEF Summable
<1>3. SumOver(g, S) = g[x] + SumOver(g, S \ {x})
  BY <1>1, SumApart
<1>4. SumOver(f, S \ {x}) = SumOver(g, S \ {x}) /\ SumOver(f, S \ {x}) \in Nat
  BY <1>1, SumsEqual, SumParts DEF OneMore
<1> QED BY <1>1, <1>2, <1>3, <1>4 DEF OneMore

\* Zeros add up to zero.
LEMMA SumOfZeros ==
    ASSUME NEW S, IsFiniteSet(S), NEW f, \A x \in S : f[x] = 0
    PROVE  Summable(f, S) /\ SumOver(f, S) = 0
<1> DEFINE Q == {T \in SUBSET S : SumOver(f, T) = 0}
<1>1. Summable(f, S)
  BY DEF Summable
<1>2. {} \in Q
  <2>1. {} \in SUBSET S
    OBVIOUS
  <2> QED BY <1>1, <2>1, SumParts
<1>3. ASSUME NEW T \in SUBSET S, NEW x \in S \ T, T \in Q PROVE T \cup {x} \in Q
  <2>1. Summable(f, T \cup {x}) /\ (T \cup {x}) \ {x} = T /\ x \in T \cup {x}
    BY <1>1, SumParts
  <2>2. SumOver(f, T \cup {x}) = f[x] + SumOver(f, T)
    BY <2>1, SumApart
  <2> QED BY <1>3, <2>2
<1>4. S \in Q
  <2> HIDE DEF Q
  <2> QED BY <1>2, <1>3, FiniteInduction
<1> QED BY <1>1, <1>4

\* The same number for each element.
LEMMA SumOfSame ==
    ASSUME NEW S, IsFiniteSet(S), NEW n \in Nat, NEW f, \A x \in S : f[x] = n
    PROVE  Summable(f, S) /\ SumOver(f, S) = n * Cardinality(S)
<1> DEFINE Q == {T \in SUBSET S : SumOver(f, T) = n * Cardinality(T)}
<1>1. Summable(f, S)
  BY DEF Summable
<1>2. {} \in Q
  <2>1. {} \in SUBSET S
    OBVIOUS
  <2>2. SumOver(f, {}) = 0
    BY <1>1, <2>1, SumParts
  <2>3. Cardinality({}) = 0
    BY FS_EmptySet
  <2>4. n * 0 = 0
    OBVIOUS
  <2> QED BY <2>1, <2>2, <2>3, <2>4
<1>3. ASSUME NEW T \in SUBSET S, NEW x \in S \ T, T \in Q PROVE T \cup {x} \in Q
  <2>1. Summable(f, T \cup {x}) /\ (T \cup {x}) \ {x} = T /\ x \in T \cup {x}
    BY <1>1, SumParts
  <2>2. SumOver(f, T \cup {x}) = n + SumOver(f, T)
    BY <2>1, SumApart
  <2>3. Cardinality(T \cup {x}) = Cardinality(T) + 1 /\ Cardinality(T) \in Nat
    BY FS_Subset, FS_AddElement, FS_CardinalityType
  <2>4. n * (Cardinality(T) + 1) = n + n * Cardinality(T)
    BY <2>3
  <2> QED BY <1>3, <2>2, <2>3, <2>4
<1>4. S \in Q
  <2> HIDE DEF Q
  <2> QED BY <1>2, <1>3, FiniteInduction
<1> QED BY <1>1, <1>4

KeysIn(key, U) == {key[u] : u \in U}

\* part has the sum of each group of U, of the elements with the same key
GroupSums(part, f, U, key) ==
    \A k \in KeysIn(key, U) : part[k] = SumOver(f, {u \in U : key[u] = k})

LEMMA FiniteKeys ==
    ASSUME NEW U, IsFiniteSet(U), NEW key
    PROVE  IsFiniteSet(KeysIn(key, U))
<1>1. [u \in U |-> key[u]] \in Surjection(U, KeysIn(key, U))
  BY DEF Surjection, KeysIn
<1> QED BY <1>1, FS_Surjection

\* The sums of the groups of a set add up to the sum of the set.
LEMMA SumOfGroups ==
    ASSUME NEW U, NEW f, Summable(f, U), NEW key, NEW part, GroupSums(part, f, U, key)
    PROVE  /\ Summable(part, KeysIn(key, U))
           /\ SumOver(part, KeysIn(key, U)) = SumOver(f, U)
<1> DEFINE K == KeysIn(key, U)
           Group(T, k) == {u \in T : key[u] = k}
           Part(T) == [k \in K |-> SumOver(f, Group(T, k))]
           Q == {T \in SUBSET U : Summable(Part(T), K) /\ SumOver(Part(T), K) = SumOver(f, T)}
<1>1. IsFiniteSet(K)
  BY FiniteKeys DEF Summable
<1>2. {} \in Q
  <2>1. {} \in SUBSET U /\ \A k \in K : Group({}, k) = {}
    OBVIOUS
  <2>2. SumOver(f, {}) = 0
    BY <2>1, SumParts
  <2>3. \A k \in K : Part({})[k] = 0
    BY <2>1, <2>2
  <2> HIDE DEF Part
  <2> QED BY <1>1, <2>1, <2>2, <2>3, SumOfZeros
<1>3. ASSUME NEW T \in SUBSET U, NEW x \in U \ T, T \in Q PROVE T \cup {x} \in Q
  <2> DEFINE V == T \cup {x}
  <2>1. /\ Summable(f, V) /\ V \ {x} = T /\ x \in V /\ key[x] \in K
        /\ f[x] \in Nat /\ SumOver(f, T) \in Nat
    BY SumParts DEF Summable, KeysIn
  <2>2. SumOver(f, V) = f[x] + SumOver(f, T)
    BY <2>1, SumApart
  <2>3. \A k \in K \ {key[x]} : Group(V, k) = Group(T, k)
    OBVIOUS
  <2>4. Part(V)[key[x]] = Part(T)[key[x]] + f[x]
    <3> DEFINE G == Group(V, key[x])
    <3>1. Summable(f, G) /\ x \in G /\ G \ {x} = Group(T, key[x])
      BY SumParts
    <3>2. SumOver(f, Group(T, key[x])) \in Nat
      BY SumParts
    <3>3. SumOver(f, G) = f[x] + SumOver(f, Group(T, key[x]))
      <4> HIDE DEF G, Group
      <4> QED BY <3>1, SumApart
    <3>4. /\ Part(V)[key[x]] = SumOver(f, G)
          /\ Part(T)[key[x]] = SumOver(f, Group(T, key[x]))
      BY <2>1
    <3> HIDE DEF G, Group, Part, V
    <3> QED BY <2>1, <3>2, <3>3, <3>4
  <2>5. \A k \in K \ {key[x]} : Part(V)[k] = Part(T)[k]
    BY <2>3
  <2>6. Summable(Part(V), K) /\ SumOver(Part(V), K) = SumOver(Part(T), K) + f[x]
    <3>1. Summable(Part(T), K)
      BY <1>3
    <3> HIDE DEF Part, V
    <3>2. OneMore(Part(V), Part(T), K, key[x], f[x])
      BY <2>4, <2>5 DEF OneMore
    <3> QED BY <2>1, <3>1, <3>2, SumDiffers
  <2> QED BY <1>3, <2>1, <2>2, <2>6
<1>4. U \in Q
  <2> HIDE DEF Q
  <2> QED BY <1>2, <1>3, FiniteInduction DEF Summable
<1>5. \A k \in K : Part(U)[k] = part[k]
  BY DEF GroupSums
<1> HIDE DEF Part
<1> QED BY <1>4, <1>5, SumsEqual


-----------------------------------------------------------------------------
(* What a query answers, as a function of the extractions it sees *)

CountedAmong(V) == {e \in V : InWindow(row[e].created_at)}
UsageAmong(V) ==
    {u \in V \X Purposes : InWindow(row[u[1]].usage_at[u[2]]) /\ u[2] \in DOMAIN row[u[1]].models}

Counts(column, C) ==
    [k \in {row[e][column] : e \in C} |-> Cardinality({e \in C : row[e][column] = k})]

Snapshot(q, V) ==
    CASE q = "doc_type" -> Counts("doc_type", CountedAmong(V))
      [] q = "strategy" -> Counts("strategy", CountedAmong(V))
      [] q = "doc_type_usage" -> SumBy("doc_type", UsageAmong(V))
      [] q = "strategy_usage" -> SumBy("strategy", UsageAmong(V))
      [] q = "model_usage" -> SumBy("model", UsageAmong(V))
      [] q = "purpose_usage" -> SumBy("purpose", UsageAmong(V))

LEMMA QueryNames ==
    /\ Queries[1] = "doc_type" /\ Queries[2] = "strategy"
    /\ Queries[3] = "doc_type_usage" /\ Queries[4] = "strategy_usage"
    /\ Queries[5] = "model_usage" /\ Queries[6] = "purpose_usage"
BY DEF Queries

LEMMA AnswerIsSnapshot ==
    ASSUME NEW i \in 1..6
    PROVE  Answer(Queries[i]) = Snapshot(Queries[i], Visible)
<1>2. Usage = UsageAmong(Visible) /\ Counted = CountedAmong(Visible)
  BY DEF Usage, UsageAmong, Counted, CountedAmong
<1>3. \A column : CountBy(column) = Counts(column, CountedAmong(Visible))
  BY <1>2 DEF CountBy, Counts
<1>4. strategy_usage = SumBy("strategy", UsageAmong(Visible))
  BY <1>2 DEF strategy_usage
<1> QED BY <1>2, <1>3, <1>4, QueryNames DEF Answer, Snapshot

\* The answer to a query depends on nothing but the rows it sees and the dates.
LEMMA SnapshotStays ==
    ASSUME NEW V, from' = from, to' = to, \A e \in V : row'[e] = row[e], NEW i \in 1..6
    PROVE  Snapshot(Queries[i], V)' = Snapshot(Queries[i], V)
<1>1. CountedAmong(V)' = CountedAmong(V) /\ CountedAmong(V) \subseteq V
  BY DEF CountedAmong, InWindow
<1>2. UsageAmong(V)' = UsageAmong(V) /\ \A u \in UsageAmong(V) : u[1] \in V
  BY DEF UsageAmong, InWindow
<1>3. ASSUME NEW column
      PROVE  Counts(column, CountedAmong(V))' = Counts(column, CountedAmong(V))
  BY <1>1 DEF Counts
<1>4. ASSUME NEW column
      PROVE  SumBy(column, UsageAmong(V))' = SumBy(column, UsageAmong(V))
  <2>1. \A u \in UsageAmong(V) :
           KeyOf(u, column)' = KeyOf(u, column) /\ ModelOf(u)' = ModelOf(u)
    BY <1>2 DEF KeyOf, ModelOf
  <2> QED BY <1>2, <2>1 DEF SumBy
<1> QED BY <1>3, <1>4, QueryNames DEF Snapshot


-----------------------------------------------------------------------------
(* The totals of a breakdown *)

TokensIn(U) == [u \in U |-> Tokens[u[2]]]
CostsIn(U) == [u \in U |-> Tokens[u[2]] * PriceOf(ModelOf(u))]

\* usage rows that some set of extractions has
UsageRows(U) == IsFiniteSet(U) /\ \A u \in U : u[2] \in Purposes

LEMMA UsageIsSummable ==
    ASSUME NEW U, UsageRows(U)
    PROVE  Summable(TokensIn(U), U) /\ Summable(CostsIn(U), U)
<1>1. \A u \in U : Tokens[u[2]] \in Nat
  BY DEF UsageRows, Purposes, Tokens
<1>2. \A u \in U : PriceOf(ModelOf(u)) \in {0, 1}
  BY DEF PriceOf
<1> QED BY <1>1, <1>2 DEF UsageRows, Summable, TokensIn, CostsIn

PairOf(column, U) == [u \in U |-> <<KeyOf(u, column), ModelOf(u)>>]

\* A breakdown has the tokens of each key and model.
LEMMA SumByGroups ==
    ASSUME NEW U, NEW column
    PROVE  /\ DOMAIN SumBy(column, U) = KeysIn(PairOf(column, U), U)
           /\ GroupSums(SumBy(column, U), TokensIn(U), U, PairOf(column, U))
<1> DEFINE pair == PairOf(column, U)
<1>1. KeysIn(pair, U) = {<<KeyOf(u, column), ModelOf(u)>> : u \in U}
  BY DEF KeysIn, PairOf
<1>2. \A km : {u \in U : pair[u] = km} = {u \in U : <<KeyOf(u, column), ModelOf(u)>> = km}
  BY DEF PairOf
<1> HIDE DEF pair
<1> QED BY <1>1, <1>2 DEF SumBy, TokensIn, GroupSums, pair

First(D) == [km \in D |-> km[1]]

\* Whatever it is grouped by, usage adds up to the tokens of its rows.
LEMMA TokensTotal ==
    ASSUME NEW q, NEW U, UsageRows(U), NEW column, got[q] = SumBy(column, U)
    PROVE  TotalTokens(q) = SumOver(TokensIn(U), U)
<1> DEFINE g == SumBy(column, U)
           D == KeysIn(PairOf(column, U), U)
           K == KeysIn(First(D), D)
           part == [k \in K |-> TokensOf(q, k)]
<1>1. DOMAIN g = D /\ Summable(g, D) /\ SumOver(g, D) = SumOver(TokensIn(U), U)
  BY SumByGroups, UsageIsSummable, SumOfGroups
<1>2. K = UsageKeys(q)
  BY <1>1 DEF UsageKeys, First, KeysIn
<1>3. GroupSums(part, g, D, First(D))
  <2>1. \A k : {km \in D : First(D)[km] = k} = {km \in DOMAIN got[q] : km[1] = k}
    BY <1>1 DEF First
  <2> HIDE DEF g, D, K
  <2>2. \A k \in K : part[k] = SumOver(g, {km \in D : First(D)[km] = k})
    BY <2>1 DEF TokensOf, g
  <2> HIDE DEF part
  <2> QED BY <2>2 DEF GroupSums, K
<1>4. SumOver(part, K) = SumOver(g, D)
  <2> HIDE DEF g, D, part
  <2> QED BY <1>1, <1>3, SumOfGroups
<1>5. TotalTokens(q) = SumOver(part, K)
  BY <1>2 DEF TotalTokens
<1> QED BY <1>1, <1>4, <1>5

\* So does its cost: a key and a model have one price.
LEMMA CostTotal ==
    ASSUME NEW q, NEW U, UsageRows(U), NEW column, got[q] = SumBy(column, U)
    PROVE  TotalCost(q) = SumOver(CostsIn(U), U)
<1> DEFINE g == SumBy(column, U)
           pair == PairOf(column, U)
           D == KeysIn(pair, U)
           cost == [km \in D |-> g[km] * PriceOf(km[2])]
           K == KeysIn(First(D), D)
           part == [k \in K |-> CostOf(q, k)]
<1>1. DOMAIN g = D /\ GroupSums(g, TokensIn(U), U, pair)
  BY SumByGroups
<1>2. GroupSums(cost, CostsIn(U), U, pair)
  <2> SUFFICES ASSUME NEW km \in D
               PROVE  cost[km] = SumOver(CostsIn(U), {u \in U : pair[u] = km})
    BY DEF GroupSums
  <2> DEFINE group == {u \in U : pair[u] = km}
  <2>1. g[km] = SumOver(TokensIn(U), group)
    BY <1>1 DEF GroupSums
  <2>2. /\ Summable(TokensIn(U), group) /\ Summable(CostsIn(U), group)
        /\ SumOver(TokensIn(U), group) \in Nat
    BY UsageIsSummable, SumParts
  <2>3. \A u \in group : CostsIn(U)[u] = TokensIn(U)[u] * PriceOf(km[2]) /\ TokensIn(U)[u] \in Nat
    BY <2>2 DEF CostsIn, TokensIn, PairOf, Summable
  <2> HIDE DEF g, pair, group
  <2>4. CASE km[2] \in Priced
    <3>1. \A u \in group : TokensIn(U)[u] = CostsIn(U)[u]
      BY <2>3, <2>4 DEF PriceOf
    <3>2. SumOver(TokensIn(U), group) = SumOver(CostsIn(U), group)
      BY <2>2, <3>1, SumsEqual
    <3> QED BY <2>1, <2>2, <2>4, <3>2 DEF PriceOf, group
  <2>5. CASE km[2] \notin Priced
    <3>1. \A u \in group : CostsIn(U)[u] = 0
      BY <2>3, <2>5 DEF PriceOf
    <3>2. SumOver(CostsIn(U), group) = 0
      BY <2>2, <3>1, SumOfZeros DEF Summable
    <3> QED BY <2>1, <2>2, <2>5, <3>2 DEF PriceOf, group
  <2> QED BY <2>4, <2>5
<1>3. Summable(cost, D) /\ SumOver(cost, D) = SumOver(CostsIn(U), U)
  <2> HIDE DEF cost, pair
  <2> QED BY <1>2, UsageIsSummable, SumOfGroups
<1>4. K = UsageKeys(q)
  BY <1>1 DEF UsageKeys, First, KeysIn
<1>5. GroupSums(part, cost, D, First(D))
  <2>1. \A k : {km \in D : First(D)[km] = k} = {km \in DOMAIN got[q] : km[1] = k}
    BY <1>1 DEF First
  <2>2. cost = [km \in DOMAIN got[q] |-> got[q][km] * PriceOf(km[2])]
    BY <1>1
  <2> HIDE DEF cost, D, K
  <2>3. \A k \in K : part[k] = SumOver(cost, {km \in D : First(D)[km] = k})
    BY <2>1, <2>2 DEF CostOf
  <2> HIDE DEF part
  <2> QED BY <2>3 DEF GroupSums, K
<1>6. SumOver(part, K) = SumOver(cost, D)
  <2> HIDE DEF cost, D, part
  <2> QED BY <1>3, <1>5, SumOfGroups
<1>7. TotalCost(q) = SumOver(part, K)
  BY <1>4 DEF TotalCost
<1> QED BY <1>3, <1>6, <1>7

\* The counts of a breakdown add up to the extractions counted.
LEMMA CountTotal ==
    ASSUME NEW q, NEW C, IsFiniteSet(C), NEW column, got[q] = Counts(column, C)
    PROVE  TotalCount(q) = Cardinality(C)
<1> DEFINE g == Counts(column, C)
           key == [e \in C |-> row[e][column]]
           ones == [e \in C |-> 1]
           K == KeysIn(key, C)
<1>1. K = {row[e][column] : e \in C} /\ DOMAIN g = K
  BY DEF Counts, KeysIn
<1>2. Summable(ones, C) /\ SumOver(ones, C) = Cardinality(C)
  <2>1. \A e \in C : ones[e] = 1
    OBVIOUS
  <2> HIDE DEF ones
  <2>2. Summable(ones, C) /\ SumOver(ones, C) = 1 * Cardinality(C)
    BY <2>1, SumOfSame
  <2> QED BY <2>2, FS_CardinalityType
<1>3. GroupSums(g, ones, C, key)
  <2> SUFFICES ASSUME NEW k \in K PROVE g[k] = SumOver(ones, {e \in C : key[e] = k})
    BY DEF GroupSums
  <2> DEFINE group == {e \in C : key[e] = k}
  <2>1. group = {e \in C : row[e][column] = k}
    OBVIOUS
  <2>2. g[k] = Cardinality(group)
    BY <1>1, <2>1 DEF Counts
  <2>3. IsFiniteSet(group) /\ \A e \in group : ones[e] = 1
    BY FS_Subset
  <2> HIDE DEF group, ones, g
  <2>4. SumOver(ones, group) = 1 * Cardinality(group)
    BY <2>3, SumOfSame
  <2> QED BY <2>2, <2>3, <2>4, FS_CardinalityType DEF group
<1>4. SumOver(g, K) = SumOver(ones, C)
  <2> HIDE DEF g, key, ones
  <2> QED BY <1>2, <1>3, SumOfGroups
<1> QED BY <1>1, <1>2, <1>4 DEF TotalCount


-----------------------------------------------------------------------------
(* The inductive invariant *)

Stages == {"new", "written", "classified", "ledgered", "committed"}

\* no usage row is dated before its extraction, nor later than now
Dated(e) ==
    \A p \in Purposes : row[e].created_at <= row[e].usage_at[p] /\ row[e].usage_at[p] <= clock

Typed ==
    /\ TypeOK
    /\ row = [e \in Extractions |-> row[e]]
    /\ \A e \in Extractions : stage[e] # "new" => Dated(e)

LEMMA InitTyped == Init => Typed
<1> SUFFICES ASSUME Init PROVE Typed
  OBVIOUS
<1>1. clock \in Times /\ from \in Times /\ to \in Times
  BY TimeAssumption DEF Init, Times
<1>2. DOMAIN got = {Queries[i] : i \in 1..step}
  BY DEF Init
<1>3. stage \in [Extractions -> Stages] /\ \A e \in Extractions : stage[e] = "new"
  BY DEF Init, Stages
<1>4. row = [e \in Extractions |-> row[e]]
  BY DEF Init
<1>5. step \in 0..6
  BY DEF Init
<1>6. disturbed \in BOOLEAN
  BY DEF Init
<1> QED BY <1>1, <1>2, <1>3, <1>4, <1>5, <1>6 DEF Typed, TypeOK, Stages

LEMMA NextTyped == Typed /\ [Next]_vars => Typed'
<1> SUFFICES ASSUME Typed, [Next]_vars PROVE Typed'
  OBVIOUS
<1> USE DEF Typed, TypeOK
<1>1. CASE Tick
  <2>1. ASSUME NEW e \in Extractions, stage[e] # "new" PROVE Dated(e)'
    <3>1. row[e] \in Row /\ row' = row /\ clock' = clock + 1 /\ clock \in Nat
      BY <1>1, <2>1, TimeAssumption DEF Tick, ledgerVars, Times
    <3>2. \A p \in Purposes : row[e].usage_at[p] \in Nat /\ row[e].usage_at[p] <= clock
      BY <2>1, <3>1, TimeAssumption DEF Row, Times, Dated
    <3> QED BY <2>1, <3>1, <3>2 DEF Dated
  <2> QED BY <1>1, <2>1, TimeAssumption DEF Tick, Times, ledgerVars, reportVars
<1>2. ASSUME NEW e \in Extractions, AddExtraction(e) PROVE Typed'
  <2>1. PICK r \in Row : /\ r.created_at = clock /\ r.usage_at = [p \in Purposes |-> clock]
                         /\ row' = [row EXCEPT ![e] = r]
    BY <1>2 DEF AddExtraction
  <2>2. row'[e] = r /\ clock' = clock /\ clock \in Nat
    BY <1>2, <2>1, TimeAssumption DEF AddExtraction, Times
  <2>3. Dated(e)'
    BY <2>1, <2>2 DEF Dated
  <2>4. \A x \in Extractions \ {e} : /\ row'[x] = row[x] /\ stage'[x] = stage[x]
                                    /\ Dated(x)' = Dated(x)
    BY <1>2, <2>1, <2>2 DEF AddExtraction, Dated
  <2>5. \A x \in Extractions : stage'[x] # "new" => row'[x] \in Row /\ Dated(x)'
    BY <2>1, <2>2, <2>3, <2>4
  <2> QED BY <1>2, <2>1, <2>5 DEF AddExtraction, reportVars
<1>3. ASSUME NEW e \in Extractions, NEW p \in Purposes, AddUsage(e, p) PROVE Typed'
  <2> USE DEF AddUsage, AddsUsage
  <2>1. row[e] \in Row /\ clock \in Times /\ Dated(e) /\ clock' = clock
    BY <1>3
  <2> DEFINE dates == [row[e].usage_at EXCEPT ![p] = clock]
  <2>2. row[e].usage_at \in [Purposes -> Times] /\ row[e].created_at \in Times
    BY <2>1 DEF Row
  <2>3. dates \in [Purposes -> Times] /\ \A x \in Purposes :
           dates[x] = IF x = p THEN clock ELSE row[e].usage_at[x]
    BY <2>1, <2>2
  <2> HIDE DEF dates
  <2>4. row'[e] = [row[e] EXCEPT !.usage_at = dates]
    BY <1>3 DEF dates
  <2>5. row'[e] \in Row /\ row'[e].usage_at = dates /\ row'[e].created_at = row[e].created_at
    BY <2>1, <2>3, <2>4 DEF Row
  <2>6. Dated(e)'
    <3>1. row[e].created_at <= clock /\ clock <= clock
      BY <2>1, <2>2, TimeAssumption DEF Dated, Times
    <3> QED BY <2>1, <2>3, <2>5, <3>1 DEF Dated
  <2>7. \A x \in Extractions \ {e} : /\ row'[x] = row[x] /\ stage'[x] = stage[x]
                                    /\ Dated(x)' = Dated(x)
    BY <1>3, <2>1 DEF Dated
  <2>8. stage' \in [Extractions -> Stages] /\ row' = [x \in Extractions |-> row'[x]]
    BY <1>3 DEF Stages
  <2>9. \A x \in Extractions : stage'[x] # "new" => row'[x] \in Row /\ Dated(x)'
    BY <2>5, <2>6, <2>7
  <2> QED BY <1>3, <2>8, <2>9 DEF reportVars, Stages
<1>4. ASSUME NEW e \in Extractions, Commit(e) PROVE Typed'
  BY <1>4 DEF Commit, Dated
<1>5. CASE Query
  <2>1. step \in 0..5 /\ step' = step + 1 /\ step' \in 0..6
    BY <1>5 DEF Query
  <2>2. DOMAIN got' = DOMAIN got \cup {Queries[step']}
    BY <1>5 DEF Query
  <2>3. 1..step' = 1..step \cup {step'}
    BY <2>1
  <2>4. DOMAIN got' = {Queries[i] : i \in 1..step'}
    BY <2>2, <2>3
  <2> QED BY <1>5, <2>1, <2>4 DEF Query, ledgerVars, Dated
<1>6. CASE UNCHANGED vars
  BY <1>6 DEF vars, ledgerVars, reportVars, Dated
<1> QED BY <1>1, <1>2, <1>3, <1>4, <1>5, <1>6 DEF Next, Terminated

LEMMA AlwaysTyped == Spec => []Typed
BY InitTyped, NextTyped, PTL DEF Spec

\* The report's types; a row of the ledger is one that the recorder writes
\* (cost_report.py:43-68, audit.py:63-98).
THEOREM TypeCorrect == Spec => []TypeOK
<1>1. Typed => TypeOK
  BY DEF Typed
<1> QED BY <1>1, AlwaysTyped, PTL

\* seen[i] is what was committed when query i ran: it grows from query to query,
\* and not at all when nothing is committed in between.
Sees(seen) ==
    /\ seen \in [1..6 -> SUBSET Visible]
    /\ \A i \in 1..step :
        /\ got[Queries[i]] = Snapshot(Queries[i], seen[i])
        /\ \A j \in 1..step :
            /\ i <= j => seen[i] \subseteq seen[j]
            /\ ~disturbed => seen[i] = seen[j]
        /\ ~disturbed /\ step < 6 => seen[i] = Visible

Observed == IsFiniteSet(Visible) /\ \E seen : Sees(seen)

LEMMA InitObserved == Init => Observed
<1> SUFFICES ASSUME Init PROVE Observed
  OBVIOUS
<1>1. Visible = {}
  BY DEF Init, Visible
<1>2. Sees([i \in 1..6 |-> {}])
  BY DEF Init, Sees
<1> QED BY <1>1, <1>2, FS_EmptySet DEF Observed

\* Committed rows stay as they are.
LEMMA CommittedStays ==
    ASSUME Typed, [Next]_vars
    PROVE  /\ from' = from /\ to' = to
           /\ \A e \in Visible : row'[e] = row[e] /\ e \in Visible'
           /\ (\A e \in Extractions : ~Commit(e)) => Visible' = Visible
<1> USE DEF Typed, TypeOK, Visible
<1>1. CASE Tick \/ Query \/ UNCHANGED vars
  BY <1>1 DEF Tick, Query, vars, ledgerVars, reportVars
<1>2. ASSUME NEW e \in Extractions,
             AddExtraction(e) \/ \E p \in Purposes : AddUsage(e, p)
      PROVE  /\ from' = from /\ to' = to
             /\ \A x \in Visible : row'[x] = row[x] /\ x \in Visible'
             /\ Visible' = Visible
  BY <1>2 DEF AddExtraction, AddUsage, AddsUsage, reportVars
<1>3. ASSUME NEW e \in Extractions, Commit(e)
      PROVE  /\ from' = from /\ to' = to
             /\ \A x \in Visible : row'[x] = row[x] /\ x \in Visible'
  BY <1>3 DEF Commit
<1> QED BY <1>1, <1>2, <1>3 DEF Next, Terminated

LEMMA NextObserved == Typed /\ Observed /\ [Next]_vars => Observed'
<1> SUFFICES ASSUME Typed, Observed, [Next]_vars PROVE Observed'
  OBVIOUS
<1>1. PICK seen : Sees(seen)
  BY DEF Observed
<1>2. /\ from' = from /\ to' = to /\ Visible \subseteq Visible'
      /\ \A e \in Visible : row'[e] = row[e]
  BY CommittedStays
<1>3. step \in 0..6 /\ \A i \in 1..6 : seen[i] \subseteq Visible
  BY <1>1 DEF Sees, Typed, TypeOK
<1>4. \A i \in 1..6 : Snapshot(Queries[i], seen[i])' = Snapshot(Queries[i], seen[i])
  <2> SUFFICES ASSUME NEW i \in 1..6
               PROVE  Snapshot(Queries[i], seen[i])' = Snapshot(Queries[i], seen[i])
    OBVIOUS
  <2>1. \A e \in seen[i] : row'[e] = row[e]
    BY <1>2, <1>3
  <2> QED BY <1>2, <2>1, SnapshotStays
<1>5. CASE ~Query /\ \A e \in Extractions : ~Commit(e)
  <2>1. Visible' = Visible /\ UNCHANGED <<step, got, disturbed>>
    BY <1>5, CommittedStays DEF Next, Tick, AddExtraction, AddUsage, AddsUsage,
                               Terminated, vars, reportVars
  <2>2. Sees(seen)'
    BY <1>1, <1>3, <1>4, <2>1 DEF Sees
  <2> QED BY <2>1, <2>2 DEF Observed
<1>6. ASSUME NEW e \in Extractions, Commit(e) PROVE Observed'
  <2>1. /\ Visible' = Visible \cup {e} /\ UNCHANGED <<step, got>>
        /\ disturbed' = (disturbed \/ step \in 1..5)
    BY <1>6 DEF Commit, Visible, Typed, TypeOK
  <2>2. IsFiniteSet(Visible')
    BY <2>1, FS_AddElement DEF Observed
  <2>3. seen \in [1..6 -> SUBSET Visible']
    BY <1>1, <1>2 DEF Sees
  <2>4. ASSUME NEW i \in 1..step
        PROVE  /\ got'[Queries[i]] = Snapshot(Queries[i], seen[i])'
               /\ \A j \in 1..step :
                    /\ i <= j => seen[i] \subseteq seen[j]
                    /\ ~disturbed' => seen[i] = seen[j]
               /\ ~disturbed' /\ step < 6 => seen[i] = Visible'
    <3>1. i \in 1..6 /\ (step < 6 => step \in 1..5)
      BY <1>3
    <3> QED BY <1>1, <1>4, <2>1, <3>1 DEF Sees
  <2>5. Sees(seen)'
    BY <2>1, <2>3, <2>4 DEF Sees
  <2> QED BY <2>2, <2>5 DEF Observed
<1>7. CASE Query
  <2>1. /\ step < 6 /\ step' = step + 1 /\ UNCHANGED <<disturbed, stage, row>>
        /\ got' = [q \in DOMAIN got \cup {Queries[step']} |->
                     IF q = Queries[step'] THEN Answer(q) ELSE got[q]]
    BY <1>7 DEF Query, ledgerVars
  <2>2. step' \in 1..6 /\ 1..step' = 1..step \cup {step'} /\ step' \notin 1..step
    BY <1>3, <2>1
  <2>3. Visible' = Visible
    BY <2>1 DEF Visible
  <2>4. PICK next : next = [i \in 1..6 |-> IF i = step' THEN Visible ELSE seen[i]]
    OBVIOUS
  <2>5. next[step'] = Visible /\ \A i \in 1..step : i \in 1..6 /\ next[i] = seen[i]
    BY <2>2, <2>4
  <2>6. next \in [1..6 -> SUBSET Visible']
    BY <1>3, <2>3, <2>4
  <2>7. ASSUME NEW i \in 1..step' PROVE got'[Queries[i]] = Snapshot(Queries[i], next[i])'
    <3>1. CASE i = step'
      <4>1. got'[Queries[i]] = Answer(Queries[i])
        BY <2>1, <3>1
      <4>2. Answer(Queries[i]) = Snapshot(Queries[i], Visible)
        BY <2>2, <3>1, AnswerIsSnapshot
      <4>3. Snapshot(Queries[i], next[i])' = Snapshot(Queries[i], next[i])
        <5>1. \A x \in next[i] : row'[x] = row[x]
          BY <2>1
        <5> QED BY <1>2, <2>2, <3>1, <5>1, SnapshotStays
      <4> QED BY <2>5, <3>1, <4>1, <4>2, <4>3
    <3>2. CASE i # step'
      <4>1. i \in 1..step
        BY <2>2, <3>2
      <4>2. Queries[i] # Queries[step'] /\ Queries[i] \in DOMAIN got
        <5>1. Queries[i] \in DOMAIN got
          BY <4>1 DEF Typed, TypeOK
        <5>2. i \in 1..6 /\ step' \in 1..6
          BY <2>2, <2>5, <4>1
        <5> QED BY <3>2, <5>1, <5>2, QueryNames
      <4>3. got'[Queries[i]] = got[Queries[i]]
        BY <2>1, <4>2
      <4>4. got[Queries[i]] = Snapshot(Queries[i], seen[i])
        BY <1>1, <4>1 DEF Sees
      <4>5. Snapshot(Queries[i], next[i])' = Snapshot(Queries[i], next[i])
        <5>1. \A x \in next[i] : row'[x] = row[x]
          BY <2>1
        <5> QED BY <1>2, <2>5, <4>1, <5>1, SnapshotStays
      <4> QED BY <2>5, <4>1, <4>3, <4>4, <4>5
    <3> QED BY <3>1, <3>2
  <2>8. ASSUME NEW i \in 1..step', NEW j \in 1..step'
        PROVE  /\ i <= j => next[i] \subseteq next[j]
               /\ ~disturbed => next[i] = next[j]
    <3>1. CASE j = step'
      BY <1>1, <1>3, <2>1, <2>2, <2>5, <3>1 DEF Sees
    <3>2. CASE j # step' /\ i # step'
      BY <1>1, <2>2, <2>5, <3>2 DEF Sees
    <3>3. CASE j # step' /\ i = step'
      <4>1. j \in 1..step /\ ~(i <= j)
        BY <1>3, <2>1, <2>2, <3>3
      <4> QED BY <1>1, <2>1, <2>5, <3>3, <4>1 DEF Sees
    <3> QED BY <3>1, <3>2, <3>3
  <2>9. ASSUME NEW i \in 1..step', ~disturbed PROVE next[i] = Visible
    BY <2>2, <2>5, <2>8, <2>9
  <2>10. Sees(next)'
    BY <2>1, <2>3, <2>6, <2>7, <2>8, <2>9 DEF Sees
  <2> QED BY <2>3, <2>10 DEF Observed
<1> QED BY <1>5, <1>6, <1>7

LEMMA AlwaysObserved == Spec => []Observed
BY InitObserved, NextObserved, AlwaysTyped, PTL DEF Spec


-----------------------------------------------------------------------------
(* Theorems *)

\* The rows that a finite set of extractions accounts for are finite.
LEMMA FiniteRows ==
    ASSUME NEW V, IsFiniteSet(V)
    PROVE  IsFiniteSet(CountedAmong(V)) /\ UsageRows(UsageAmong(V))
<1>1. IsFiniteSet(CountedAmong(V))
  BY FS_Subset DEF CountedAmong
<1>2. IsFiniteSet(Purposes)
  <2>1. Purposes = {"CLASSIFIER"} \cup {"EXTRACTION"}
    BY DEF Purposes
  <2> QED BY <2>1, FS_Singleton, FS_Union
<1>3. IsFiniteSet(V \X Purposes)
  BY <1>2, FS_Product
<1>4. UsageAmong(V) \in SUBSET (V \X Purposes)
  BY DEF UsageAmong
<1> QED BY <1>1, <1>3, <1>4, FS_Subset DEF UsageRows

\* What the finished report adds up to, in terms of what its queries saw.
LEMMA Totals ==
    ASSUME Observed, Done, NEW seen, Sees(seen)
    PROVE  /\ \A i \in 1..6 : IsFiniteSet(seen[i])
           /\ \A i \in 1..2 : TotalCount(Queries[i]) = Cardinality(CountedAmong(seen[i]))
           /\ \A i \in 3..6 :
                LET U == UsageAmong(seen[i]) IN
                /\ TotalTokens(Queries[i]) = SumOver(TokensIn(U), U)
                /\ TotalCost(Queries[i]) = SumOver(CostsIn(U), U)
<1>1. \A i \in 1..6 : IsFiniteSet(seen[i])
  BY FS_Subset DEF Observed, Sees
<1>2. \A i \in 1..6 : got[Queries[i]] = Snapshot(Queries[i], seen[i])
  BY DEF Sees, Done
<1>3. ASSUME NEW i \in 1..2
      PROVE  TotalCount(Queries[i]) = Cardinality(CountedAmong(seen[i]))
  <2>1. \E column : got[Queries[i]] = Counts(column, CountedAmong(seen[i]))
    BY <1>2, QueryNames DEF Snapshot
  <2>2. IsFiniteSet(CountedAmong(seen[i]))
    BY <1>1, FiniteRows
  <2> QED BY <2>1, <2>2, CountTotal
<1>4. ASSUME NEW i \in 3..6, NEW U, U = UsageAmong(seen[i])
      PROVE  /\ TotalTokens(Queries[i]) = SumOver(TokensIn(U), U)
             /\ TotalCost(Queries[i]) = SumOver(CostsIn(U), U)
  <2>1. \E column : got[Queries[i]] = SumBy(column, U)
    BY <1>2, <1>4, QueryNames DEF Snapshot
  <2>2. UsageRows(U)
    BY <1>1, <1>4, FiniteRows
  <2> QED BY <2>1, <2>2, TokensTotal, CostTotal
<1> QED BY <1>1, <1>3, <1>4

\* When nothing is committed between its queries a report balances, for any
\* number of extractions, types, strategies, models and prices of 0 or 1, and for
\* any dates (cost_report.py:51-97).
THEOREM QuietReportsBalance == Spec => []QuietReportBalances
<1>1. Observed => QuietReportBalances
  <2> SUFFICES ASSUME Observed, Done, ~disturbed
               PROVE  /\ TotalCount("doc_type") = TotalCount("strategy")
                      /\ \A q \in {"strategy_usage", "model_usage", "purpose_usage"} :
                            /\ TotalTokens(q) = TotalTokens("doc_type_usage")
                            /\ TotalCost(q) = TotalCost("doc_type_usage")
    BY DEF QuietReportBalances
  <2>1. PICK seen : Sees(seen)
    BY DEF Observed
  <2>2. \A i \in 1..6 : \A j \in 1..6 : seen[i] = seen[j]
    BY <2>1 DEF Sees, Done
  <2>3. TotalCount(Queries[1]) = TotalCount(Queries[2])
    BY <2>1, <2>2, Totals
  <2>4. \A i \in 3..6 : /\ TotalTokens(Queries[i]) = TotalTokens(Queries[3])
                       /\ TotalCost(Queries[i]) = TotalCost(Queries[3])
    BY <2>1, <2>2, Totals
  <2> QED BY <2>3, <2>4, QueryNames
<1> QED BY <1>1, AlwaysObserved, PTL

\* Among more extractions there is more to count and at least as much usage.
LEMMA RowsGrow ==
    ASSUME NEW W, IsFiniteSet(W), NEW V \in SUBSET W
    PROVE  /\ Cardinality(CountedAmong(V)) <= Cardinality(CountedAmong(W))
           /\ SumOver(TokensIn(UsageAmong(V)), UsageAmong(V))
                <= SumOver(TokensIn(UsageAmong(W)), UsageAmong(W))
<1> DEFINE A == UsageAmong(V)
           B == UsageAmong(W)
<1>1. CountedAmong(V) \in SUBSET CountedAmong(W) /\ A \in SUBSET B
  BY DEF CountedAmong, UsageAmong
<1>2. IsFiniteSet(CountedAmong(W)) /\ UsageRows(B) /\ UsageRows(A)
  BY FiniteRows, FS_Subset
<1>3. \A u \in A : TokensIn(A)[u] = TokensIn(B)[u]
  BY <1>1 DEF TokensIn
<1> HIDE DEF A, B
<1>4. SumOver(TokensIn(A), A) = SumOver(TokensIn(B), A)
  BY <1>2, <1>3, UsageIsSummable, SumsEqual
<1>5. SumOver(TokensIn(B), A) <= SumOver(TokensIn(B), B)
  BY <1>1, <1>2, UsageIsSummable, SumGrows
<1> QED BY <1>1, <1>2, <1>4, <1>5, FS_Subset DEF A, B

\* Whatever is committed while it is made, no total of a report exceeds a
\* breakdown that was queried after it (cost_report.py:51-68, 94-97).
THEOREM TotalsNeverExceed == Spec => []TotalsAreLowerBounds
<1>1. Observed => TotalsAreLowerBounds
  <2> SUFFICES ASSUME Observed, Done
               PROVE  /\ TotalCount("doc_type") <= TotalCount("strategy")
                      /\ TotalTokens("doc_type_usage") <= TotalTokens("strategy_usage")
                      /\ TotalTokens("strategy_usage") <= TotalTokens("model_usage")
                      /\ TotalTokens("model_usage") <= TotalTokens("purpose_usage")
    BY DEF TotalsAreLowerBounds
  <2>1. PICK seen : Sees(seen)
    BY DEF Observed
  <2>2. /\ seen[1] \in SUBSET seen[2] /\ seen[3] \in SUBSET seen[4]
        /\ seen[4] \in SUBSET seen[5] /\ seen[5] \in SUBSET seen[6]
    BY <2>1 DEF Sees, Done
  <2>3. \A i \in 1..6 : IsFiniteSet(seen[i])
    BY <2>1, Totals
  <2>4. TotalCount(Queries[1]) <= TotalCount(Queries[2])
    BY <2>1, <2>2, <2>3, Totals, RowsGrow
  <2>5. \A i \in 3..5 : TotalTokens(Queries[i]) <= TotalTokens(Queries[i + 1])
    <3> SUFFICES ASSUME NEW i \in 3..5
                 PROVE  TotalTokens(Queries[i]) <= TotalTokens(Queries[i + 1])
      OBVIOUS
    <3>1. i \in 3..6 /\ i + 1 \in 3..6 /\ seen[i] \in SUBSET seen[i + 1]
      BY <2>2
    <3> QED BY <2>1, <2>3, <3>1, Totals, RowsGrow
  <2> QED BY <2>4, <2>5, QueryNames
<1> QED BY <1>1, AlwaysObserved, PTL


\* extractions whose usage row for the purpose EXTRACTION is in the window
Extracted(U) == {u[1] : u \in {v \in U : v[2] = "EXTRACTION"}}

\* Without a lower date all that has usage is counted: usage is never dated before
\* its extraction.  Without an upper date all that is counted has usage.
LEMMA OpenDates ==
    ASSUME Typed, NEW V \in SUBSET Visible
    PROVE  /\ from = 0 => \A u \in UsageAmong(V) : u[1] \in CountedAmong(V)
           /\ to = MaxTime => \A e \in CountedAmong(V) : <<e, "EXTRACTION">> \in UsageAmong(V)
           /\ \A e \in V : row[e].doc_type \in DocTypes
<1>1. /\ from \in Nat /\ to \in Nat
  BY TimeAssumption DEF Typed, TypeOK, Times
<1>2. ASSUME NEW e \in V
      PROVE  /\ row[e].created_at \in Times
             /\ \A p \in Purposes : /\ row[e].usage_at[p] \in Times
                                   /\ row[e].created_at <= row[e].usage_at[p]
             /\ row[e].doc_type \in DocTypes
             /\ "EXTRACTION" \in DOMAIN row[e].models
  <2>1. row[e] \in Row /\ Dated(e)
    BY DEF Visible, Typed, TypeOK
  <2>2. row[e].models \in [{"EXTRACTION"} -> Models] \cup [Purposes -> Models]
    BY <2>1 DEF Row
  <2> QED BY <2>1, <2>2 DEF Row, Purposes, Dated
<1>3. ASSUME from = 0, NEW u \in UsageAmong(V) PROVE u[1] \in CountedAmong(V)
  <2>1. u[1] \in V /\ u[2] \in Purposes /\ row[u[1]].usage_at[u[2]] <= to
    BY DEF UsageAmong, InWindow
  <2>2. /\ row[u[1]].created_at \in Nat /\ row[u[1]].usage_at[u[2]] \in Nat
        /\ row[u[1]].created_at <= row[u[1]].usage_at[u[2]]
    BY <1>2, <2>1, TimeAssumption DEF Times
  <2> QED BY <1>1, <1>3, <2>1, <2>2 DEF CountedAmong, InWindow
<1>4. ASSUME to = MaxTime, NEW e \in CountedAmong(V)
      PROVE  <<e, "EXTRACTION">> \in UsageAmong(V)
  <2>1. e \in V /\ from <= row[e].created_at /\ "EXTRACTION" \in Purposes
    BY DEF CountedAmong, InWindow, Purposes
  <2>2. /\ row[e].created_at \in Nat /\ row[e].usage_at["EXTRACTION"] \in 0..MaxTime
        /\ row[e].created_at <= row[e].usage_at["EXTRACTION"]
        /\ "EXTRACTION" \in DOMAIN row[e].models
    BY <1>2, <2>1, TimeAssumption DEF Times
  <2> QED BY <1>1, <1>4, <2>1, <2>2, TimeAssumption DEF UsageAmong, InWindow
<1> QED BY <1>2, <1>3, <1>4

\* One row of the purpose EXTRACTION for each extraction that has one in the window.
LEMMA ExtractionTokens ==
    ASSUME NEW q, NEW W, IsFiniteSet(W), NEW U, U = UsageAmong(W),
           got[q] = SumBy("purpose", U), NEW V, V = Extracted(U)
    PROVE  TokensOf(q, "EXTRACTION") = Tokens["EXTRACTION"] * Cardinality(V)
<1> DEFINE g == SumBy("purpose", U)
           pair == PairOf("purpose", U)
           tokens == TokensIn(U)
           X == {u \in U : u[2] = "EXTRACTION"}
           of == [u \in X |-> u[1]]
           twos == [e \in V |-> 2]
<1>1. Summable(tokens, X)
  BY FiniteRows, UsageIsSummable, SumParts
<1>2. X = {<<e, "EXTRACTION">> : e \in V} /\ V \in SUBSET W
  BY DEF UsageAmong, Extracted
<1>3. \A u \in X : pair[u] = <<"EXTRACTION", ModelOf(u)>> /\ tokens[u] = 2
  BY DEF PairOf, KeyOf, TokensIn, Tokens
<1>4. TokensOf(q, "EXTRACTION") = SumOver(tokens, X)
  <2> DEFINE P == {km \in DOMAIN g : km[1] = "EXTRACTION"}
  <2>1. DOMAIN g = KeysIn(pair, U) /\ GroupSums(g, tokens, U, pair)
    BY SumByGroups
  <2>2. \A u \in U : pair[u][1] = u[2]
    BY DEF PairOf, KeyOf
  <2>3. P = KeysIn(pair, X)
    <3> HIDE DEF g, pair
    <3> QED BY <2>1, <2>2 DEF KeysIn
  <2>4. GroupSums(g, tokens, X, pair)
    <3> SUFFICES ASSUME NEW km \in P
                 PROVE  g[km] = SumOver(tokens, {u \in X : pair[u] = km})
      BY <2>3 DEF GroupSums
    <3>1. {u \in X : pair[u] = km} = {u \in U : pair[u] = km}
      BY <2>2
    <3> HIDE DEF g, pair, tokens, X
    <3> QED BY <2>1, <3>1 DEF GroupSums
  <2>5. SumOver(g, P) = SumOver(tokens, X)
    <3> HIDE DEF g, pair, tokens, X, P
    <3> QED BY <1>1, <2>3, <2>4, SumOfGroups
  <2> QED BY <2>5 DEF TokensOf
<1>5. SumOver(tokens, X) = SumOver(twos, V)
  <2>1. KeysIn(of, X) = V
    <3>1. \A u \in X : of[u] \in V
      BY <1>2
    <3>2. \A e \in V : <<e, "EXTRACTION">> \in X /\ of[<<e, "EXTRACTION">>] = e
      BY <1>2
    <3> HIDE DEF of, X
    <3> QED BY <3>1, <3>2 DEF KeysIn
  <2>2. GroupSums(twos, tokens, X, of)
    <3> SUFFICES ASSUME NEW e \in V PROVE 2 = SumOver(tokens, {u \in X : of[u] = e})
      BY <2>1 DEF GroupSums
    <3> DEFINE u == <<e, "EXTRACTION">>
    <3>1. {x \in X : of[x] = e} = {u} /\ u \in X
      BY <1>2
    <3>2. Summable(tokens, {u}) /\ {u} \ {u} = {} /\ tokens[u] = 2
      BY <1>1, <1>3, <3>1, SumParts
    <3> HIDE DEF tokens, u, X, of
    <3>3. SumOver(tokens, {u}) = 2 + SumOver(tokens, {u} \ {u})
      BY <3>2, SumApart
    <3>4. SumOver(tokens, {}) = 0
      BY <3>2, SumParts
    <3> QED BY <3>1, <3>2, <3>3, <3>4
  <2> HIDE DEF tokens, X, of, twos
  <2> QED BY <1>1, <2>1, <2>2, SumOfGroups
<1>6. SumOver(twos, V) = 2 * Cardinality(V)
  <2>1. \A e \in V : twos[e] = 2
    OBVIOUS
  <2>2. IsFiniteSet(V)
    BY <1>2, FS_Subset
  <2> HIDE DEF twos
  <2> QED BY <2>1, <2>2, SumOfSame
<1> QED BY <1>4, <1>5, <1>6 DEF Tokens

\* A quiet report counts what it has usage for, unless a lower date cut it off, and
\* has usage for what it counts, unless an upper date did (audit.py:63-98, 120-146,
\* llm_usage.py:91-94).
THEOREM NothingUncounted == Spec => []UsageIsCounted
<1>1. Typed /\ Observed => UsageIsCounted
  <2> DEFINE tokens == TokensOf("purpose_usage", "EXTRACTION")
             counted == Tokens["EXTRACTION"] * TotalCount("doc_type")
  <2> SUFFICES ASSUME Typed, Observed, Done, ~disturbed
               PROVE  /\ from = 0 =>
                           /\ \A k \in UsageKeys("doc_type_usage") : CountOf("doc_type", k) > 0
                           /\ tokens <= counted
                      /\ to = MaxTime =>
                           /\ \A k \in DocTypes : CountOf("doc_type", k) > 0 =>
                                  k \in UsageKeys("doc_type_usage")
                           /\ tokens >= counted
    BY DEF UsageIsCounted
  <2>1. PICK seen : Sees(seen)
    BY DEF Observed
  <2> DEFINE V == seen[1]
             C == CountedAmong(V)
             U == UsageAmong(V)
  <2>2. V \in SUBSET Visible /\ IsFiniteSet(V) /\ IsFiniteSet(C) /\ C \in SUBSET V
    <3>1. V \in SUBSET Visible /\ IsFiniteSet(V)
      BY <2>1, Totals DEF Sees
    <3> HIDE DEF V
    <3>2. IsFiniteSet(C)
      BY <3>1, FiniteRows
    <3> QED BY <3>1, <3>2 DEF CountedAmong
  <2>3. seen[3] = V /\ seen[6] = V
    BY <2>1 DEF Sees, Done
  <2>4. /\ got["doc_type"] = Counts("doc_type", C)
        /\ got["doc_type_usage"] = SumBy("doc_type", U)
        /\ got["purpose_usage"] = SumBy("purpose", U)
    <3>1. /\ got[Queries[1]] = Snapshot(Queries[1], V)
          /\ got[Queries[3]] = Snapshot(Queries[3], V)
          /\ got[Queries[6]] = Snapshot(Queries[6], V)
      BY <2>1, <2>3 DEF Sees, Done
    <3> HIDE DEF V
    <3> QED BY <3>1, QueryNames DEF Snapshot
  <2>5. /\ from = 0 => \A u \in U : u[1] \in C
        /\ to = MaxTime => \A e \in C : <<e, "EXTRACTION">> \in U
        /\ \A u \in U : u[1] \in V
    BY <2>2, OpenDates DEF UsageAmong
  <2> HIDE DEF V
  <2>6. UsageKeys("doc_type_usage") = {row[u[1]]["doc_type"] : u \in U}
    <3>1. DOMAIN SumBy("doc_type", U) = KeysIn(PairOf("doc_type", U), U)
      BY SumByGroups
    <3>2. \A u \in U : PairOf("doc_type", U)[u][1] = row[u[1]]["doc_type"]
      BY DEF PairOf, KeyOf
    <3> HIDE DEF U
    <3> QED BY <2>4, <3>1, <3>2 DEF UsageKeys, KeysIn
  <2>7. tokens = Tokens["EXTRACTION"] * Cardinality(Extracted(U))
    BY <2>2, <2>4, ExtractionTokens
  <2>8. TotalCount("doc_type") = Cardinality(C) /\ Cardinality(C) \in Nat
    BY <2>2, <2>4, CountTotal, FS_CardinalityType
  <2> HIDE DEF U, C, tokens
  <2>9. ASSUME NEW k PROVE CountOf("doc_type", k) > 0 <=> \E e \in C : row[e]["doc_type"] = k
    <3> DEFINE of == {e \in C : row[e]["doc_type"] = k}
    <3>1. CountOf("doc_type", k) = IF of = {} THEN 0 ELSE Cardinality(of)
      BY <2>4 DEF CountOf, Counts
    <3>2. of # {} => Cardinality(of) \in Nat /\ Cardinality(of) # 0
      BY <2>2, FS_Subset, FS_CardinalityType, FS_EmptySet
    <3> QED BY <3>1, <3>2
  <2>10. ASSUME from = 0
         PROVE  /\ \A k \in UsageKeys("doc_type_usage") : CountOf("doc_type", k) > 0
                /\ tokens <= counted
    <3>1. Extracted(U) \in SUBSET C
      BY <2>5, <2>10 DEF Extracted
    <3>2. Cardinality(Extracted(U)) <= Cardinality(C) /\ Cardinality(Extracted(U)) \in Nat
      BY <2>2, <3>1, FS_Subset, FS_CardinalityType
    <3> QED BY <2>5, <2>6, <2>7, <2>8, <2>9, <2>10, <3>2 DEF Tokens
  <2>11. ASSUME to = MaxTime
         PROVE  /\ \A k \in DocTypes : CountOf("doc_type", k) > 0 =>
                       k \in UsageKeys("doc_type_usage")
                /\ tokens >= counted
    <3>1. \A e \in C : <<e, "EXTRACTION">> \in U /\ <<e, "EXTRACTION">>[1] = e
      BY <2>5, <2>11
    <3>2. C \in SUBSET Extracted(U)
      BY <3>1 DEF Extracted
    <3>3. Extracted(U) \in SUBSET V
      BY <2>5 DEF Extracted
    <3>4. Cardinality(C) <= Cardinality(Extracted(U)) /\ Cardinality(Extracted(U)) \in Nat
      BY <2>2, <3>2, <3>3, FS_Subset, FS_CardinalityType
    <3>5. ASSUME NEW k \in DocTypes, CountOf("doc_type", k) > 0
          PROVE  k \in UsageKeys("doc_type_usage")
      <4>1. PICK e \in C : row[e]["doc_type"] = k
        BY <2>9, <3>5
      <4> QED BY <2>6, <3>1, <4>1
    <3>6. tokens >= counted
      BY <2>7, <2>8, <3>4 DEF Tokens
    <3> QED BY <3>5, <3>6
  <2> QED BY <2>10, <2>11
<1> QED BY <1>1, AlwaysTyped, AlwaysObserved, PTL

=============================================================================
