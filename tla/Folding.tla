------------------------------- MODULE Folding -------------------------------
(* Induction over numbers and finite sets, stated for sets rather than for   *)
(* predicates, and what it gives for folds: the recursive function a fold is *)
(* defined by exists.  Used where a model adds up or collects finite data.   *)
EXTENDS Integers, FiniteSets, FiniteSetTheorems, WellFoundedInduction, TLAPS

Less == {p \in Nat \X Nat : p[1] < p[2]}

LEMMA LessIsWellFounded == IsWellFoundedOn(Less, Nat)
<1>1. Less = OpToRel(<, Nat)
  BY DEF Less, OpToRel
<1> QED BY <1>1, NatLessThanWellFounded, Zenon

\* A set of numbers that is not empty has a least element.
LEMMA LeastNumber ==
    ASSUME NEW T, T \subseteq Nat, T # {}
    PROVE  \E n \in T : \A m \in T : n <= m
<1>1. PICK n \in T : \A m \in T : <<m, n>> \notin Less
  BY WFMin, LessIsWellFounded
<1>2. ASSUME NEW m \in T PROVE n <= m
  <2>1. m \in Nat /\ n \in Nat
    OBVIOUS
  <2>2. ~(m < n)
    BY <1>1, <2>1 DEF Less
  <2> QED BY <2>1, <2>2
<1> QED BY <1>2

\* Induction over the natural numbers.
LEMMA NumberInduction ==
    ASSUME NEW S, 0 \in S, \A n \in Nat : n \in S => n + 1 \in S
    PROVE  Nat \subseteq S
<1> SUFFICES ASSUME Nat \ S # {} PROVE FALSE
  OBVIOUS
<1>1. PICK n \in Nat \ S : \A m \in Nat \ S : n <= m
  BY LeastNumber
<1>2. n # 0 /\ n - 1 \in Nat /\ (n - 1) + 1 = n
  OBVIOUS
<1>3. n - 1 \in S
  BY <1>1, <1>2
<1> QED BY <1>2, <1>3

\* Induction over the subsets of a finite set.
LEMMA FiniteInduction ==
    ASSUME NEW S, IsFiniteSet(S), NEW Q,
           {} \in Q,
           \A T \in SUBSET S : \A x \in S \ T : T \in Q => T \cup {x} \in Q
    PROVE  S \in Q
<1> DEFINE N == {n \in Nat : \A T \in SUBSET S : Cardinality(T) = n => T \in Q}
<1>1. \A T \in SUBSET S : IsFiniteSet(T) /\ Cardinality(T) \in Nat
  BY FS_Subset, FS_CardinalityType
<1>2. 0 \in N
  BY <1>1, FS_EmptySet
<1>3. ASSUME NEW n \in Nat, n \in N PROVE n + 1 \in N
  <2> SUFFICES ASSUME NEW T \in SUBSET S, Cardinality(T) = n + 1 PROVE T \in Q
    OBVIOUS
  <2>1. T # {}
    BY FS_EmptySet, Cardinality(T) # 0
  <2>2. PICK x \in T : TRUE
    BY <2>1
  <2>3. Cardinality(T \ {x}) = n
    <3>1. Cardinality(T \ {x}) = Cardinality(T) - 1
      BY <1>1, <2>2, FS_RemoveElement
    <3> QED BY <3>1
  <2>4. T \ {x} \in Q
    BY <1>3, <2>3
  <2>5. (T \ {x}) \cup {x} = T
    BY <2>2
  <2> QED BY <2>2, <2>4, <2>5
<1>4. Nat \subseteq N
  <2> HIDE DEF N
  <2> QED BY <1>2, <1>3, NumberInduction
<1> QED BY <1>1, <1>4

-----------------------------------------------------------------------------
(* Folds *)

\* pick gives an element of every subset of S that has one
Picks(pick, S) == \A s \in SUBSET S : s # {} => pick[s] \in s

\* iter maps the subsets of S to their fold: base for the empty set, else step
\* applied to the element that pick gives and the fold of the rest
IsFold(iter, S, base, pick, step) ==
    iter = [s \in SUBSET S |->
              IF s = {} THEN base ELSE step[<<pick[s], iter[s \ {pick[s]}]>>]]

\* The fold of a finite set exists and has the type of its steps.
LEMMA FoldExists ==
    ASSUME NEW S, IsFiniteSet(S), NEW V, NEW base \in V,
           NEW pick, Picks(pick, S),
           NEW step \in [S \X V -> V]
    PROVE  \E iter \in [SUBSET S -> V] : IsFold(iter, S, base, pick, step)
<1> DEFINE Part(n) == {s \in SUBSET S : Cardinality(s) <= n}
           Next(g, s) == IF s = {} THEN base ELSE step[<<pick[s], g[s \ {pick[s]}]>>]
           N == {n \in Nat : \E g \in [Part(n) -> V] : \A s \in Part(n) : g[s] = Next(g, s)}
<1>1. \A s \in SUBSET S : IsFiniteSet(s) /\ Cardinality(s) \in Nat
  BY FS_Subset, FS_CardinalityType
<1>2. ASSUME NEW n \in Nat, NEW s \in Part(n), s # {}
      PROVE  /\ pick[s] \in s /\ s \ {pick[s]} \in Part(n)
             /\ n # 0 /\ s \ {pick[s]} \in Part(n - 1)
  <2>1. pick[s] \in s /\ Cardinality(s \ {pick[s]}) = Cardinality(s) - 1
    BY <1>1, <1>2, FS_RemoveElement DEF Picks
  <2>2. Cardinality(s) # 0
    BY <1>1, <1>2, FS_EmptySet
  <2> QED BY <1>1, <2>1, <2>2
<1>3. 0 \in N
  <2> DEFINE g == [s \in Part(0) |-> base]
  <2>1. \A s \in Part(0) : s = {}
    BY <1>2
  <2>2. g \in [Part(0) -> V]
    OBVIOUS
  <2> QED BY <2>1, <2>2
<1>4. ASSUME NEW n \in Nat, n \in N PROVE n + 1 \in N
  <2>1. PICK g \in [Part(n) -> V] : \A s \in Part(n) : g[s] = Next(g, s)
    BY <1>4
  <2> DEFINE h == [s \in Part(n + 1) |-> Next(g, s)]
  <2>2. Part(n) \subseteq Part(n + 1) /\ (n + 1) - 1 = n
    BY <1>1
  <2>3. \A s \in Part(n + 1) : s # {} => pick[s] \in s /\ s \ {pick[s]} \in Part(n)
    BY <1>2, <2>2
  <2>4. h \in [Part(n + 1) -> V]
    BY <2>3
  <2>5. \A s \in Part(n) : h[s] = g[s]
    BY <2>1, <2>2
  <2>6. \A s \in Part(n + 1) : h[s] = Next(h, s)
    BY <2>3, <2>5
  <2>7. n + 1 \in Nat
    OBVIOUS
  <2> HIDE DEF h, Next, Part
  <2> QED BY <2>4, <2>6, <2>7
<1>5. Cardinality(S) \in N
  <2> HIDE DEF N
  <2> QED BY <1>1, <1>3, <1>4, NumberInduction
<1>6. Part(Cardinality(S)) = SUBSET S
  BY <1>1, FS_Subset
<1>7. PICK g \in [SUBSET S -> V] : \A s \in SUBSET S : g[s] = Next(g, s)
  BY <1>5, <1>6
<1>8. g = [s \in SUBSET S |-> Next(g, s)]
  BY <1>7
<1> QED BY <1>8 DEF IsFold

\* What the empty set has, and a set has when what is left of it without the
\* element picked first has it, the whole set has.
LEMMA PickInduction ==
    ASSUME NEW S, IsFiniteSet(S),
           NEW pick, Picks(pick, S),
           NEW Q, {} \in Q,
           \A s \in SUBSET S : s # {} /\ s \ {pick[s]} \in Q => s \in Q
    PROVE  S \in Q
<1> DEFINE Bad == (SUBSET S) \ Q
           Sizes == {Cardinality(s) : s \in Bad}
<1> SUFFICES ASSUME Bad # {} PROVE FALSE
  <2>1. S \in SUBSET S
    OBVIOUS
  <2> QED BY <2>1
<1>1. \A s \in SUBSET S : IsFiniteSet(s) /\ Cardinality(s) \in Nat
  BY FS_Subset, FS_CardinalityType
<1>2. PICK n \in Sizes : \A m \in Sizes : n <= m
  <2>1. Sizes \subseteq Nat /\ Sizes # {}
    BY <1>1
  <2> HIDE DEF Sizes
  <2> QED BY <2>1, LeastNumber
<1>3. PICK s \in Bad : Cardinality(s) = n
  BY <1>2
<1>4. s # {} /\ pick[s] \in s /\ s \ {pick[s]} \in SUBSET S
  BY <1>3 DEF Picks
<1>5. Cardinality(s \ {pick[s]}) = n - 1 /\ n \in Nat
  <2>1. IsFiniteSet(s) /\ n \in Nat
    BY <1>1, <1>3
  <2>2. Cardinality(s \ {pick[s]}) = Cardinality(s) - 1
    BY <1>4, <2>1, FS_RemoveElement
  <2> QED BY <1>3, <2>1, <2>2
<1>6. s \ {pick[s]} \notin Bad
  <2>1. Cardinality(s \ {pick[s]}) \notin Sizes
    BY <1>2, <1>5
  <2> QED BY <2>1
<1> QED BY <1>3, <1>4, <1>6

=============================================================================
