----------------------------- MODULE FoldFacts ------------------------------
(***************************************************************************)
(* Folds over finite sets, as the community modules define them: a         *)
(* recursive function on the subsets of a set, that takes one element away *)
(* at a time.  What it is on a set with one element more follows once the  *)
(* function is known to exist, and, of a sum, that the order in which the  *)
(* elements are taken does not matter.                                     *)
(***************************************************************************)
EXTENDS Integers, LeastNumbers, FiniteSetTheorems

\* g takes the elements of the sets of D away in the order that choose gives,
\* and puts op of each together with what it has of the rest.
IsFold(g, D, base, choose, op) ==
    \A s \in D : g[s] = IF s = {} THEN base ELSE op[<<choose[s], g[s \ {choose[s]}]>>]

\* A subset of a finite set is finite, and has one element less without one.
LEMMA SubsetCount ==
    ASSUME NEW S, IsFiniteSet(S)
    PROVE  \A s \in SUBSET S :
              /\ Cardinality(s) \in Nat
              /\ Cardinality(s) <= Cardinality(S)
              /\ Cardinality(s) = 0 <=> s = {}
              /\ \A x \in s : Cardinality(s \ {x}) = Cardinality(s) - 1
<1> SUFFICES ASSUME NEW s \in SUBSET S
             PROVE  /\ Cardinality(s) \in Nat
                    /\ Cardinality(s) <= Cardinality(S)
                    /\ Cardinality(s) = 0 <=> s = {}
                    /\ \A x \in s : Cardinality(s \ {x}) = Cardinality(s) - 1
  OBVIOUS
<1>1. IsFiniteSet(s) /\ Cardinality(s) <= Cardinality(S)
  BY FS_Subset
<1>2. Cardinality(s) \in Nat
  BY <1>1, FS_CardinalityType
<1>3. Cardinality(s) = 0 <=> s = {}
  BY <1>1, FS_EmptySet
<1>4. \A x \in s : Cardinality(s \ {x}) = Cardinality(s) - 1
  BY <1>1, FS_RemoveElement
<1> QED
  BY <1>1, <1>2, <1>3, <1>4

\* There is such a function on the subsets of a finite set.
LEMMA FoldExists ==
    ASSUME NEW S, IsFiniteSet(S), NEW V, NEW base \in V,
           NEW choose, \A s \in SUBSET S : s # {} => choose[s] \in s,
           NEW op \in [S \X V -> V]
    PROVE  \E g \in [SUBSET S -> V] : IsFold(g, SUBSET S, base, choose, op)
<1> DEFINE D(n) == {s \in SUBSET S : Cardinality(s) <= n}
           P(n) == \E g \in [D(n) -> V] : IsFold(g, D(n), base, choose, op)
           Missing == {n \in Nat : ~P(n)}
<1>1. P(0)
  <2> DEFINE g == [s \in D(0) |-> base]
  <2>1. \A s \in D(0) : s = {}
    BY SubsetCount
  <2>2. g \in [D(0) -> V] /\ IsFold(g, D(0), base, choose, op)
    BY <2>1 DEF IsFold
  <2> QED
    BY <2>2
<1>2. ASSUME NEW n \in Nat, P(n)
      PROVE  P(n + 1)
  <2>1. PICK g \in [D(n) -> V] : IsFold(g, D(n), base, choose, op)
    BY <1>2
  <2> DEFINE h == [s \in D(n + 1) |-> IF s = {} THEN base ELSE op[<<choose[s], g[s \ {choose[s]}]>>]]
  <2>2. \A s \in D(n + 1) : s # {} => choose[s] \in s /\ choose[s] \in S /\ s \ {choose[s]} \in D(n)
    BY SubsetCount
  <2>3. h \in [D(n + 1) -> V]
    <3> SUFFICES ASSUME NEW s \in D(n + 1), s # {}
                 PROVE  op[<<choose[s], g[s \ {choose[s]}]>>] \in V
      OBVIOUS
    <3>1. choose[s] \in S /\ g[s \ {choose[s]}] \in V
      BY <2>1, <2>2
    <3>2. <<choose[s], g[s \ {choose[s]}]>> \in S \X V
      BY <3>1
    <3> QED
      BY <3>2
  <2>4. \A s \in D(n) : s \in D(n + 1) /\ h[s] = g[s]
    <3>1. \A s \in D(n) : s \in D(n + 1)
      BY SubsetCount
    <3> QED
      BY <2>1, <3>1 DEF IsFold
  <2>5. \A s \in D(n + 1) : s # {} => h[s \ {choose[s]}] = g[s \ {choose[s]}]
    BY <2>2, <2>4
  <2>6. IsFold(h, D(n + 1), base, choose, op)
    <3> SUFFICES ASSUME NEW s \in D(n + 1)
                 PROVE  h[s] = IF s = {} THEN base ELSE op[<<choose[s], h[s \ {choose[s]}]>>]
      BY DEF IsFold
    <3>1. h[s] = IF s = {} THEN base ELSE op[<<choose[s], g[s \ {choose[s]}]>>]
      OBVIOUS
    <3> HIDE DEF h, D
    <3> QED
      BY <2>5, <3>1
  <2> QED
    BY <2>3, <2>6
<1>3. Missing = {}
  <2> SUFFICES ASSUME Missing # {} PROVE FALSE
    OBVIOUS
  <2> HIDE DEF P
  <2>1. PICK m \in Missing : \A j \in Missing : m <= j
    BY LeastExists
  <2>2. m \in Nat /\ m # 0 /\ ~P(m)
    BY <1>1, <2>1
  <2>3. m - 1 \in Nat /\ m - 1 \notin Missing
    BY <2>1, <2>2
  <2>4. P((m - 1) + 1)
    BY <1>2, <2>3
  <2> QED
    BY <2>2, <2>4
<1>4. Cardinality(S) \in Nat
  BY FS_CardinalityType
<1>5. P(Cardinality(S))
  BY <1>3, <1>4
<1>6. D(Cardinality(S)) = SUBSET S
  BY SubsetCount
<1> HIDE DEF D
<1>7. PICK g \in [D(Cardinality(S)) -> V] : IsFold(g, D(Cardinality(S)), base, choose, op)
  BY <1>5
<1> QED
  BY <1>6, <1>7

-----------------------------------------------------------------------------
(***************************************************************************)
(* Sums.                                                                   *)
(***************************************************************************)
\* g adds the weights of the elements of the sets of D.
Sums(g, D, weight) ==
    /\ g[{}] = 0
    /\ \A s \in D : \A y \in s : g[s] = weight[y] + g[s \ {y}]

\* The order in which the elements are taken away does not matter.
LEMMA SumsInAnyOrder ==
    ASSUME NEW S, IsFiniteSet(S), NEW weight \in [S -> Int], NEW g \in [SUBSET S -> Int],
           g[{}] = 0,
           \A s \in SUBSET S : s # {} => \E x \in s : g[s] = weight[x] + g[s \ {x}]
    PROVE  Sums(g, SUBSET S, weight)
<1> DEFINE Bad == {s \in SUBSET S : \E y \in s : g[s] # weight[y] + g[s \ {y}]}
           Sizes == {Cardinality(s) : s \in Bad}
<1>1. Bad = {}
  <2> SUFFICES ASSUME Bad # {} PROVE FALSE
    OBVIOUS
  <2>1. Sizes \subseteq Nat /\ Sizes # {}
    BY SubsetCount
  <2>2. PICK m \in Sizes : \A j \in Sizes : m <= j
    BY <2>1, LeastExists
  <2>3. PICK s \in Bad : Cardinality(s) = m
    BY <2>2
  <2>4. \A r \in SUBSET S : Cardinality(r) < m => r \notin Bad
    <3> SUFFICES ASSUME NEW r \in SUBSET S, Cardinality(r) < m, r \in Bad PROVE FALSE
      OBVIOUS
    <3>1. Cardinality(r) \in Sizes /\ Cardinality(r) \in Nat /\ m \in Nat
      BY <2>1, SubsetCount
    <3> QED
      BY <2>2, <3>1
  <2>5. PICK y \in s : g[s] # weight[y] + g[s \ {y}]
    BY <2>3
  <2>6. PICK x \in s : g[s] = weight[x] + g[s \ {x}]
    BY <2>3, <2>5
  <2>7. x # y
    BY <2>5, <2>6
  <2>8. /\ s \ {x} \in SUBSET S /\ Cardinality(s \ {x}) < m /\ y \in s \ {x}
        /\ s \ {y} \in SUBSET S /\ Cardinality(s \ {y}) < m /\ x \in s \ {y}
    BY <2>3, <2>7, SubsetCount
  <2>9. /\ g[s \ {x}] = weight[y] + g[(s \ {x}) \ {y}]
        /\ g[s \ {y}] = weight[x] + g[(s \ {y}) \ {x}]
    BY <2>4, <2>8
  <2>10. (s \ {x}) \ {y} = (s \ {y}) \ {x}
    OBVIOUS
  <2>11. weight[x] \in Int /\ weight[y] \in Int /\ g[(s \ {y}) \ {x}] \in Int
    BY <2>3
  <2>12. weight[x] + g[s \ {x}] = weight[y] + g[s \ {y}]
    <3> DEFINE a == weight[x]
               b == weight[y]
               t == g[(s \ {y}) \ {x}]
    <3>1. a \in Int /\ b \in Int /\ t \in Int
      BY <2>11
    <3>2. g[s \ {x}] = b + t /\ g[s \ {y}] = a + t
      BY <2>9, <2>10
    <3> HIDE DEF a, b, t
    <3>3. a + (b + t) = b + (a + t)
      BY <3>1
    <3>4. a + g[s \ {x}] = b + g[s \ {y}]
      BY <3>2, <3>3
    <3> QED
      BY <3>4 DEF a, b
  <2> QED
    BY <2>5, <2>6, <2>12
<1> QED
  BY <1>1 DEF Sums

\* Two sums of the same weights agree.
LEMMA SumsAgree ==
    ASSUME NEW S, IsFiniteSet(S), NEW weight, NEW other,
           \A x \in S : weight[x] = other[x],
           NEW D, SUBSET S \subseteq D,
           NEW g, Sums(g, SUBSET S, weight),
           NEW h, Sums(h, D, other)
    PROVE  \A s \in SUBSET S : g[s] = h[s]
<1> DEFINE Bad == {s \in SUBSET S : g[s] # h[s]}
           Sizes == {Cardinality(s) : s \in Bad}
<1>1. Bad = {}
  <2> SUFFICES ASSUME Bad # {} PROVE FALSE
    OBVIOUS
  <2>1. Sizes \subseteq Nat /\ Sizes # {}
    BY SubsetCount
  <2>2. PICK m \in Sizes : \A j \in Sizes : m <= j
    BY <2>1, LeastExists
  <2>3. PICK s \in Bad : Cardinality(s) = m
    BY <2>2
  <2>4. s # {}
    BY <2>3 DEF Sums
  <2>5. PICK y \in s : TRUE
    BY <2>4
  <2>6. s \ {y} \in SUBSET S /\ Cardinality(s \ {y}) < m /\ Cardinality(s \ {y}) \in Nat /\ m \in Nat
    BY <2>3, SubsetCount
  <2>7. g[s \ {y}] = h[s \ {y}]
    <3> SUFFICES ASSUME s \ {y} \in Bad PROVE FALSE
      BY <2>6
    <3> QED
      BY <2>2, <2>6
  <2>8. g[s] = weight[y] + g[s \ {y}] /\ h[s] = other[y] + h[s \ {y}] /\ weight[y] = other[y]
    BY <2>3 DEF Sums
  <2> QED
    BY <2>3, <2>7, <2>8
<1> QED
  BY <1>1
=============================================================================
