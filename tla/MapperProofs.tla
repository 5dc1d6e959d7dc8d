---------------------------- MODULE MapperProofs ----------------------------
(***************************************************************************)
(* Facts about the operators of Mapper, and about finite sets and sums,    *)
(* that the proofs of Rebuild and of Reassign share.                       *)
(***************************************************************************)
EXTENDS Mapper, FiniteSetTheorems, WellFoundedInduction, TLAPS

(* Induction over a finite set: what is true of the empty set, and remains *)
(* true when an element is added, is true of the set.                      *)
LEMMA FiniteInduction ==
  ASSUME NEW S, IsFiniteSet(S), NEW G, {} \in G,
         \A T \in SUBSET S : \A x \in S \ T : T \in G => T \cup {x} \in G
  PROVE  S \in G
<1> DEFINE Bad == {T \in SUBSET S : T \notin G}
<1> SUFFICES ASSUME S \notin G PROVE FALSE
  OBVIOUS
<1>1. Bad \subseteq FiniteSubsetsOf(S) /\ Bad # {}
  BY FS_FiniteSubsetsOfFinite
<1>2. IsWellFoundedOn(StrictSubsetOrdering(S), FiniteSubsetsOf(S))
  BY FS_StrictSubsetOrderingWellFounded
<1>3. PICK T \in Bad : \A U \in Bad : ~(<<U, T>> \in StrictSubsetOrdering(S))
  <2> HIDE DEF Bad
  <2> QED BY <1>1, <1>2, WFMin
<1>4. PICK x \in T : TRUE
  OBVIOUS
<1>5. <<T \ {x}, T>> \in StrictSubsetOrdering(S)
  BY DEF StrictSubsetOrdering
<1>6. T \ {x} \in G
  BY <1>3, <1>5
<1>7. (T \ {x}) \cup {x} = T
  OBVIOUS
<1> QED
  BY <1>6, <1>7

-----------------------------------------------------------------------------
(* Total orders, as sets of pairs.                                         *)

TotalOrder(R, S) ==
    /\ \A x \in S : <<x, x>> \notin R
    /\ \A x, y, z \in S : <<x, y>> \in R /\ <<y, z>> \in R => <<x, z>> \in R
    /\ \A x, y \in S : x # y => <<x, y>> \in R \/ <<y, x>> \in R

(* A finite set that is not empty has a greatest element.                  *)
LEMMA Greatest ==
  ASSUME NEW S, IsFiniteSet(S), S # {}, NEW R, TotalOrder(R, S)
  PROVE  \E m \in S : \A x \in S \ {m} : <<x, m>> \in R
<1> DEFINE Has(T) == \E m \in T : \A x \in T \ {m} : <<x, m>> \in R
<1> DEFINE G == {T \in SUBSET S : T = {} \/ Has(T)}
<1>1. {} \in G
  OBVIOUS
<1>2. ASSUME NEW T \in SUBSET S, NEW y \in S \ T, T \in G
      PROVE  T \cup {y} \in G
  <2>1. CASE T = {}
    BY <2>1
  <2>2. CASE Has(T)
    <3>1. PICK m \in T : \A x \in T \ {m} : <<x, m>> \in R
      BY <2>2
    <3>2. CASE <<y, m>> \in R
      BY <3>1, <3>2
    <3>3. CASE <<m, y>> \in R
      <4>1. \A x \in (T \cup {y}) \ {y} : <<x, y>> \in R
        BY <3>1, <3>3 DEF TotalOrder
      <4> QED BY <4>1
    <3> QED BY <3>1, <3>2, <3>3 DEF TotalOrder
  <2> QED BY <1>2, <2>1, <2>2
<1>3. S \in G
  <2> HIDE DEF G
  <2> QED BY <1>1, <1>2, FiniteInduction
<1> QED BY <1>3

(* A finite set can be enumerated in order.                                *)
Ordered(f, R) == \A i, j \in DOMAIN f : i < j => <<f[i], f[j]>> \in R

(* A finite, totally ordered set can be listed in order.                   *)
LEMMA OrderedEnumeration ==
  ASSUME NEW S, IsFiniteSet(S), NEW R, TotalOrder(R, S)
  PROVE  \E f \in Bijection(1 .. Cardinality(S), S) : Ordered(f, R)
<1> DEFINE Has(T) == \E f \in Bijection(1 .. Cardinality(T), T) : Ordered(f, R)
<1> DEFINE Bad == {T \in SUBSET S : ~Has(T)}
<1> SUFFICES ASSUME ~Has(S) PROVE FALSE
  OBVIOUS
<1>1. Bad \subseteq FiniteSubsetsOf(S) /\ Bad # {}
  BY FS_FiniteSubsetsOfFinite
<1>2. IsWellFoundedOn(StrictSubsetOrdering(S), FiniteSubsetsOf(S))
  BY FS_StrictSubsetOrderingWellFounded
<1>3. PICK T \in Bad : \A U \in Bad : ~(<<U, T>> \in StrictSubsetOrdering(S))
  <2> HIDE DEF Bad
  <2> QED BY <1>1, <1>2, WFMin
<1>4. IsFiniteSet(T) /\ TotalOrder(R, T)
  <2>1. T \subseteq S
    OBVIOUS
  <2> QED BY <2>1, FS_Subset DEF TotalOrder
<1>5. T # {}
  <2> SUFFICES ASSUME T = {} PROVE FALSE
    OBVIOUS
  <2>1. Cardinality(T) = 0
    BY FS_EmptySet
  <2>2. <<>> \in Bijection(1 .. 0, {}) /\ Ordered(<<>>, R)
    BY DEF Bijection, Injection, Surjection, IsInjective, Ordered
  <2> QED BY <2>1, <2>2
<1>6. PICK m \in T : \A x \in T \ {m} : <<x, m>> \in R
  BY <1>4, <1>5, Greatest
<1> DEFINE U == T \ {m}
           k == Cardinality(U)
<1>7. Has(U)
  <2>1. <<U, T>> \in StrictSubsetOrdering(S)
    BY DEF StrictSubsetOrdering
  <2> QED BY <1>3, <2>1
<1>8. k \in Nat /\ Cardinality(T) = k + 1
  <2>1. IsFiniteSet(U) /\ k = Cardinality(T) - 1
    BY <1>4, FS_RemoveElement
  <2>2. k \in Nat /\ Cardinality(T) \in Nat
    BY <1>4, <2>1, FS_CardinalityType
  <2> QED BY <2>1, <2>2
<1>9. PICK g \in Bijection(1 .. k, U) : Ordered(g, R)
  BY <1>7
<1> HIDE DEF U, k
<1> DEFINE f == [i \in 1 .. k + 1 |-> IF i = k + 1 THEN m ELSE g[i]]
<1>10. /\ g \in [1 .. k -> U]
       /\ \A a, b \in 1 .. k : g[a] = g[b] => a = b
       /\ \A t \in U : \E s \in 1 .. k : g[s] = t
  BY <1>9 DEF Bijection, Injection, Surjection, IsInjective
<1>11. f \in Bijection(1 .. k + 1, T)
  <2>1. f \in [1 .. k + 1 -> T]
    BY <1>8, <1>10 DEF U
  <2>2. ASSUME NEW a \in 1 .. k + 1, NEW b \in 1 .. k + 1, f[a] = f[b]
        PROVE  a = b
    <3>1. CASE a = k + 1 /\ b # k + 1
      <4>1. g[b] \in U /\ f[b] = g[b] /\ f[a] = m
        BY <1>8, <1>10, <3>1
      <4> QED BY <2>2, <4>1 DEF U
    <3>2. CASE a # k + 1 /\ b = k + 1
      <4>1. g[a] \in U /\ f[a] = g[a] /\ f[b] = m
        BY <1>8, <1>10, <3>2
      <4> QED BY <2>2, <4>1 DEF U
    <3>3. CASE a # k + 1 /\ b # k + 1
      <4>1. a \in 1 .. k /\ b \in 1 .. k
        BY <1>8, <3>3
      <4> QED BY <1>10, <2>2, <3>3, <4>1
    <3> QED BY <3>1, <3>2, <3>3
  <2>3. ASSUME NEW t \in T PROVE \E s \in 1 .. k + 1 : f[s] = t
    <3>1. CASE t = m
      <4>1. k + 1 \in 1 .. k + 1 /\ f[k + 1] = m
        BY <1>8
      <4> QED BY <3>1, <4>1
    <3>2. CASE t # m
      <4>1. PICK s \in 1 .. k : g[s] = t
        BY <1>10, <3>2 DEF U
      <4>2. s \in 1 .. k + 1 /\ s # k + 1
        BY <1>8
      <4> QED BY <4>1, <4>2
    <3> QED BY <3>1, <3>2
  <2> QED BY <2>1, <2>2, <2>3 DEF Bijection, Injection, Surjection, IsInjective
<1>12. Ordered(f, R)
  <2> SUFFICES ASSUME NEW i \in 1 .. k + 1, NEW j \in 1 .. k + 1, i < j
               PROVE  <<f[i], f[j]>> \in R
    BY DEF Ordered
  <2>1. i \in 1 .. k /\ f[i] = g[i] /\ g[i] \in U
    BY <1>8, <1>10
  <2>2. CASE j = k + 1
    BY <1>6, <2>1, <2>2 DEF U
  <2>3. CASE j # k + 1
    <3>1. j \in 1 .. k /\ f[j] = g[j]
      BY <1>8, <2>3
    <3> QED BY <1>9, <1>10, <2>1, <3>1 DEF Ordered
  <2> QED BY <2>2, <2>3
<1> QED BY <1>3, <1>8, <1>11, <1>12

-----------------------------------------------------------------------------
(* Sums.  SumFunctionOnSet is a recursive function over the subsets of S:  *)
(* it exists and it does not depend on the order of the summands.          *)

SumStep(it, w, s) ==
    IF s = {} THEN 0
    ELSE LET x == CHOOSE x \in s : TRUE IN w[x] + it[s \ {x}]
IsIter(it, w, S) == it = [s \in SUBSET S |-> SumStep(it, w, s)]
Pick(s) == CHOOSE x \in s : TRUE

(* The community module's sum is an iteration over subsets.                *)
LEMMA SumDef ==
  ASSUME NEW w, NEW S
  PROVE  SumFunctionOnSet(w, S) = (CHOOSE it : IsIter(it, w, S))[S]
BY DEF SumFunctionOnSet, FoldFunctionOnSet, MapThenFoldSet, IsIter, SumStep

(* The iteration adds the weight of one chosen element at a time.          *)
LEMMA IterStep ==
  ASSUME NEW w, NEW S, NEW it, IsIter(it, w, S)
  PROVE  /\ it[{}] = 0
         /\ \A s \in SUBSET S : s # {} =>
              /\ Pick(s) \in s /\ s \ {Pick(s)} \in SUBSET S
              /\ it[s] = w[Pick(s)] + it[s \ {Pick(s)}]
<1>1. \A s \in SUBSET S : it[s] = SumStep(it, w, s)
  BY Zenon DEF IsIter
<1>2. it[{}] = 0
  BY <1>1 DEF SumStep
<1>3. ASSUME NEW s \in SUBSET S, s # {}
      PROVE  /\ Pick(s) \in s /\ s \ {Pick(s)} \in SUBSET S
             /\ it[s] = w[Pick(s)] + it[s \ {Pick(s)}]
  <2>1. Pick(s) \in s
    BY <1>3 DEF Pick
  <2>2. SumStep(it, w, s) = w[Pick(s)] + it[s \ {Pick(s)}]
    BY <1>3, Zenon DEF SumStep, Pick
  <2> QED BY <1>1, <2>1, <2>2
<1> QED BY <1>2, <1>3

(* Of the subsets of a finite set that have a property, one is minimal.    *)
LEMMA MinimalSubset ==
  ASSUME NEW S, IsFiniteSet(S), NEW Bad \in SUBSET (SUBSET S), Bad # {}
  PROVE  \E T \in Bad : \A U \in Bad : ~(U \subseteq T /\ U # T)
<1>1. Bad \subseteq FiniteSubsetsOf(S)
  BY FS_FiniteSubsetsOfFinite
<1>2. IsWellFoundedOn(StrictSubsetOrdering(S), FiniteSubsetsOf(S))
  BY FS_StrictSubsetOrderingWellFounded
<1>3. PICK T \in Bad : \A U \in Bad : ~(<<U, T>> \in StrictSubsetOrdering(S))
  BY <1>1, <1>2, WFMin
<1>4. ASSUME NEW U \in Bad, U \subseteq T, U # T PROVE FALSE
  <2>1. <<U, T>> \in StrictSubsetOrdering(S)
    BY <1>4 DEF StrictSubsetOrdering
  <2> QED BY <1>3, <2>1
<1> QED BY <1>4

(* Two iterations agree on the sets over which their weights agree.        *)
LEMMA IterAgree ==
  ASSUME NEW S, IsFiniteSet(S), NEW T, IsFiniteSet(T), NEW w, NEW v, NEW it, NEW jt,
         IsIter(it, w, S), IsIter(jt, v, T), \A x \in S \cap T : w[x] = v[x],
         NEW s \in SUBSET (S \cap T)
  PROVE  it[s] = jt[s]
<1> DEFINE Bad == {r \in SUBSET (S \cap T) : it[r] # jt[r]}
<1> SUFFICES ASSUME it[s] # jt[s] PROVE FALSE
  OBVIOUS
<1>1. IsFiniteSet(S \cap T)
  BY FS_Intersection
<1>2. Bad \in SUBSET (SUBSET (S \cap T)) /\ Bad # {}
  OBVIOUS
<1>3. PICK r \in Bad : \A U \in Bad : ~(U \subseteq r /\ U # r)
  <2> HIDE DEF Bad
  <2> QED BY <1>1, <1>2, MinimalSubset
<1>4. r # {}
  <2>1. it[{}] = 0 /\ jt[{}] = 0
    BY Zenon, IterStep
  <2> QED BY <2>1
<1>5. /\ Pick(r) \in r
      /\ it[r] = w[Pick(r)] + it[r \ {Pick(r)}] /\ jt[r] = v[Pick(r)] + jt[r \ {Pick(r)}]
  BY <1>4, IterStep
<1>6. it[r \ {Pick(r)}] = jt[r \ {Pick(r)}]
  BY <1>3, <1>5
<1>7. w[Pick(r)] = v[Pick(r)]
  BY <1>5
<1> QED BY <1>5, <1>6, <1>7

(* There is an iteration over the subsets of a finite set.                 *)
LEMMA IterExists ==
  ASSUME NEW S, IsFiniteSet(S), NEW w
  PROVE  \E it : IsIter(it, w, S)
<1> DEFINE Bad == {T \in SUBSET S : ~\E it : IsIter(it, w, T)}
<1> SUFFICES ASSUME ~\E it : IsIter(it, w, S) PROVE FALSE
  OBVIOUS
<1>1. Bad \in SUBSET (SUBSET S) /\ Bad # {}
  OBVIOUS
<1>2. PICK T \in Bad : \A U \in Bad : ~(U \subseteq T /\ U # T)
  <2> HIDE DEF Bad
  <2> QED BY <1>1, MinimalSubset
<1> DEFINE I(U) == CHOOSE it : IsIter(it, w, U)
           V(U) == I(U)[U]
           new == [s \in SUBSET T |-> IF s = {} THEN 0 ELSE w[Pick(s)] + V(s \ {Pick(s)})]
<1>3. \A U \in SUBSET T : U # T => IsFiniteSet(U) /\ IsIter(I(U), w, U)
  <2> SUFFICES ASSUME NEW U \in SUBSET T, U # T
               PROVE  IsFiniteSet(U) /\ IsIter(I(U), w, U)
    OBVIOUS
  <2>1. \E it : IsIter(it, w, U)
    BY <1>2
  <2>2. IsIter(I(U), w, U)
    <3> HIDE DEF Bad
    <3> QED BY <2>1, Zenon
  <2> QED BY <2>2, FS_Subset
<1> HIDE DEF I
<1>4. ASSUME NEW U \in SUBSET T, U # T
      PROVE  new[U] = V(U)
  <2>1. CASE U = {}
    <3>1. I(U)[{}] = 0
      BY <1>3, <1>4, IterStep
    <3> QED BY <2>1, <3>1
  <2>2. CASE U # {}
    <3> DEFINE P == U \ {Pick(U)}
    <3>1. IsFiniteSet(U) /\ IsIter(I(U), w, U)
      BY <1>3, <1>4
    <3>2. /\ Pick(U) \in U
          /\ I(U)[U] = w[Pick(U)] + I(U)[P]
      <4>1. \A r \in SUBSET U : r # {} =>
              Pick(r) \in r /\ I(U)[r] = w[Pick(r)] + I(U)[r \ {Pick(r)}]
        BY <3>1, IterStep
      <4> QED BY <2>2, <4>1
    <3>3. P \in SUBSET T /\ P # T
      BY <3>2
    <3>4. IsFiniteSet(P) /\ IsIter(I(P), w, P)
      BY <1>3, <3>3
    <3>5. I(U)[P] = I(P)[P]
      <4>1. P \in SUBSET (U \cap P) /\ \A x \in U \cap P : w[x] = w[x]
        OBVIOUS
      <4> HIDE DEF P
      <4> QED BY <3>1, <3>4, <4>1, IterAgree
    <3>6. new[U] = w[Pick(U)] + V(P)
      BY <2>2
    <3> QED BY <3>2, <3>5, <3>6
  <2> QED BY <2>1, <2>2
<1>5. ASSUME NEW s \in SUBSET T
      PROVE  new[s] = SumStep(new, w, s)
  <2>1. CASE s = {}
    BY <2>1 DEF SumStep
  <2>2. CASE s # {}
    <3> DEFINE P == s \ {Pick(s)}
    <3>1. Pick(s) \in s
      BY <2>2 DEF Pick
    <3>2. P \in SUBSET T /\ P # T
      BY <3>1
    <3>3. new[P] = V(P)
      BY <1>4, <3>2
    <3>4. new[s] = w[Pick(s)] + V(P)
      BY <2>2
    <3>5. SumStep(new, w, s) = w[Pick(s)] + new[P]
      <4> HIDE DEF new
      <4> QED BY <2>2, Zenon DEF SumStep, Pick
    <3> QED BY <3>3, <3>4, <3>5
  <2> QED BY <2>1, <2>2
<1>6. IsIter(new, w, T)
  <2>1. new = [s \in SUBSET T |-> new[s]]
    OBVIOUS
  <2> HIDE DEF new
  <2>2. [s \in SUBSET T |-> new[s]] = [s \in SUBSET T |-> SumStep(new, w, s)]
    BY <1>5, Zenon
  <2> QED BY <2>1, <2>2 DEF IsIter
<1> QED BY <1>2, <1>6

AnyOrder(it, w, S) ==
    \A s \in SUBSET S : it[s] \in Int /\ \A x \in s : it[s] = w[x] + it[s \ {x}]

(* The iteration does not depend on the order of the elements.             *)
LEMMA IterRemove ==
  ASSUME NEW S, IsFiniteSet(S), NEW w, NEW it, IsIter(it, w, S),
         \A x \in S : w[x] \in Int
  PROVE  AnyOrder(it, w, S)
<1> DEFINE Good(s) == it[s] \in Int /\ \A x \in s : it[s] = w[x] + it[s \ {x}]
           Bad == {s \in SUBSET S : ~Good(s)}
<1> SUFFICES ASSUME Bad # {} PROVE FALSE
  BY DEF AnyOrder
<1>1. PICK s \in Bad : \A U \in Bad : ~(U \subseteq s /\ U # s)
  <2>1. Bad \in SUBSET (SUBSET S)
    OBVIOUS
  <2> HIDE DEF Bad
  <2> QED BY <2>1, MinimalSubset
<1>2. \A U \in SUBSET s : U # s => Good(U)
  BY <1>1
<1>3. s # {}
  <2>1. it[{}] = 0
    BY Zenon, IterStep
  <2>2. Good({})
    BY <2>1
  <2> QED BY <2>2
<1> DEFINE c == Pick(s)
<1>4. c \in s /\ it[s] = w[c] + it[s \ {c}]
  BY <1>3, IterStep
<1>5. Good(s \ {c})
  BY <1>2, <1>4
<1>6. it[s] \in Int
  BY <1>4, <1>5
<1>7. ASSUME NEW x \in s PROVE it[s] = w[x] + it[s \ {x}]
  <2>1. CASE x = c
    BY <1>4, <2>1
  <2>2. CASE x # c
    <3>1. it[s \ {c}] = w[x] + it[(s \ {c}) \ {x}]
      BY <1>5, <2>2
    <3>2. Good(s \ {x})
      BY <1>2
    <3>3. it[s \ {x}] = w[c] + it[(s \ {x}) \ {c}]
      BY <1>4, <2>2, <3>2
    <3>4. (s \ {x}) \ {c} = (s \ {c}) \ {x}
      OBVIOUS
    <3>5. Good((s \ {c}) \ {x})
      BY <1>2
    <3>6. w[c] \in Int /\ w[x] \in Int /\ it[(s \ {c}) \ {x}] \in Int
      BY <1>4, <3>5
    <3> DEFINE rest == it[(s \ {c}) \ {x}]
    <3>7. it[s \ {c}] = w[x] + rest /\ it[s \ {x}] = w[c] + rest
      BY <3>1, <3>3, <3>4
    <3> HIDE DEF c, Good, rest
    <3>8. w[c] + (w[x] + rest) = w[x] + (w[c] + rest)
      BY <3>6 DEF rest
    <3> QED BY <1>4, <3>7, <3>8
  <2> QED BY <2>1, <2>2
<1> QED BY <1>6, <1>7

(* What sums are for: no summands, one more or less, equal summands.       *)
LEMMA SumIter ==
  ASSUME NEW S, IsFiniteSet(S), NEW w
  PROVE  \E it : IsIter(it, w, S) /\ SumFunctionOnSet(w, S) = it[S]
<1>1. IsIter(CHOOSE it : IsIter(it, w, S), w, S)
  BY IterExists, Zenon
<1> QED BY <1>1, SumDef, Zenon

(* The sum over nothing is 0.                                              *)
LEMMA SumEmpty ==
  ASSUME NEW w
  PROVE  SumFunctionOnSet(w, {}) = 0
<1>1. PICK it : IsIter(it, w, {}) /\ SumFunctionOnSet(w, {}) = it[{}]
  BY SumIter, FS_EmptySet
<1> QED BY <1>1, IterStep

(* Equal weights have equal sums.                                          *)
LEMMA SumEqual ==
  ASSUME NEW S, IsFiniteSet(S), NEW w, NEW v, \A x \in S : w[x] = v[x]
  PROVE  SumFunctionOnSet(w, S) = SumFunctionOnSet(v, S)
<1>1. PICK it : IsIter(it, w, S) /\ SumFunctionOnSet(w, S) = it[S]
  BY SumIter
<1>2. PICK jt : IsIter(jt, v, S) /\ SumFunctionOnSet(v, S) = jt[S]
  BY SumIter
<1>3. S \in SUBSET (S \cap S) /\ \A x \in S \cap S : w[x] = v[x]
  OBVIOUS
<1>4. it[S] = jt[S]
  BY <1>1, <1>2, <1>3, IterAgree
<1> QED BY <1>1, <1>2, <1>4

(* A sum is the weight of any one element and the sum over the others.     *)
LEMMA SumRemove ==
  ASSUME NEW S, IsFiniteSet(S), NEW w, \A x \in S : w[x] \in Int
  PROVE  /\ SumFunctionOnSet(w, S) \in Int
         /\ \A x \in S : SumFunctionOnSet(w, S) = w[x] + SumFunctionOnSet(w, S \ {x})
<1>1. PICK it : IsIter(it, w, S) /\ SumFunctionOnSet(w, S) = it[S]
  BY SumIter
<1>2. it[S] \in Int /\ \A x \in S : it[S] = w[x] + it[S \ {x}]
  <2>1. AnyOrder(it, w, S)
    BY <1>1, IterRemove
  <2> QED BY <2>1 DEF AnyOrder
<1>3. ASSUME NEW x \in S
      PROVE  SumFunctionOnSet(w, S \ {x}) = it[S \ {x}]
  <2> DEFINE T == S \ {x}
  <2>1. IsFiniteSet(T)
    BY FS_RemoveElement
  <2>2. PICK jt : IsIter(jt, w, T) /\ SumFunctionOnSet(w, T) = jt[T]
    BY <2>1, SumIter
  <2>3. T \in SUBSET (S \cap T) /\ \A y \in S \cap T : w[y] = w[y]
    OBVIOUS
  <2> HIDE DEF T
  <2>4. it[T] = jt[T]
    BY <1>1, <2>1, <2>2, <2>3, IterAgree
  <2>5. SumFunctionOnSet(w, T) = it[T]
    BY <2>2, <2>4
  <2> QED BY <2>5 DEF T
<1> QED BY <1>1, <1>2, <1>3

(* A sum of natural numbers is at least as large as each of them.          *)
LEMMA SumNat ==
  ASSUME NEW S, IsFiniteSet(S), NEW w, \A x \in S : w[x] \in Nat
  PROVE  /\ SumFunctionOnSet(w, S) \in Nat
         /\ \A x \in S : SumFunctionOnSet(w, S) >= w[x]
<1> DEFINE G == {T \in SUBSET S : SumFunctionOnSet(w, T) \in Nat}
<1>1. \A T \in SUBSET S : IsFiniteSet(T)
  BY FS_Subset
<1>2. {} \in G
  BY SumEmpty
<1>3. ASSUME NEW T \in SUBSET S, NEW x \in S \ T, T \in G
      PROVE  T \cup {x} \in G
  <2> DEFINE U == T \cup {x}
  <2>1. IsFiniteSet(U) /\ x \in U /\ U \ {x} = T /\ \A y \in U : w[y] \in Int
    BY <1>1
  <2>2. U \in SUBSET S
    OBVIOUS
  <2> HIDE DEF U
  <2>3. SumFunctionOnSet(w, U) = w[x] + SumFunctionOnSet(w, T)
    BY <2>1, SumRemove
  <2>4. SumFunctionOnSet(w, U) \in Nat
    BY <1>3, <2>3
  <2>5. U \in G
    BY <2>2, <2>4
  <2> QED BY <2>5 DEF U
<1>4. S \in G
  <2> HIDE DEF G
  <2> QED BY <1>2, <1>3, FiniteInduction
<1>5. ASSUME NEW x \in S PROVE SumFunctionOnSet(w, S) >= w[x]
  <2>1. SumFunctionOnSet(w, S) = w[x] + SumFunctionOnSet(w, S \ {x})
    BY SumRemove
  <2>2. SumFunctionOnSet(w, S \ {x}) \in Nat
    <3> DEFINE T == S \ {x}
    <3>1. IsFiniteSet(T) /\ T \in SUBSET S
      BY <1>1
    <3>2. \A R \in SUBSET T : R \in SUBSET S
      OBVIOUS
    <3>3. T \in G
      <4> HIDE DEF G, T
      <4> QED BY <1>2, <1>3, <3>1, <3>2, FiniteInduction
    <3> QED BY <3>3
  <2> QED BY <2>1, <2>2
<1> QED BY <1>4, <1>5

(* A sum of zeros is 0.                                                    *)
LEMMA SumZero ==
  ASSUME NEW S, IsFiniteSet(S), NEW w, \A x \in S : w[x] = 0
  PROVE  SumFunctionOnSet(w, S) = 0
<1> DEFINE G == {T \in SUBSET S : SumFunctionOnSet(w, T) = 0}
<1>1. \A T \in SUBSET S : IsFiniteSet(T)
  BY FS_Subset
<1>2. {} \in G
  BY SumEmpty
<1>3. ASSUME NEW T \in SUBSET S, NEW x \in S \ T, T \in G
      PROVE  T \cup {x} \in G
  <2> DEFINE U == T \cup {x}
  <2>1. IsFiniteSet(U) /\ x \in U /\ U \ {x} = T /\ \A y \in U : w[y] \in Int
    BY <1>1
  <2>2. U \in SUBSET S
    OBVIOUS
  <2> HIDE DEF U
  <2>3. SumFunctionOnSet(w, U) = w[x] + SumFunctionOnSet(w, T)
    BY <2>1, SumRemove
  <2>4. SumFunctionOnSet(w, U) = 0
    BY <1>3, <2>3
  <2>5. U \in G
    BY <2>2, <2>4
  <2> QED BY <2>5 DEF U
<1>4. S \in G
  <2> HIDE DEF G
  <2> QED BY <1>2, <1>3, FiniteInduction
<1> QED BY <1>4

(* A sum over other names of the same summands.                            *)
LEMMA SumImage ==
  ASSUME NEW S, IsFiniteSet(S), NEW g, NEW v, NEW w,
         \A x, y \in S : g[x] = g[y] => x = y,
         \A x \in S : v[x] \in Int /\ w[g[x]] = v[x]
  PROVE  SumFunctionOnSet(v, S) = SumFunctionOnSet(w, {g[x] : x \in S})
<1> DEFINE image(T) == {g[x] : x \in T}
           G == {T \in SUBSET S : SumFunctionOnSet(v, T) = SumFunctionOnSet(w, image(T))}
<1>1. \A T \in SUBSET S : IsFiniteSet(T)
  BY FS_Subset
<1>2. {} \in G
  <2>1. image({}) = {}
    OBVIOUS
  <2> QED BY <2>1, SumEmpty
<1>3. ASSUME NEW T \in SUBSET S, NEW x \in S \ T, T \in G
      PROVE  T \cup {x} \in G
  <2> DEFINE U == T \cup {x}
             I == image(T)
             J == image(U)
  <2>1. IsFiniteSet(U) /\ x \in U /\ U \ {x} = T /\ \A y \in U : v[y] \in Int
    BY <1>1
  <2>2. U \in SUBSET S
    OBVIOUS
  <2>3. g[x] \in J /\ J \ {g[x]} = I /\ \A y \in J : w[y] \in Int
    OBVIOUS
  <2>4. IsFiniteSet(J)
    <3> DEFINE h == [y \in U |-> g[y]]
    <3>1. h \in Surjection(U, J)
      BY DEF Surjection
    <3> HIDE DEF h, J, U
    <3> QED BY <2>1, <3>1, FS_Surjection
  <2>5. SumFunctionOnSet(v, T) = SumFunctionOnSet(w, I) /\ w[g[x]] = v[x]
    BY <1>3
  <2> HIDE DEF U, I, J
  <2>6. SumFunctionOnSet(v, U) = v[x] + SumFunctionOnSet(v, T)
    BY <2>1, SumRemove
  <2>7. SumFunctionOnSet(w, J) = w[g[x]] + SumFunctionOnSet(w, I)
    BY <2>3, <2>4, SumRemove
  <2>8. SumFunctionOnSet(v, U) = SumFunctionOnSet(w, J)
    BY <2>5, <2>6, <2>7
  <2>9. U \in G
    BY <2>2, <2>8 DEF J
  <2> QED BY <2>9 DEF U
<1>4. S \in G
  <2> HIDE DEF G
  <2> QED BY <1>2, <1>3, FiniteInduction
<1> QED BY <1>4

-----------------------------------------------------------------------------
(* Least elements, and sets in their order.                                *)

(* A finite set of integers has a minimum.                                 *)
LEMMA MinFinite ==
  ASSUME NEW S \in SUBSET Int, IsFiniteSet(S), S # {}
  PROVE  Min(S) \in S /\ \A y \in S : Min(S) <= y
<1> DEFINE R == {p \in Int \X Int : p[1] > p[2]}
<1>1. TotalOrder(R, S)
  BY DEF TotalOrder
<1>2. PICK m \in S : \A x \in S \ {m} : <<x, m>> \in R
  <2> HIDE DEF R
  <2> QED BY <1>1, Greatest
<1>3. ASSUME NEW y \in S PROVE m <= y
  <2>1. CASE y # m
    <3>1. <<y, m>> \in R
      BY <1>2, <2>1
    <3> QED BY <3>1
  <2> QED BY <2>1
<1> QED BY <1>3, Zenon DEF Min

(* A set of natural numbers has a minimum.                                 *)
LEMMA MinNat ==
  ASSUME NEW S \in SUBSET Nat, S # {}
  PROVE  Min(S) \in S /\ \A y \in S : Min(S) <= y
<1>1. PICK n \in S : TRUE
  OBVIOUS
<1> DEFINE T == S \cap (0 .. n)
<1>2. IsFiniteSet(T) /\ T \in SUBSET Int /\ T # {}
  <2>1. IsFiniteSet(0 .. n)
    BY FS_Interval
  <2>2. T \in SUBSET (0 .. n)
    OBVIOUS
  <2>3. n \in T
    OBVIOUS
  <2> QED BY <2>1, <2>2, <2>3, FS_Subset
<1>3. Min(T) \in T /\ \A y \in T : Min(T) <= y
  <2> HIDE DEF T
  <2> QED BY <1>2, MinFinite
<1>4. \A y \in S : Min(T) <= y
  <2> SUFFICES ASSUME NEW y \in S PROVE Min(T) <= y
    OBVIOUS
  <2>1. CASE y <= n
    BY <1>3, <2>1
  <2>2. CASE y > n
    BY <1>3, <2>2
  <2> QED BY <2>1, <2>2
<1>5. Min(T) \in S
  BY <1>3
<1> HIDE DEF T
<1> QED BY <1>4, <1>5, Zenon DEF Min

Increasing(f) == \A i, j \in DOMAIN f : i < j => f[i] < f[j]

(* InOrder lists each number of a set once and in increasing order.        *)
LEMMA InOrderEnumerates ==
  ASSUME NEW S \in SUBSET Int, IsFiniteSet(S)
  PROVE  InOrder(S) \in Bijection(1 .. Cardinality(S), S) /\ Increasing(InOrder(S))
<1> DEFINE R == {p \in Int \X Int : p[1] < p[2]}
<1>1. TotalOrder(R, S)
  BY DEF TotalOrder
<1>2. PICK f \in Bijection(1 .. Cardinality(S), S) : Ordered(f, R)
  <2> HIDE DEF R
  <2> QED BY <1>1, OrderedEnumeration
<1>3. Increasing(f)
  BY <1>2 DEF Ordered, Increasing
<1> QED BY <1>3, Zenon DEF InOrder, Increasing

(* InOrder(S) is a sequence without repetitions whose elements are S.      *)
LEMMA InOrderSequence ==
  ASSUME NEW S \in SUBSET Int, IsFiniteSet(S)
  PROVE  /\ InOrder(S) \in [1 .. Cardinality(S) -> S] /\ Cardinality(S) \in Nat
         /\ InOrder(S) \in Seq(S) /\ Len(InOrder(S)) = Cardinality(S)
         /\ IsInjective(InOrder(S)) /\ Range(InOrder(S)) = S
<1>1. InOrder(S) \in [1 .. Cardinality(S) -> S]
  BY InOrderEnumerates DEF Bijection, Injection
<1>2. Cardinality(S) \in Nat
  BY FS_CardinalityType
<1>3. IsInjective(InOrder(S))
  BY InOrderEnumerates DEF Bijection, Injection
<1>4. \A t \in S : \E i \in 1 .. Cardinality(S) : InOrder(S)[i] = t
  BY InOrderEnumerates DEF Bijection, Surjection
<1>5. Range(InOrder(S)) = S
  BY <1>1, <1>4 DEF Range
<1> QED BY <1>1, <1>2, <1>3, <1>5

(* A map that is pruned has the partitions at the places, and no other.    *)
LEMMA PrunedMap ==
  ASSUME NEW X, NEW pm \in Seq(X), NEW places \in SUBSET DOMAIN pm
  PROVE  /\ IsFiniteSet(places) /\ Cardinality(places) \in Nat
         /\ Pruned(pm, places) \in Seq(X) /\ Len(Pruned(pm, places)) = Cardinality(places)
         /\ DOMAIN Pruned(pm, places) = 1 .. Cardinality(places)
         /\ \A i \in 1 .. Cardinality(places) :
              InOrder(places)[i] \in places /\ Pruned(pm, places)[i] = pm[InOrder(places)[i]]
<1>1. IsFiniteSet(places) /\ places \in SUBSET Int
  <2>1. DOMAIN pm = 1 .. Len(pm) /\ Len(pm) \in Nat
    OBVIOUS
  <2>2. IsFiniteSet(DOMAIN pm)
    BY <2>1, FS_Interval
  <2> QED BY <2>1, <2>2, FS_Subset
<1>2. InOrder(places) \in [1 .. Cardinality(places) -> places] /\ Cardinality(places) \in Nat
  BY <1>1, InOrderSequence
<1>3. Pruned(pm, places) = [i \in 1 .. Cardinality(places) |-> pm[InOrder(places)[i]]]
  BY DEF Pruned
<1> DEFINE k == Cardinality(places)
<1>4. \A i \in 1 .. k : InOrder(places)[i] \in places /\ pm[InOrder(places)[i]] \in X
  BY <1>2
<1> HIDE DEF k
<1>5. /\ Pruned(pm, places) \in [1 .. k -> X]
      /\ \A i \in 1 .. k : Pruned(pm, places)[i] = pm[InOrder(places)[i]]
  BY <1>3, <1>4, Zenon DEF k
<1>6. k \in Nat
  BY <1>2 DEF k
<1>7. Pruned(pm, places) \in Seq(X) /\ Len(Pruned(pm, places)) = k
  BY <1>5, <1>6
<1> QED BY <1>1, <1>4, <1>5, <1>6, <1>7 DEF k

(* A finite union of finite sets is finite.                                *)
LEMMA FiniteUnion ==
  ASSUME NEW D, IsFiniteSet(D), NEW f, DOMAIN f = D, \A n \in D : IsFiniteSet(f[n])
  PROVE  IsFiniteSet(UNION {f[n] : n \in D})
<1> DEFINE G == {T \in SUBSET D : IsFiniteSet(UNION {f[n] : n \in T})}
<1>1. {} \in G
  <2>1. UNION {f[n] : n \in {}} = {}
    OBVIOUS
  <2> QED BY <2>1, FS_EmptySet
<1>2. ASSUME NEW T \in SUBSET D, NEW x \in D \ T, T \in G
      PROVE  T \cup {x} \in G
  <2>1. UNION {f[n] : n \in T \cup {x}} = (UNION {f[n] : n \in T}) \cup f[x]
    OBVIOUS
  <2>2. IsFiniteSet((UNION {f[n] : n \in T}) \cup f[x])
    BY <1>2, FS_Union
  <2> QED BY <2>1, <2>2
<1>3. D \in G
  <2> HIDE DEF G
  <2> QED BY <1>1, <1>2, FiniteInduction
<1> QED BY <1>3

-----------------------------------------------------------------------------
(* Partition maps.                                                         *)

Partition == [topic : Nat, partition : Nat, replicas : Seq(Int)]

(* The size of a partition is a natural number.                            *)
LEMMA SizeNat ==
  ASSUME NEW p
  PROVE  Size(p) \in Nat
BY SizesAssumption DEF Size, HasSize

(* A sequence has finitely many positions and elements.                    *)
LEMMA SequenceRange ==
  ASSUME NEW X, NEW s \in Seq(X)
  PROVE  /\ DOMAIN s = 1 .. Len(s) /\ Len(s) \in Nat /\ IsFiniteSet(DOMAIN s)
         /\ IsFiniteSet(Range(s)) /\ Range(s) \subseteq X
<1>1. DOMAIN s = 1 .. Len(s) /\ Len(s) \in Nat
  OBVIOUS
<1>2. IsFiniteSet(DOMAIN s)
  BY <1>1, FS_Interval
<1>3. s \in Surjection(DOMAIN s, Range(s))
  BY DEF Surjection, Range
<1>4. IsFiniteSet(Range(s))
  BY <1>2, <1>3, FS_Surjection
<1>5. Range(s) \subseteq X
  BY DEF Range
<1> QED BY <1>1, <1>2, <1>4, <1>5

(* A sequence over a set is one over every larger set.                     *)
LEMMA SequenceSubset ==
  ASSUME NEW X, NEW Y, X \subseteq Y, NEW s \in Seq(X)
  PROVE  s \in Seq(Y)
OBVIOUS

(* A partition map has finitely many replicas and brokers.                 *)
LEMMA FiniteMap ==
  ASSUME NEW pm \in Seq(Partition)
  PROVE  /\ IsFiniteSet(Slots(pm)) /\ IsFiniteSet(BrokersIn(pm)) /\ BrokersIn(pm) \subseteq Int
         /\ \A id : IsFiniteSet(Held(pm, id))
<1>1. IsFiniteSet(DOMAIN pm)
  BY SequenceRange
<1>2. \A n \in DOMAIN pm : pm[n].replicas \in Seq(Int)
  <2> SUFFICES ASSUME NEW n \in DOMAIN pm PROVE pm[n].replicas \in Seq(Int)
    OBVIOUS
  <2>1. pm[n] \in Partition
    OBVIOUS
  <2> QED BY <2>1 DEF Partition
<1>3. IsFiniteSet(BrokersIn(pm))
  <2> DEFINE f == [n \in DOMAIN pm |-> Range(pm[n].replicas)]
  <2>1. \A n \in DOMAIN pm : IsFiniteSet(f[n])
    BY <1>2, SequenceRange
  <2>2. DOMAIN f = DOMAIN pm
    OBVIOUS
  <2>3. BrokersIn(pm) = UNION {f[n] : n \in DOMAIN pm}
    BY DEF BrokersIn
  <2> HIDE DEF f
  <2>4. IsFiniteSet(UNION {f[n] : n \in DOMAIN pm})
    BY <1>1, <2>1, <2>2, FiniteUnion
  <2> QED BY <2>3, <2>4
<1>4. BrokersIn(pm) \subseteq Int
  BY <1>2, SequenceRange DEF BrokersIn
<1>5. IsFiniteSet(Slots(pm))
  <2> DEFINE f == [n \in DOMAIN pm |-> {n} \X DOMAIN pm[n].replicas]
  <2>1. ASSUME NEW n \in DOMAIN pm PROVE IsFiniteSet(f[n])
    <3>1. IsFiniteSet(DOMAIN pm[n].replicas) /\ IsFiniteSet({n})
      BY <1>2, SequenceRange, FS_Singleton
    <3>2. IsFiniteSet({n} \X DOMAIN pm[n].replicas)
      BY <3>1, FS_Product
    <3> QED BY <3>2
  <2>2. DOMAIN f = DOMAIN pm
    OBVIOUS
  <2>3. Slots(pm) = UNION {f[n] : n \in DOMAIN pm}
    BY DEF Slots
  <2> HIDE DEF f
  <2>4. IsFiniteSet(UNION {f[n] : n \in DOMAIN pm})
    BY <1>1, <2>1, <2>2, FiniteUnion
  <2> QED BY <2>3, <2>4
<1>6. ASSUME NEW id PROVE IsFiniteSet(Held(pm, id))
  <2>1. Held(pm, id) \in SUBSET Slots(pm)
    BY DEF Held
  <2> QED BY <1>5, <2>1, FS_Subset
<1> QED BY <1>3, <1>4, <1>5, <1>6

-----------------------------------------------------------------------------
(* Broker maps.                                                            *)

BrokerRecord == [rack : Nat, used : Nat, free : Int,
                 replace : BOOLEAN, missing : BOOLEAN, new : BOOLEAN]
Metadata(meta) == meta \in [DOMAIN meta -> [rack : Nat, free : Int]]

(* Reading its metadata changes a broker's rack and storage only.          *)
LEMMA MetaRecord ==
  ASSUME NEW b \in BrokerRecord, NEW meta, Metadata(meta), NEW id
  PROVE  /\ WithMeta(b, meta, id) \in BrokerRecord
         /\ WithMeta(b, meta, id).replace = b.replace
         /\ WithMeta(b, meta, id).missing = b.missing
         /\ WithMeta(b, meta, id).new = b.new
         /\ id \in DOMAIN meta => WithMeta(b, meta, id).rack = meta[id].rack
         /\ id \notin DOMAIN meta => WithMeta(b, meta, id) = b
<1>1. CASE id \notin DOMAIN meta
  BY <1>1 DEF WithMeta
<1>2. CASE id \in DOMAIN meta
  <2>1. meta[id] \in [rack : Nat, free : Int]
    BY <1>2 DEF Metadata
  <2>2. WithMeta(b, meta, id) = [b EXCEPT !.rack = meta[id].rack, !.free = meta[id].free]
    BY <1>2 DEF WithMeta
  <2> QED BY <1>2, <2>1, <2>2 DEF BrokerRecord
<1> QED BY <1>1, <1>2

(* Every broker of the partition map is in the broker map, offline ones    *)
(* are not, and none is to be replaced but the stub.                       *)
FromMap(m, pm, meta) ==
    /\ m \in [OnlineIn(pm) \cup {StubBrokerID} -> BrokerRecord]
    /\ m[StubBrokerID] = StubBroker
    /\ \A id \in OnlineIn(pm) \ {StubBrokerID} :
         /\ ~m[id].replace /\ ~m[id].missing /\ ~m[id].new
         /\ m[id].rack = IF id \in DOMAIN meta THEN meta[id].rack ELSE NoRack

(* BrokerMapFromPartitionMap has the brokers of the map and the stub       *)
(* broker.                                                                 *)
LEMMA MappedBrokers ==
  ASSUME NEW pm \in Seq(Partition), NEW meta, Metadata(meta), NEW force
  PROVE  FromMap(BrokerMapFromPartitionMap(pm, meta, force), pm, meta)
<1> DEFINE m == BrokerMapFromPartitionMap(pm, meta, force)
           b(id) == [NewBroker EXCEPT !.used = IF force THEN 0 ELSE Cardinality(Held(pm, id))]
<1>0. /\ NewBroker \in BrokerRecord /\ ~NewBroker.replace /\ ~NewBroker.missing /\ ~NewBroker.new
      /\ NewBroker.rack = NoRack
  BY DEF NewBroker, BrokerRecord, NoRack
<1>1. StubBroker \in BrokerRecord
  BY <1>0 DEF StubBroker, BrokerRecord
<1>2. ASSUME NEW id
      PROVE  /\ b(id) \in BrokerRecord /\ ~b(id).replace /\ ~b(id).missing /\ ~b(id).new
             /\ b(id).rack = NoRack
  <2>1. Cardinality(Held(pm, id)) \in Nat
    BY FiniteMap, FS_CardinalityType
  <2> QED BY <1>0, <2>1 DEF BrokerRecord
<1> HIDE DEF b
<1>3. m = [id \in OnlineIn(pm) \cup {StubBrokerID} |->
             IF id = StubBrokerID THEN StubBroker ELSE WithMeta(b(id), meta, id)]
  BY Zenon DEF BrokerMapFromPartitionMap, b
<1> HIDE DEF m
<1>4. \A id : WithMeta(b(id), meta, id) \in BrokerRecord
  BY <1>2, MetaRecord
<1>5. m \in [OnlineIn(pm) \cup {StubBrokerID} -> BrokerRecord]
  BY <1>1, <1>3, <1>4, Zenon
<1>6. ASSUME NEW id \in OnlineIn(pm) \ {StubBrokerID}
      PROVE  /\ ~m[id].replace /\ ~m[id].missing /\ ~m[id].new
             /\ m[id].rack = IF id \in DOMAIN meta THEN meta[id].rack ELSE NoRack
  <2>1. m[id] = WithMeta(b(id), meta, id)
    BY <1>3
  <2> QED BY <1>2, <2>1, MetaRecord
<1>7. m[StubBrokerID] = StubBroker
  BY <1>3
<1>8. FromMap(m, pm, meta)
  BY <1>5, <1>6, <1>7, Zenon DEF FromMap
<1> QED BY <1>8 DEF m

(* An update keeps the brokers of the map; it marks those that are absent  *)
(* or not provided, and adds the others that are.                          *)
Updated(u, m, list, meta) ==
    /\ u \in [DOMAIN m \cup Added(m, list, meta) -> BrokerRecord]
    /\ u[StubBrokerID] = m[StubBrokerID]
    /\ \A id \in Real(m) :
         /\ u[id].rack = m[id].rack /\ u[id].free = m[id].free /\ u[id].new = m[id].new
         /\ u[id].replace <=> m[id].replace \/ id \in Absent(m, meta) \/ id \notin Provided(m, list, meta)
         /\ u[id].missing <=> m[id].missing \/ id \in Absent(m, meta)
    /\ \A id \in Added(m, list, meta) :
         /\ ~u[id].replace /\ ~u[id].missing /\ u[id].new
         /\ u[id].rack = IF id \in DOMAIN meta THEN meta[id].rack ELSE NoRack

(* Update marks the brokers that are not provided and adds the new ones.   *)
LEMMA UpdatedBrokers ==
  ASSUME NEW m, m \in [DOMAIN m -> BrokerRecord], StubBrokerID \in DOMAIN m,
         NEW meta, Metadata(meta), NEW list
  PROVE  Updated(Update(m, list, meta), m, list, meta)
<1> DEFINE u == Update(m, list, meta)
           A == Added(m, list, meta)
           r(id) == id \in Absent(m, meta) \/ id \notin Provided(m, list, meta)
           g(id) == id \in Absent(m, meta)
           kept(id) == [m[id] EXCEPT !.replace = @ \/ r(id), !.missing = @ \/ g(id)]
           added(id) == [WithMeta(NewBroker, meta, id) EXCEPT !.new = TRUE]
<1>1. \A id : id \in A => id \notin DOMAIN m
  BY DEF Added
<1>2. u = [id \in DOMAIN m \cup A |->
             IF id = StubBrokerID THEN m[id] ELSE IF id \in DOMAIN m THEN kept(id) ELSE added(id)]
  <2>1. \A id \in DOMAIN m : kept(id) = [m[id] EXCEPT
                !.replace = @ \/ id \in Absent(m, meta) \/ id \notin Provided(m, list, meta),
                !.missing = @ \/ id \in Absent(m, meta)]
    BY Zenon
  <2> HIDE DEF kept, r, g
  <2> QED BY <2>1, Zenon DEF Update
<1>3. ASSUME NEW id \in DOMAIN m
      PROVE  /\ kept(id) \in BrokerRecord
             /\ kept(id).rack = m[id].rack /\ kept(id).free = m[id].free /\ kept(id).new = m[id].new
             /\ kept(id).replace <=> m[id].replace \/ r(id)
             /\ kept(id).missing <=> m[id].missing \/ g(id)
  <2>1. m[id] \in BrokerRecord
    OBVIOUS
  <2>2. (m[id].replace \/ r(id)) \in BOOLEAN /\ (m[id].missing \/ g(id)) \in BOOLEAN
    BY Zenon
  <2> DEFINE x == m[id].replace \/ r(id)
             y == m[id].missing \/ g(id)
  <2>3. kept(id) = [m[id] EXCEPT !.replace = x, !.missing = y]
    BY Zenon
  <2> HIDE DEF x, y, r, g, kept
  <2>4. x \in BOOLEAN /\ y \in BOOLEAN
    BY <2>2 DEF x, y
  <2>5. /\ kept(id) \in BrokerRecord /\ kept(id).rack = m[id].rack /\ kept(id).free = m[id].free
        /\ kept(id).new = m[id].new
        /\ kept(id).replace = x /\ kept(id).missing = y
    BY <2>1, <2>3, <2>4 DEF BrokerRecord
  <2> QED BY <2>5, Zenon DEF x, y
<1>4. ASSUME NEW id
      PROVE  /\ added(id) \in BrokerRecord
             /\ ~added(id).replace /\ ~added(id).missing /\ added(id).new
             /\ added(id).rack = IF id \in DOMAIN meta THEN meta[id].rack ELSE NoRack
  <2>1. NewBroker \in BrokerRecord /\ ~NewBroker.replace /\ ~NewBroker.missing /\ NewBroker.rack = NoRack
    BY DEF NewBroker, BrokerRecord, NoRack
  <2> DEFINE w == WithMeta(NewBroker, meta, id)
  <2>2. /\ w \in BrokerRecord /\ ~w.replace /\ ~w.missing
        /\ w.rack = IF id \in DOMAIN meta THEN meta[id].rack ELSE NoRack
    BY <2>1, MetaRecord
  <2> HIDE DEF w
  <2>3. [w EXCEPT !.new = TRUE] \in BrokerRecord /\ [w EXCEPT !.new = TRUE].new = TRUE
    BY <2>2 DEF BrokerRecord
  <2>4. /\ [w EXCEPT !.new = TRUE].replace = w.replace /\ [w EXCEPT !.new = TRUE].missing = w.missing
        /\ [w EXCEPT !.new = TRUE].rack = w.rack
    BY <2>2 DEF BrokerRecord
  <2> QED BY <2>2, <2>3, <2>4, Zenon DEF w
<1> HIDE DEF u, A, kept, added
<1>5. u \in [DOMAIN m \cup A -> BrokerRecord]
  BY <1>2, <1>3, <1>4, Zenon
<1>6. u[StubBrokerID] = m[StubBrokerID]
  BY <1>2
<1>7. ASSUME NEW id \in Real(m)
      PROVE  /\ u[id].rack = m[id].rack /\ u[id].free = m[id].free /\ u[id].new = m[id].new
             /\ u[id].replace <=> m[id].replace \/ id \in Absent(m, meta)
                                                \/ id \notin Provided(m, list, meta)
             /\ u[id].missing <=> m[id].missing \/ id \in Absent(m, meta)
  <2>1. id \in DOMAIN m /\ u[id] = kept(id)
    BY <1>2, Zenon DEF Real
  <2> QED BY <1>3, <2>1, Zenon
<1>8. ASSUME NEW id \in A
      PROVE  /\ ~u[id].replace /\ ~u[id].missing /\ u[id].new
             /\ u[id].rack = IF id \in DOMAIN meta THEN meta[id].rack ELSE NoRack
  <2>1. u[id] = added(id)
    BY <1>1, <1>2, Zenon
  <2> QED BY <1>4, <2>1, Zenon
<1>9. Updated(u, m, list, meta)
  BY <1>5, <1>6, <1>7, <1>8, Zenon DEF Updated, A
<1> QED BY <1>9 DEF u

(* A broker map stays finite when brokers are added to it.                 *)
LEMMA FiniteUpdate ==
  ASSUME NEW m, IsFiniteSet(DOMAIN m), DOMAIN m \subseteq Int,
         NEW meta, IsFiniteSet(DOMAIN meta), DOMAIN meta \subseteq Int,
         NEW list, IsFiniteSet(list), list \subseteq Int
  PROVE  /\ IsFiniteSet(DOMAIN m \cup Added(m, list, meta))
         /\ (DOMAIN m \cup Added(m, list, meta)) \subseteq Int
<1> DEFINE D == DOMAIN m \cup Added(m, list, meta)
           U == (list \cup DOMAIN m) \cup DOMAIN meta
<1>1. D \in SUBSET U
  BY DEF Added, Provided
<1>2. IsFiniteSet(list \cup DOMAIN m)
  BY FS_Union
<1>3. IsFiniteSet(U)
  BY <1>2, FS_Union
<1>4. IsFiniteSet(D)
  <2> HIDE DEF D, U
  <2> QED BY <1>1, <1>3, FS_Subset
<1> QED BY <1>1, <1>4

-----------------------------------------------------------------------------
(* Sorting.                                                                *)

(* The sequence t has the elements of s, in some order.                    *)
Arranged(t, s) ==
    \E f \in Bijection(DOMAIN s, DOMAIN s) : t = [i \in DOMAIN s |-> s[f[i]]]

(* A rearranged sequence has the same length and elements.                 *)
LEMMA ArrangedSequence ==
  ASSUME NEW X, NEW s \in Seq(X), NEW t, Arranged(t, s)
  PROVE  /\ t \in Seq(X) /\ Len(t) = Len(s) /\ DOMAIN t = DOMAIN s /\ Range(t) = Range(s)
         /\ IsInjective(s) => IsInjective(t)
<1>1. PICK f \in Bijection(DOMAIN s, DOMAIN s) : t = [i \in DOMAIN s |-> s[f[i]]]
  BY DEF Arranged
<1>2. /\ f \in [DOMAIN s -> DOMAIN s]
      /\ \A i, j \in DOMAIN s : f[i] = f[j] => i = j
      /\ \A j \in DOMAIN s : \E i \in DOMAIN s : f[i] = j
  BY DEF Bijection, Injection, Surjection, IsInjective
<1>3. DOMAIN s = 1 .. Len(s) /\ Len(s) \in Nat /\ \A i \in DOMAIN s : s[i] \in X
  OBVIOUS
<1>4. t \in [1 .. Len(s) -> X]
  BY <1>1, <1>2, <1>3
<1>5. t \in Seq(X) /\ Len(t) = Len(s) /\ DOMAIN t = DOMAIN s
  BY <1>3, <1>4
<1>6. Range(t) = Range(s)
  BY <1>1, <1>2, <1>5 DEF Range
<1>7. IsInjective(s) => IsInjective(t)
  BY <1>1, <1>2, <1>5 DEF IsInjective
<1> QED BY <1>5, <1>6, <1>7

(* Rearranging twice is rearranging.                                       *)
LEMMA ArrangedTransitive ==
  ASSUME NEW s, NEW t, NEW u, Arranged(t, s), Arranged(u, t)
  PROVE  Arranged(u, s)
<1>1. PICK f \in Bijection(DOMAIN s, DOMAIN s) : t = [i \in DOMAIN s |-> s[f[i]]]
  BY DEF Arranged
<1>2. DOMAIN t = DOMAIN s
  BY <1>1
<1>3. PICK g \in Bijection(DOMAIN s, DOMAIN s) : u = [i \in DOMAIN s |-> t[g[i]]]
  BY <1>2 DEF Arranged
<1> DEFINE h == [i \in DOMAIN s |-> f[g[i]]]
<1>4. h \in Bijection(DOMAIN s, DOMAIN s)
  BY DEF Bijection, Injection, Surjection, IsInjective
<1>5. g \in [DOMAIN s -> DOMAIN s]
  BY DEF Bijection, Injection
<1>6. u = [i \in DOMAIN s |-> s[h[i]]]
  BY <1>1, <1>3, <1>5
<1> QED BY <1>4, <1>6 DEF Arranged

(* A sequence is a rearrangement of itself.                                *)
LEMMA ArrangedSame ==
  ASSUME NEW X, NEW s \in Seq(X)
  PROVE  Arranged(s, s)
<1> DEFINE f == [i \in DOMAIN s |-> i]
<1>1. f \in Bijection(DOMAIN s, DOMAIN s)
  BY DEF Bijection, Injection, Surjection, IsInjective
<1>2. s = [i \in DOMAIN s |-> s[f[i]]]
  OBVIOUS
<1> QED BY <1>1, <1>2 DEF Arranged

(* What a broker holds is a natural number.                                *)
LEMMA SizeOnNat ==
  ASSUME NEW pm \in Seq(Partition), NEW id
  PROVE  SizeOn(pm, id) \in Nat
<1> DEFINE H == Held(pm, id)
           w == [s \in H |-> Size(pm[s[1]])]
<1>1. IsFiniteSet(H)
  BY FiniteMap
<1>2. \A s \in H : w[s] \in Nat
  BY SizeNat
<1>3. SizeOn(pm, id) = SumFunctionOnSet(w, H)
  BY DEF SizeOn, SumFunction
<1> HIDE DEF H, w
<1> QED BY <1>1, <1>2, <1>3, SumNat
=============================================================================
