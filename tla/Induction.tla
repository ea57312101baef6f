------------------------------ MODULE Induction ------------------------------
(***************************************************************************)
(* What the proofs need of induction, stated about sets and functions      *)
(* instead of operators: least members, recursive functions, sums and      *)
(* sorted lists.  A proof by induction on a property takes the set of its  *)
(* counterexamples and looks at a least one.                               *)
(***************************************************************************)
EXTENDS Integers, Sequences, FiniteSets, Functions, FiniteSetsExt, Arrangement, FiniteSetTheorems,
        WellFoundedInduction, TLAPS

(***************************************************************************)
(* Least members.                                                          *)
(***************************************************************************)

\* A set of numbers that is not empty has a least member.
LEMMA LeastMember ==
    ASSUME NEW S \in SUBSET Nat, S # {}
    PROVE  \E s \in S : \A t \in S : s <= t
<1>1. PICK s \in S : \A t \in S : ~ (<<t, s>> \in OpToRel(<, Nat))
  BY NatLessThanWellFounded, WFMin
<1>2. \A t \in S : <<t, s>> \in OpToRel(<, Nat) <=> t < s
  BY DEF OpToRel
<1>3. \A t \in S : t \in Nat /\ s \in Nat /\ ~ (t < s)
  BY <1>1, <1>2
<1> QED
  BY <1>3

\* A set that is not empty has a member of least measure.
LEMMA LeastMeasure ==
    ASSUME NEW D, NEW m \in [D -> Nat], NEW S \in SUBSET D, S # {}
    PROVE  \E s \in S : \A t \in S : m[s] <= m[t]
<1>1. {m[s] : s \in S} \in SUBSET Nat /\ {m[s] : s \in S} # {}
  OBVIOUS
<1>2. PICK k \in {m[s] : s \in S} : \A l \in {m[s] : s \in S} : k <= l
  BY <1>1, LeastMember
<1> QED
  BY <1>2

\* A set of numbers that has a bound and is not empty has a greatest member.
LEMMA GreatestMember ==
    ASSUME NEW S \in SUBSET Nat, S # {}, NEW bound \in Nat, \A s \in S : s <= bound
    PROVE  \E s \in S : \A t \in S : t <= s
<1>1. \A s \in S : bound - s \in Nat
  OBVIOUS
<1>. DEFINE M == [s \in S |-> bound - s]
<1>2. M \in [S -> Nat] /\ S \in SUBSET S
  BY <1>1
<1>. HIDE DEF M
<1>3. PICK s \in S : \A t \in S : M[s] <= M[t]
  BY <1>2, LeastMeasure
<1>4. \A t \in S : bound - s <= bound - t
  BY <1>3 DEF M
<1> QED
  BY <1>4

\* The same of a set of indices.
LEMMA GreatestIndex ==
    ASSUME NEW n \in Nat, NEW S \in SUBSET (1..n), S # {}
    PROVE  \E s \in S : \A t \in S : t <= s
<1>1. S \in SUBSET Nat /\ \A s \in S : s <= n
  OBVIOUS
<1> QED
  BY <1>1, GreatestMember

(***************************************************************************)
(* Recursion.  def[<<g, x>>] is what the equation makes of x when g gives  *)
(* the values below x.                                                     *)
(***************************************************************************)
Below(m, x, D) == {y \in D : m[y] < m[x]}
Founded(def, m, D, V) ==
    \A x \in D : \A g, h \in [D -> V] :
       (\A y \in Below(m, x, D) : g[y] = h[y]) => def[<<g, x>>] = def[<<h, x>>]

\* A function solves the equation for all members that measure less than k.
Solves(g, def, m, D, k) == \A x \in D : m[x] < k => g[x] = def[<<g, x>>]

LEMMA SolutionsAgree ==
    ASSUME NEW D, NEW V, NEW m \in [D -> Nat], NEW def, Founded(def, m, D, V),
           NEW k \in Nat, NEW l \in Nat, k <= l,
           NEW g \in [D -> V], Solves(g, def, m, D, k),
           NEW h \in [D -> V], Solves(h, def, m, D, l)
    PROVE  \A x \in D : m[x] < k => g[x] = h[x]
<1>1. SUFFICES ASSUME NEW z \in D, m[z] < k, g[z] # h[z]
               PROVE  FALSE
  OBVIOUS
<1>. DEFINE Bad == {x \in D : m[x] < k /\ g[x] # h[x]}
<1>2. Bad \in SUBSET D /\ Bad # {}
  BY <1>1
<1>. HIDE DEF Bad
<1>3. PICK x \in Bad : \A y \in Bad : m[x] <= m[y]
  BY <1>2, LeastMeasure
<1>4. x \in D /\ m[x] < k /\ g[x] # h[x] /\ m[x] \in Nat
  BY <1>3 DEF Bad
<1>5. \A y \in D : m[y] < m[x] => y \notin Bad /\ m[y] < k
  BY <1>3, <1>4
<1>6. \A y \in Below(m, x, D) : g[y] = h[y]
  BY <1>5 DEF Below, Bad
<1>7. def[<<g, x>>] = def[<<h, x>>]
  BY <1>4, <1>6 DEF Founded
<1>8. g[x] = def[<<g, x>>] /\ h[x] = def[<<h, x>>]
  BY <1>4 DEF Solves
<1> QED
  BY <1>4, <1>7, <1>8

LEMMA PartialSolutions ==
    ASSUME NEW D, NEW V, V # {}, NEW m \in [D -> Nat], NEW def \in [[D -> V] \X D -> V],
           Founded(def, m, D, V)
    PROVE  \A k \in Nat : \E g \in [D -> V] : Solves(g, def, m, D, k)
<1>. DEFINE Bad == {k \in Nat : ~ \E g \in [D -> V] : Solves(g, def, m, D, k)}
<1>1. SUFFICES ASSUME Bad # {}
               PROVE  FALSE
  BY DEF Bad
<1>2. Bad \in SUBSET Nat
  BY DEF Bad
<1>. HIDE DEF Bad
<1>3. PICK k \in Bad : \A l \in Bad : k <= l
  BY <1>1, <1>2, LeastMember
<1>4. k \in Nat /\ k \in Bad
  BY <1>2, <1>3
<1>5. k # 0
  <2>1. PICK v \in V : TRUE
    OBVIOUS
  <2>2. [x \in D |-> v] \in [D -> V] /\ Solves([x \in D |-> v], def, m, D, 0)
    BY DEF Solves
  <2> QED
    BY <1>4, <2>2 DEF Bad
<1>6. k - 1 \in Nat /\ k - 1 \notin Bad
  BY <1>3, <1>4, <1>5
<1>7. PICK g \in [D -> V] : Solves(g, def, m, D, k - 1)
  BY <1>6 DEF Bad
<1>. DEFINE h == [x \in D |-> def[<<g, x>>]]
<1>8. h \in [D -> V]
  OBVIOUS
<1>9. ASSUME NEW x \in D, m[x] < k
      PROVE  h[x] = def[<<h, x>>]
  <2>1. \A y \in Below(m, x, D) : y \in D /\ m[y] < k - 1
    BY <1>4, <1>9 DEF Below
  <2>2. \A y \in Below(m, x, D) : h[y] = g[y]
    BY <1>7, <2>1 DEF Solves
  <2>3. def[<<h, x>>] = def[<<g, x>>]
    BY <1>8, <2>2 DEF Founded
  <2> QED
    BY <2>3
<1>10. Solves(h, def, m, D, k)
  BY <1>9 DEF Solves
<1> QED
  BY <1>4, <1>8, <1>10 DEF Bad

\* A function that solves its equation everywhere.
SolvesAll(g, def, D) == \A x \in D : g[x] = def[<<g, x>>]

\* A recursive function exists when its equation only looks at smaller arguments.
THEOREM RecursionIsDefined ==
    ASSUME NEW D, NEW V, V # {}, NEW m \in [D -> Nat], NEW def \in [[D -> V] \X D -> V],
           Founded(def, m, D, V)
    PROVE  \E g \in [D -> V] : SolvesAll(g, def, D)
<1>. DEFINE part(k) == CHOOSE g \in [D -> V] : Solves(g, def, m, D, k)
            whole == [x \in D |-> part(m[x] + 1)[x]]
<1>1. \A k \in Nat : part(k) \in [D -> V] /\ Solves(part(k), def, m, D, k)
  BY PartialSolutions
<1>. HIDE DEF part
<1>2. \A x \in D : m[x] + 1 \in Nat
  OBVIOUS
<1>3. whole \in [D -> V]
  BY <1>1, <1>2
<1>4. ASSUME NEW x \in D
      PROVE  whole[x] = def[<<whole, x>>]
  <2>. DEFINE k == m[x] + 1
  <2>1. k \in Nat /\ m[x] < k /\ m[x] \in Nat
    OBVIOUS
  <2>2. part(k) \in [D -> V] /\ Solves(part(k), def, m, D, k)
    BY <1>1, <2>1
  <2>3. ASSUME NEW y \in Below(m, x, D)
        PROVE  whole[y] = part(k)[y]
    <3>. DEFINE l == m[y] + 1
    <3>1. y \in D /\ l \in Nat /\ l <= k /\ m[y] < l
      BY DEF Below
    <3>2. part(l) \in [D -> V] /\ Solves(part(l), def, m, D, l)
      BY <1>1, <3>1
    <3>3. whole[y] = part(l)[y]
      BY <3>1
    <3>. DEFINE small == part(l)
                large == part(k)
    <3>4. /\ small \in [D -> V] /\ Solves(small, def, m, D, l)
          /\ large \in [D -> V] /\ Solves(large, def, m, D, k)
      BY <2>2, <3>2
    <3>. HIDE DEF k, l, small, large
    <3>5. \A z \in D : m[z] < l => small[z] = large[z]
      BY <2>1, <3>1, <3>4, SolutionsAgree
    <3> QED
      BY <3>1, <3>3, <3>5 DEF small, large
  <2>4. def[<<whole, x>>] = def[<<part(k), x>>]
    BY <1>3, <2>2, <2>3 DEF Founded
  <2>5. part(k)[x] = def[<<part(k), x>>]
    BY <2>1, <2>2 DEF Solves
  <2> QED
    BY <2>4, <2>5
<1> QED
  BY <1>3, <1>4 DEF SolvesAll

(***************************************************************************)
(* Sums.  The fold of the library takes an arbitrary element out first;    *)
(* any element may be taken out.                                           *)
(***************************************************************************)
AnyOf(T) == CHOOSE x \in T : TRUE

\* g[T] is the sum of w over T, for each T \subseteq S.
SumsOver(g, w, S) ==
    /\ DOMAIN g = SUBSET S
    /\ \A T \in SUBSET S :
          g[T] = IF T = {} THEN 0 ELSE w[AnyOf(T)] + g[T \ {AnyOf(T)}]

LEMMA SizesOfSubsets ==
    ASSUME NEW S, IsFiniteSet(S)
    PROVE  /\ [T \in SUBSET S |-> Cardinality(T)] \in [SUBSET S -> Nat]
           /\ \A T \in SUBSET S : IsFiniteSet(T) /\ Cardinality(T) \in Nat
           /\ \A T \in SUBSET S : \A x \in T : Cardinality(T \ {x}) = Cardinality(T) - 1
<1>1. \A T \in SUBSET S : IsFiniteSet(T)
  BY FS_Subset
<1>2. \A T \in SUBSET S : Cardinality(T) \in Nat
  BY <1>1, FS_CardinalityType
<1>3. \A T \in SUBSET S : \A x \in T : Cardinality(T \ {x}) = Cardinality(T) - 1
  BY <1>1, FS_RemoveElement
<1> QED
  BY <1>1, <1>2, <1>3

\* A nonempty set of subsets of a finite set has one with the fewest elements.
LEMMA SmallestSubset ==
    ASSUME NEW S, IsFiniteSet(S), NEW F \in SUBSET (SUBSET S), F # {}
    PROVE  \E T \in F : \A U \in SUBSET S : Cardinality(U) < Cardinality(T) => U \notin F
<1>. DEFINE m == [T \in SUBSET S |-> Cardinality(T)]
<1>1. m \in [SUBSET S -> Nat] /\ \A T \in SUBSET S : m[T] = Cardinality(T)
  BY SizesOfSubsets
<1>. HIDE DEF m
<1>2. PICK T \in F : \A U \in F : m[T] <= m[U]
  BY <1>1, LeastMeasure
<1> QED
  BY <1>1, <1>2, SizesOfSubsets

LEMMA SumExists ==
    ASSUME NEW S, IsFiniteSet(S), NEW w, \A x \in S : w[x] \in Int
    PROVE  \E g \in [SUBSET S -> Int] : SumsOver(g, w, S)
<1>. DEFINE D == SUBSET S
            m == [T \in D |-> Cardinality(T)]
            def == [p \in [D -> Int] \X D |->
                      IF p[2] = {} THEN 0 ELSE w[AnyOf(p[2])] + p[1][p[2] \ {AnyOf(p[2])}]]
<1>1. m \in [D -> Nat] /\ \A T \in D : m[T] = Cardinality(T)
  BY SizesOfSubsets
<1>2. \A T \in D : T # {} => /\ AnyOf(T) \in T /\ AnyOf(T) \in S
                             /\ T \ {AnyOf(T)} \in D
  BY DEF AnyOf
<1>3. \A g \in [D -> Int], T \in D :
         def[<<g, T>>] = IF T = {} THEN 0 ELSE w[AnyOf(T)] + g[T \ {AnyOf(T)}]
  OBVIOUS
<1>4. def \in [[D -> Int] \X D -> Int]
  <2>1. ASSUME NEW p \in [D -> Int] \X D
        PROVE  (IF p[2] = {} THEN 0 ELSE w[AnyOf(p[2])] + p[1][p[2] \ {AnyOf(p[2])}]) \in Int
    BY <1>2, <2>1
  <2> QED
    BY <2>1
<1>5. ASSUME NEW T \in D, T # {}
      PROVE  m[T \ {AnyOf(T)}] < m[T]
  BY <1>1, <1>2, <1>5, SizesOfSubsets
<1>. HIDE DEF m, def
<1>6. Founded(def, m, D, Int)
  BY <1>2, <1>3, <1>5, ZenonT(40) DEF Founded, Below
<1>7. \E g \in [D -> Int] : SolvesAll(g, def, D)
  <2>1. Int # {}
    OBVIOUS
  <2>. HIDE DEF D
  <2> QED
    BY <1>1, <1>4, <1>6, <2>1, RecursionIsDefined
<1> QED
  BY <1>3, <1>7 DEF SumsOver, SolvesAll

\* Two such functions agree where they both are defined.
LEMMA SumIsUnique ==
    ASSUME NEW S, IsFiniteSet(S), NEW T \in SUBSET S, NEW w, NEW g, NEW h,
           SumsOver(g, w, S), SumsOver(h, w, T)
    PROVE  \A U \in SUBSET T : g[U] = h[U]
<1>. DEFINE Bad == {U \in SUBSET T : g[U] # h[U]}
<1>1. SUFFICES ASSUME Bad # {} PROVE FALSE
  OBVIOUS
<1>2. IsFiniteSet(T) /\ Bad \in SUBSET (SUBSET T)
  BY FS_Subset
<1>. HIDE DEF Bad
<1>3. PICK U \in Bad : \A X \in SUBSET T : Cardinality(X) < Cardinality(U) => X \notin Bad
  BY <1>1, <1>2, SmallestSubset
<1>4. U \in SUBSET T /\ U \in SUBSET S /\ g[U] # h[U]
  BY <1>2 DEF Bad
<1>5. U # {}
  BY <1>4 DEF SumsOver
<1>. DEFINE rest == U \ {AnyOf(U)}
<1>6. AnyOf(U) \in U /\ rest \in SUBSET T /\ rest \in SUBSET S
  BY <1>4, <1>5 DEF AnyOf
<1>7. Cardinality(rest) < Cardinality(U)
  BY <1>2, <1>4, <1>6, SizesOfSubsets
<1>8. g[rest] = h[rest]
  BY <1>3, <1>6, <1>7 DEF Bad
<1>9. g[U] = w[AnyOf(U)] + g[rest] /\ h[U] = w[AnyOf(U)] + h[rest]
  BY <1>4, <1>5 DEF SumsOver
<1> QED
  BY <1>4, <1>8, <1>9

\* The library's sum is that function.
LEMMA SumOfFunction ==
    ASSUME NEW S, IsFiniteSet(S), NEW w, NEW g, SumsOver(g, w, S)
    PROVE  \A T \in SUBSET S : SumFunctionOnSet(w, T) = g[T]
<1>1. ASSUME NEW T \in SUBSET S
      PROVE  SumFunctionOnSet(w, T) = g[T]
  <2>. DEFINE Eq(iter) ==
                iter = [s \in SUBSET T |->
                          IF s = {} THEN 0
                          ELSE w[CHOOSE x \in s : TRUE] + iter[s \ {CHOOSE x \in s : TRUE}]]
  <2>1. SumFunctionOnSet(w, T) = (CHOOSE iter : Eq(iter))[T]
    BY DEF SumFunctionOnSet, FoldFunctionOnSet, MapThenFoldSet
  <2>2. \A iter : Eq(iter) => SumsOver(iter, w, T)
    BY DEF SumsOver, AnyOf
  <2>3. Eq([s \in SUBSET T |-> g[s]])
    <3>1. \A s \in SUBSET T : s \in SUBSET S /\ s \ {AnyOf(s)} \in SUBSET T
      OBVIOUS
    <3>2. \A s \in SUBSET T :
             g[s] = IF s = {} THEN 0 ELSE w[AnyOf(s)] + g[s \ {AnyOf(s)}]
      BY <3>1 DEF SumsOver
    <3> QED
      BY <3>1, <3>2 DEF AnyOf
  <2>. HIDE DEF Eq
  <2>4. SumsOver(CHOOSE iter : Eq(iter), w, T)
    BY <2>2, <2>3
  <2> QED
    BY <2>1, <2>4, SumIsUnique
<1> QED
  BY <1>1

\* The sum of no terms.
THEOREM SumOfNothing ==
    ASSUME NEW w
    PROVE  SumFunctionOnSet(w, {}) = 0
<1>1. IsFiniteSet({}) /\ \A x \in {} : w[x] \in Int
  BY FS_EmptySet
<1>2. PICK g \in [SUBSET {} -> Int] : SumsOver(g, w, {})
  BY <1>1, SumExists
<1>3. SumFunctionOnSet(w, {}) = g[{}]
  BY <1>1, <1>2, SumOfFunction
<1> QED
  BY <1>2, <1>3 DEF SumsOver

\* A sum is that without any one of its terms, and the term.
THEOREM SumWithout ==
    ASSUME NEW S, IsFiniteSet(S), NEW w, \A x \in S : w[x] \in Int
    PROVE  /\ SumFunctionOnSet(w, S) \in Int
           /\ \A x \in S : /\ SumFunctionOnSet(w, S \ {x}) \in Int
                           /\ SumFunctionOnSet(w, S) = w[x] + SumFunctionOnSet(w, S \ {x})
<1>0. PICK g \in [SUBSET S -> Int] : SumsOver(g, w, S)
  BY SumExists
<1>1. SumsOver(g, w, S) /\ \A T \in SUBSET S : SumFunctionOnSet(w, T) = g[T]
  BY <1>0, SumOfFunction
<1>. DEFINE Bad == {T \in SUBSET S : \E x \in T : g[T] # w[x] + g[T \ {x}]}
<1>2. Bad = {}
  <2>1. SUFFICES ASSUME Bad # {} PROVE FALSE
    OBVIOUS
  <2>2. Bad \in SUBSET (SUBSET S)
    OBVIOUS
  <2>. HIDE DEF Bad
  <2>3. PICK T \in Bad : \A U \in SUBSET S : Cardinality(U) < Cardinality(T) => U \notin Bad
    BY <2>1, <2>2, SmallestSubset
  <2>4. PICK x \in T : g[T] # w[x] + g[T \ {x}]
    BY <2>3 DEF Bad
  <2>. DEFINE c == AnyOf(T)
              both == (T \ {c}) \ {x}
  <2>5. T \in SUBSET S /\ c \in T
    BY <2>2, <2>3, <2>4 DEF AnyOf
  <2>6. g[T] = w[c] + g[T \ {c}]
    BY <1>1, <2>4, <2>5 DEF SumsOver
  <2>7. c # x
    BY <2>4, <2>6
  <2>8. /\ T \ {c} \in SUBSET S /\ T \ {x} \in SUBSET S /\ both \in SUBSET S
        /\ x \in T \ {c} /\ c \in T \ {x} /\ both = (T \ {x}) \ {c}
    BY <2>4, <2>5, <2>7
  <2>9. Cardinality(T \ {c}) < Cardinality(T) /\ Cardinality(T \ {x}) < Cardinality(T)
    BY <2>4, <2>5, SizesOfSubsets
  <2>10. T \ {c} \notin Bad /\ T \ {x} \notin Bad
    BY <2>3, <2>8, <2>9
  <2>11. g[T \ {c}] = w[x] + g[both] /\ g[T \ {x}] = w[c] + g[both]
    BY <2>8, <2>10 DEF Bad
  <2>12. w[x] \in Int /\ w[c] \in Int /\ g[both] \in Int
    BY <2>4, <2>5, <2>8
  <2>13. g[T] = w[c] + (w[x] + g[both]) /\ w[x] + g[T \ {x}] = w[x] + (w[c] + g[both])
    BY <2>6, <2>11
  <2> QED
    BY <2>4, <2>12, <2>13
<1>3. ASSUME NEW x \in S
      PROVE  g[S] = w[x] + g[S \ {x}]
  BY <1>2
<1>4. \A x \in S : S \ {x} \in SUBSET S
  OBVIOUS
<1> QED
  BY <1>1, <1>3, <1>4

\* A sum depends on the values of its terms only.
THEOREM SumOfSameTerms ==
    ASSUME NEW S, IsFiniteSet(S), NEW w, NEW v, \A x \in S : w[x] \in Int /\ v[x] = w[x]
    PROVE  SumFunctionOnSet(v, S) = SumFunctionOnSet(w, S)
<1>1. PICK g \in [SUBSET S -> Int] : SumsOver(g, w, S)
  BY SumExists
<1>2. \A T \in SUBSET S : T # {} => AnyOf(T) \in S
  BY DEF AnyOf
<1>3. SumsOver(g, v, S)
  BY <1>1, <1>2 DEF SumsOver
<1> QED
  BY <1>1, <1>3, SumOfFunction

\* Terms that are no greater give a sum that is no greater.
THEOREM SumIsMonotonic ==
    ASSUME NEW S, IsFiniteSet(S), NEW w, NEW v,
           \A x \in S : w[x] \in Int /\ v[x] \in Int /\ v[x] <= w[x]
    PROVE  SumFunctionOnSet(v, S) <= SumFunctionOnSet(w, S)
<1>1. PICK g \in [SUBSET S -> Int] : SumsOver(g, w, S)
  BY SumExists
<1>2. PICK h \in [SUBSET S -> Int] : SumsOver(h, v, S)
  BY SumExists
<1>. DEFINE Bad == {T \in SUBSET S : ~ (h[T] <= g[T])}
<1>3. Bad = {}
  <2>1. SUFFICES ASSUME Bad # {} PROVE FALSE
    OBVIOUS
  <2>2. Bad \in SUBSET (SUBSET S)
    OBVIOUS
  <2>. HIDE DEF Bad
  <2>3. PICK T \in Bad : \A U \in SUBSET S : Cardinality(U) < Cardinality(T) => U \notin Bad
    BY <2>1, <2>2, SmallestSubset
  <2>4. T \in SUBSET S /\ ~ (h[T] <= g[T])
    BY <2>3 DEF Bad
  <2>5. T # {}
    <3>1. g[{}] = 0 /\ h[{}] = 0
      BY <1>1, <1>2 DEF SumsOver
    <3>2. SUFFICES ASSUME T = {} PROVE FALSE
      OBVIOUS
    <3>3. h[T] = 0 /\ g[T] = 0
      BY <3>1, <3>2
    <3>4. 0 <= 0
      OBVIOUS
    <3>5. h[T] <= g[T]
      BY <3>3, <3>4
    <3> QED
      BY <2>4, <3>5
  <2>. DEFINE c == AnyOf(T)
  <2>6. c \in T /\ c \in S /\ T \ {c} \in SUBSET S
    BY <2>4, <2>5 DEF AnyOf
  <2>7. Cardinality(T \ {c}) < Cardinality(T)
    BY <2>4, <2>6, SizesOfSubsets
  <2>8. h[T \ {c}] <= g[T \ {c}]
    BY <2>3, <2>6, <2>7 DEF Bad
  <2>9. g[T] = w[c] + g[T \ {c}] /\ h[T] = v[c] + h[T \ {c}]
    BY <1>1, <1>2, <2>4, <2>5 DEF SumsOver
  <2>10. /\ w[c] \in Int /\ v[c] \in Int /\ v[c] <= w[c]
         /\ g[T \ {c}] \in Int /\ h[T \ {c}] \in Int
    BY <2>6
  <2> QED
    BY <2>4, <2>8, <2>9, <2>10
<1>4. h[S] <= g[S]
  BY <1>3
<1>5. SumFunctionOnSet(w, S) = g[S] /\ SumFunctionOnSet(v, S) = h[S]
  BY <1>1, <1>2, SumOfFunction
<1> QED
  BY <1>4, <1>5

\* The terms v are the terms w, but for that of i.
OneChanged(v, w, S, i) ==
    /\ \A x \in S : w[x] \in Int /\ v[x] \in Int
    /\ \A x \in S \ {i} : v[x] = w[x]

\* A sum of which one term changes.
THEOREM SumWithOneChanged ==
    ASSUME NEW S, IsFiniteSet(S), NEW w, NEW v, NEW i \in S, OneChanged(v, w, S, i)
    PROVE  SumFunctionOnSet(v, S) = SumFunctionOnSet(w, S) + v[i] - w[i]
<1>. DEFINE R == S \ {i}
<1>1. IsFiniteSet(R) /\ \A x \in R : w[x] \in Int /\ v[x] = w[x]
  BY FS_RemoveElement DEF OneChanged
<1>0. \A x \in S : w[x] \in Int /\ v[x] \in Int
  BY DEF OneChanged
<1>2. SumFunctionOnSet(v, R) = SumFunctionOnSet(w, R)
  BY <1>1, SumOfSameTerms
<1>3. /\ SumFunctionOnSet(w, R) \in Int
      /\ SumFunctionOnSet(w, S) = w[i] + SumFunctionOnSet(w, R)
      /\ SumFunctionOnSet(v, S) = v[i] + SumFunctionOnSet(v, R)
  BY <1>0, SumWithout
<1> QED
  BY <1>0, <1>2, <1>3

\* Induction on the subsets of a finite set.
THEOREM SubsetInduction ==
    ASSUME NEW S, IsFiniteSet(S), NEW P, {} \in P,
           \A T \in SUBSET S : \A x \in T : T \ {x} \in P => T \in P
    PROVE  S \in P
<1>. DEFINE Bad == {T \in SUBSET S : T \notin P}
<1>1. SUFFICES ASSUME Bad # {} PROVE FALSE
  OBVIOUS
<1>2. Bad \in SUBSET (SUBSET S)
  OBVIOUS
<1>. HIDE DEF Bad
<1>3. PICK T \in Bad : \A U \in SUBSET S : Cardinality(U) < Cardinality(T) => U \notin Bad
  BY <1>1, <1>2, SmallestSubset
<1>4. T \in SUBSET S /\ T \notin P /\ T # {}
  BY <1>3 DEF Bad
<1>5. PICK x \in T : TRUE
  BY <1>4
<1>6. T \ {x} \in SUBSET S /\ Cardinality(T \ {x}) \in Nat /\ Cardinality(T) \in Nat
      /\ Cardinality(T \ {x}) = Cardinality(T) - 1
  BY <1>4, SizesOfSubsets
<1>7. T \ {x} \in P
  BY <1>3, <1>6 DEF Bad
<1> QED
  BY <1>4, <1>7

\* The terms of u are k times those of w and those of v.
Combines(u, k, w, v, S) ==
    \A x \in S : w[x] \in Int /\ v[x] \in Int /\ u[x] = k * w[x] + v[x]

\* A multiple of a sum and another sum.
THEOREM SumOfCombination ==
    ASSUME NEW S, IsFiniteSet(S), NEW k \in Int, NEW u, NEW w, NEW v,
           Combines(u, k, w, v, S)
    PROVE  SumFunctionOnSet(u, S) = k * SumFunctionOnSet(w, S) + SumFunctionOnSet(v, S)
<1>. DEFINE Equal(T) ==
          SumFunctionOnSet(u, T) = k * SumFunctionOnSet(w, T) + SumFunctionOnSet(v, T)
            P == {T \in SUBSET S : Equal(T)}
<1>1. Equal({})
  BY SumOfNothing
<1>2. ASSUME NEW T \in SUBSET S, NEW x \in T, Equal(T \ {x})
      PROVE  Equal(T)
  <2>1. IsFiniteSet(T) /\ x \in S
    BY FS_Subset
  <2>2. \A y \in T : u[y] \in Int /\ w[y] \in Int /\ v[y] \in Int
    BY DEF Combines
  <2>. DEFINE R == T \ {x}
  <2>3. /\ SumFunctionOnSet(u, T) = u[x] + SumFunctionOnSet(u, R)
        /\ SumFunctionOnSet(w, T) = w[x] + SumFunctionOnSet(w, R)
        /\ SumFunctionOnSet(v, T) = v[x] + SumFunctionOnSet(v, R)
        /\ SumFunctionOnSet(w, R) \in Int /\ SumFunctionOnSet(v, R) \in Int
    <3>. HIDE DEF R
    <3> QED
      BY <2>1, <2>2, SumWithout DEF R
  <2>4. SumFunctionOnSet(u, R) = k * SumFunctionOnSet(w, R) + SumFunctionOnSet(v, R)
    BY <1>2
  <2>5. u[x] = k * w[x] + v[x] /\ w[x] \in Int /\ v[x] \in Int
    BY <2>1 DEF Combines
  <2>6. \A a, b, c, d \in Int : k * a + b + (k * c + d) = k * (a + c) + (b + d)
    OBVIOUS
  <2>. HIDE DEF R
  <2>7. u[x] + SumFunctionOnSet(u, R)
        = k * (w[x] + SumFunctionOnSet(w, R)) + (v[x] + SumFunctionOnSet(v, R))
    BY <2>3, <2>4, <2>5, <2>6
  <2> QED
    BY <2>3, <2>7
<1>3. {} \in P /\ \A T \in SUBSET S : \A x \in T : T \ {x} \in P => T \in P
  BY <1>1, <1>2
<1>. HIDE DEF P
<1>4. S \in P
  BY <1>3, SubsetInduction
<1> QED
  BY <1>4 DEF P

\* The sum of equal terms.
THEOREM SumOfConstant ==
    ASSUME NEW S, IsFiniteSet(S), NEW k \in Int, NEW w, \A x \in S : w[x] = k
    PROVE  SumFunctionOnSet(w, S) = Cardinality(S) * k
<1>. DEFINE Equal(T) == SumFunctionOnSet(w, T) = Cardinality(T) * k
            P == {T \in SUBSET S : Equal(T)}
<1>1. Equal({})
  BY SumOfNothing, FS_EmptySet
<1>2. ASSUME NEW T \in SUBSET S, NEW x \in T, Equal(T \ {x})
      PROVE  Equal(T)
  <2>1. IsFiniteSet(T) /\ \A y \in T : w[y] \in Int
    BY FS_Subset
  <2>2. SumFunctionOnSet(w, T) = w[x] + SumFunctionOnSet(w, T \ {x})
    BY <2>1, SumWithout
  <2>3. /\ Cardinality(T) \in Nat
        /\ Cardinality(T \ {x}) = Cardinality(T) - 1
    BY SizesOfSubsets
  <2>4. w[x] = k
    OBVIOUS
  <2>5. \A c \in Int : k + (c - 1) * k = c * k
    OBVIOUS
  <2> QED
    BY <1>2, <2>2, <2>3, <2>4, <2>5
<1>3. {} \in P /\ \A T \in SUBSET S : \A x \in T : T \ {x} \in P => T \in P
  BY <1>1, <1>2
<1>. HIDE DEF P
<1>4. S \in P
  BY <1>3, SubsetInduction
<1> QED
  BY <1>4 DEF P

\* Terms that are not negative give a sum that is not negative, and positive if one is.
THEOREM SumOfNaturals ==
    ASSUME NEW S, IsFiniteSet(S), NEW w, \A x \in S : w[x] \in Nat
    PROVE  /\ SumFunctionOnSet(w, S) \in Nat
           /\ \A x \in S : w[x] <= SumFunctionOnSet(w, S)
<1>. DEFINE P == {T \in SUBSET S : SumFunctionOnSet(w, T) \in Nat}
<1>1. SumFunctionOnSet(w, {}) \in Nat
  BY SumOfNothing
<1>2. ASSUME NEW T \in SUBSET S, NEW x \in T, SumFunctionOnSet(w, T \ {x}) \in Nat
      PROVE  SumFunctionOnSet(w, T) \in Nat
  <2>1. IsFiniteSet(T) /\ \A y \in T : w[y] \in Int
    BY FS_Subset
  <2>2. SumFunctionOnSet(w, T) = w[x] + SumFunctionOnSet(w, T \ {x})
    BY <2>1, SumWithout
  <2> QED
    BY <1>2, <2>2
<1>3. {} \in P /\ \A T \in SUBSET S : \A x \in T : T \ {x} \in P => T \in P
  BY <1>1, <1>2
<1>4. \A T \in SUBSET S : SumFunctionOnSet(w, T) \in Nat
  <2>1. SUFFICES ASSUME NEW T \in SUBSET S
                 PROVE  SumFunctionOnSet(w, T) \in Nat
    OBVIOUS
  <2>2. IsFiniteSet(T) /\ {} \in P
        /\ \A U \in SUBSET T : \A x \in U : U \ {x} \in P => U \in P
    BY <1>3, FS_Subset
  <2>. HIDE DEF P
  <2>3. T \in P
    BY <2>2, SubsetInduction
  <2> QED
    BY <2>3 DEF P
<1>5. ASSUME NEW x \in S
      PROVE  w[x] <= SumFunctionOnSet(w, S)
  <2>1. \A y \in S : w[y] \in Int
    OBVIOUS
  <2>2. SumFunctionOnSet(w, S) = w[x] + SumFunctionOnSet(w, S \ {x})
    BY <2>1, SumWithout
  <2>3. SumFunctionOnSet(w, S \ {x}) \in Nat /\ w[x] \in Nat
    BY <1>4
  <2> QED
    BY <2>2, <2>3
<1> QED
  BY <1>4, <1>5

(***************************************************************************)
(* Quotients.                                                              *)
(***************************************************************************)

\* What \div leaves out is less than the divisor.
LEMMA Division ==
    ASSUME NEW a \in Int, NEW d \in Nat \ {0}
    PROVE  /\ a \div d \in Int
           /\ (a \div d) * d <= a
           /\ a < (a \div d) * d + d
OBVIOUS

\* A multiple of d has d in it at least once.
LEMMA ExactQuotient ==
    ASSUME NEW a \in Nat \ {0}, NEW d \in Nat \ {0}, a % d = 0
    PROVE  a \div d \in Nat \ {0}
OBVIOUS

\* Factors that are not negative keep the order.
LEMMA Products ==
    ASSUME NEW a \in Int, NEW b \in Int, NEW k \in Nat, a <= b
    PROVE  k * a <= k * b /\ a * k <= b * k
OBVIOUS

\* A quotient is in the range that its dividend leaves it.
LEMMA QuotientInRange ==
    ASSUME NEW a \in Nat, NEW d \in Nat \ {0}, NEW k \in Nat, a <= k * d
    PROVE  a \div d \in 0..k
<1>. DEFINE q == a \div d
<1>1. q \in Int /\ q * d <= a /\ a < q * d + d
  BY Division
<1>. HIDE DEF q
<1>2. 0 <= q
  <2>1. SUFFICES ASSUME q <= -1 PROVE FALSE
    BY <1>1
  <2>2. q * d <= (-1) * d
    BY <1>1, <2>1, Products
  <2> QED
    BY <1>1, <2>2
<1>3. q <= k
  <2>1. SUFFICES ASSUME k + 1 <= q PROVE FALSE
    BY <1>1
  <2>2. (k + 1) * d <= q * d
    BY <1>1, <2>1, Products
  <2>3. (k + 1) * d = k * d + d
    OBVIOUS
  <2>4. k * d \in Int /\ q * d \in Int
    BY <1>1
  <2> QED
    BY <1>1, <2>2, <2>3, <2>4
<1> QED
  BY <1>1, <1>2, <1>3 DEF q

(***************************************************************************)
(* Sorted lists.                                                           *)
(***************************************************************************)
Orders(R, S) ==
    /\ \A x \in S : <<x, x>> \notin R
    /\ \A x, y \in S : x # y => <<x, y>> \in R \/ <<y, x>> \in R
    /\ \A x, y, z \in S : <<x, y>> \in R /\ <<y, z>> \in R => <<x, z>> \in R

\* list has each member of S once, in the order R.
Sorts(list, S, R) ==
    /\ list \in Seq(S)
    /\ Len(list) = Cardinality(S)
    /\ \A x \in S : \E k \in DOMAIN list : list[k] = x
    /\ \A j, k \in DOMAIN list : j < k => <<list[j], list[k]>> \in R
    /\ \A j, k \in DOMAIN list : list[j] = list[k] => j = k

Prior(x, S, R) == {y \in S : <<y, x>> \in R}

\* A member's place is the number of members before it; an order gives each its own.
LEMMA PlacesAreDistinct ==
    ASSUME NEW S, IsFiniteSet(S), NEW R, Orders(R, S)
    PROVE  /\ \A x \in S : Cardinality(Prior(x, S, R)) \in 0..(Cardinality(S) - 1)
           /\ \A x, y \in S : <<x, y>> \in R
                 => Cardinality(Prior(x, S, R)) < Cardinality(Prior(y, S, R))
<1>1. \A x \in S : IsFiniteSet(Prior(x, S, R)) /\ Cardinality(Prior(x, S, R)) \in Nat
  BY FS_Subset, FS_CardinalityType DEF Prior
<1>2. Cardinality(S) \in Nat
  BY FS_CardinalityType
<1>3. ASSUME NEW x \in S, NEW T \in SUBSET S, Prior(x, S, R) \subseteq T \ {x}, x \in T
      PROVE  Cardinality(Prior(x, S, R)) < Cardinality(T)
  <2>1. IsFiniteSet(T) /\ Cardinality(T) \in Nat
    BY FS_Subset, FS_CardinalityType
  <2>2. IsFiniteSet(T \ {x}) /\ Cardinality(T \ {x}) = Cardinality(T) - 1
    BY <1>3, <2>1, FS_RemoveElement
  <2>3. Cardinality(Prior(x, S, R)) <= Cardinality(T \ {x})
    BY <1>3, <2>2, FS_Subset
  <2> QED
    BY <1>1, <2>1, <2>2, <2>3
<1>4. ASSUME NEW x \in S PROVE Cardinality(Prior(x, S, R)) \in 0..(Cardinality(S) - 1)
  <2>1. Prior(x, S, R) \subseteq S \ {x}
    BY DEF Prior, Orders
  <2>2. Cardinality(Prior(x, S, R)) < Cardinality(S)
    BY <1>3, <2>1
  <2> QED
    BY <1>1, <1>2, <2>2
<1>5. ASSUME NEW x \in S, NEW y \in S, <<x, y>> \in R
      PROVE  Cardinality(Prior(x, S, R)) < Cardinality(Prior(y, S, R))
  <2>1. Prior(y, S, R) \in SUBSET S /\ x \in Prior(y, S, R)
    BY <1>5 DEF Prior
  <2>2. Prior(x, S, R) \subseteq Prior(y, S, R) \ {x}
    BY <1>5 DEF Prior, Orders
  <2> QED
    BY <1>3, <2>1, <2>2
<1> QED
  BY <1>4, <1>5

\* Arranged has every member once, in the order given.
THEOREM ArrangedSorts ==
    ASSUME NEW S, IsFiniteSet(S), NEW R, Orders(R, S)
    PROVE  Sorts(Arranged(S, R), S, R)
<1>. DEFINE n == Cardinality(S)
            place == [x \in S |-> Cardinality(Prior(x, S, R))]
<1>1. n \in Nat
  BY FS_CardinalityType
<1>2. \A x \in S : place[x] \in 0..(n - 1)
  BY PlacesAreDistinct
<1>3. \A x, y \in S : <<x, y>> \in R => place[x] < place[y]
  BY PlacesAreDistinct
<1>4. place \in [S -> 0..(n - 1)]
  BY <1>2
<1>5. \A k \in 1..n : Arranged(S, R)[k] = CHOOSE x \in S : place[x] = k - 1
  BY DEF Arranged, Prior
<1>6. DOMAIN Arranged(S, R) = 1..n
  BY DEF Arranged
<1>7. \A x, y \in S : place[x] = place[y] => x = y
  <2>1. TAKE x, y \in S
  <2>2. HAVE place[x] = place[y]
  <2>3. place[x] \in Int /\ place[y] \in Int
    BY <1>2
  <2>4. ~ (<<x, y>> \in R) /\ ~ (<<y, x>> \in R)
    BY <1>3, <2>2, <2>3
  <2> QED
    BY <2>4 DEF Orders
<1>. HIDE DEF place
<1>8. place \in Injection(S, 0..(n - 1))
  BY <1>4, <1>7 DEF Injection, IsInjective
<1>9. IsFiniteSet(0..(n - 1)) /\ Cardinality(0..(n - 1)) = n
  <2>1. 0 \in Int /\ n - 1 \in Int
    BY <1>1
  <2>2. IsFiniteSet(0..(n - 1)) /\ Cardinality(0..(n - 1)) = IF 0 > n - 1 THEN 0 ELSE n - 1 - 0 + 1
    BY <2>1, FS_Interval
  <2> QED
    BY <1>1, <2>2
<1>10. place \in Surjection(S, 0..(n - 1))
  BY <1>8, <1>9, FS_Injection
<1>11. \A k \in 1..n : Arranged(S, R)[k] \in S /\ place[Arranged(S, R)[k]] = k - 1
  <2>1. TAKE k \in 1..n
  <2>2. k - 1 \in 0..(n - 1)
    BY <1>1
  <2>3. \E x \in S : place[x] = k - 1
    BY <1>10, <2>2 DEF Surjection
  <2> QED
    BY <1>5, <2>3
<1>12. Arranged(S, R) \in Seq(S) /\ Len(Arranged(S, R)) = n
  <2>1. Arranged(S, R) \in [1..n -> S]
    BY <1>6, <1>11 DEF Arranged
  <2> QED
    BY <1>1, <2>1
<1>13. ASSUME NEW x \in S PROVE \E k \in 1..n : Arranged(S, R)[k] = x
  <2>1. place[x] \in 0..(n - 1)
    BY <1>2
  <2>2. place[x] + 1 \in 1..n /\ (place[x] + 1) - 1 = place[x]
    BY <1>1, <2>1
  <2> QED
    BY <1>7, <1>11, <2>2
<1>14. ASSUME NEW j \in 1..n, NEW k \in 1..n, j < k
       PROVE  <<Arranged(S, R)[j], Arranged(S, R)[k]>> \in R
  <2>. DEFINE x == Arranged(S, R)[j]
              y == Arranged(S, R)[k]
  <2>1. x \in S /\ y \in S /\ place[x] = j - 1 /\ place[y] = k - 1
    BY <1>11
  <2>. HIDE DEF x, y
  <2>2. x # y /\ ~ (<<y, x>> \in R)
    BY <1>3, <1>14, <2>1
  <2>3. <<x, y>> \in R
    BY <2>1, <2>2 DEF Orders
  <2> QED
    BY <2>3 DEF x, y
<1>15. ASSUME NEW j \in 1..n, NEW k \in 1..n, Arranged(S, R)[j] = Arranged(S, R)[k] PROVE j = k
  <2>1. j - 1 = k - 1
    BY <1>11, <1>15
  <2> QED
    BY <2>1
<1> QED
  BY <1>6, <1>12, <1>13, <1>14, <1>15 DEF Sorts

\* The order of numbers.
Ascending(K) == {p \in K \X K : p[1] < p[2]}

LEMMA NumbersAreOrdered ==
    ASSUME NEW K \in SUBSET Int
    PROVE  Orders(Ascending(K), K)
<1>1. \A i, j \in K : <<i, j>> \in Ascending(K) <=> i < j
  BY DEF Ascending
<1>2. \A i \in K : i \in Int
  OBVIOUS
<1> QED
  BY <1>1, <1>2 DEF Orders

PicksAt(position, list, K) ==
    /\ Sorts(position, K, Ascending(K))
    /\ \A j, k \in DOMAIN position : j < k => position[j] < position[k]
    /\ Picked(list, K) = [k \in DOMAIN position |-> list[position[k]]]

\* A sublist keeps the order: it is what the list has at positions that ascend, each of
\* those asked for once.
THEOREM PickedKeepsOrder ==
    ASSUME NEW list, NEW n \in Nat, NEW K \in SUBSET (1..n)
    PROVE  \E position \in Seq(K) : PicksAt(position, list, K)
<1>1. IsFiniteSet(K)
  <2>1. 1 \in Int /\ n \in Int
    OBVIOUS
  <2> QED
    BY <2>1, FS_Interval, FS_Subset
<1>2. K \in SUBSET Int
  OBVIOUS
<1>. DEFINE position == Arranged(K, Ascending(K))
<1>3. Sorts(position, K, Ascending(K))
  BY <1>1, <1>2, NumbersAreOrdered, ArrangedSorts
<1>4. Picked(list, K) = [k \in DOMAIN position |-> list[position[k]]]
  BY DEF Picked, Ascending
<1>. HIDE DEF position
<1>5. position \in Seq(K)
  BY <1>3 DEF Sorts
<1>6. \A j, k \in DOMAIN position : j < k => position[j] < position[k]
  BY <1>3 DEF Sorts, Ascending
<1> QED
  BY <1>3, <1>4, <1>5, <1>6 DEF PicksAt

\* All of a list.
LEMMA PickedAll ==
    ASSUME NEW S, NEW list \in Seq(S)
    PROVE  Picked(list, DOMAIN list) = list
<1>. DEFINE n == Len(list)
<1>1. n \in Nat /\ DOMAIN list = 1..n /\ list = [k \in 1..n |-> list[k]]
  OBVIOUS
<1>. HIDE DEF n
<1>2. \A k \in 1..n : Cardinality({j \in 1..n : <<j, k>> \in Ascending(1..n)}) = k - 1
  <2>1. TAKE k \in 1..n
  <2>2. {j \in 1..n : <<j, k>> \in Ascending(1..n)} = 1..(k - 1)
    BY <1>1 DEF Ascending
  <2>3. 1 \in Int /\ k - 1 \in Int
    BY <1>1
  <2>4. Cardinality(1..(k - 1)) = IF 1 > k - 1 THEN 0 ELSE k - 1 - 1 + 1
    BY <2>3, FS_Interval
  <2>5. (IF 1 > k - 1 THEN 0 ELSE k - 1 - 1 + 1) = k - 1
    BY <1>1
  <2>6. Cardinality(1..(k - 1)) = k - 1
    BY <2>4, <2>5
  <2> QED
    BY <2>2, <2>6
<1>3. Cardinality(1..n) = n
  <2>1. 1 \in Int /\ n \in Int
    BY <1>1
  <2>2. Cardinality(1..n) = IF 1 > n THEN 0 ELSE n - 1 + 1
    BY <2>1, FS_Interval
  <2> QED
    BY <1>1, <2>2
<1>. DEFINE position == Arranged(1..n, Ascending(1..n))
<1>4. DOMAIN position = 1..n
  BY <1>3 DEF Arranged
<1>5. \A k \in 1..n : position[k] = k
  <2>1. TAKE k \in 1..n
  <2>2. \A x \in 1..n : Cardinality({y \in 1..n : <<y, x>> \in Ascending(1..n)}) = k - 1 <=> x = k
    BY <1>2, <1>1
  <2>3. position[k] = CHOOSE x \in 1..n : Cardinality({y \in 1..n : <<y, x>> \in Ascending(1..n)}) = k - 1
    BY <1>3 DEF Arranged
  <2> QED
    BY <2>2, <2>3
<1>6. Picked(list, 1..n) = [k \in DOMAIN position |-> list[position[k]]]
  BY DEF Picked, Ascending
<1>. HIDE DEF position
<1> QED
  BY <1>1, <1>4, <1>5, <1>6
=============================================================================
