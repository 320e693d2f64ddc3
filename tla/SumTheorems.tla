------------------------------ MODULE SumTheorems ------------------------------
(***************************************************************************)
(* What the proofs about prices, reports and counted tickets need to know  *)
(* of SumFunctionOnSet of the community modules, over any finite set: it   *)
(* is a recursion over sets from which some element is removed, so each    *)
(* fact is proved by induction over the subsets of a finite set.           *)
(***************************************************************************)
EXTENDS Integers, FiniteSets, FiniteSetsExt, FiniteSetTheorems, WellFoundedInduction, TLAPS

Less == {p \in Nat \X Nat : p[1] < p[2]}

\* A set of numbers that has a member has a smallest one.
LEMMA SmallestNumber ==
  ASSUME NEW N, N \subseteq Nat, N # {}
  PROVE  \E n \in N : \A m \in N : n <= m
<1>1. IsWellFoundedOn(Less, Nat)
  BY NatLessThanWellFounded DEF OpToRel, Less
<1>2. PICK n \in N : \A m \in N : <<m, n>> \notin Less
  BY <1>1, WFMin
<1>3. \A m \in N : m \in Nat /\ n \in Nat
  OBVIOUS
<1>4. \A m \in N : ~(m < n)
  BY <1>2, <1>3 DEF Less
<1> QED BY <1>3, <1>4

\* Induction over a finite set: a nonempty set of its subsets has a member that
\* no longer belongs to it without any one of its elements.
LEMMA SmallestSubset ==
  ASSUME NEW U, IsFiniteSet(U), NEW T, T \subseteq SUBSET U, T # {}
  PROVE  \E s \in T : \A x \in s : s \ {x} \notin T
<1> DEFINE Sizes == {Cardinality(s) : s \in T}
<1>1. Sizes \subseteq Nat /\ Sizes # {}
  BY FS_Subset, FS_CardinalityType
<1>2. PICK n \in Sizes : \A m \in Sizes : n <= m
  <2> HIDE DEF Sizes
  <2> QED BY <1>1, SmallestNumber
<1>3. PICK s \in T : n = Cardinality(s)
  BY <1>2
<1>4. ASSUME NEW x \in s, s \ {x} \in T PROVE FALSE
  <2>1. Cardinality(s \ {x}) = n - 1
    BY <1>3, FS_Subset, FS_RemoveElement
  <2>2. n \in Nat /\ n <= n - 1
    BY <1>1, <1>2, <1>4, <2>1
  <2> QED BY <2>2
<1> QED BY <1>4

\* Induction over the subsets of a finite set, with the property as a set.
LEMMA SubsetInduction ==
  ASSUME NEW U, IsFiniteSet(U), NEW Good, {} \in Good,
         \A s \in SUBSET U : s # {} /\ (\A x \in s : s \ {x} \in Good) => s \in Good
  PROVE  \A s \in SUBSET U : s \in Good
<1> DEFINE Bad == (SUBSET U) \ Good
<1>1. ASSUME NEW s \in Bad, \A x \in s : s \ {x} \notin Bad PROVE FALSE
  BY <1>1
<1>2. Bad \subseteq SUBSET U
  OBVIOUS
<1> HIDE DEF Bad
<1>3. Bad = {}
  BY <1>1, <1>2, SmallestSubset
<1> QED BY <1>3 DEF Bad

Some(s) == CHOOSE x \in s : TRUE

\* The recursion behind SumFunctionOnSet, over sets of a family closed under the
\* removal of elements.
Summed(f, D, g) == g = [s \in D |-> IF s = {} THEN 0 ELSE f[Some(s)] + g[s \ {Some(s)}]]
Sums(f, S) == CHOOSE g : Summed(f, SUBSET S, g)

\* A set that has a member has the chosen one.
LEMMA SomeIsIn == \A s : s # {} => Some(s) \in s
BY DEF Some

\* The definition of SumFunctionOnSet, through those of the folds, is this recursion.
LEMMA SumIsSums == ASSUME NEW f, NEW S PROVE SumFunctionOnSet(f, S) = Sums(f, S)[S]
BY DEF SumFunctionOnSet, FoldFunctionOnSet, MapThenFoldSet, Sums, Summed, Some

\* The recursion has a solution: one for small sets extends to larger ones.
LEMMA SumsExist ==
  ASSUME NEW f, NEW S, IsFiniteSet(S)
  PROVE  Summed(f, SUBSET S, Sums(f, S))
<1> DEFINE Small(n) == {s \in SUBSET S : Cardinality(s) <= n}
           Bad == {n \in Nat : ~ \E g : Summed(f, Small(n), g)}
<1>1. \A s \in SUBSET S : IsFiniteSet(s) /\ Cardinality(s) \in Nat /\ Cardinality(s) <= Cardinality(S)
  BY FS_Subset, FS_CardinalityType
<1>2. ASSUME NEW n \in Bad, \A m \in Bad : n <= m PROVE FALSE
  <2>1. CASE n = 0
    <3>1. Small(0) = {{}}
      BY <1>1, FS_EmptySet
    <3>2. Summed(f, Small(0), [s \in {{}} |-> 0])
      BY <3>1 DEF Summed
    <3> QED BY <2>1, <3>2
  <2>2. CASE n # 0
    <3>0. n \in Nat /\ n - 1 \in Nat
      BY <2>2
    <3>1. n - 1 \notin Bad
      <4> HIDE DEF Bad
      <4> QED BY <1>2, <3>0
    <3>2. PICK g : Summed(f, Small(n - 1), g)
      BY <3>0, <3>1
    <3> DEFINE h == [s \in Small(n) |-> IF s = {} THEN 0 ELSE f[Some(s)] + g[s \ {Some(s)}]]
    <3>3. \A s \in Small(n - 1) : h[s] = g[s]
      <4>1. \A s \in Small(n - 1) : s \in Small(n)
        BY <1>1, <3>0
      <4> HIDE DEF Small
      <4>2. \A s \in Small(n - 1) :
              g[s] = IF s = {} THEN 0 ELSE f[Some(s)] + g[s \ {Some(s)}]
        BY <3>2 DEF Summed
      <4> QED BY <4>1, <4>2
    <3>4. ASSUME NEW s \in Small(n), s # {} PROVE s \ {Some(s)} \in Small(n - 1)
      <4>1. Cardinality(s \ {Some(s)}) = Cardinality(s) - 1
        BY <1>1, <3>4, SomeIsIn, FS_RemoveElement
      <4> QED BY <1>1, <4>1
    <3>5. h = [s \in Small(n) |-> IF s = {} THEN 0 ELSE f[Some(s)] + h[s \ {Some(s)}]]
      <4>1. \A s \in Small(n) : s # {} => h[s \ {Some(s)}] = g[s \ {Some(s)}]
        BY <3>3, <3>4
      <4> QED BY <4>1
    <3>6. Summed(f, Small(n), h)
      BY <3>5 DEF Summed
    <3> QED BY <1>2, <3>6
  <2> QED BY <2>1, <2>2
<1>3. Bad = {}
  <2> HIDE DEF Bad
  <2>1. Bad \subseteq Nat
    BY DEF Bad
  <2> QED BY <1>2, <2>1, SmallestNumber
<1>4. Cardinality(S) \in Nat /\ Small(Cardinality(S)) = SUBSET S
  BY <1>1, FS_CardinalityType
<1>5. \E g : Summed(f, SUBSET S, g)
  BY <1>3, <1>4
<1> QED BY <1>5 DEF Sums

\* The sum over a subset does not depend on the set it is a subset of.
LEMMA SumsAgree ==
  ASSUME NEW f, NEW S, IsFiniteSet(S), NEW T \in SUBSET S
  PROVE  \A s \in SUBSET T : Sums(f, T)[s] = Sums(f, S)[s]
<1> DEFINE Good == {s \in SUBSET T : Sums(f, T)[s] = Sums(f, S)[s]}
<1>1. Summed(f, SUBSET S, Sums(f, S)) /\ Summed(f, SUBSET T, Sums(f, T)) /\ IsFiniteSet(T)
  BY SumsExist, FS_Subset
<1>2. {} \in Good
  BY <1>1 DEF Summed
<1>3. ASSUME NEW s \in SUBSET T, s # {}, \A x \in s : s \ {x} \in Good PROVE s \in Good
  <2>1. s \ {Some(s)} \in Good
    BY <1>3, SomeIsIn
  <2> QED BY <1>1, <1>3, <2>1 DEF Summed
<1> HIDE DEF Good
<1>4. \A s \in SUBSET T : s \in Good
  BY <1>1, <1>2, <1>3, SubsetInduction
<1> QED BY <1>4 DEF Good
-------------------------------------------------------------------------------
Sum(f, S) == SumFunctionOnSet(f, S)

\* A sum is that of one chosen element and of the rest; from here on this is all
\* that is used of the definition.
LEMMA SumUnfolds ==
  ASSUME NEW f, NEW S, IsFiniteSet(S)
  PROVE  Sum(f, S) = IF S = {} THEN 0 ELSE f[Some(S)] + Sum(f, S \ {Some(S)})
<1> DEFINE R == S \ {Some(S)}
<1>1. Summed(f, SUBSET S, Sums(f, S))
  BY SumsExist
<1>2. Sums(f, S)[S] = IF S = {} THEN 0 ELSE f[Some(S)] + Sums(f, S)[R]
  BY <1>1 DEF Summed
<1>3. Sums(f, R)[R] = Sums(f, S)[R]
  BY SumsAgree
<1>4. Sum(f, S) = Sums(f, S)[S] /\ Sum(f, R) = Sums(f, R)[R]
  BY SumIsSums DEF Sum
<1> QED BY <1>2, <1>3, <1>4

\* Only the numbers of the members count.
LEMMA SumEqual ==
  ASSUME NEW f, NEW g, NEW S, IsFiniteSet(S), \A x \in S : f[x] = g[x]
  PROVE  Sum(f, S) = Sum(g, S)
<1> DEFINE Good == {s \in SUBSET S : Sum(f, s) = Sum(g, s)}
<1>1. {} \in Good
  BY SumUnfolds, FS_EmptySet
<1>2. ASSUME NEW s \in SUBSET S, s # {}, \A x \in s : s \ {x} \in Good PROVE s \in Good
  <2>1. Some(s) \in s /\ s \ {Some(s)} \in Good /\ IsFiniteSet(s)
    BY <1>2, SomeIsIn, FS_Subset
  <2> QED BY <1>2, <2>1, SumUnfolds
<1> HIDE DEF Good
<1>3. \A s \in SUBSET S : s \in Good
  BY <1>1, <1>2, SubsetInduction
<1> QED BY <1>3 DEF Good

\* A sum of integers is an integer.
LEMMA SumIsInt ==
  ASSUME NEW f, NEW S, IsFiniteSet(S), \A x \in S : f[x] \in Int
  PROVE  Sum(f, S) \in Int
<1> DEFINE Good == {s \in SUBSET S : Sum(f, s) \in Int}
<1>1. {} \in Good
  <2>1. Sum(f, {}) = 0
    BY SumUnfolds, FS_EmptySet
  <2> QED BY <2>1
<1>2. ASSUME NEW s \in SUBSET S, s # {}, \A x \in s : s \ {x} \in Good PROVE s \in Good
  <2>1. Some(s) \in s /\ s \ {Some(s)} \in Good /\ IsFiniteSet(s)
    BY <1>2, SomeIsIn, FS_Subset
  <2>2. f[Some(s)] + Sum(f, s \ {Some(s)}) \in Int
    BY <2>1
  <2> QED BY <1>2, <2>1, <2>2, SumUnfolds
<1> HIDE DEF Good
<1>3. \A s \in SUBSET S : s \in Good
  BY <1>1, <1>2, SubsetInduction
<1> QED BY <1>3 DEF Good

\* Nor is a sum of natural numbers below zero.
LEMMA SumIsNat ==
  ASSUME NEW f, NEW S, IsFiniteSet(S), \A x \in S : f[x] \in Nat
  PROVE  Sum(f, S) \in Nat
<1> DEFINE Good == {s \in SUBSET S : Sum(f, s) \in Nat}
<1>1. {} \in Good
  <2>1. Sum(f, {}) = 0
    BY SumUnfolds, FS_EmptySet
  <2> QED BY <2>1
<1>2. ASSUME NEW s \in SUBSET S, s # {}, \A x \in s : s \ {x} \in Good PROVE s \in Good
  <2>1. Some(s) \in s /\ s \ {Some(s)} \in Good /\ IsFiniteSet(s)
    BY <1>2, SomeIsIn, FS_Subset
  <2>2. f[Some(s)] + Sum(f, s \ {Some(s)}) \in Nat
    BY <2>1
  <2> QED BY <1>2, <2>1, <2>2, SumUnfolds
<1> HIDE DEF Good
<1>3. \A s \in SUBSET S : s \in Good
  BY <1>1, <1>2, SubsetInduction
<1> QED BY <1>3 DEF Good

\* Any member may be counted first.
LEMMA SumRemove ==
  ASSUME NEW f, NEW S, IsFiniteSet(S), \A x \in S : f[x] \in Int
  PROVE  \A x \in S : Sum(f, S) = f[x] + Sum(f, S \ {x})
<1> DEFINE Good == {s \in SUBSET S : \A x \in s : Sum(f, s) = f[x] + Sum(f, s \ {x})}
<1>1. {} \in Good
  OBVIOUS
<1>2. ASSUME NEW s \in SUBSET S, s # {}, \A x \in s : s \ {x} \in Good PROVE s \in Good
  <2>1. \A t \in SUBSET s : IsFiniteSet(t) /\ Sum(f, t) \in Int
    BY FS_Subset, SumIsInt
  <2>2. PICK y \in s : Sum(f, s) = f[y] + Sum(f, s \ {y})
    <3>1. IsFiniteSet(s) /\ Some(s) \in s
      BY <1>2, <2>1, SomeIsIn
    <3>2. Sum(f, s) = f[Some(s)] + Sum(f, s \ {Some(s)})
      BY <1>2, <3>1, SumUnfolds
    <3> QED BY <3>1, <3>2
  <2>3. ASSUME NEW x \in s, x # y PROVE Sum(f, s) = f[x] + Sum(f, s \ {x})
    <3> DEFINE r == Sum(f, s \ {x, y})
    <3>1. s \ {x, y} = (s \ {y}) \ {x} /\ s \ {x, y} = (s \ {x}) \ {y}
      OBVIOUS
    <3>2. Sum(f, s \ {y}) = f[x] + r /\ Sum(f, s \ {x}) = f[y] + r
      BY <1>2, <2>3, <3>1
    <3>3. f[x] \in Int /\ f[y] \in Int /\ r \in Int
      BY <2>1
    <3> HIDE DEF r
    <3> QED BY <2>2, <3>2, <3>3
  <2> QED BY <2>2, <2>3
<1> HIDE DEF Good
<1>3. \A s \in SUBSET S : s \in Good
  BY <1>1, <1>2, SubsetInduction
<1> QED BY <1>3 DEF Good

\* The sum over two sets that have no member in common.
LEMMA SumUnion ==
  ASSUME NEW f, NEW S, NEW T, IsFiniteSet(S), IsFiniteSet(T), S \cap T = {},
         \A x \in S \cup T : f[x] \in Int
  PROVE  Sum(f, S \cup T) = Sum(f, S) + Sum(f, T)
<1> DEFINE Good == {s \in SUBSET S : Sum(f, s \cup T) = Sum(f, s) + Sum(f, T)}
<1>0. IsFiniteSet(S \cup T)
  BY FS_Union
<1>1. \A t \in SUBSET (S \cup T) : IsFiniteSet(t) /\ Sum(f, t) \in Int
  BY <1>0, FS_Subset, SumIsInt
<1>2. {} \in Good
  <2>1. Sum(f, {}) = 0 /\ {} \cup T = T
    BY SumUnfolds, FS_EmptySet
  <2> QED BY <1>1, <2>1
<1>3. ASSUME NEW s \in SUBSET S, s # {}, \A x \in s : s \ {x} \in Good PROVE s \in Good
  <2>1. PICK x : x \in s
    BY <1>3
  <2>2. Sum(f, s \cup T) = f[x] + Sum(f, (s \cup T) \ {x})
    BY <1>1, <2>1, SumRemove
  <2>3. (s \cup T) \ {x} = (s \ {x}) \cup T
    BY <2>1
  <2>4. Sum(f, (s \ {x}) \cup T) = Sum(f, s \ {x}) + Sum(f, T)
    BY <1>3, <2>1
  <2>5. Sum(f, s) = f[x] + Sum(f, s \ {x})
    BY <1>1, <2>1, SumRemove
  <2>6. f[x] \in Int /\ Sum(f, s \ {x}) \in Int /\ Sum(f, T) \in Int
    BY <1>1, <2>1
  <2>7. Sum(f, s \cup T) = f[x] + (Sum(f, s \ {x}) + Sum(f, T))
    BY <2>2, <2>3, <2>4
  <2>8. Sum(f, s \cup T) = Sum(f, s) + Sum(f, T)
    BY <2>5, <2>6, <2>7
  <2> QED BY <2>8
<1> HIDE DEF Good
<1>4. \A s \in SUBSET S : s \in Good
  BY <1>2, <1>3, SubsetInduction
<1> QED BY <1>4 DEF Good

\* Equal numbers add up to a multiple.
LEMMA SumOfEquals ==
  ASSUME NEW f, NEW S, IsFiniteSet(S), NEW n \in Int, \A x \in S : f[x] = n
  PROVE  Sum(f, S) = n * Cardinality(S)
<1> DEFINE Good == {s \in SUBSET S : Sum(f, s) = n * Cardinality(s)}
<1>1. {} \in Good
  <2>1. Sum(f, {}) = 0 /\ Cardinality({}) = 0
    BY SumUnfolds, FS_EmptySet
  <2>2. n * 0 = 0
    OBVIOUS
  <2> QED BY <2>1, <2>2
<1>2. ASSUME NEW s \in SUBSET S, s # {}, \A x \in s : s \ {x} \in Good PROVE s \in Good
  <2>1. Some(s) \in s /\ s \ {Some(s)} \in Good /\ IsFiniteSet(s) /\ f[Some(s)] = n
    BY <1>2, SomeIsIn, FS_Subset
  <2>2. Cardinality(s \ {Some(s)}) = Cardinality(s) - 1 /\ Cardinality(s) \in Nat
    BY <2>1, FS_RemoveElement, FS_CardinalityType
  <2>3. Sum(f, s) = n + n * (Cardinality(s) - 1)
    BY <1>2, <2>1, <2>2, SumUnfolds
  <2>4. Sum(f, s) = n * Cardinality(s)
    BY <2>2, <2>3
  <2> QED BY <2>4
<1> HIDE DEF Good
<1>3. \A s \in SUBSET S : s \in Good
  BY <1>1, <1>2, SubsetInduction
<1> QED BY <1>3 DEF Good

\* The sum over an image, each member of which is the image of one element.
LEMMA SumOfImage ==
  ASSUME NEW f, NEW g, NEW S, IsFiniteSet(S), NEW h,
         \A x \in S : f[x] = g[h[x]] /\ f[x] \in Int,
         \A x, y \in S : h[x] = h[y] => x = y
  PROVE  Sum(g, {h[x] : x \in S}) = Sum(f, S) /\ IsFiniteSet({h[x] : x \in S})
<1> DEFINE Image(s) == {h[x] : x \in s}
           Good == {s \in SUBSET S : IsFiniteSet(Image(s)) /\ Sum(g, Image(s)) = Sum(f, s)}
<1>1. {} \in Good
  <2>1. Image({}) = {}
    OBVIOUS
  <2> QED BY <2>1, SumUnfolds, FS_EmptySet
<1>2. ASSUME NEW s \in SUBSET S, s # {}, \A x \in s : s \ {x} \in Good PROVE s \in Good
  <2>1. PICK x : x \in s
    BY <1>2
  <2>2. Image(s) = Image(s \ {x}) \cup {h[x]} /\ Image(s) \ {h[x]} = Image(s \ {x})
    BY <2>1
  <2>3. IsFiniteSet(s) /\ IsFiniteSet(Image(s \ {x})) /\ Sum(g, Image(s \ {x})) = Sum(f, s \ {x})
    BY <1>2, <2>1, FS_Subset
  <2>4. IsFiniteSet(Image(s))
    <3>1. IsFiniteSet(Image(s \ {x}) \cup {h[x]})
      BY <2>3, FS_AddElement
    <3> QED BY <2>2, <3>1
  <2>5. h[x] \in Image(s) /\ \A z \in Image(s) : g[z] \in Int
    BY <2>1
  <2> HIDE DEF Image
  <2>6. Sum(g, Image(s)) = g[h[x]] + Sum(g, Image(s) \ {h[x]})
    BY <2>4, <2>5, SumRemove
  <2>7. Sum(f, s) = f[x] + Sum(f, s \ {x})
    BY <2>1, <2>3, SumRemove
  <2>8. Sum(g, Image(s)) = Sum(f, s)
    BY <2>1, <2>2, <2>3, <2>6, <2>7
  <2> QED BY <2>4, <2>8
<1> HIDE DEF Good
<1>3. \A s \in SUBSET S : s \in Good
  BY <1>1, <1>2, SubsetInduction
<1> QED BY <1>3 DEF Good

\* A sum by parts: over the members that h sends to the same y, for each y.
Part(S, h, y) == {x \in S : h[x] = y}

LEMMA SumByParts ==
  ASSUME NEW f, NEW S, IsFiniteSet(S), \A x \in S : f[x] \in Int,
         NEW h, NEW Y, IsFiniteSet(Y), \A x \in S : h[x] \in Y,
         NEW g, \A y \in Y : g[y] = Sum(f, Part(S, h, y))
  PROVE  Sum(g, Y) = Sum(f, S)
<1> DEFINE Over(t) == {x \in S : h[x] \in t}
           Good == {t \in SUBSET Y : Sum(g, t) = Sum(f, Over(t))}
<1>1. \A s \in SUBSET S : IsFiniteSet(s) /\ Sum(f, s) \in Int
  BY FS_Subset, SumIsInt
<1>2. \A y \in Y : g[y] \in Int
  BY <1>1 DEF Part
<1>3. {} \in Good
  <2>1. Over({}) = {}
    OBVIOUS
  <2> QED BY <2>1, SumUnfolds, FS_EmptySet
<1>4. ASSUME NEW t \in SUBSET Y, t # {}, \A y \in t : t \ {y} \in Good PROVE t \in Good
  <2>1. PICK y : y \in t
    BY <1>4
  <2>2. Sum(g, t) = g[y] + Sum(g, t \ {y})
    BY <1>2, <2>1, FS_Subset, SumRemove
  <2>3. Sum(g, t \ {y}) = Sum(f, Over(t \ {y}))
    BY <1>4, <2>1
  <2>4. g[y] = Sum(f, Over({y}))
    <3>1. Over({y}) = Part(S, h, y)
      BY DEF Part
    <3> QED BY <2>1, <3>1
  <2>5. Over(t) = Over({y}) \cup Over(t \ {y}) /\ Over({y}) \cap Over(t \ {y}) = {}
    BY <2>1
  <2>6. Over({y}) \in SUBSET S /\ Over(t \ {y}) \in SUBSET S
    OBVIOUS
  <2> HIDE DEF Over
  <2>7. Sum(f, Over(t)) = Sum(f, Over({y})) + Sum(f, Over(t \ {y}))
    <3>1. /\ IsFiniteSet(Over({y})) /\ IsFiniteSet(Over(t \ {y}))
          /\ \A x \in Over({y}) \cup Over(t \ {y}) : f[x] \in Int
      BY <1>1, <2>6
    <3>2. Sum(f, Over({y}) \cup Over(t \ {y})) = Sum(f, Over({y})) + Sum(f, Over(t \ {y}))
      BY <2>5, <3>1, SumUnion
    <3> QED BY <2>5, <3>2
  <2>8. Sum(g, t) = Sum(f, Over(t))
    BY <2>2, <2>3, <2>4, <2>7
  <2> QED BY <2>8
<1>5. Over(Y) = S
  OBVIOUS
<1> HIDE DEF Good
<1>6. \A t \in SUBSET Y : t \in Good
  BY <1>3, <1>4, SubsetInduction
<1> QED BY <1>5, <1>6 DEF Good
=============================================================================
