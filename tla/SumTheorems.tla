------------------------------- MODULE SumTheorems ------------------------------
(***************************************************************************)
(* What SumFunction() computes, for every finite set: the sum of nothing   *)
(* is 0, a member adds its value, and so on to double counting.  The       *)
(* proofs look at a least counterexample among the subsets of the summed   *)
(* set, where an induction theorem would need an operator as a parameter.  *)
(***************************************************************************)
EXTENDS Integers, FiniteSetsExt, FiniteSetTheorems, WellFoundedInduction, TLAPS

-----------------------------------------------------------------------------
(* Parts of a finite set *)

\* The part of S that satisfies a condition is finite and not larger.
LEMMA Subset ==
    ASSUME NEW S, IsFiniteSet(S), NEW T, T \subseteq S
    PROVE  /\ IsFiniteSet(T)
           /\ Cardinality(T) \in Nat /\ Cardinality(S) \in Nat
           /\ Cardinality(T) <= Cardinality(S)
BY FS_Subset, FS_CardinalityType

\* A set that misses a member of a larger one has fewer elements.
LEMMA ProperSubset ==
    ASSUME NEW S, IsFiniteSet(S), NEW T, T \subseteq S, NEW x \in S, x \notin T
    PROVE  /\ Cardinality(T) \in Nat /\ Cardinality(S) \in Nat
           /\ Cardinality(T) < Cardinality(S)
<1>1. T # S
  OBVIOUS
<1>2. /\ IsFiniteSet(T) /\ Cardinality(T) <= Cardinality(S)
      /\ Cardinality(S) = Cardinality(T) => S = T
  BY FS_Subset
<1> QED
  BY <1>1, <1>2, FS_CardinalityType

\* A non-empty set of naturals has a least element.
LEMMA LeastNat ==
    ASSUME NEW T, T \subseteq Nat, T # {}
    PROVE  \E n \in T : \A m \in T : n <= m
<1>1. IsWellFoundedOn(OpToRel(<, Nat), Nat)
  BY NatLessThanWellFounded
<1>2. PICK n \in T : \A m \in T : ~ (<<m, n>> \in OpToRel(<, Nat))
  BY <1>1, WFMin
<1>3. \A m \in T : ~ (m < n)
  BY <1>2 DEF OpToRel
<1> QED
  BY <1>3

\* A non-empty finite set has an element whose value is the greatest.
LEMMA GreatestExists ==
    ASSUME NEW S, IsFiniteSet(S), S # {}, NEW value \in [S -> Int]
    PROVE  \E e \in S : \A f \in S : value[f] <= value[e]
<1> DEFINE above(e) == {f \in S : value[f] > value[e]}
           counts == {Cardinality(above(e)) : e \in S}
<1>1. \A e \in S : IsFiniteSet(above(e)) /\ Cardinality(above(e)) \in Nat
  BY Subset
<1>2. PICK n \in counts : \A m \in counts : n <= m
  <2>1. counts \subseteq Nat /\ counts # {}
    BY <1>1
  <2> QED
    BY <2>1, LeastNat
<1>3. PICK e \in S : n = Cardinality(above(e))
  BY <1>2
<1>4. ASSUME NEW f \in S, value[f] > value[e]
      PROVE  FALSE
  <2>1. above(f) \subseteq above(e) /\ f \in above(e) /\ f \notin above(f)
    BY <1>4
  <2>2. Cardinality(above(f)) \in counts
    BY <1>4
  <2>3. Cardinality(above(f)) < Cardinality(above(e))
    <3> HIDE DEF above
    <3> QED
      BY <1>1, <2>1, ProperSubset
  <2>4. Cardinality(above(e)) <= Cardinality(above(f))
    BY <1>2, <1>3, <2>2
  <2>5. Cardinality(above(e)) \in Nat /\ Cardinality(above(f)) \in Nat
    BY <1>1, <1>4
  <2> QED
    BY <2>3, <2>4, <2>5
<1> QED
  BY <1>4

-----------------------------------------------------------------------------
(* Sums over finite sets *)

\* The subsets of a finite set ordered by inclusion: a family that has a member
\* has a least one.
LEMMA LeastSubset ==
    ASSUME NEW S, IsFiniteSet(S), NEW B, B \subseteq SUBSET S, B # {}
    PROVE  \E T \in B : \A U \in B : U \subseteq T => U = T
<1>1. IsWellFoundedOn(StrictSubsetOrdering(S), SUBSET S)
  BY FS_FiniteSubsetsOfFinite, FS_StrictSubsetOrderingWellFounded
<1>2. PICK T \in B : \A U \in B : ~ (<<U, T>> \in StrictSubsetOrdering(S))
  BY <1>1, WFMin
<1>3. ASSUME NEW U \in B, U \subseteq T
      PROVE  U = T
  <2>1. <<U, T>> \in (SUBSET S) \X (SUBSET S)
    OBVIOUS
  <2>2. U # T => <<U, T>> \in StrictSubsetOrdering(S)
    BY <2>1, <1>3 DEF StrictSubsetOrdering
  <2> QED
    BY <1>2, <2>2
<1> QED
  BY <1>3

\* The element SumFunctionOnSet() takes first.
First(s) == CHOOSE x \in s : TRUE

LEMMA FirstIsMember == \A s : s # {} => First(s) \in s
BY DEF First

\* h adds up the values of g over the members of D, a family of sets closed
\* under taking the first element away.
Adds(h, g, D) ==
    h = [s \in D |-> IF s = {} THEN 0 ELSE g[First(s)] + h[s \ {First(s)}]]

UpTo(S, n) == {s \in SUBSET S : Cardinality(s) <= n}

\* The recursion of SumFunctionOnSet() defines a function: one for the subsets
\* of at most n elements is extended to those of n + 1.
LEMMA AdderExists ==
    ASSUME NEW S, IsFiniteSet(S), NEW g
    PROVE  \E h : Adds(h, g, SUBSET S)
<1> DEFINE Without == {n \in Nat : ~ \E h : Adds(h, g, UpTo(S, n))}
<1>1. \A s \in SUBSET S : IsFiniteSet(s) /\ Cardinality(s) \in Nat
  BY Subset
<1>2. Without = {}
  <2> SUFFICES ASSUME Without # {} PROVE FALSE
    OBVIOUS
  <2>1. PICK n \in Without : \A m \in Without : n <= m
    BY LeastNat
  <2>2. CASE n = 0
    <3> DEFINE h == [s \in UpTo(S, 0) |-> 0]
    <3>1. \A s \in UpTo(S, 0) : s = {}
      BY <1>1, FS_EmptySet DEF UpTo
    <3>2. Adds(h, g, UpTo(S, 0))
      BY <3>1 DEF Adds
    <3> QED
      BY <2>2, <3>2
  <2>3. CASE n # 0
    <3>1. n - 1 \in Nat /\ n - 1 \notin Without
      BY <2>1, <2>3
    <3>2. PICK h : Adds(h, g, UpTo(S, n - 1))
      BY <3>1
    <3> DEFINE k == [s \in UpTo(S, n) |->
                        IF s = {} THEN 0 ELSE g[First(s)] + h[s \ {First(s)}]]
    <3>3. ASSUME NEW s \in UpTo(S, n), s # {}
          PROVE  k[s \ {First(s)}] = h[s \ {First(s)}]
      <4> DEFINE r == s \ {First(s)}
      <4>1. First(s) \in s /\ r \in SUBSET S /\ s \in SUBSET S
        BY <3>3, FirstIsMember DEF UpTo
      <4>2. Cardinality(r) = Cardinality(s) - 1 /\ Cardinality(s) \in Nat
        BY <1>1, <4>1, FS_RemoveElement
      <4>3. Cardinality(s) <= n
        BY DEF UpTo
      <4>4. r \in UpTo(S, n - 1) /\ r \in UpTo(S, n)
        BY <4>1, <4>2, <4>3 DEF UpTo
      <4> HIDE DEF r
      <4>5. h[r] = IF r = {} THEN 0 ELSE g[First(r)] + h[r \ {First(r)}]
        BY <3>2, <4>4 DEF Adds
      <4> QED
        BY <4>4, <4>5 DEF r
    <3>4. k = [s \in UpTo(S, n) |->
                  IF s = {} THEN 0 ELSE g[First(s)] + k[s \ {First(s)}]]
      BY <3>3
    <3>5. Adds(k, g, UpTo(S, n))
      BY <3>4 DEF Adds
    <3> QED
      BY <3>5
  <2> QED
    BY <2>2, <2>3
<1>3. UpTo(S, Cardinality(S)) = SUBSET S
  BY Subset DEF UpTo
<1>4. Cardinality(S) \in Nat
  BY Subset
<1>5. Cardinality(S) \notin Without
  BY <1>2
<1> QED
  BY <1>3, <1>4, <1>5

\* Two functions that add up agree on the subsets they share, when the values
\* they add do.
LEMMA AdderUnique ==
    ASSUME NEW S, NEW T \in SUBSET S, IsFiniteSet(T), NEW g, NEW f, NEW h, NEW k,
           Adds(h, g, SUBSET S), Adds(k, f, SUBSET T),
           \A x \in T : g[x] = f[x]
    PROVE  h[T] = k[T]
<1> DEFINE B == {s \in SUBSET T : h[s] # k[s]}
<1>1. ASSUME NEW s \in SUBSET T
      PROVE  /\ h[s] = IF s = {} THEN 0 ELSE g[First(s)] + h[s \ {First(s)}]
             /\ k[s] = IF s = {} THEN 0 ELSE f[First(s)] + k[s \ {First(s)}]
  BY DEF Adds
<1>2. B = {}
  <2> SUFFICES ASSUME B # {} PROVE FALSE
    OBVIOUS
  <2>1. PICK s \in B : \A u \in B : u \subseteq s => u = s
    <3>1. B \subseteq SUBSET T
      OBVIOUS
    <3> HIDE DEF B
    <3> QED
      BY <3>1, LeastSubset
  <2>2. s # {}
    BY <1>1
  <2>3. First(s) \in s
    BY <2>2, FirstIsMember
  <2>4. h[s \ {First(s)}] = k[s \ {First(s)}]
    BY <2>1, <2>3
  <2> QED
    BY <1>1, <2>2, <2>3, <2>4
<1> QED
  BY <1>2

\* SumFunctionOnSet() is what such a function says of the whole set.
LEMMA SumIsAdder ==
    ASSUME NEW S, IsFiniteSet(S), NEW g
    PROVE  \E h : Adds(h, g, SUBSET S) /\ SumFunctionOnSet(g, S) = h[S]
<1> DEFINE iter == CHOOSE h :
              h = [s \in SUBSET S |->
                      IF s = {} THEN 0
                      ELSE g[CHOOSE x \in s : TRUE] + h[s \ {CHOOSE x \in s : TRUE}]]
<1>1. SumFunctionOnSet(g, S) = iter[S]
  BY DEF SumFunctionOnSet, FoldFunctionOnSet, MapThenFoldSet
<1>2. Adds(iter, g, SUBSET S)
  <2>1. \E h : h = [s \in SUBSET S |->
                      IF s = {} THEN 0
                      ELSE g[CHOOSE x \in s : TRUE] + h[s \ {CHOOSE x \in s : TRUE}]]
    <3>1. PICK h : Adds(h, g, SUBSET S)
      BY AdderExists
    <3>2. h = [s \in SUBSET S |->
                  IF s = {} THEN 0
                  ELSE g[CHOOSE x \in s : TRUE] + h[s \ {CHOOSE x \in s : TRUE}]]
      BY <3>1, Zenon DEF Adds, First
    <3> QED
      BY <3>2, Zenon
  <2>2. iter = [s \in SUBSET S |->
                    IF s = {} THEN 0
                    ELSE g[CHOOSE x \in s : TRUE] + iter[s \ {CHOOSE x \in s : TRUE}]]
    BY <2>1
  <2> HIDE DEF iter
  <2> QED
    BY <2>2 DEF Adds, First
<1> HIDE DEF iter
<1> QED
  BY <1>1, <1>2

LEMMA SumRecursion ==
    ASSUME NEW S, IsFiniteSet(S), NEW g
    PROVE  SumFunctionOnSet(g, S) =
              IF S = {} THEN 0 ELSE g[First(S)] + SumFunctionOnSet(g, S \ {First(S)})
<1> DEFINE R == S \ {First(S)}
<1>1. PICK h : Adds(h, g, SUBSET S) /\ SumFunctionOnSet(g, S) = h[S]
  BY SumIsAdder
<1>2. IsFiniteSet(R)
  BY Subset
<1>3. PICK k : Adds(k, g, SUBSET R) /\ SumFunctionOnSet(g, R) = k[R]
  <2> HIDE DEF R
  <2> QED
    BY <1>2, SumIsAdder
<1>4. h[R] = k[R]
  <2>1. R \in SUBSET S
    OBVIOUS
  <2> HIDE DEF R
  <2> QED
    BY <1>1, <1>2, <1>3, <2>1, AdderUnique
<1>5. h[S] = IF S = {} THEN 0 ELSE g[First(S)] + h[R]
  BY <1>1 DEF Adds
<1> QED
  BY <1>1, <1>3, <1>4, <1>5

LEMMA SumEmpty == \A g : SumFunctionOnSet(g, {}) = 0
BY SumRecursion, FS_EmptySet

\* The sum only depends on the values of the summed elements.
LEMMA SumSame ==
    ASSUME NEW S, IsFiniteSet(S), NEW g, NEW f, \A x \in S : g[x] = f[x]
    PROVE  SumFunctionOnSet(g, S) = SumFunctionOnSet(f, S)
<1>1. PICK h : Adds(h, g, SUBSET S) /\ SumFunctionOnSet(g, S) = h[S]
  BY SumIsAdder
<1>2. PICK k : Adds(k, f, SUBSET S) /\ SumFunctionOnSet(f, S) = k[S]
  BY SumIsAdder
<1> QED
  BY <1>1, <1>2, AdderUnique

\* A family of sets each of which is non-empty and loses some element within
\* the family does not contain a finite set.
LEMMA NoCounterexample ==
    ASSUME NEW S, IsFiniteSet(S), NEW B, B \subseteq SUBSET S,
           \A T \in B : \E x \in T : T \ {x} \in B
    PROVE  S \notin B
<1> SUFFICES ASSUME B # {} PROVE FALSE
  OBVIOUS
<1>1. PICK T \in B : \A U \in B : U \subseteq T => U = T
  BY LeastSubset
<1>2. PICK x \in T : T \ {x} \in B
  OBVIOUS
<1> QED
  BY <1>1, <1>2

LEMMA SumType ==
    ASSUME NEW S, IsFiniteSet(S), NEW g, \A x \in S : g[x] \in Int
    PROVE  SumFunctionOnSet(g, S) \in Int
<1> DEFINE B == {T \in SUBSET S : SumFunctionOnSet(g, T) \notin Int}
<1>1. ASSUME NEW T \in B
      PROVE  \E x \in T : T \ {x} \in B
  <2>1. IsFiniteSet(T)
    BY Subset
  <2>2. SumFunctionOnSet(g, T) =
           IF T = {} THEN 0 ELSE g[First(T)] + SumFunctionOnSet(g, T \ {First(T)})
    BY <2>1, SumRecursion
  <2>3. T # {} /\ First(T) \in T
    BY <2>2, FirstIsMember
  <2>4. SumFunctionOnSet(g, T \ {First(T)}) \notin Int
    BY <2>2, <2>3
  <2> QED
    BY <2>3, <2>4
<1>2. B \subseteq SUBSET S
  OBVIOUS
<1>3. S \notin B
  <2> HIDE DEF B
  <2> QED
    BY <1>1, <1>2, NoCounterexample
<1> QED
  BY <1>3

\* Any element may be taken out of the sum.
LEMMA SumWithout ==
    ASSUME NEW S, IsFiniteSet(S), NEW g, \A x \in S : g[x] \in Int, NEW x \in S
    PROVE  SumFunctionOnSet(g, S) = g[x] + SumFunctionOnSet(g, S \ {x})
<1> DEFINE Sum(T) == SumFunctionOnSet(g, T)
           B == {T \in SUBSET S : \E y \in T : Sum(T) # g[y] + Sum(T \ {y})}
<1>1. ASSUME NEW T \in SUBSET S
      PROVE  /\ Sum(T) \in Int
             /\ T # {} => Sum(T) = g[First(T)] + Sum(T \ {First(T)})
  BY Subset, SumRecursion, SumType
<1> HIDE DEF Sum
<1>2. B = {}
  <2> SUFFICES ASSUME B # {} PROVE FALSE
    OBVIOUS
  <2>1. PICK T \in B : \A U \in B : U \subseteq T => U = T
    <3>1. B \subseteq SUBSET S
      OBVIOUS
    <3> HIDE DEF B
    <3> QED
      BY <3>1, LeastSubset
  <2>2. PICK y \in T : Sum(T) # g[y] + Sum(T \ {y})
    OBVIOUS
  <2> DEFINE z == First(T)
             R == (T \ {y}) \ {z}
  <2>3. T \in SUBSET S /\ z \in T
    BY FirstIsMember
  <2>4. Sum(T) = g[z] + Sum(T \ {z})
    BY <1>1, <2>3
  <2>5. y # z
    BY <2>2, <2>4
  <2>6. Sum(T \ {z}) = g[y] + Sum(R)
    <3>1. T \ {z} \notin B /\ T \ {z} \in SUBSET S
      BY <2>1, <2>3
    <3>2. y \in T \ {z} /\ (T \ {z}) \ {y} = R
      BY <2>5
    <3> QED
      BY <3>1, <3>2
  <2>7. Sum(T \ {y}) = g[z] + Sum(R)
    <3>1. T \ {y} \notin B /\ T \ {y} \in SUBSET S
      BY <2>1, <2>3
    <3>2. z \in T \ {y}
      BY <2>3, <2>5
    <3> QED
      BY <3>1, <3>2
  <2>8. g[y] \in Int /\ g[z] \in Int /\ Sum(R) \in Int
    BY <1>1, <2>3
  <2> QED
    BY <2>2, <2>4, <2>6, <2>7, <2>8
<1> QED
  BY <1>2 DEF Sum

\* Sums of non-negative numbers.
LEMMA SumNat ==
    ASSUME NEW S, IsFiniteSet(S), NEW g, \A x \in S : g[x] \in Nat
    PROVE  SumFunctionOnSet(g, S) \in Nat
<1> DEFINE B == {T \in SUBSET S : SumFunctionOnSet(g, T) \notin Nat}
<1>1. ASSUME NEW T \in B
      PROVE  \E x \in T : T \ {x} \in B
  <2>1. IsFiniteSet(T)
    BY Subset
  <2>2. SumFunctionOnSet(g, T) =
           IF T = {} THEN 0 ELSE g[First(T)] + SumFunctionOnSet(g, T \ {First(T)})
    BY <2>1, SumRecursion
  <2>3. T # {} /\ First(T) \in T
    BY <2>2, FirstIsMember
  <2>4. SumFunctionOnSet(g, T \ {First(T)}) \notin Nat
    BY <2>2, <2>3
  <2> QED
    BY <2>3, <2>4
<1>2. B \subseteq SUBSET S
  OBVIOUS
<1>3. S \notin B
  <2> HIDE DEF B
  <2> QED
    BY <1>1, <1>2, NoCounterexample
<1> QED
  BY <1>3

\* A sum of multiples of four is one.
LEMMA SumOfFours ==
    ASSUME NEW S, IsFiniteSet(S), NEW g, \A x \in S : g[x] \in Nat /\ g[x] % 4 = 0
    PROVE  SumFunctionOnSet(g, S) % 4 = 0
<1> DEFINE Sum(T) == SumFunctionOnSet(g, T)
           B == {T \in SUBSET S : Sum(T) % 4 # 0}
<1>1. ASSUME NEW T \in SUBSET S
      PROVE  /\ Sum(T) \in Nat
             /\ T = {} => Sum(T) = 0
             /\ \A x \in T : Sum(T) = g[x] + Sum(T \ {x})
  <2>1. IsFiniteSet(T) /\ \A x \in T : g[x] \in Int /\ g[x] \in Nat
    BY Subset
  <2> QED
    BY <2>1, SumEmpty, SumWithout, SumNat
<1> HIDE DEF Sum
<1>2. ASSUME NEW T \in B
      PROVE  \E x \in T : T \ {x} \in B
  <2>1. PICK x \in T : TRUE
    BY <1>1
  <2>2. Sum(T) = g[x] + Sum(T \ {x}) /\ Sum(T \ {x}) \in Nat
    BY <1>1
  <2>3. g[x] \in Nat /\ g[x] % 4 = 0
    OBVIOUS
  <2>4. Sum(T \ {x}) % 4 = 0 => Sum(T) % 4 = 0
    BY <2>2, <2>3
  <2> QED
    BY <2>4
<1>3. B \subseteq SUBSET S
  OBVIOUS
<1>4. S \notin B
  <2> HIDE DEF B
  <2> QED
    BY <1>2, <1>3, NoCounterexample
<1> QED
  BY <1>4 DEF Sum

\* The sum of two functions is the sum of their sums.
LEMMA SumOfSums ==
    ASSUME NEW S, IsFiniteSet(S), NEW a, NEW b, NEW g,
           \A x \in S : a[x] \in Int /\ b[x] \in Int /\ g[x] = a[x] + b[x]
    PROVE  SumFunctionOnSet(g, S) = SumFunctionOnSet(a, S) + SumFunctionOnSet(b, S)
<1> DEFINE Sum(f, T) == SumFunctionOnSet(f, T)
           B == {T \in SUBSET S : Sum(g, T) # Sum(a, T) + Sum(b, T)}
<1>1. ASSUME NEW T \in SUBSET S
      PROVE  /\ Sum(a, T) \in Int /\ Sum(b, T) \in Int
             /\ T = {} => Sum(g, T) = 0 /\ Sum(a, T) = 0 /\ Sum(b, T) = 0
             /\ \A x \in T : /\ Sum(a, T) = a[x] + Sum(a, T \ {x})
                             /\ Sum(b, T) = b[x] + Sum(b, T \ {x})
                             /\ Sum(g, T) = g[x] + Sum(g, T \ {x})
  <2>1. IsFiniteSet(T) /\ \A x \in T : a[x] \in Int /\ b[x] \in Int /\ g[x] \in Int
    BY Subset
  <2> QED
    BY <2>1, SumEmpty, SumWithout, SumType
<1> HIDE DEF Sum
<1>2. ASSUME NEW T \in B
      PROVE  \E x \in T : T \ {x} \in B
  <2>1. PICK x \in T : TRUE
    BY <1>1
  <2>2. Sum(g, T \ {x}) # Sum(a, T \ {x}) + Sum(b, T \ {x})
    <3>1. /\ Sum(a, T) = a[x] + Sum(a, T \ {x})
          /\ Sum(b, T) = b[x] + Sum(b, T \ {x})
          /\ Sum(g, T) = g[x] + Sum(g, T \ {x})
          /\ Sum(a, T \ {x}) \in Int /\ Sum(b, T \ {x}) \in Int
      BY <1>1
    <3>2. a[x] \in Int /\ b[x] \in Int /\ g[x] = a[x] + b[x]
      OBVIOUS
    <3>3. Sum(g, T) # Sum(a, T) + Sum(b, T)
      OBVIOUS
    <3> QED
      BY <3>1, <3>2, <3>3
  <2> QED
    BY <2>2
<1>3. B \subseteq SUBSET S
  OBVIOUS
<1>4. S \notin B
  <2> HIDE DEF B
  <2> QED
    BY <1>2, <1>3, NoCounterexample
<1> QED
  BY <1>4 DEF Sum

\* A sum of numbers that are not negative is nothing exactly when they all are.
LEMMA SumPositive ==
    ASSUME NEW S, IsFiniteSet(S), NEW g, \A x \in S : g[x] \in Nat
    PROVE  SumFunctionOnSet(g, S) > 0 <=> \E x \in S : g[x] > 0
<1>1. SumFunctionOnSet(g, S) \in Nat
  BY SumNat
<1>2. ASSUME NEW x \in S, g[x] > 0
      PROVE  SumFunctionOnSet(g, S) > 0
  <2>1. SumFunctionOnSet(g, S) = g[x] + SumFunctionOnSet(g, S \ {x})
    <3>1. \A y \in S : g[y] \in Int
      OBVIOUS
    <3> QED
      BY <3>1, SumWithout
  <2>2. SumFunctionOnSet(g, S \ {x}) \in Nat
    <3>1. IsFiniteSet(S \ {x}) /\ \A y \in S \ {x} : g[y] \in Nat
      BY Subset
    <3> QED
      BY <3>1, SumNat
  <2> QED
    BY <1>2, <2>1, <2>2
<1>3. ASSUME \A x \in S : g[x] = 0
      PROVE  SumFunctionOnSet(g, S) = 0
  <2>1. \A x \in S : g[x] \in Int /\ g[x] \in Int /\ g[x] = g[x] + g[x]
    BY <1>3
  <2>2. SumFunctionOnSet(g, S) = SumFunctionOnSet(g, S) + SumFunctionOnSet(g, S)
    BY <2>1, SumOfSums
  <2>3. \A n \in Nat : n = n + n => n = 0
    OBVIOUS
  <2> QED
    BY <1>1, <2>2, <2>3, Zenon
<1> QED
  BY <1>2, <1>3

\* A sum grows with its summands.
LEMMA SumGrows ==
    ASSUME NEW S, IsFiniteSet(S), NEW a, NEW g,
           \A x \in S : a[x] \in Nat /\ g[x] \in Nat /\ a[x] <= g[x]
    PROVE  SumFunctionOnSet(a, S) <= SumFunctionOnSet(g, S)
<1> DEFINE b == [x \in S |-> g[x] - a[x]]
<1>1. \A x \in S : b[x] \in Nat /\ b[x] \in Int /\ a[x] \in Int /\ g[x] = a[x] + b[x]
  OBVIOUS
<1> HIDE DEF b
<1>2. SumFunctionOnSet(g, S) = SumFunctionOnSet(a, S) + SumFunctionOnSet(b, S)
  BY <1>1, SumOfSums
<1>3. SumFunctionOnSet(a, S) \in Nat /\ SumFunctionOnSet(b, S) \in Nat
  BY <1>1, SumNat
<1> QED
  BY <1>2, <1>3

\* Adding one for each element of P counts P.
LEMMA SumCounts ==
    ASSUME NEW S, IsFiniteSet(S), NEW P, P \subseteq S, NEW g,
           \A x \in S : g[x] = IF x \in P THEN 1 ELSE 0
    PROVE  SumFunctionOnSet(g, S) = Cardinality(P)
<1> DEFINE Sum(T) == SumFunctionOnSet(g, T)
           B == {T \in SUBSET S : Sum(T) # Cardinality(P \cap T)}
<1>1. ASSUME NEW T \in SUBSET S
      PROVE  /\ Sum(T) \in Int
             /\ T = {} => Sum(T) = 0
             /\ \A x \in T : Sum(T) = g[x] + Sum(T \ {x})
  <2>1. IsFiniteSet(T) /\ \A x \in T : g[x] \in Int
    BY Subset
  <2> QED
    BY <2>1, SumEmpty, SumWithout, SumType
<1> HIDE DEF Sum
<1>2. ASSUME NEW T \in B
      PROVE  \E x \in T : T \ {x} \in B
  <2>1. T # {}
    BY <1>1, FS_EmptySet
  <2>2. PICK x \in T : TRUE
    BY <2>1
  <2>3. Sum(T) = g[x] + Sum(T \ {x}) /\ Sum(T \ {x}) \in Int
    BY <1>1
  <2>4. /\ (P \cap T) \ {x} = P \cap (T \ {x})
        /\ IsFiniteSet(P \cap T) /\ Cardinality(P \cap T) \in Nat
        /\ x \in P \cap T <=> x \in P
    BY Subset
  <2>5. Cardinality(P \cap (T \ {x})) = Cardinality(P \cap T) - g[x]
    <3>1. Cardinality((P \cap T) \ {x}) =
             IF x \in P \cap T THEN Cardinality(P \cap T) - 1 ELSE Cardinality(P \cap T)
      BY <2>4, FS_RemoveElement
    <3>2. g[x] = IF x \in P THEN 1 ELSE 0
      OBVIOUS
    <3> QED
      BY <2>4, <3>1, <3>2
  <2>6. g[x] \in Int
    OBVIOUS
  <2>7. Sum(T) # Cardinality(P \cap T)
    OBVIOUS
  <2>8. Sum(T \ {x}) # Cardinality(P \cap (T \ {x}))
    BY <2>3, <2>4, <2>5, <2>6, <2>7
  <2> QED
    BY <2>8
<1>3. B \subseteq SUBSET S
  OBVIOUS
<1>4. S \notin B
  <2> HIDE DEF B
  <2> QED
    BY <1>2, <1>3, NoCounterexample
<1>5. P \cap S = P
  OBVIOUS
<1> QED
  BY <1>4, <1>5 DEF Sum

\* The pairs of R with a given first or second element.
RowOf(R, M, x) == {m \in M : <<x, m>> \in R}
ColumnOf(R, S, m) == {x \in S : <<x, m>> \in R}

\* Counting the pairs of R by their first or by their second element.
LEMMA DoubleCounting ==
    ASSUME NEW S, IsFiniteSet(S), NEW M, IsFiniteSet(M), NEW R, NEW row, NEW col,
           \A x \in S : row[x] = Cardinality(RowOf(R, M, x)),
           \A m \in M : col[m] = Cardinality(ColumnOf(R, S, m))
    PROVE  SumFunctionOnSet(row, S) = SumFunctionOnSet(col, M)
<1> USE DEF RowOf, ColumnOf
<1> DEFINE Row(N) == [x \in S |-> Cardinality({m \in N : <<x, m>> \in R})]
           Column(m) == {x \in S : <<x, m>> \in R}
           Rows(N) == SumFunctionOnSet(Row(N), S)
           Columns(N) == SumFunctionOnSet(col, N)
           B == {N \in SUBSET M : Rows(N) # Columns(N)}
<1>1. ASSUME NEW N \in SUBSET M, NEW m \in N
      PROVE  Rows(N) = Cardinality(Column(m)) + Rows(N \ {m})
  <2> DEFINE one == [x \in S |-> IF x \in Column(m) THEN 1 ELSE 0]
  <2>1. SumFunctionOnSet(one, S) = Cardinality(Column(m))
    <3>1. Column(m) \subseteq S /\ \A x \in S : one[x] = IF x \in Column(m) THEN 1 ELSE 0
      OBVIOUS
    <3> HIDE DEF one, Column
    <3> QED
      BY <3>1, SumCounts
  <2>2. ASSUME NEW x \in S
        PROVE  /\ Row(N)[x] = one[x] + Row(N \ {m})[x]
               /\ one[x] \in Int /\ Row(N \ {m})[x] \in Int
    <3> DEFINE mine == {n \in N : <<x, n>> \in R}
    <3>1. IsFiniteSet(mine) /\ Cardinality(mine) \in Nat
      BY Subset
    <3>2. Cardinality(mine \ {m}) =
             IF m \in mine THEN Cardinality(mine) - 1 ELSE Cardinality(mine)
      <4> HIDE DEF mine
      <4> QED
        BY <3>1, FS_RemoveElement
    <3>3. {n \in N \ {m} : <<x, n>> \in R} = mine \ {m}
      OBVIOUS
    <3>4. m \in mine <=> x \in Column(m)
      OBVIOUS
    <3>5. Row(N)[x] = Cardinality(mine) /\ Row(N \ {m})[x] = Cardinality(mine \ {m})
      BY <3>3
    <3>6. one[x] = IF x \in Column(m) THEN 1 ELSE 0
      OBVIOUS
    <3>7. mine # {} => Cardinality(mine) # 0
      BY <3>1, FS_EmptySet
    <3> HIDE DEF Row, one, mine, Column
    <3> QED
      BY <3>1, <3>2, <3>4, <3>5, <3>6, <3>7
  <2>3. \A x \in S : /\ one[x] \in Int /\ Row(N \ {m})[x] \in Int
                     /\ Row(N)[x] = one[x] + Row(N \ {m})[x]
    BY <2>2
  <2> HIDE DEF Row, one, Column
  <2>4. Rows(N) = SumFunctionOnSet(one, S) + Rows(N \ {m})
    BY <2>3, SumOfSums
  <2> QED
    BY <2>1, <2>4
<1>2. ASSUME NEW N \in SUBSET M
      PROVE  /\ \A m \in N : Columns(N) = Cardinality(Column(m)) + Columns(N \ {m})
             /\ N = {} => Columns(N) = 0
             /\ Columns(N) \in Int
  <2>1. IsFiniteSet(N)
    BY Subset
  <2>2. \A m \in N : col[m] \in Int /\ col[m] = Cardinality(Column(m))
    <3>1. \A m \in N : Column(m) \subseteq S /\ col[m] = Cardinality(Column(m))
      OBVIOUS
    <3> HIDE DEF Column
    <3> QED
      BY <3>1, Subset
  <2> HIDE DEF Column
  <2>3. Columns(N) \in Int
    BY <2>1, <2>2, SumType
  <2>4. \A m \in N : Columns(N) = col[m] + Columns(N \ {m})
    BY <2>1, <2>2, SumWithout
  <2> QED
    BY <2>2, <2>3, <2>4, SumEmpty
<1>3. Rows({}) = 0
  <2> DEFINE zero == [x \in S |-> 0]
  <2>1. \A x \in S : Row({})[x] = 0
    BY FS_EmptySet
  <2> HIDE DEF Row
  <2>2. Rows({}) = Cardinality({})
    BY <2>1, SumCounts
  <2> QED
    BY <2>2, FS_EmptySet
<1>4. \A N \in SUBSET M : Rows(N) \in Int
  <2>1. \A N \in SUBSET M : \A x \in S : Row(N)[x] \in Int
    <3> SUFFICES ASSUME NEW N \in SUBSET M, NEW x \in S
                 PROVE  Row(N)[x] \in Int
      OBVIOUS
    <3> DEFINE mine == {m \in N : <<x, m>> \in R}
    <3>1. mine \subseteq M /\ Row(N)[x] = Cardinality(mine)
      OBVIOUS
    <3> HIDE DEF mine, Row
    <3> QED
      BY <3>1, Subset
  <2> HIDE DEF Row
  <2> QED
    BY <2>1, SumType
<1>5. Rows(M) = SumFunctionOnSet(row, S)
  <2>1. \A x \in S : Row(M)[x] = row[x]
    OBVIOUS
  <2> HIDE DEF Row
  <2> QED
    BY <2>1, SumSame
<1> HIDE DEF Rows, Columns, Column
<1>6. ASSUME NEW N \in B
      PROVE  \E m \in N : N \ {m} \in B
  <2>1. PICK m \in N : TRUE
    BY <1>2, <1>3
  <2>2. /\ Rows(N) = Cardinality(Column(m)) + Rows(N \ {m})
        /\ Columns(N) = Cardinality(Column(m)) + Columns(N \ {m})
    BY <1>1, <1>2
  <2>3. Rows(N \ {m}) # Columns(N \ {m})
    BY <2>2
  <2> QED
    BY <2>3
<1>7. B \subseteq SUBSET M
  OBVIOUS
<1>8. M \notin B
  <2> HIDE DEF B
  <2> QED
    BY <1>6, <1>7, NoCounterexample
<1> QED
  BY <1>8, <1>5 DEF Columns
=============================================================================
