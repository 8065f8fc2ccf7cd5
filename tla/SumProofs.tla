------------------------------ MODULE SumProofs ------------------------------
(***************************************************************************)
(* What sums do when an element joins, leaves or changes, and that finite  *)
(* sets of numbers have a greatest element.                                *)
(***************************************************************************)
EXTENDS Sums, FiniteSetTheorems, TLAPS

-----------------------------------------------------------------------------
(* Sums.                                                                   *)

\* What is above zero in n.
PositivePart(n) == IF n > 0 THEN n ELSE 0

LEMMA UnitsOfOne ==
    ASSUME NEW x, NEW n \in Int
    PROVE  IsFiniteSet({x} \X (1..n)) /\ Cardinality({x} \X (1..n)) = PositivePart(n) /\ PositivePart(n) \in Nat
<1>1. IsFiniteSet(1..n) /\ Cardinality(1..n) = PositivePart(n)
  BY FS_Interval DEF PositivePart
<1>2. IsFiniteSet({x}) /\ Cardinality({x}) = 1
  BY FS_Singleton
<1>3. /\ IsFiniteSet({x} \X (1..n))
      /\ Cardinality({x} \X (1..n)) = Cardinality({x}) * Cardinality(1..n)
  BY <1>1, <1>2, FS_Product
<1>4. PositivePart(n) \in Nat
  BY DEF PositivePart
<1>5. Cardinality({x}) * Cardinality(1..n) = PositivePart(n)
  BY <1>1, <1>2, <1>4
<1> QED
  BY <1>3, <1>4, <1>5

LEMMA UnitsAreFinite ==
    ASSUME NEW S, IsFiniteSet(S), NEW f, \A x \in S : f[x] \in Int
    PROVE  IsFiniteSet(Units(f, S)) /\ Count(f, S) \in Nat
<1> DEFINE T == {{x} \X (1..f[x]) : x \in S}
           g == [x \in S |-> {x} \X (1..f[x])]
<1>1. g \in Surjection(S, T)
  BY DEF Surjection
<1>2. IsFiniteSet(T)
  BY <1>1, FS_Surjection
<1>3. ASSUME NEW t \in T PROVE IsFiniteSet(t)
  <2>1. PICK x \in S : t = {x} \X (1..f[x])
    OBVIOUS
  <2> QED
    BY <2>1, UnitsOfOne
<1>4. IsFiniteSet(UNION T)
  BY <1>2, <1>3, FS_UNION
<1> QED
  BY <1>4, FS_CardinalityType DEF Units, Count

LEMMA UnitsSame ==
    ASSUME NEW S, NEW f, NEW g, \A x \in S : f[x] = g[x]
    PROVE  Count(f, S) = Count(g, S)
<1>1. Units(f, S) = Units(g, S)
  BY DEF Units
<1> QED
  BY <1>1 DEF Count

LEMMA UnitsAdds ==
    ASSUME NEW S, IsFiniteSet(S), NEW x, x \notin S, NEW f,
           \A y \in S \cup {x} : f[y] \in Int
    PROVE  Count(f, S \cup {x}) = Count(f, S) + PositivePart(f[x])
<1> DEFINE A == Units(f, S)
           B == {x} \X (1..f[x])
<1>1. Units(f, S \cup {x}) = A \cup B
  BY DEF Units
<1>2. A \cap B = {}
  BY DEF Units
<1>3. IsFiniteSet(A) /\ Cardinality(A) \in Nat
  BY UnitsAreFinite DEF Count
<1>4. IsFiniteSet(B) /\ Cardinality(B) = PositivePart(f[x]) /\ PositivePart(f[x]) \in Nat
  BY UnitsOfOne
<1> HIDE DEF A, B
<1>5. Cardinality(A \cup B) = Cardinality(A) + Cardinality(B) - Cardinality(A \cap B)
  BY <1>3, <1>4, FS_Union
<1>6. Cardinality(A \cap B) = 0
  BY <1>2, FS_EmptySet
<1>7. Cardinality(A \cup B) = Cardinality(A) + PositivePart(f[x])
  BY <1>3, <1>4, <1>5, <1>6
<1> QED
  BY <1>1, <1>7, Zenon DEF Count, A

\* A sum is a number, ...
LEMMA TotalIsNumber ==
    ASSUME NEW S, IsFiniteSet(S), NEW f, \A x \in S : f[x] \in Int
    PROVE  Total(f, S) \in Int
<1> DEFINE h == Negated(f, S)
<1>1. \A x \in S : h[x] \in Int
  BY DEF Negated
<1> HIDE DEF h
<1>2. Count(f, S) \in Nat /\ Count(h, S) \in Nat
  BY <1>1, UnitsAreFinite
<1> QED
  BY <1>2 DEF Total, h

\* ... which is not negative if no quantity is.
LEMMA TotalIsNat ==
    ASSUME NEW S, IsFiniteSet(S), NEW f, \A x \in S : f[x] \in Nat
    PROVE  Total(f, S) \in Nat
<1> DEFINE h == Negated(f, S)
<1>1. \A x \in S : h[x] \in Int /\ 1..h[x] = {}
  BY DEF Negated
<1> HIDE DEF h
<1>2. Units(h, S) = {}
  BY <1>1 DEF Units
<1>3. Count(h, S) = 0
  BY <1>2, FS_EmptySet DEF Count
<1>4. Count(f, S) \in Nat
  BY UnitsAreFinite
<1> QED
  BY <1>3, <1>4 DEF Total, h

\* Nothing adds up to zero.
LEMMA TotalOfNone == ASSUME NEW f PROVE Total(f, {}) = 0
<1>1. \A h : Units(h, {}) = {}
  BY DEF Units
<1>2. \A h : Count(h, {}) = 0
  BY <1>1, FS_EmptySet DEF Count
<1> QED
  BY <1>2 DEF Total

\* A sum depends on the quantities of its elements only.
LEMMA TotalSame ==
    ASSUME NEW S, NEW f, NEW g, \A x \in S : f[x] = g[x]
    PROVE  Total(f, S) = Total(g, S)
<1>1. Count(f, S) = Count(g, S)
  BY UnitsSame
<1>2. Negated(f, S) = Negated(g, S)
  BY DEF Negated
<1> QED
  BY <1>1, <1>2 DEF Total

\* An element joins.
LEMMA TotalAdds ==
    ASSUME NEW S, IsFiniteSet(S), NEW x, x \notin S, NEW f,
           \A y \in S \cup {x} : f[y] \in Int
    PROVE  Total(f, S \cup {x}) = Total(f, S) + f[x]
<1> DEFINE h == Negated(f, S \cup {x})
           k == Negated(f, S)
<1>1. /\ \A y \in S \cup {x} : h[y] \in Int
      /\ h[x] = 0 - f[x]
      /\ \A y \in S : h[y] = k[y]
  BY DEF Negated
<1> HIDE DEF h, k
<1>2. Count(f, S \cup {x}) = Count(f, S) + PositivePart(f[x])
  BY UnitsAdds
<1>3. Count(h, S \cup {x}) = Count(h, S) + PositivePart(h[x])
  BY <1>1, UnitsAdds
<1>4. Count(h, S) = Count(k, S)
  BY <1>1, UnitsSame
<1>5. Count(f, S) \in Nat /\ Count(h, S) \in Nat
  BY <1>1, UnitsAreFinite
<1>6. f[x] \in Int /\ PositivePart(f[x]) - PositivePart(h[x]) = f[x] /\ PositivePart(f[x]) \in Int /\ PositivePart(h[x]) \in Int
  BY <1>1 DEF PositivePart
<1>7. Count(f, S \cup {x}) - Count(h, S \cup {x}) = Count(f, S) - Count(k, S) + f[x]
  BY <1>2, <1>3, <1>4, <1>5, <1>6
<1> QED
  BY <1>7 DEF Total, h, k

\* An element of S leaves.
LEMMA TotalRemoves ==
    ASSUME NEW S, IsFiniteSet(S), NEW x \in S, NEW f, \A y \in S : f[y] \in Int
    PROVE  /\ Total(f, S \ {x}) = Total(f, S) - f[x]
           /\ Total(f, S \ {x}) \in Int
<1> DEFINE R == S \ {x}
<1>1. IsFiniteSet(R) /\ x \notin R /\ S = R \cup {x}
  BY FS_RemoveElement
<1>2. Total(f, R) \in Int /\ f[x] \in Int
  BY <1>1, TotalIsNumber
<1> HIDE DEF R
<1>3. Total(f, R \cup {x}) = Total(f, R) + f[x]
  BY <1>1, TotalAdds
<1>4. Total(f, S) = Total(f, R) + f[x]
  BY <1>1, <1>3
<1>5. Total(f, R) = Total(f, S) - f[x]
  BY <1>2, <1>4
<1> QED
  BY <1>2, <1>5, Zenon DEF R

\* The quantity of one element of S changes.
LEMMA TotalChanges ==
    ASSUME NEW S, IsFiniteSet(S), NEW x \in S, NEW f, NEW g,
           \A y \in S : f[y] \in Int /\ g[y] \in Int,
           \A y \in S \ {x} : f[y] = g[y]
    PROVE  Total(g, S) = Total(f, S) - f[x] + g[x]
<1>1. Total(f, S \ {x}) = Total(g, S \ {x})
  BY TotalSame
<1>2. Total(f, S \ {x}) = Total(f, S) - f[x] /\ Total(g, S \ {x}) = Total(g, S) - g[x]
  BY TotalRemoves
<1>3. Total(f, S) \in Int /\ Total(g, S) \in Int
  BY TotalIsNumber
<1> QED
  BY <1>1, <1>2, <1>3

-----------------------------------------------------------------------------
(* Greatest elements.                                                      *)

\* Among the sets of what is greater than some element of S one is minimal,
\* and that one is empty.
LEMMA GreatestExists ==
    ASSUME NEW S \in SUBSET Int, IsFiniteSet(S), S # {}
    PROVE  \E x \in S : \A y \in S : x >= y
<1> DEFINE Above(x) == {y \in S : y > x}
           T == {Above(x) : x \in S}
           R == StrictSubsetOrdering(S)
<1>1. IsWellFoundedOn(R, SUBSET S)
  BY FS_StrictSubsetOrderingWellFounded, FS_FiniteSubsetsOfFinite
<1>2. T \subseteq SUBSET S /\ T # {}
  OBVIOUS
<1> HIDE DEF R
<1>3. PICK t \in T : \A u \in T : <<u, t>> \notin R
  BY <1>1, <1>2, WFMin
<1>4. PICK x \in S : t = Above(x)
  OBVIOUS
<1>5. ASSUME NEW y \in S, y > x PROVE FALSE
  <2>1. Above(y) \subseteq Above(x) /\ Above(y) # Above(x)
    <3>1. y \in Above(x) /\ y \notin Above(y)
      BY <1>5
    <3>2. \A z \in Above(y) : z \in Above(x)
      BY <1>5
    <3> QED
      BY <3>1, <3>2
  <2>2. <<Above(y), t>> \in R
    BY <1>4, <2>1 DEF StrictSubsetOrdering, R
  <2> QED
    BY <1>3, <2>2
<1> QED
  BY <1>5

\* Nonempty finite sets of numbers have a least element, too.
LEMMA LeastExists ==
    ASSUME NEW S \in SUBSET Int, IsFiniteSet(S), S # {}
    PROVE  \E x \in S : \A y \in S : x <= y
<1> DEFINE g == [x \in S |-> 0 - x]
           T == {0 - x : x \in S}
<1>1. T \in SUBSET Int /\ T # {}
  <2>1. \A x \in S : 0 - x \in Int
    OBVIOUS
  <2> QED
    BY <2>1
<1>2. g \in Surjection(S, T)
  BY DEF Surjection
<1>3. IsFiniteSet(T)
  BY <1>2, FS_Surjection
<1> HIDE DEF g
<1>4. \E t \in T : \A u \in T : t >= u
  <2> HIDE DEF T
  <2> QED
    BY <1>1, <1>3, GreatestExists
<1>5. PICK x \in S : \A y \in S : 0 - x >= 0 - y
  BY <1>4
<1>6. \A y \in S : x <= y
  BY <1>5
<1> QED
  BY <1>6
=============================================================================
