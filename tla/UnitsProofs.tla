---------------------------- MODULE UnitsProofs ----------------------------
(***************************************************************************)
(* What the proofs use of sums of money: a sum over a finite set is a      *)
(* natural number, it changes by as much as one of its terms changes, and  *)
(* none of its terms is above it.                                          *)
(***************************************************************************)
EXTENDS Units, FiniteSetTheorems, TLAPS

\* The units that f holds under the name x.
Column(f, x) == {x} \X (1 .. f[x])

\* A column is as long as the amount it stands for.
LEMMA ColumnSize ==
    ASSUME NEW f, NEW x, f[x] \in Nat
    PROVE  IsFiniteSet(Column(f, x)) /\ Cardinality(Column(f, x)) = f[x]
<1>1. IsFiniteSet({x}) /\ Cardinality({x}) = 1
  BY FS_Singleton
<1>2. IsFiniteSet(1 .. f[x]) /\ Cardinality(1 .. f[x]) = f[x]
  BY FS_Interval
<1>3. /\ IsFiniteSet({x} \X (1 .. f[x]))
      /\ Cardinality({x} \X (1 .. f[x])) = Cardinality({x}) * Cardinality(1 .. f[x])
  BY <1>1, <1>2, FS_Product
<1> QED
  BY <1>1, <1>2, <1>3 DEF Column

\* A sum of finitely many amounts counts a finite set of units, so it is a
\* natural number: the paid and adjusted amounts of the books are.
LEMMA TotalIsNat ==
    ASSUME NEW S, IsFiniteSet(S), NEW f \in [S -> Nat]
    PROVE  IsFiniteSet(UnitsOf(f)) /\ TotalOf(f) \in Nat
<1> DEFINE Columns == {Column(f, x) : x \in S}
           g == [x \in S |-> Column(f, x)]
<1>1. g \in Surjection(S, Columns)
  BY DEF Surjection
<1>2. IsFiniteSet(Columns)
  BY <1>1, FS_Surjection
<1>3. \A T \in Columns : IsFiniteSet(T)
  BY ColumnSize
<1>4. IsFiniteSet(UNION Columns)
  BY <1>2, <1>3, FS_UNION
<1>5. UnitsOf(f) = UNION Columns
  BY DEF UnitsOf, Column
<1> QED
  BY <1>4, <1>5, FS_CardinalityType DEF TotalOf

\* A sum is one of its terms and the sum with that term made zero.
LEMMA TotalSplit ==
    ASSUME NEW S, IsFiniteSet(S), NEW f \in [S -> Nat], NEW x \in S
    PROVE  TotalOf(f) = f[x] + TotalOf([f EXCEPT ![x] = 0])
<1> DEFINE g == [f EXCEPT ![x] = 0]
<1>1. g \in [S -> Nat]
  OBVIOUS
<1>2. UnitsOf(f) = Column(f, x) \cup UnitsOf(g)
  <2>1. ASSUME NEW u \in UnitsOf(f) PROVE u \in Column(f, x) \cup UnitsOf(g)
    <3>1. PICK y \in S : u \in {y} \X (1 .. f[y])
      BY <2>1 DEF UnitsOf
    <3> QED
      BY <3>1 DEF Column, UnitsOf
  <2>2. ASSUME NEW u \in UnitsOf(g) PROVE u \in UnitsOf(f)
    <3>1. PICK y \in S : u \in {y} \X (1 .. g[y])
      BY <2>2, <1>1 DEF UnitsOf
    <3>2. y # x
      BY <3>1
    <3>3. u \in {y} \X (1 .. f[y])
      BY <3>1, <3>2
    <3> QED
      BY <3>3 DEF UnitsOf
  <2>3. Column(f, x) \subseteq UnitsOf(f)
    BY DEF Column, UnitsOf
  <2> QED
    BY <2>1, <2>2, <2>3
<1>3. Column(f, x) \cap UnitsOf(g) = {}
  <2> SUFFICES ASSUME NEW u \in Column(f, x), u \in UnitsOf(g) PROVE FALSE
    OBVIOUS
  <2>1. PICK y \in S : u \in {y} \X (1 .. g[y])
    BY <1>1 DEF UnitsOf
  <2> QED
    BY <2>1 DEF Column
<1>4. IsFiniteSet(Column(f, x)) /\ Cardinality(Column(f, x)) = f[x]
  BY ColumnSize
<1>5. IsFiniteSet(UnitsOf(g)) /\ TotalOf(g) \in Nat
  BY <1>1, TotalIsNat
<1>6. Cardinality(Column(f, x) \cup UnitsOf(g))
        = Cardinality(Column(f, x)) + Cardinality(UnitsOf(g))
          - Cardinality(Column(f, x) \cap UnitsOf(g))
  <2> HIDE DEF g
  <2> QED
    BY <1>4, <1>5, FS_Union
<1>7. Cardinality(UnitsOf(f)) = f[x] + Cardinality(UnitsOf(g)) - 0
  <2> HIDE DEF g
  <2> QED
    BY <1>2, <1>3, <1>4, <1>6, FS_EmptySet
<1>8. Cardinality(UnitsOf(g)) \in Nat
  BY <1>5 DEF TotalOf
<1> QED
  BY <1>7, <1>8 DEF TotalOf

\* When one term of a sum changes, the sum changes by as much.
LEMMA TotalUpdate ==
    ASSUME NEW S, IsFiniteSet(S), NEW f \in [S -> Nat], NEW g \in [S -> Nat], NEW x \in S,
           \A y \in S \ {x} : f[y] = g[y]
    PROVE  TotalOf(g) = TotalOf(f) - f[x] + g[x]
<1>1. [f EXCEPT ![x] = 0] = [g EXCEPT ![x] = 0]
  OBVIOUS
<1>2. TotalOf(f) = f[x] + TotalOf([f EXCEPT ![x] = 0])
  BY TotalSplit
<1>3. TotalOf(g) = g[x] + TotalOf([g EXCEPT ![x] = 0])
  BY TotalSplit
<1>4. [f EXCEPT ![x] = 0] \in [S -> Nat]
  OBVIOUS
<1>5. TotalOf([f EXCEPT ![x] = 0]) \in Nat
  BY <1>4, TotalIsNat
<1>6. f[x] \in Nat /\ g[x] \in Nat
  OBVIOUS
<1> QED
  BY <1>1, <1>2, <1>3, <1>5, <1>6

\* No term of a sum is above the sum.
LEMMA TermWithinTotal ==
    ASSUME NEW S, IsFiniteSet(S), NEW f \in [S -> Nat], NEW x \in S
    PROVE  f[x] <= TotalOf(f)
<1>1. TotalOf(f) = f[x] + TotalOf([f EXCEPT ![x] = 0])
  BY TotalSplit
<1>2. [f EXCEPT ![x] = 0] \in [S -> Nat]
  OBVIOUS
<1>3. TotalOf([f EXCEPT ![x] = 0]) \in Nat
  BY <1>2, TotalIsNat
<1> QED
  BY <1>1, <1>3

\* A sum is no more than another whose terms are none of them less.
LEMMA TotalMonotone ==
    ASSUME NEW S, IsFiniteSet(S), NEW f \in [S -> Nat], NEW g \in [S -> Nat],
           \A x \in S : f[x] <= g[x]
    PROVE  TotalOf(f) <= TotalOf(g)
<1>1. UnitsOf(f) \subseteq UnitsOf(g)
  <2> SUFFICES ASSUME NEW u \in UnitsOf(f) PROVE u \in UnitsOf(g)
    OBVIOUS
  <2>1. PICK x \in S : u \in {x} \X (1 .. f[x])
    BY DEF UnitsOf
  <2>2. f[x] \in Nat /\ g[x] \in Nat /\ f[x] <= g[x]
    OBVIOUS
  <2>3. u \in {x} \X (1 .. g[x])
    BY <2>1, <2>2
  <2> QED
    BY <2>3 DEF UnitsOf
<1>2. IsFiniteSet(UnitsOf(g))
  BY TotalIsNat
<1> QED
  BY <1>1, <1>2, FS_Subset DEF TotalOf

\* A sum of zeroes is zero.
LEMMA TotalOfZeroes ==
    ASSUME NEW S, NEW f \in [S -> Nat], \A x \in S : f[x] = 0
    PROVE  TotalOf(f) = 0
<1>1. UnitsOf(f) = {}
  BY DEF UnitsOf
<1> QED
  BY <1>1, FS_EmptySet DEF TotalOf

\* A sum over two sets that have nothing in common is the sum over one and the
\* sum over the other.
LEMMA TotalDisjoint ==
    ASSUME NEW S, IsFiniteSet(S), NEW T, IsFiniteSet(T), S \cap T = {}, NEW f \in [S \cup T -> Nat]
    PROVE  TotalOf(f) = TotalOf([x \in S |-> f[x]]) + TotalOf([x \in T |-> f[x]])
<1> DEFINE g == [x \in S |-> f[x]]
           h == [x \in T |-> f[x]]
<1>1. g \in [S -> Nat] /\ h \in [T -> Nat]
  OBVIOUS
<1>2. UnitsOf(f) = UnitsOf(g) \cup UnitsOf(h)
  BY DEF UnitsOf
<1>3. UnitsOf(g) \cap UnitsOf(h) = {}
  <2> SUFFICES ASSUME NEW u \in UnitsOf(g), u \in UnitsOf(h) PROVE FALSE
    OBVIOUS
  <2>1. PICK x \in S : u \in {x} \X (1 .. g[x])
    BY DEF UnitsOf
  <2>2. PICK y \in T : u \in {y} \X (1 .. h[y])
    BY DEF UnitsOf
  <2> QED
    BY <2>1, <2>2
<1> HIDE DEF g, h
<1>4. IsFiniteSet(UnitsOf(g)) /\ TotalOf(g) \in Nat /\ IsFiniteSet(UnitsOf(h)) /\ TotalOf(h) \in Nat
  BY <1>1, TotalIsNat
<1>5. Cardinality(UnitsOf(g) \cup UnitsOf(h))
        = Cardinality(UnitsOf(g)) + Cardinality(UnitsOf(h))
          - Cardinality(UnitsOf(g) \cap UnitsOf(h))
  BY <1>4, FS_Union
<1>6. Cardinality(UnitsOf(f)) = TotalOf(g) + TotalOf(h) - 0
  BY <1>2, <1>3, <1>5, FS_EmptySet DEF TotalOf
<1>7. TotalOf(f) = TotalOf(g) + TotalOf(h)
  BY <1>4, <1>6 DEF TotalOf
<1> QED
  BY <1>7 DEF g, h

\* A sum with one term is that term.
LEMMA TotalOfOne ==
    ASSUME NEW x, NEW f \in [{x} -> Nat]
    PROVE  TotalOf(f) = f[x]
<1>1. UnitsOf(f) = Column(f, x)
  BY DEF UnitsOf, Column
<1>2. f[x] \in Nat
  OBVIOUS
<1> QED
  BY <1>1, <1>2, ColumnSize DEF TotalOf
=============================================================================
