---------------------------- MODULE TotalsProofs ----------------------------
(***************************************************************************)
(* What the proofs of the pool need to know of Total, for functions with   *)
(* bounded values: the bound stands in for an induction on the domain.     *)
(***************************************************************************)
EXTENDS Totals, FiniteSetTheorems, TLAPS

\* A bounded function stands for finitely many units: Total counts them.
LEMMA UnitsFinite ==
  ASSUME NEW S, IsFiniteSet(S), NEW B \in Nat, NEW f \in [S -> 0 .. B]
  PROVE  IsFiniteSet(UnitsOf(f)) /\ Total(f) \in Nat
<1>1. IsFiniteSet(1 .. B)
  BY FS_Interval
<1>2. IsFiniteSet(S \X (1 .. B))
  BY <1>1, FS_Product
<1>3. UnitsOf(f) \in SUBSET (S \X (1 .. B))
  BY DEF UnitsOf
<1>4. IsFiniteSet(UnitsOf(f))
  BY <1>2, <1>3, FS_Subset
<1> QED
  BY <1>4, FS_CardinalityType DEF Total

\* A function that is zero everywhere stands for no unit.
LEMMA TotalZero ==
  ASSUME NEW S, NEW f \in [S -> {0}]
  PROVE  Total(f) = 0
<1>1. UnitsOf(f) = {}
  BY DEF UnitsOf
<1> QED
  BY <1>1, FS_EmptySet DEF Total

\* The units of one element can be set apart from the others'.
LEMMA TotalSplit ==
  ASSUME NEW S, IsFiniteSet(S), NEW B \in Nat, NEW f \in [S -> 0 .. B],
         NEW c \in S
  PROVE  Total(f) = Total([f EXCEPT ![c] = 0]) + f[c]
<1> DEFINE g   == [f EXCEPT ![c] = 0]
           own == {c} \X (1 .. f[c])
<1>1. g \in [S -> 0 .. B]
  OBVIOUS
<1>2. IsFiniteSet(UnitsOf(g)) /\ Total(g) \in Nat
  BY <1>1, UnitsFinite
<1>3. /\ IsFiniteSet(own)
      /\ Cardinality(own) = f[c]
  <2>1. IsFiniteSet({c}) /\ Cardinality({c}) = 1
    BY FS_Singleton
  <2>2. IsFiniteSet(1 .. f[c]) /\ Cardinality(1 .. f[c]) = f[c]
    BY FS_Interval
  <2> DEFINE A == {c}
             I == 1 .. f[c]
  <2> HIDE DEF A, I
  <2>3. /\ IsFiniteSet(A \X I)
        /\ Cardinality(A \X I) = Cardinality(A) * Cardinality(I)
    <3>1. IsFiniteSet(A) /\ IsFiniteSet(I)
      BY <2>1, <2>2 DEF A, I
    <3> QED
      BY <3>1, FS_Product, Zenon
  <2>4. Cardinality(A) * Cardinality(I) = f[c]
    <3>1. Cardinality(A) = 1 /\ Cardinality(I) = f[c] /\ f[c] \in Int
      BY <2>1, <2>2 DEF A, I
    <3>2. \A n \in Int : 1 * n = n
      OBVIOUS
    <3> QED
      BY <3>1, <3>2
  <2> QED
    BY <2>3, <2>4 DEF A, I
<1>4. UnitsOf(f) = UnitsOf(g) \cup own
  <2>1. ASSUME NEW u \in UnitsOf(f) PROVE u \in UnitsOf(g) \cup own
    <3>1. PICK d \in S : u \in {d} \X (1 .. f[d])
      BY <2>1 DEF UnitsOf
    <3>2. CASE d = c
      BY <3>1, <3>2
    <3>3. CASE d # c
      <4>1. g[d] = f[d] /\ d \in DOMAIN g
        BY <3>3
      <4> QED
        BY <3>1, <4>1 DEF UnitsOf
    <3> QED
      BY <3>2, <3>3
  <2>2. ASSUME NEW u \in UnitsOf(g) PROVE u \in UnitsOf(f)
    <3>1. PICK d \in S : u \in {d} \X (1 .. g[d])
      BY <2>2 DEF UnitsOf
    <3>2. d # c /\ g[d] = f[d]
      BY <3>1
    <3> QED
      BY <3>1, <3>2 DEF UnitsOf
  <2>3. own \subseteq UnitsOf(f)
    BY DEF UnitsOf
  <2> QED
    BY <2>1, <2>2, <2>3
<1>5. UnitsOf(g) \cap own = {}
  <2> SUFFICES ASSUME NEW u \in UnitsOf(g), u \in own PROVE FALSE
    OBVIOUS
  <2>1. PICK d \in S : u \in {d} \X (1 .. g[d])
    BY DEF UnitsOf
  <2> QED
    BY <2>1
<1>6. Cardinality(UnitsOf(g) \cap own) = 0
  BY <1>5, FS_EmptySet
<1>7. Cardinality(UnitsOf(g) \cup own) =
        Cardinality(UnitsOf(g)) + Cardinality(own)
           - Cardinality(UnitsOf(g) \cap own)
  BY <1>2, <1>3, FS_Union
<1> QED
  BY <1>2, <1>3, <1>4, <1>6, <1>7 DEF Total

\* Two functions that differ at one element differ by as much in total.
LEMMA TotalUpdate ==
  ASSUME NEW S, IsFiniteSet(S), NEW B \in Nat,
         NEW f \in [S -> 0 .. B], NEW g \in [S -> 0 .. B],
         NEW c \in S, \A d \in S : d # c => g[d] = f[d]
  PROVE  Total(g) = Total(f) - f[c] + g[c]
<1>1. [g EXCEPT ![c] = 0] = [f EXCEPT ![c] = 0]
  OBVIOUS
<1>2. Total(f) = Total([f EXCEPT ![c] = 0]) + f[c]
  BY TotalSplit
<1>3. Total(g) = Total([g EXCEPT ![c] = 0]) + g[c]
  BY TotalSplit
<1>4. Total([f EXCEPT ![c] = 0]) \in Nat
  <2>1. [f EXCEPT ![c] = 0] \in [S -> 0 .. B]
    OBVIOUS
  <2> QED
    BY <2>1, UnitsFinite
<1> QED
  BY <1>1, <1>2, <1>3, <1>4

\* Smaller values, smaller total.
LEMMA TotalMonotone ==
  ASSUME NEW S, IsFiniteSet(S), NEW B \in Nat,
         NEW f \in [S -> 0 .. B], NEW g \in [S -> 0 .. B],
         \A c \in S : f[c] <= g[c]
  PROVE  Total(f) <= Total(g)
<1>1. IsFiniteSet(UnitsOf(g))
  BY UnitsFinite
<1>2. UnitsOf(f) \in SUBSET UnitsOf(g)
  BY DEF UnitsOf
<1> QED
  BY <1>1, <1>2, FS_Subset DEF Total

\* No value exceeds the total.
LEMMA TotalCovers ==
  ASSUME NEW S, IsFiniteSet(S), NEW B \in Nat, NEW f \in [S -> 0 .. B],
         NEW c \in S
  PROVE  f[c] <= Total(f)
<1>1. Total(f) = Total([f EXCEPT ![c] = 0]) + f[c]
  BY TotalSplit
<1>2. [f EXCEPT ![c] = 0] \in [S -> 0 .. B]
  OBVIOUS
<1>3. Total([f EXCEPT ![c] = 0]) \in Nat
  BY <1>2, UnitsFinite
<1> QED
  BY <1>1, <1>3
=============================================================================
