---------------------------- MODULE ChunksProofs ----------------------------
(***************************************************************************)
(* The pieces of a transfer tile its bytes, for every length and every     *)
(* chunk_size.                                                             *)
(***************************************************************************)
EXTENDS Chunks, TLAPS

\* Division by a positive number rounds down.
LEMMA DivFacts ==
  ASSUME NEW a \in Int, NEW b \in Nat \ {0}
  PROVE  /\ a \div b \in Int
         /\ (a \div b) * b <= a
         /\ a < (a \div b) * b + b
BY Z3

\* A product grows with its first factor, by the second one at least.
LEMMA ProductOrder ==
  ASSUME NEW i \in Int, NEW j \in Int, NEW b \in Nat \ {0}, i < j
  PROVE  i * b + b <= j * b
<1>1. PICK d \in Nat : j = i + 1 + d
  <2>1. j - i - 1 \in Nat /\ j = i + 1 + (j - i - 1)
    OBVIOUS
  <2>2. QED BY <2>1
<1>2. j * b = i * b + b + d * b
  BY <1>1, Z3
<1>3. d * b \in Nat
  BY Z3
<1>4. i * b \in Int /\ j * b \in Int
  BY Z3
<1>5. QED BY <1>2, <1>3, <1>4

\* The number of pieces is the least one whose chunks cover the bytes.
LEMMA NPiecesFacts ==
  ASSUME NEW total \in Nat, NEW cs \in Nat \ {0}
  PROVE  /\ NPieces(total, cs) \in Nat
         /\ total <= NPieces(total, cs) * cs
         /\ NPieces(total, cs) * cs < total + cs
<1> DEFINE n == NPieces(total, cs)
<1>1. /\ n \in Int
      /\ n * cs <= total + cs - 1
      /\ total + cs - 1 < n * cs + cs
  BY DivFacts DEF NPieces
<1>2. n * cs \in Int
  BY <1>1, Z3
<1>3. total <= n * cs /\ n * cs < total + cs
  BY <1>1, <1>2
<1>4. ASSUME n < 0 PROVE FALSE
  <2>1. n * cs + cs <= 0 * cs
    BY <1>1, <1>4, ProductOrder
  <2>2. 0 * cs = 0
    BY Z3
  <2>3. QED BY <2>1, <2>2, <1>3, <1>2
<1>5. QED BY <1>1, <1>3, <1>4

\* No piece is empty or longer than chunk_size, none but the last is shorter,
\* and each begins where the one before it ends.
THEOREM PiecesFit ==
  ASSUME NEW total \in Nat, NEW cs \in Nat \ {0},
         NEW i \in 0 .. (NPieces(total, cs) - 1)
  PROVE  /\ 0 <= Start(i, cs)
         /\ Start(i, cs) < End(i, total, cs)
         /\ End(i, total, cs) <= total
         /\ End(i, total, cs) - Start(i, cs) <= cs
         /\ i < NPieces(total, cs) - 1 => End(i, total, cs) = Start(i + 1, cs)
         /\ i = NPieces(total, cs) - 1 => End(i, total, cs) = total
<1> DEFINE n == NPieces(total, cs)
<1>1. n \in Nat /\ total <= n * cs /\ n * cs < total + cs
  BY NPiecesFacts
<1> HIDE DEF n
<1>2. i \in Nat /\ i < n
  BY <1>1 DEF n
<1>3. i * cs \in Nat /\ n * cs \in Nat
  BY <1>1, <1>2, Z3
<1>4. i * cs + cs <= n * cs
  BY <1>1, <1>2, ProductOrder
<1>5. (i + 1) * cs = i * cs + cs
  BY <1>2, Z3
<1>6. i * cs < total
  BY <1>1, <1>3, <1>4
<1>7. i < n - 1 => i * cs + cs < total
  <2> SUFFICES ASSUME i < n - 1 PROVE i * cs + cs < total
    OBVIOUS
  <2>1. (i + 1) * cs + cs <= n * cs
    BY <1>1, <1>2, ProductOrder
  <2>2. QED BY <2>1, <1>1, <1>3, <1>5
<1>8. i = n - 1 => total <= i * cs + cs
  <2> SUFFICES ASSUME i = n - 1 PROVE total <= i * cs + cs
    OBVIOUS
  <2>1. i + 1 = n
    BY <1>1, <1>2
  <2>2. QED BY <2>1, <1>1, <1>5
<1>9. QED
  BY <1>1, <1>2, <1>3, <1>5, <1>6, <1>7, <1>8 DEF Start, End, n

\* Every byte of the body or the object is in exactly one piece.
THEOREM PiecesTile ==
  ASSUME NEW total \in Nat, NEW cs \in Nat \ {0}, NEW p \in 0 .. (total - 1)
  PROVE  \E i \in 0 .. (NPieces(total, cs) - 1) :
           /\ Start(i, cs) <= p /\ p < End(i, total, cs)
           /\ \A j \in 0 .. (NPieces(total, cs) - 1) :
                (Start(j, cs) <= p /\ p < End(j, total, cs)) => j = i
<1> DEFINE n == NPieces(total, cs)
<1> DEFINE i == p \div cs
<1>1. n \in Nat /\ total <= n * cs
  BY NPiecesFacts
<1>2. i \in Int /\ i * cs <= p /\ p < i * cs + cs
  BY DivFacts
<1> HIDE DEF n, i
<1>3. n * cs \in Nat /\ i * cs \in Int
  BY <1>1, <1>2, Z3
<1>4. i >= 0
  <2> SUFFICES ASSUME i < 0 PROVE FALSE
    BY <1>2
  <2>1. i * cs + cs <= 0 * cs
    BY <1>2, ProductOrder
  <2>2. 0 * cs = 0
    BY Z3
  <2>3. QED BY <2>1, <2>2, <1>2, <1>3
<1>5. i < n
  <2> SUFFICES ASSUME n <= i PROVE FALSE
    BY <1>1, <1>2
  <2>1. n * cs <= i * cs
    <3>1. CASE n = i
      BY <3>1, <1>3
    <3>2. CASE n < i
      BY <3>2, <1>1, <1>2, <1>3, ProductOrder
    <3>3. QED BY <3>1, <3>2, <1>1, <1>2
  <2>2. QED BY <2>1, <1>1, <1>2, <1>3
<1>6. i \in 0 .. (n - 1)
  BY <1>1, <1>2, <1>4, <1>5
<1>7. Start(i, cs) <= p /\ p < End(i, total, cs)
  BY <1>2, <1>3 DEF Start, End
<1>8. ASSUME NEW j \in 0 .. (n - 1), Start(j, cs) <= p, p < End(j, total, cs)
      PROVE  j = i
  <2>1. j \in Int /\ j * cs \in Int
    BY <1>1, Z3
  <2>2. j * cs <= p /\ p < j * cs + cs
    BY <1>8, <2>1 DEF Start, End
  <2>3. ~ (j < i)
    <3> SUFFICES ASSUME j < i PROVE FALSE
      OBVIOUS
    <3>1. j * cs + cs <= i * cs
      BY <2>1, <1>2, ProductOrder
    <3>2. QED BY <3>1, <2>1, <2>2, <1>2, <1>3
  <2>4. ~ (i < j)
    <3> SUFFICES ASSUME i < j PROVE FALSE
      OBVIOUS
    <3>1. i * cs + cs <= j * cs
      BY <2>1, <1>2, ProductOrder
    <3>2. QED BY <3>1, <2>1, <2>2, <1>2, <1>3
  <2>5. QED BY <2>1, <2>3, <2>4, <1>2
<1>9. QED
  BY <1>6, <1>7, <1>8 DEF n
=============================================================================
