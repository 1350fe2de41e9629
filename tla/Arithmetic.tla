----------------------------- MODULE Arithmetic -----------------------------
(***************************************************************************)
(* Division with rest, as the proofs about offsets and rows need it, and   *)
(* least numbers, which stand in for induction, and places in an order.    *)
(***************************************************************************)
EXTENDS Integers, FiniteSets, FiniteSetTheorems, WellFoundedInduction, TLAPS

\* Exact division.
LEMMA MultipleDivides ==
    ASSUME NEW b \in Nat \ {0}, NEW x \in Nat
    PROVE  (b * x) \div b = x /\ (b * x) % b = 0
  <1> DEFINE q == (b * x) \div b
             r == (b * x) % b
  <1>1. b * x \in Nat
    OBVIOUS
  <1>2. q \in Nat /\ r \in 0 .. b - 1 /\ b * x = (b * q) + r
    BY <1>1
  <1> HIDE DEF q, r
  <1>3. b * (x - q) = r
    BY <1>2
  <1>4. x - q = 0
    <2>1. CASE x - q >= 1
      <3>1. b * (x - q) >= b
        BY <1>2, <2>1
      <3> QED
        BY <3>1, <1>2, <1>3
    <2>2. CASE x - q <= -1
      <3>1. b * (x - q) <= -b
        BY <1>2, <2>2
      <3> QED
        BY <3>1, <1>2, <1>3
    <2> QED
      BY <1>2, <2>1, <2>2
  <1>5. r = 0 /\ q = x
    BY <1>2, <1>3, <1>4
  <1> QED
    BY <1>5 DEF q, r

\* Of factors that are not nothing.
LEMMA PositiveProduct ==
    ASSUME NEW a \in Nat \ {0}, NEW b \in Nat \ {0}
    PROVE  a * b \in Nat \ {0}
  <1>1. a * b \in Nat
    OBVIOUS
  <1>2. a * b > 0
    OBVIOUS
  <1> QED
    BY <1>1, <1>2

\* Offsets that keep an alignment.
LEMMA MultiplesAdd ==
    ASSUME NEW b \in Nat \ {0}, NEW x \in Nat, NEW y \in Nat, x % b = 0, y % b = 0
    PROVE  (x + y) % b = 0
  <1>1. /\ x \div b \in Nat /\ x = b * (x \div b)
        /\ y \div b \in Nat /\ y = b * (y \div b)
    OBVIOUS
  <1>2. (x \div b) + (y \div b) \in Nat /\ x + y = b * ((x \div b) + (y \div b))
    BY <1>1
  <1> QED
    BY <1>2, MultipleDivides

\* Which of the pieces of size b, counted from zero, a number falls in.
LEMMA PieceOf ==
    ASSUME NEW b \in Nat \ {0}, NEW x \in Nat, NEW i \in Nat
    PROVE  x \in i * b .. (i + 1) * b - 1 <=> i = x \div b
  <1> DEFINE q == x \div b
             r == x % b
  <1>1. q \in Nat /\ r \in 0 .. b - 1 /\ x = (b * q) + r
    OBVIOUS
  <1> HIDE DEF q, r
  <1>2. (q + 1) * b = b * q + b /\ q * b = b * q
    BY <1>1
  <1>3. ASSUME i = q PROVE x \in i * b .. (i + 1) * b - 1
    BY <1>1, <1>2, <1>3
  <1>4. ASSUME x \in i * b .. (i + 1) * b - 1 PROVE i = q
    <2>1. (i + 1) * b = b * i + b /\ i * b = b * i /\ b * i \in Nat /\ b * q \in Nat
      BY <1>1
    <2>2. b * (q - i) = b * q - b * i
      BY <1>1
    <2>3. b * q - b * i < b /\ b * q - b * i > -b
      BY <1>1, <1>4, <2>1
    <2>4. b * (q - i) < b /\ b * (q - i) > -b
      BY <1>1, <2>1, <2>2, <2>3
    <2> DEFINE d == q - i
    <2>5. d \in Int /\ b * d < b /\ b * d > -b
      BY <1>1, <2>4
    <2> HIDE DEF d
    <2>6. ~(d >= 1)
      <3> SUFFICES ASSUME d >= 1 PROVE b * d >= b
        BY <2>5
      <3> QED
        BY <2>5
    <2>7. ~(d <= -1)
      <3> SUFFICES ASSUME d <= -1 PROVE b * d <= -b
        BY <2>5
      <3> QED
        BY <2>5
    <2>8. d = 0
      BY <2>5, <2>6, <2>7
    <2> QED
      BY <1>1, <2>8 DEF d
  <1> QED
    BY <1>3, <1>4 DEF q

\* A place in rows of equal length, from the row and the place in it.
LEMMA RowMajor ==
    ASSUME NEW b \in Nat \ {0}, NEW i \in Nat, NEW j \in 0 .. b - 1
    PROVE  /\ i * b + j \in Nat
           /\ (i * b + j) \div b = i /\ (i * b + j) % b = j
  <1> DEFINE m == i * b
             x == m + j
  <1>1. m \in Nat /\ (i + 1) * b = m + b
    OBVIOUS
  <1>2. x \in i * b .. (i + 1) * b - 1
    BY <1>1
  <1>3. x \in Nat
    BY <1>1
  <1>4. i = x \div b
    BY <1>2, <1>3, PieceOf
  <1>5. x = b * (x \div b) + (x % b) /\ x % b \in Nat
    BY <1>3
  <1>6. b * i = m
    OBVIOUS
  <1> HIDE DEF m
  <1>7. x % b = j
    BY <1>1, <1>4, <1>5, <1>6
  <1> QED
    BY <1>3, <1>4, <1>7 DEF m

\* The place is within the rows.
LEMMA RowMajorBound ==
    ASSUME NEW b \in Nat \ {0}, NEW n \in Nat, NEW i \in 0 .. n - 1, NEW j \in 0 .. b - 1
    PROVE  /\ i * b \in Nat /\ n * b \in Nat
           /\ i * b + j + 1 \in 1 .. n * b
  <1>1. (i + 1) * b <= n * b /\ (i + 1) * b = i * b + b /\ i * b \in Nat /\ n * b \in Nat
    OBVIOUS
  <1> DEFINE m == i * b
             k == n * b
  <1>2. m + b <= k /\ m \in Nat /\ k \in Nat
    BY <1>1
  <1> HIDE DEF m, k
  <1>3. m + j + 1 \in 1 .. k
    BY <1>2
  <1> QED
    BY <1>2, <1>3 DEF m, k

\* Which of n pieces of size s a number below their sum falls in.
LEMMA PieceOfSome ==
    ASSUME NEW s \in Nat \ {0}, NEW n \in Nat, NEW x \in 0 .. n * s - 1
    PROVE  /\ x \div s \in 0 .. n - 1
           /\ \A g \in 0 .. n - 1 : x \in g * s .. (g + 1) * s - 1 <=> g = x \div s
  <1>1. x \in Nat /\ n * s \in Nat
    OBVIOUS
  <1> DEFINE d == x \div s
  <1>2. d \in Nat
    BY <1>1
  <1>3. \A g \in Nat : x \in g * s .. (g + 1) * s - 1 <=> g = d
    BY <1>1, PieceOf
  <1>4. d * s <= x
    <2>1. x \in d * s .. (d + 1) * s - 1
      BY <1>2, <1>3
    <2> QED
      BY <2>1
  <1> HIDE DEF d
  <1>5. ~(d >= n)
    <2> SUFFICES ASSUME d >= n PROVE FALSE
      OBVIOUS
    <2>1. d * s >= n * s
      BY <1>2
    <2>2. d * s \in Nat
      BY <1>2
    <2> QED
      BY <1>1, <1>4, <2>1, <2>2
  <1>6. d \in 0 .. n - 1
    BY <1>2, <1>5
  <1> QED
    BY <1>3, <1>6 DEF d

\* Every non-empty set of numbers has a least element.
LEMMA LeastNumber ==
    ASSUME NEW T \in SUBSET Nat, T # {}
    PROVE  \E x \in T : \A y \in T : x <= y
  <1>1. \E x \in T : \A y \in T : ~(<<y, x>> \in OpToRel(<, Nat))
    BY WFMin, NatLessThanWellFounded
  <1>2. PICK x \in T : \A y \in T : ~(<<y, x>> \in OpToRel(<, Nat))
    BY <1>1
  <1>3. \A y \in T : ~(y < x)
    BY <1>2 DEF OpToRel
  <1> QED
    BY <1>3

\* What holds at zero and then at the next number, holds everywhere.
LEMMA FromZero ==
    ASSUME NEW n \in Nat, NEW T, 0 \in T, \A i \in 1 .. n : i - 1 \in T => i \in T
    PROVE  \A i \in 0 .. n : i \in T
  <1> DEFINE Missing == {i \in 0 .. n : i \notin T}
  <1> SUFFICES ASSUME Missing # {}
               PROVE  FALSE
    OBVIOUS
  <1>1. Missing \in SUBSET Nat
    OBVIOUS
  <1> HIDE DEF Missing
  <1>2. PICK m \in Missing : \A y \in Missing : m <= y
    BY <1>1, LeastNumber
  <1>3. m \in 1 .. n /\ m \notin T
    BY <1>2 DEF Missing
  <1>4. m - 1 \in 0 .. n /\ ~(m <= m - 1)
    BY <1>3
  <1>5. m - 1 \in T
    BY <1>2, <1>4 DEF Missing
  <1> QED
    BY <1>3, <1>5

\* Step by step from the one before: there is such a function.
Stepwise(f, n, base, G) ==
    f[0] = base /\ \A i \in 1 .. n : f[i] = G[<<i, f[i - 1]>>]

LEMMA StepsExist ==
    ASSUME NEW n \in Nat, NEW X, NEW base \in X, NEW G \in [(1 .. n) \X X -> X]
    PROVE  \E f \in [0 .. n -> X] : Stepwise(f, n, base, G)
  <1> DEFINE T == {m \in 0 .. n : \E f \in [0 .. m -> X] : Stepwise(f, m, base, G)}
  <1>1. 0 \in T
    <2> DEFINE f == [i \in 0 .. 0 |-> base]
    <2>1. f \in [0 .. 0 -> X] /\ f[0] = base
      OBVIOUS
    <2>2. Stepwise(f, 0, base, G)
      BY <2>1 DEF Stepwise
    <2> HIDE DEF f
    <2> QED
      BY <2>1, <2>2
  <1>2. ASSUME NEW m \in 1 .. n, m - 1 \in T
        PROVE  m \in T
    <2>1. PICK f \in [0 .. m - 1 -> X] : Stepwise(f, m - 1, base, G)
      BY <1>2
    <2> DEFINE g == [i \in 0 .. m |-> IF i = m THEN G[<<m, f[m - 1]>>] ELSE f[i]]
    <2>2. m - 1 \in 0 .. m - 1 /\ f[m - 1] \in X
      OBVIOUS
    <2>3. g \in [0 .. m -> X]
      <3>1. G[<<m, f[m - 1]>>] \in X
        BY <2>2
      <3>2. \A i \in 0 .. m : i # m => f[i] \in X
        OBVIOUS
      <3> QED
        BY <3>1, <3>2
    <2>4. Stepwise(g, m, base, G)
      <3>1. g[0] = f[0]
        OBVIOUS
      <3>2. ASSUME NEW i \in 1 .. m, i # m
            PROVE  g[i] = f[i] /\ g[i - 1] = f[i - 1] /\ i \in 1 .. m - 1
        BY <3>2
      <3>3. g[m] = G[<<m, f[m - 1]>>] /\ g[m - 1] = f[m - 1]
        OBVIOUS
      <3> HIDE DEF g
      <3> QED
        BY <2>1, <3>1, <3>2, <3>3 DEF Stepwise
    <2> HIDE DEF g
    <2> QED
      BY <2>3, <2>4
  <1>3. \A m \in 0 .. n : m \in T
    <2> HIDE DEF T
    <2> QED
      BY <1>1, <1>2, FromZero
  <1> QED
    BY <1>3

LEMMA LastOrEarlier ==
    ASSUME NEW l \in Nat
    PROVE  \A k \in 1 .. l + 1 : k \in 1 .. l \/ k = l + 1
  OBVIOUS

(***************************************************************************)
(* Orders.                                                                 *)
(***************************************************************************)
\* The elements of S before e in an order.
Below(S, R, e) == {o \in S : <<o, e>> \in R}

TotalOrder(S, R) ==
    /\ \A a \in S : <<a, a>> \notin R
    /\ \A a, b, c \in S : <<a, b>> \in R /\ <<b, c>> \in R => <<a, c>> \in R
    /\ \A a, b \in S : a = b \/ <<a, b>> \in R \/ <<b, a>> \in R

\* The number of elements before one is its place: no two have the same, and every
\* place is taken.
LEMMA Ranks ==
    ASSUME NEW S, IsFiniteSet(S), NEW R, TotalOrder(S, R),
           NEW rank, rank = [e \in S |-> Cardinality(Below(S, R, e))]
    PROVE  /\ Cardinality(S) \in Nat
           /\ rank \in [S -> 0 .. Cardinality(S) - 1]
           /\ \A a, b \in S : <<a, b>> \in R => rank[a] < rank[b]
           /\ \A a, b \in S : rank[a] = rank[b] => a = b
           /\ \A r \in 0 .. Cardinality(S) - 1 : \E e \in S : rank[e] = r
  <1> DEFINE n == Cardinality(S)
  <1>1. n \in Nat
    BY FS_CardinalityType
  <1>2. ASSUME NEW e \in S
        PROVE  IsFiniteSet(Below(S, R, e)) /\ rank[e] = Cardinality(Below(S, R, e))
               /\ rank[e] \in 0 .. n - 1
    <2>1. Below(S, R, e) \in SUBSET (S \ {e})
      BY DEF Below, TotalOrder
    <2>2. IsFiniteSet(S \ {e}) /\ Cardinality(S \ {e}) = n - 1
      BY FS_RemoveElement
    <2>3. IsFiniteSet(Below(S, R, e)) /\ Cardinality(Below(S, R, e)) <= n - 1
      BY <2>1, <2>2, FS_Subset
    <2>4. Cardinality(Below(S, R, e)) \in Nat
      BY <2>3, FS_CardinalityType
    <2> HIDE DEF n
    <2> QED
      BY <1>1, <2>3, <2>4
  <1>3. ASSUME NEW a \in S, NEW b \in S, <<a, b>> \in R
        PROVE  rank[a] < rank[b]
    <2>1. Below(S, R, a) \cup {a} \in SUBSET Below(S, R, b) /\ a \notin Below(S, R, a)
      BY <1>3 DEF Below, TotalOrder
    <2>2. Cardinality(Below(S, R, a) \cup {a}) = rank[a] + 1
      BY <1>2, <2>1, FS_AddElement
    <2>3. Cardinality(Below(S, R, a) \cup {a}) <= rank[b]
      BY <1>2, <2>1, FS_Subset
    <2>4. rank[a] \in Nat /\ rank[b] \in Nat
      BY <1>2
    <2> QED
      BY <2>2, <2>3, <2>4
  <1>4. rank \in [S -> 0 .. n - 1]
    BY <1>2
  <1>5. \A a, b \in S : rank[a] = rank[b] => a = b
    <2>1. \A a, b \in S : a # b => rank[a] < rank[b] \/ rank[b] < rank[a]
      BY <1>3 DEF TotalOrder
    <2>2. \A a \in S : rank[a] \in Nat
      BY <1>2
    <2> QED
      BY <2>1, <2>2
  <1>6. \A r \in 0 .. n - 1 : \E e \in S : rank[e] = r
    <2>1. rank \in Injection(S, 0 .. n - 1)
      BY <1>4, <1>5 DEF Injection, IsInjective
    <2>2. IsFiniteSet(0 .. n - 1) /\ Cardinality(0 .. n - 1) = n
      <3>1. 0 \in Int /\ n - 1 \in Int /\ (IF 0 > n - 1 THEN 0 ELSE (n - 1) - 0 + 1) = n
        BY <1>1
      <3> HIDE DEF n
      <3> QED
        BY <3>1, FS_Interval
    <2>3. rank \in Surjection(S, 0 .. n - 1)
      BY <2>1, <2>2, FS_Injection
    <2> QED
      BY <2>3 DEF Surjection
  <1> QED
    BY <1>1, <1>3, <1>4, <1>5, <1>6

\* Who has fewer than k before him is one of k.
LEMMA FirstInOrder ==
    ASSUME NEW S, IsFiniteSet(S), NEW R, TotalOrder(S, R), NEW k \in 0 .. Cardinality(S),
           NEW chosen, \A e : e \in chosen <=> e \in S /\ Cardinality(Below(S, R, e)) < k
    PROVE  /\ IsFiniteSet(chosen) /\ Cardinality(chosen) = k
           /\ \A e \in chosen, o \in S \ chosen : <<e, o>> \in R
  <1> DEFINE n == Cardinality(S)
  <1> PICK rank : rank = [e \in S |-> Cardinality(Below(S, R, e))]
    OBVIOUS
  <1>1. /\ n \in Nat
        /\ rank \in [S -> 0 .. n - 1]
        /\ \A a, b \in S : <<a, b>> \in R => rank[a] < rank[b]
        /\ \A a, b \in S : rank[a] = rank[b] => a = b
        /\ \A r \in 0 .. n - 1 : \E e \in S : rank[e] = r
    BY Ranks
  <1>2. \A e \in S : rank[e] = Cardinality(Below(S, R, e)) /\ rank[e] \in 0 .. n - 1
    BY <1>1
  <1>3. n \in Nat /\ k \in 0 .. n /\ k \in Nat /\ k <= n
    BY <1>1
  <1>4. /\ chosen \in SUBSET S /\ \A e \in S : e \in chosen <=> rank[e] < k
    BY <1>2
  <1>5. IsFiniteSet(chosen) /\ Cardinality(chosen) = k
    <2> DEFINE g == [e \in chosen |-> rank[e]]
    <2>1. g \in [chosen -> 0 .. k - 1]
      <3>1. \A e \in chosen : rank[e] \in 0 .. k - 1
        BY <1>3, <1>2, <1>4
      <3> QED
        BY <3>1
    <2>2. \A a, b \in chosen : g[a] = g[b] => a = b
      BY <1>1, <1>4
    <2>3. \A r \in 0 .. k - 1 : \E e \in chosen : g[e] = r
      <3>1. ASSUME NEW r \in 0 .. k - 1
            PROVE  \E e \in chosen : rank[e] = r
        <4>1. r \in 0 .. n - 1 /\ r < k
          BY <1>3
        <4> QED
          BY <1>1, <1>4, <4>1
      <3> QED
        BY <3>1
    <2>4. g \in Bijection(chosen, 0 .. k - 1)
      <3> HIDE DEF g
      <3> QED
        BY <2>1, <2>2, <2>3 DEF Bijection, Injection, Surjection, IsInjective
    <2>5. IsFiniteSet(0 .. k - 1) /\ Cardinality(0 .. k - 1) = k
      <3>1. 0 \in Int /\ k - 1 \in Int /\ (IF 0 > k - 1 THEN 0 ELSE (k - 1) - 0 + 1) = k
        BY <1>3
      <3> QED
        BY <3>1, FS_Interval
    <2>6. IsFiniteSet(chosen)
      BY <1>4, FS_Subset
    <2>7. ExistsBijection(chosen, 0 .. k - 1)
      BY <2>4 DEF ExistsBijection
    <2> QED
      BY <2>5, <2>6, <2>7, FS_Bijection
  <1>6. ASSUME NEW e \in chosen, NEW o \in S \ chosen
        PROVE  <<e, o>> \in R
    <2>1. rank[e] < k /\ ~(rank[o] < k) /\ rank[e] \in Nat /\ rank[o] \in Nat
      BY <1>2, <1>4
    <2>2. ~(<<o, e>> \in R) /\ e # o
      <3>1. ~(rank[o] < rank[e])
        BY <1>3, <2>1
      <3> QED
        BY <1>1, <1>4, <3>1
    <2> QED
      BY <1>4, <2>2 DEF TotalOrder
  <1> QED
    BY <1>5, <1>6

LEMMA RanksAreTotal ==
    ASSUME NEW S \in SUBSET Int, NEW v \in [S -> Int], NEW R,
           \A a, b \in S : <<a, b>> \in R <=> v[a] > v[b] \/ (v[a] = v[b] /\ a < b)
    PROVE  TotalOrder(S, R)
  <1>1. \A a \in S : a \in Int /\ v[a] \in Int
    OBVIOUS
  <1>2. \A a \in S : <<a, a>> \notin R
    BY <1>1
  <1>3. ASSUME NEW a \in S, NEW b \in S, NEW c \in S, <<a, b>> \in R, <<b, c>> \in R
        PROVE  <<a, c>> \in R
    <2>1. /\ v[a] > v[b] \/ (v[a] = v[b] /\ a < b)
          /\ v[b] > v[c] \/ (v[b] = v[c] /\ b < c)
      BY <1>3
    <2>2. v[a] > v[c] \/ (v[a] = v[c] /\ a < c)
      BY <1>1, <2>1
    <2> QED
      BY <2>2
  <1>4. ASSUME NEW a \in S, NEW b \in S
        PROVE  a = b \/ <<a, b>> \in R \/ <<b, a>> \in R
    <2>1. v[a] > v[b] \/ (v[a] = v[b] /\ a < b) \/ v[b] > v[a] \/ (v[b] = v[a] /\ b < a)
          \/ a = b
      BY <1>1
    <2> QED
      BY <2>1
  <1> QED
    BY <1>2, <1>3, <1>4 DEF TotalOrder

\* Those with the highest values, and the least index among equals, are as many
\* as asked for.
LEMMA BestOf ==
    ASSUME NEW n \in Nat \ {0}, NEW v \in [0 .. n - 1 -> Int], NEW k \in 1 .. n, NEW R,
           \A a, b \in 0 .. n - 1 : <<a, b>> \in R <=> v[a] > v[b] \/ (v[a] = v[b] /\ a < b),
           NEW chosen,
           \A e : e \in chosen <=> e \in 0 .. n - 1 /\ Cardinality(Below(0 .. n - 1, R, e)) < k
    PROVE  /\ IsFiniteSet(0 .. n - 1) /\ Cardinality(0 .. n - 1) = n
           /\ IsFiniteSet(chosen) /\ Cardinality(chosen) = k
           /\ \A e \in chosen, o \in (0 .. n - 1) \ chosen : v[e] >= v[o]
  <1>1. IsFiniteSet(0 .. n - 1) /\ Cardinality(0 .. n - 1) = n
    <2>1. 0 \in Int /\ n - 1 \in Int /\ (IF 0 > n - 1 THEN 0 ELSE (n - 1) - 0 + 1) = n
      OBVIOUS
    <2> QED
      BY <2>1, FS_Interval
  <1>2. TotalOrder(0 .. n - 1, R)
    <2>1. 0 .. n - 1 \in SUBSET Int
      OBVIOUS
    <2> QED
      BY <2>1, RanksAreTotal
  <1>3. k \in 0 .. Cardinality(0 .. n - 1)
    BY <1>1
  <1>4. /\ IsFiniteSet(chosen) /\ Cardinality(chosen) = k
        /\ \A e \in chosen, o \in (0 .. n - 1) \ chosen : <<e, o>> \in R
    BY <1>1, <1>2, <1>3, FirstInOrder
  <1>5. ASSUME NEW e \in chosen, NEW o \in (0 .. n - 1) \ chosen
        PROVE  v[e] >= v[o]
    <2>1. e \in 0 .. n - 1 /\ o \in 0 .. n - 1 /\ <<e, o>> \in R
      BY <1>4
    <2>2. v[e] > v[o] \/ v[e] = v[o]
      BY <2>1
    <2>3. v[e] \in Int /\ v[o] \in Int
      BY <2>1
    <2> QED
      BY <2>2, <2>3
  <1> QED
    BY <1>1, <1>4, <1>5
=============================================================================
