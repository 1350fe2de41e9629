---------------------------- MODULE SamplerProofs -----------------------------
(***************************************************************************)
(* Proofs about Sampler, for every vocabulary, request, history and logits *)
(* and every exp: what the loops over the sorted candidates reach is what  *)
(* the property says of the tokens without an order, sums over a prefix of *)
(* the ranking being sums over the tokens before a place.                  *)
(***************************************************************************)
EXTENDS Sampler, Arithmetic, FiniteSetTheorems, TLAPS

(***************************************************************************)
(* Sums over sets.                                                         *)
(***************************************************************************)
\* The sums over the parts of a set, whichever element is taken out first.
IsSum(W, v, D) ==
    /\ W \in [SUBSET D -> Nat] /\ W[{}] = 0
    /\ \A A \in SUBSET D : \A c \in A : W[A] = v[c] + W[A \ {c}]

\* One more element: the sums without it, and those sums and its value.
LEMMA SumGrows ==
    ASSUME NEW D, NEW x \in D, NEW v, \A y \in D : v[y] \in Nat,
           NEW U, IsSum(U, v, D \ {x})
    PROVE  \E W : IsSum(W, v, D)
  <1> DEFINE W == [A \in SUBSET D |-> IF x \in A THEN v[x] + U[A \ {x}] ELSE U[A]]
  <1>1. /\ U \in [SUBSET (D \ {x}) -> Nat] /\ U[{}] = 0
        /\ \A A \in SUBSET (D \ {x}) : \A c \in A : U[A] = v[c] + U[A \ {c}]
    BY DEF IsSum
  <1>2. \A A \in SUBSET D : A \ {x} \in SUBSET (D \ {x}) /\ U[A \ {x}] \in Nat
    BY <1>1
  <1>3. ASSUME NEW A \in SUBSET D
        PROVE  W[A] \in Nat /\ W[A] = IF x \in A THEN v[x] + U[A \ {x}] ELSE U[A \ {x}]
    <2>1. CASE x \in A
      <3>1. W[A] = v[x] + U[A \ {x}]
        BY <2>1
      <3> HIDE DEF W
      <3> QED
        BY <1>2, <2>1, <3>1
    <2>2. CASE x \notin A
      <3>1. W[A] = U[A] /\ A \ {x} = A
        BY <2>2
      <3> HIDE DEF W
      <3> QED
        BY <1>2, <2>2, <3>1
    <2> QED
      BY <2>1, <2>2
  <1>4. W \in [SUBSET D -> Nat]
    <2>1. \A A \in SUBSET D : W[A] \in Nat
      BY <1>3
    <2>2. W = [A \in SUBSET D |-> W[A]]
      OBVIOUS
    <2> HIDE DEF W
    <2> QED
      BY <2>1, <2>2
  <1>5. W[{}] = 0
    <2>1. {} \in SUBSET D /\ {} \ {x} = {} /\ x \notin {}
      OBVIOUS
    <2> HIDE DEF W
    <2> QED
      BY <1>1, <1>3, <2>1
  <1> HIDE DEF W
  <1>6. ASSUME NEW A \in SUBSET D, NEW c \in A
        PROVE  W[A] = v[c] + W[A \ {c}]
    <2> PICK B : B = A \ {c}
      OBVIOUS
    <2>1. B \in SUBSET D /\ v[x] \in Nat /\ v[c] \in Nat
      OBVIOUS
    <2>2. CASE c = x
      <3>1. B \ {x} = A \ {x} /\ x \notin B /\ x \in A
        BY <2>2
      <3> QED
        BY <1>3, <2>1, <2>2, <3>1
    <2>3. CASE c # x
      <3>1. c \in A \ {x} /\ (A \ {x}) \ {c} = B \ {x} /\ (x \in A <=> x \in B)
        BY <2>3
      <3>2. U[A \ {x}] = v[c] + U[B \ {x}]
        BY <1>1, <1>2, <3>1
      <3>3. U[B \ {x}] \in Nat
        BY <1>2, <2>1
      <3>4. /\ W[A] = IF x \in A THEN v[x] + U[A \ {x}] ELSE U[A \ {x}]
            /\ W[B] = IF x \in A THEN v[x] + U[B \ {x}] ELSE U[B \ {x}]
        BY <1>3, <2>1, <3>1
      <3> QED
        BY <2>1, <3>2, <3>3, <3>4
    <2> QED
      BY <2>2, <2>3
  <1> QED
    BY <1>4, <1>5, <1>6 DEF IsSum

\* A finite set of numbers has such sums.
LEMMA SumExists ==
    ASSUME NEW D, IsFiniteSet(D), NEW v, \A x \in D : v[x] \in Nat
    PROVE  \E W : IsSum(W, v, D)
  <1> DEFINE N == Cardinality(D)
             T == {n \in 0 .. N : \A S \in SUBSET D :
                                     Cardinality(S) = n => \E W : IsSum(W, v, S)}
  <1>1. N \in Nat
    BY FS_CardinalityType
  <1>2. 0 \in T
    <2>1. ASSUME NEW S \in SUBSET D, Cardinality(S) = 0
          PROVE  \E W : IsSum(W, v, S)
      <3>1. S = {}
        BY <2>1, FS_Subset, FS_EmptySet
      <3> DEFINE W == [A \in SUBSET {} |-> 0]
      <3>2. W \in [SUBSET {} -> Nat] /\ W[{}] = 0
        OBVIOUS
      <3> HIDE DEF W
      <3>3. IsSum(W, v, {})
        BY <3>2 DEF IsSum
      <3> QED
        BY <3>1, <3>3
    <2> QED
      BY <1>1, <2>1
  <1>3. ASSUME NEW n \in 1 .. N, n - 1 \in T
        PROVE  n \in T
    <2>1. ASSUME NEW S \in SUBSET D, Cardinality(S) = n
          PROVE  \E W : IsSum(W, v, S)
      <3>1. IsFiniteSet(S)
        BY FS_Subset
      <3>2. S # {}
        BY <2>1, FS_EmptySet
      <3> PICK x \in S : TRUE
        BY <3>2
      <3>3. Cardinality(S \ {x}) = n - 1 /\ S \ {x} \in SUBSET D
        BY <2>1, <3>1, FS_RemoveElement
      <3>4. PICK U : IsSum(U, v, S \ {x})
        BY <1>3, <3>3
      <3> QED
        BY <3>4, SumGrows
    <2> QED
      BY <2>1
  <1>4. \A n \in 0 .. N : n \in T
    <2> HIDE DEF T, N
    <2> QED
      BY <1>1, <1>2, <1>3, FromZero
  <1> QED
    BY <1>1, <1>4

\* SumFunctionOnSet is that sum.
LEMMA FoldIsSum ==
    ASSUME NEW D, IsFiniteSet(D), NEW v, NEW W, IsSum(W, v, D), NEW S \in SUBSET D
    PROVE  SumFunctionOnSet(v, S) = W[S]
  <1> DEFINE Iterates(F) ==
               F = [A \in SUBSET S |->
                      IF A = {} THEN 0
                      ELSE LET c == CHOOSE x \in A : TRUE
                           IN v[c] + F[A \ {c}]]
             first(A) == CHOOSE x \in A : TRUE
             R == [A \in SUBSET S |-> W[A]]
  <1>1. \A A \in SUBSET S : A # {} => first(A) \in A /\ A \ {first(A)} \in SUBSET S
    OBVIOUS
  <1>2. /\ W[{}] = 0
        /\ \A A \in SUBSET S : A # {} => W[A] = v[first(A)] + W[A \ {first(A)}]
    <2> HIDE DEF first
    <2> QED
      BY <1>1 DEF IsSum
  <1>3. Iterates(R)
    <2>1. ASSUME NEW A \in SUBSET S
          PROVE  R[A] = IF A = {} THEN 0 ELSE v[first(A)] + R[A \ {first(A)}]
      <3>1. CASE A = {}
        BY <1>2, <3>1
      <3>2. CASE A # {}
        <4>1. R[A] = W[A] /\ R[A \ {first(A)}] = W[A \ {first(A)}]
          BY <1>1, <3>2
        <4> HIDE DEF R, first
        <4> QED
          BY <1>2, <3>2, <4>1
      <3> QED
        BY <3>1, <3>2
    <2>2. R = [A \in SUBSET S |-> R[A]]
      OBVIOUS
    <2> HIDE DEF R
    <2> QED
      BY <2>1, <2>2
  <1> DEFINE F == CHOOSE F : Iterates(F)
  <1>4. Iterates(F)
    <2> HIDE DEF Iterates, R
    <2> QED
      BY <1>3
  <1>5. SumFunctionOnSet(v, S) = F[S]
    BY DEF SumFunctionOnSet, FoldFunctionOnSet, MapThenFoldSet
  <1> HIDE DEF F
  <1>6. \A A \in SUBSET S : F[A] = IF A = {} THEN 0 ELSE v[first(A)] + F[A \ {first(A)}]
    <2> DEFINE H == [A \in SUBSET S |->
                       IF A = {} THEN 0 ELSE v[first(A)] + F[A \ {first(A)}]]
    <2>1. F = H
      BY <1>4
    <2>2. \A A \in SUBSET S : H[A] = IF A = {} THEN 0 ELSE v[first(A)] + F[A \ {first(A)}]
      OBVIOUS
    <2> HIDE DEF H, Iterates, first
    <2> QED
      BY <2>1, <2>2
  <1> HIDE DEF Iterates, R
  <1> DEFINE N == Cardinality(S)
             T == {n \in 0 .. N : \A A \in SUBSET S : Cardinality(A) = n => F[A] = W[A]}
  <1>7. IsFiniteSet(S) /\ N \in Nat
    BY FS_Subset, FS_CardinalityType
  <1>8. 0 \in T
    <2>1. ASSUME NEW A \in SUBSET S, Cardinality(A) = 0
          PROVE  F[A] = W[A]
      <3>1. A = {}
        BY <1>7, <2>1, FS_Subset, FS_EmptySet
      <3> QED
        BY <1>2, <1>6, <3>1
    <2> QED
      BY <1>7, <2>1
  <1>9. ASSUME NEW n \in 1 .. N, n - 1 \in T
        PROVE  n \in T
    <2>1. ASSUME NEW A \in SUBSET S, Cardinality(A) = n
          PROVE  F[A] = W[A]
      <3>1. IsFiniteSet(A) /\ A # {}
        BY <1>7, <2>1, FS_Subset, FS_EmptySet
      <3>2. first(A) \in A /\ A \ {first(A)} \in SUBSET S
        BY <1>1, <3>1
      <3>3. Cardinality(A \ {first(A)}) = n - 1
        BY <2>1, <3>1, <3>2, FS_RemoveElement
      <3> HIDE DEF first
      <3>4. F[A \ {first(A)}] = W[A \ {first(A)}]
        BY <1>9, <3>2, <3>3
      <3> QED
        BY <1>2, <1>6, <3>1, <3>4
    <2> QED
      BY <2>1
  <1>10. \A n \in 0 .. N : n \in T
    <2> HIDE DEF T, N
    <2> QED
      BY <1>7, <1>8, <1>9, FromZero
  <1> QED
    BY <1>5, <1>7, <1>10

(***************************************************************************)
(* The ranking.                                                            *)
(***************************************************************************)
\* The tokens before one.
BetterOf(l, t) == {u \in Tokens : Outranks(l, u, t)}

\* All tokens, the best first.
Order(l) ==
    [i \in 1 .. Vocab |->
        CHOOSE t \in Tokens : Cardinality({u \in Tokens : Outranks(l, u, t)}) = i - 1]

\* The vocabulary has as many tokens as it says.
LEMMA TokensAreFinite == IsFiniteSet(Tokens) /\ Cardinality(Tokens) = Vocab
  <1>1. 0 \in Int /\ Vocab - 1 \in Int /\ Vocab \in Nat
        /\ (IF 0 > Vocab - 1 THEN 0 ELSE (Vocab - 1) - 0 + 1) = Vocab
    BY SamplerAssumption
  <1> QED
    BY <1>1, FS_Interval DEF Tokens

\* Each token has a place of its own, and those at the places before are the better ones.
LEMMA OrderIsRanking ==
    ASSUME NEW l \in [Tokens -> Int]
    PROVE  /\ \A i \in 1 .. Vocab : Order(l)[i] \in Tokens
           /\ \A i, j \in 1 .. Vocab : Outranks(l, Order(l)[i], Order(l)[j]) <=> i < j
           /\ \A t \in Tokens : \E i \in 1 .. Vocab : Order(l)[i] = t
           /\ \A i \in 1 .. Vocab : Cardinality(BetterOf(l, Order(l)[i])) = i - 1
  <1> DEFINE R == {p \in Tokens \X Tokens : Outranks(l, p[1], p[2])}
             rank == [t \in Tokens |-> Cardinality(Below(Tokens, R, t))]
             V == Vocab
  <1>1. V \in Nat \ {0} /\ Tokens \in SUBSET Int
    BY SamplerAssumption DEF Tokens
  <1>2. IsFiniteSet(Tokens) /\ Cardinality(Tokens) = V
    BY TokensAreFinite
  <1>3. \A a, b \in Tokens : <<a, b>> \in R <=> Outranks(l, a, b)
    OBVIOUS
  <1>4. \A t \in Tokens : Below(Tokens, R, t) = BetterOf(l, t)
    <2> HIDE DEF R
    <2> QED
      BY <1>3 DEF Below, BetterOf
  <1> HIDE DEF R
  <1>5. TotalOrder(Tokens, R)
    <2>1. \A a, b \in Tokens : <<a, b>> \in R <=> l[a] > l[b] \/ (l[a] = l[b] /\ a < b)
      BY <1>3 DEF Outranks
    <2> QED
      BY <1>1, <2>1, RanksAreTotal
  <1>6. /\ rank \in [Tokens -> 0 .. V - 1]
        /\ \A a, b \in Tokens : <<a, b>> \in R => rank[a] < rank[b]
        /\ \A a, b \in Tokens : rank[a] = rank[b] => a = b
        /\ \A r \in 0 .. V - 1 : \E e \in Tokens : rank[e] = r
    <2> HIDE DEF rank
    <2>1. rank = [t \in Tokens |-> Cardinality(Below(Tokens, R, t))]
      BY DEF rank
    <2> HIDE DEF V
    <2> QED
      BY <1>2, <1>5, <2>1, Ranks
  <1>7. \A t \in Tokens : rank[t] = Cardinality(BetterOf(l, t))
    BY <1>4
  <1> HIDE DEF rank
  <1>8. ASSUME NEW i \in 1 .. V
        PROVE  Order(l)[i] \in Tokens /\ rank[Order(l)[i]] = i - 1
    <2>1. Order(l)[i] = CHOOSE t \in Tokens : Cardinality(BetterOf(l, t)) = i - 1
      BY DEF Order, BetterOf
    <2>2. i - 1 \in 0 .. V - 1
      BY <1>1
    <2>3. \E t \in Tokens : Cardinality(BetterOf(l, t)) = i - 1
      BY <1>6, <1>7, <2>2
    <2>4. Order(l)[i] \in Tokens /\ Cardinality(BetterOf(l, Order(l)[i])) = i - 1
      BY <2>1, <2>3
    <2> QED
      BY <1>7, <2>4
  <1>9. \A i, j \in 1 .. V : Outranks(l, Order(l)[i], Order(l)[j]) <=> i < j
    <2> SUFFICES ASSUME NEW i \in 1 .. V, NEW j \in 1 .. V
                 PROVE  Outranks(l, Order(l)[i], Order(l)[j]) <=> i < j
      OBVIOUS
    <2> PICK a : a = Order(l)[i]
      OBVIOUS
    <2> PICK b : b = Order(l)[j]
      OBVIOUS
    <2>1. a \in Tokens /\ b \in Tokens /\ rank[a] = i - 1 /\ rank[b] = j - 1
      BY <1>8
    <2>2. (<<a, b>> \in R => i - 1 < j - 1) /\ (<<b, a>> \in R => j - 1 < i - 1)
      BY <1>6, <2>1
    <2>3. a = b \/ <<a, b>> \in R \/ <<b, a>> \in R
      BY <1>5, <2>1 DEF TotalOrder
    <2>4. a = b => i = j
      <3>1. a = b => i - 1 = j - 1
        BY <2>1
      <3> QED
        BY <1>1, <3>1
    <2>5. <<a, b>> \in R <=> i < j
      BY <1>1, <2>2, <2>3, <2>4
    <2> QED
      BY <1>3, <2>1, <2>5
  <1>10. ASSUME NEW t \in Tokens
         PROVE  \E i \in 1 .. V : Order(l)[i] = t
    <2> PICK i : i = rank[t] + 1
      OBVIOUS
    <2>1. rank[t] \in 0 .. V - 1
      BY <1>6
    <2>2. i \in 1 .. V /\ i - 1 = rank[t]
      BY <1>1, <2>1
    <2>3. Order(l)[i] \in Tokens /\ rank[Order(l)[i]] = rank[t]
      BY <1>8, <2>2
    <2>4. Order(l)[i] = t
      BY <1>6, <2>3
    <2> QED
      BY <2>2, <2>4
  <1> QED
    BY <1>7, <1>8, <1>9, <1>10

\* How many top_k leaves.
Kept == IF 0 < params.topK /\ params.topK < Vocab THEN params.topK ELSE Vocab

\* What is sorted is the beginning of that order.
LEMMA RankedIs ==
    ASSUME NEW l \in [Tokens -> Int], params.topK \in Int
    PROVE  /\ Kept \in 1 .. Vocab
           /\ DOMAIN Ranked(l) = 1 .. Kept /\ Len(Ranked(l)) = Kept
           /\ \A i \in 1 .. Kept : Ranked(l)[i] = Order(l)[i]
  <1> DEFINE all == Order(l)
  <1>1. Vocab \in Nat \ {0}
    BY SamplerAssumption
  <1>2. \A i \in 1 .. Vocab : all[i] \in Tokens
    BY OrderIsRanking
  <1>3. all = [i \in 1 .. Vocab |-> all[i]]
    BY DEF Order
  <1>4. Ranked(l) = IF 0 < params.topK /\ params.topK < Len(all)
                      THEN SubSeq(all, 1, params.topK) ELSE all
    BY DEF Ranked, Order
  <1> HIDE DEF all
  <1>5. all \in Seq(Tokens) /\ Len(all) = Vocab /\ DOMAIN all = 1 .. Vocab
    BY <1>1, <1>2, <1>3
  <1>6. CASE 0 < params.topK /\ params.topK < Vocab
    <2> PICK k : k = params.topK
      OBVIOUS
    <2>1. k \in 1 .. Vocab /\ Kept = k
      BY <1>1, <1>6 DEF Kept
    <2>2. Ranked(l) = SubSeq(all, 1, k)
      BY <1>4, <1>5, <1>6
    <2>3. /\ Len(SubSeq(all, 1, k)) = k
          /\ DOMAIN SubSeq(all, 1, k) = 1 .. k
          /\ \A i \in 1 .. k : SubSeq(all, 1, k)[i] = all[i]
      BY <1>1, <1>5, <2>1
    <2> QED
      BY <2>1, <2>2, <2>3 DEF all
  <1>7. CASE ~(0 < params.topK /\ params.topK < Vocab)
    <2>1. Kept = Vocab /\ Kept \in 1 .. Vocab
      BY <1>1, <1>7 DEF Kept
    <2>2. Ranked(l) = all
      BY <1>4, <1>5, <1>7
    <2> QED
      BY <1>5, <2>1, <2>2 DEF all
  <1> QED
    BY <1>6, <1>7

(***************************************************************************)
(* The draw.                                                               *)
(***************************************************************************)
\* What Sampler::new has checked of a request.
Checked ==
    /\ params.temperature \in Nat /\ params.topK \in Int
    /\ params.topP[1] \in Nat \ {0} /\ params.topP[2] \in Nat \ {0}
    /\ params.topP[1] <= params.topP[2]
    /\ params.penalty[1] \in Nat \ {0} /\ params.penalty[2] \in Nat \ {0}

\* Dividing a distance by the temperature.
LEMMA QuotientType ==
    ASSUME NEW d \in Nat, NEW k \in Nat \ {0}
    PROVE  d \div k \in Nat /\ 0 \div k = 0
  OBVIOUS

\* No distance weighs less than nothing, and none weighs something.
LEMMA WeightType ==
    ASSUME Checked, params.temperature # 0, NEW d \in Nat
    PROVE  Weight(d) \in Nat /\ Weight(0) \in Nat \ {0}
  <1> PICK k : k = params.temperature
    OBVIOUS
  <1>1. k \in Nat \ {0}
    BY DEF Checked
  <1>2. Underflow \in Nat /\ Exp \in [0 .. Underflow -> Nat \ {0}]
    BY SamplerAssumption
  <1>3. ASSUME NEW q \in Nat
        PROVE  (IF q > Underflow THEN 0 ELSE Exp[q]) \in Nat
    BY <1>2
  <1>4. d \div k \in Nat /\ 0 \div k = 0
    BY <1>1, QuotientType
  <1>5. Exp[0] \in Nat \ {0} /\ ~(0 > Underflow)
    BY <1>2
  <1>6. /\ Weight(d) = IF d \div k > Underflow THEN 0 ELSE Exp[d \div k]
        /\ Weight(0) = IF 0 \div k > Underflow THEN 0 ELSE Exp[0 \div k]
    BY DEF Weight
  <1>7. Weight(d) \in Nat
    BY <1>3, <1>4, <1>6
  <1>8. Weight(0) \in Nat \ {0}
    BY <1>4, <1>5, <1>6
  <1> QED
    BY <1>7, <1>8

\* No token is better than the first.
Distance(l, t) == l[Order(l)[1]] - l[t]

\* So no distance is negative.
LEMMA DistanceType ==
    ASSUME NEW l \in [Tokens -> Int], NEW t \in Tokens
    PROVE  /\ Distance(l, t) \in Nat
           /\ Distance(l, Order(l)[1]) = 0
  <1>1. 1 \in 1 .. Vocab /\ Vocab \in Nat \ {0}
    BY SamplerAssumption
  <1> PICK i \in 1 .. Vocab : Order(l)[i] = t
    BY OrderIsRanking
  <1> PICK b : b = Order(l)[1]
    OBVIOUS
  <1>2. b \in Tokens /\ (Outranks(l, b, t) <=> 1 < i)
    BY <1>1, OrderIsRanking
  <1>3. l[b] \in Int /\ l[t] \in Int
    BY <1>2
  <1>4. l[b] >= l[t]
    <2>1. CASE i = 1
      BY <1>3, <2>1
    <2>2. CASE i # 1
      <3>1. 1 < i
        BY <1>1, <2>2
      <3> QED
        BY <1>2, <1>3, <3>1 DEF Outranks
    <2> QED
      BY <2>1, <2>2
  <1> QED
    BY <1>3, <1>4 DEF Distance

\* The weights by place: those of the tokens there, the first above zero.
LEMMA WeightsAre ==
    ASSUME Checked, params.temperature # 0, NEW l \in [Tokens -> Int]
    PROVE  /\ DOMAIN Weights(l) = 1 .. Kept /\ Len(Weights(l)) = Kept
           /\ Weights(l)[1] > 0
           /\ \A i \in 1 .. Kept : /\ Weights(l)[i] \in Nat
                                   /\ Weights(l)[i] = Weight(Distance(l, Order(l)[i]))
  <1> DEFINE r == Ranked(l)
             w == Weights(l)
  <1>1. params.topK \in Int
    BY DEF Checked
  <1>2. /\ Kept \in 1 .. Vocab
        /\ DOMAIN r = 1 .. Kept
        /\ \A i \in 1 .. Kept : r[i] = Order(l)[i]
    BY <1>1, RankedIs
  <1>3. Vocab \in Nat \ {0}
    BY SamplerAssumption
  <1>4. w = [i \in 1 .. Kept |-> Weight(l[r[1]] - l[r[i]])]
    BY <1>2 DEF Weights
  <1>5. 1 \in 1 .. Kept /\ Kept \in Nat
    BY <1>2, <1>3
  <1> HIDE DEF r, w
  <1>6. ASSUME NEW i \in 1 .. Kept
        PROVE  /\ w[i] = Weight(Distance(l, Order(l)[i])) /\ w[i] \in Nat
               /\ i = 1 => w[i] > 0
    <2>1. w[i] = Weight(Distance(l, Order(l)[i]))
      BY <1>2, <1>4, <1>5 DEF Distance
    <2>2. i \in 1 .. Vocab /\ Order(l)[i] \in Tokens
      BY <1>2, <1>3, OrderIsRanking
    <2>3. Distance(l, Order(l)[i]) \in Nat /\ Distance(l, Order(l)[1]) = 0
      BY <2>2, DistanceType
    <2> QED
      BY <2>1, <2>3, WeightType
  <1>7. Len(w) = Kept /\ DOMAIN w = 1 .. Kept
    <2>1. w \in Seq(Nat)
      BY <1>4, <1>5, <1>6
    <2> QED
      BY <1>4, <1>5, <2>1
  <1> QED
    BY <1>5, <1>6, <1>7 DEF w

\* The sums of the first weights, one after the other.
LEMMA FirstSums ==
    ASSUME NEW K \in Nat \ {0}, NEW w, \A i \in 1 .. K : w[i] \in Nat
    PROVE  /\ \A n \in 0 .. K : FirstSum(w, n) \in Nat
           /\ FirstSum(w, 0) = 0
           /\ \A n \in 1 .. K : FirstSum(w, n) = w[n] + FirstSum(w, n - 1)
           /\ FirstSum(w, K) >= w[1]
  <1>1. IsFiniteSet(1 .. K)
    BY FS_Interval
  <1>2. PICK W : IsSum(W, w, 1 .. K)
    BY <1>1, SumExists
  <1>3. ASSUME NEW n \in 0 .. K
        PROVE  FirstSum(w, n) = W[1 .. n] /\ FirstSum(w, n) \in Nat
    <2>1. 1 .. n \in SUBSET (1 .. K)
      OBVIOUS
    <2>2. FirstSum(w, n) = W[1 .. n]
      BY <1>1, <1>2, <2>1, FoldIsSum DEF FirstSum
    <2> QED
      BY <1>2, <2>1, <2>2 DEF IsSum
  <1>4. FirstSum(w, 0) = 0
    <2>1. 0 \in 0 .. K /\ 1 .. 0 = {}
      OBVIOUS
    <2> QED
      BY <1>2, <1>3, <2>1 DEF IsSum
  <1>5. ASSUME NEW n \in 1 .. K
        PROVE  FirstSum(w, n) = w[n] + FirstSum(w, n - 1)
    <2>1. /\ n \in 0 .. K /\ n - 1 \in 0 .. K /\ n \in 1 .. n
          /\ 1 .. n \in SUBSET (1 .. K)
      OBVIOUS
    <2>2. (1 .. n) \ {n} = 1 .. n - 1
      OBVIOUS
    <2>3. W[1 .. n] = w[n] + W[(1 .. n) \ {n}]
      BY <1>2, <2>1 DEF IsSum
    <2> QED
      BY <1>3, <2>1, <2>2, <2>3
  <1>6. FirstSum(w, K) >= w[1]
    <2>1. K \in 0 .. K /\ 1 \in 1 .. K /\ (1 .. K) \ {1} \in SUBSET (1 .. K)
          /\ 1 .. K \in SUBSET (1 .. K)
      OBVIOUS
    <2>2. W[1 .. K] = w[1] + W[(1 .. K) \ {1}] /\ W[(1 .. K) \ {1}] \in Nat
      BY <1>2, <2>1 DEF IsSum
    <2>3. w[1] \in Nat
      BY <2>1
    <2> QED
      BY <1>3, <2>1, <2>2, <2>3
  <1> QED
    BY <1>3, <1>4, <1>5, <1>6

\* What Min gives is the least.
LEMMA LeastOf ==
    ASSUME NEW T \in SUBSET Nat, T # {}
    PROVE  Min(T) \in T /\ \A y \in T : Min(T) <= y
  <1>1. \E x \in T : \A y \in T : x =< y
    BY LeastNumber
  <1> QED
    BY <1>1 DEF Min

\* Fractions up to one.
LEMMA LessTimes ==
    ASSUME NEW a \in Nat, NEW b \in Nat, a <= b, NEW x \in Nat
    PROVE  a * x <= b * x
  <1>1. (b - a) * x \in Nat /\ b * x = a * x + (b - a) * x
    OBVIOUS
  <1>2. a * x \in Nat
    OBVIOUS
  <1> QED
    BY <1>1, <1>2

\* The two sides of the comparison with top_p, without the division.
Share(w, n) == params.topP[2] * FirstSum(w, n)
Threshold(w, n) == params.topP[1] * FirstSum(w, n)

\* The shortest prefix with its share: there is one, and those shorter have less.
LEMMA RetainedIs ==
    ASSUME Checked, NEW K \in Nat \ {0}, NEW w, DOMAIN w = 1 .. K, Len(w) = K,
           \A i \in 1 .. K : w[i] \in Nat
    PROVE  /\ Retained(w) \in 1 .. K
           /\ ~(Share(w, Retained(w)) < Threshold(w, K))
           /\ \A n \in 1 .. Retained(w) - 1 : Share(w, n) < Threshold(w, K)
  <1> DEFINE enough == {n \in 1 .. K : Share(w, n) >= Threshold(w, K)}
  <1>1. \A n \in 0 .. K : FirstSum(w, n) \in Nat
    BY FirstSums
  <1>2. \A n \in 0 .. K : Share(w, n) \in Nat /\ Threshold(w, n) \in Nat
    <2> PICK p : p = params.topP[1]
      OBVIOUS
    <2> PICK q : q = params.topP[2]
      OBVIOUS
    <2>1. p \in Nat /\ q \in Nat
      BY DEF Checked
    <2>2. \A x \in Nat : q * x \in Nat /\ p * x \in Nat
      BY <2>1
    <2> QED
      BY <1>1, <2>2 DEF Share, Threshold
  <1>3. K \in enough
    <2>1. K \in 0 .. K /\ K \in 1 .. K
      OBVIOUS
    <2>2. Threshold(w, K) <= Share(w, K)
      BY <1>1, <2>1, LessTimes DEF Checked, Share, Threshold
    <2> QED
      BY <1>2, <2>1, <2>2
  <1>4. Retained(w) = Min(enough)
    <2>1. enough = {n \in DOMAIN w :
                      params.topP[2] * FirstSum(w, n) >= params.topP[1] * FirstSum(w, Len(w))}
      BY DEF Share, Threshold
    <2> QED
      BY <1>3, <2>1 DEF Retained
  <1>5. enough \in SUBSET Nat /\ enough \in SUBSET (1 .. K)
    OBVIOUS
  <1>6. Min(enough) \in enough /\ \A y \in enough : Min(enough) <= y
    <2> HIDE DEF enough
    <2> QED
      BY <1>3, <1>5, LeastOf
  <1> PICK c : c = Min(enough)
    OBVIOUS
  <1>7. c \in 1 .. K /\ Share(w, c) >= Threshold(w, K) /\ \A y \in enough : c <= y
    BY <1>6
  <1>8. ASSUME NEW n \in 1 .. c - 1
        PROVE  Share(w, n) < Threshold(w, K)
    <2>1. n \in 1 .. K /\ n \in 0 .. K /\ ~(c <= n)
      BY <1>7
    <2>2. n \notin enough
      BY <1>7, <2>1
    <2>3. ~(Share(w, n) >= Threshold(w, K))
      BY <2>1, <2>2
    <2>4. Share(w, n) \in Nat /\ Threshold(w, K) \in Nat
      BY <1>2, <2>1
    <2> QED
      BY <2>3, <2>4
  <1>9. ~(Share(w, c) < Threshold(w, K))
    <2>1. c \in 0 .. K /\ K \in 0 .. K
      BY <1>7
    <2>2. Share(w, c) \in Nat /\ Threshold(w, K) \in Nat
      BY <1>2, <2>1
    <2> QED
      BY <1>7, <2>2
  <1> QED
    BY <1>4, <1>7, <1>8, <1>9

\* Where a target leads to.
PlaceOf(w, target) ==
    LET past == {n \in 1 .. Retained(w) : FirstSum(w, n) > target}
    IN IF past = {} THEN Retained(w) ELSE Min(past)

\* The place a target leads to has a weight, and what is before it has less than the
\* share, whatever the target.
LEMMA PlaceOfTarget ==
    ASSUME Checked, NEW K \in Nat \ {0}, NEW w, DOMAIN w = 1 .. K, Len(w) = K,
           \A i \in 1 .. K : w[i] \in Nat, w[1] > 0,
           NEW target \in 0 .. FirstSum(w, Retained(w))
    PROVE  /\ PlaceOf(w, target) \in 1 .. K /\ w[PlaceOf(w, target)] > 0
           /\ Share(w, PlaceOf(w, target) - 1) < Threshold(w, K)
  <1> PICK count : count = Retained(w)
    OBVIOUS
  <1> DEFINE past == {n \in 1 .. count : FirstSum(w, n) > target}
             i == PlaceOf(w, target)
  <1>0. i = IF past = {} THEN count ELSE Min(past)
    BY DEF PlaceOf
  <1> HIDE DEF i
  <1> DEFINE S(n) == FirstSum(w, n)
  <1>1. /\ \A n \in 0 .. K : S(n) \in Nat
        /\ S(0) = 0 /\ S(K) >= w[1]
        /\ \A n \in 1 .. K : S(n) = w[n] + S(n - 1)
    BY FirstSums
  <1>2. /\ count \in 1 .. K
        /\ ~(Share(w, count) < Threshold(w, K))
        /\ \A n \in 1 .. count - 1 : Share(w, n) < Threshold(w, K)
    BY RetainedIs
  <1> HIDE DEF S
  <1>3. i \in 1 .. count
    <2>1. CASE past = {}
      BY <1>0, <1>2, <2>1
    <2>2. CASE past # {}
      <3>1. past \in SUBSET Nat /\ past \in SUBSET (1 .. count)
        BY <1>2
      <3>2. Min(past) \in past
        <4> HIDE DEF past
        <4> QED
          BY <2>2, <3>1, LeastOf
      <3> QED
        BY <1>0, <2>2, <3>1, <3>2
    <2> QED
      BY <2>1, <2>2
  <1>4. i \in 1 .. K /\ i - 1 \in 0 .. K
    BY <1>2, <1>3
  <1>5. Share(w, i - 1) < Threshold(w, K)
    <2>1. CASE i = 1
      <3> PICK p : p = params.topP[1]
        OBVIOUS
      <3>1. p \in Nat \ {0} /\ params.topP[2] \in Nat
        BY DEF Checked
      <3>2. S(K) \in Nat /\ S(K) > 0
        <4>1. K \in 0 .. K /\ 1 \in 1 .. K
          OBVIOUS
        <4>2. w[1] \in Nat /\ S(K) \in Nat /\ S(K) >= w[1]
          BY <1>1, <4>1
        <4> QED
          BY <4>2
      <3>3. p * S(K) > 0
        BY <3>1, <3>2
      <3>4. Share(w, 0) = 0
        <4>1. params.topP[2] * 0 = 0
          BY <3>1
        <4> QED
          BY <1>1, <4>1 DEF Share, S
      <3> QED
        BY <2>1, <3>3, <3>4 DEF Threshold, S
    <2>2. CASE i # 1
      <3>1. i - 1 \in 1 .. count - 1
        BY <1>2, <1>3, <2>2
      <3> QED
        BY <1>2, <3>1
    <2> QED
      BY <2>1, <2>2
  <1>6. w[i] > 0
    <2>0. w[i] \in Nat /\ S(i) = w[i] + S(i - 1) /\ S(i - 1) \in Nat
      BY <1>1, <1>4
    <2>1. CASE past = {}
      <3>1. i = count
        BY <1>0, <2>1
      <3>2. S(i) # S(i - 1)
        BY <1>2, <1>5, <3>1 DEF Share, S
      <3> QED
        BY <2>0, <3>2
    <2>2. CASE past # {}
      <3>1. past \in SUBSET Nat
        BY <1>2
      <3>2. i \in past /\ \A y \in past : i <= y
        <4> HIDE DEF past
        <4> QED
          BY <1>0, <2>2, <3>1, LeastOf
      <3>3. S(i) > target
        BY <3>2 DEF S
      <3>4. target \in Nat
        <4>1. count \in 0 .. K
          BY <1>2
        <4>2. S(count) \in Nat
          BY <1>1, <4>1
        <4> QED
          BY <4>2 DEF S
      <3>5. S(i - 1) <= target
        <4>1. CASE i = 1
          BY <1>1, <3>4, <4>1
        <4>2. CASE i # 1
          <5>1. i - 1 \in 1 .. count /\ ~(i <= i - 1)
            BY <1>2, <1>3, <4>2
          <5>2. i - 1 \notin past
            BY <3>2, <5>1
          <5>3. ~(S(i - 1) > target)
            BY <5>1, <5>2 DEF S
          <5> QED
            BY <2>0, <3>4, <5>3
        <4> QED
          BY <4>1, <4>2
      <3> QED
        BY <2>0, <3>3, <3>4, <3>5
    <2> QED
      BY <2>1, <2>2
  <1> QED
    BY <1>4, <1>5, <1>6 DEF i

\* A token that may be drawn is at such a place.
LEMMA DrawnHasPlace ==
    ASSUME Checked, params.temperature # 0, NEW l \in [Tokens -> Int], NEW t \in Drawn(l)
    PROVE  \E i \in 1 .. Kept : /\ t = Order(l)[i] /\ Weights(l)[i] > 0
                                /\ Share(Weights(l), i - 1) < Threshold(Weights(l), Kept)
  <1> DEFINE w == Weights(l)
  <1>1. params.topK \in Int
    BY DEF Checked
  <1>2. Kept \in Nat \ {0} /\ \A i \in 1 .. Kept : Ranked(l)[i] = Order(l)[i]
    <2>1. Kept \in 1 .. Vocab
      BY <1>1, RankedIs
    <2> QED
      BY <1>1, <2>1, RankedIs, SamplerAssumption
  <1>3. /\ DOMAIN w = 1 .. Kept /\ Len(w) = Kept /\ w[1] > 0
        /\ \A i \in 1 .. Kept : w[i] \in Nat
    BY WeightsAre
  <1>4. PICK target \in 0 .. FirstSum(w, Retained(w)) : t = Ranked(l)[PlaceOf(w, target)]
    BY DEF Drawn, PlaceOf
  <1> HIDE DEF w
  <1>5. /\ PlaceOf(w, target) \in 1 .. Kept /\ w[PlaceOf(w, target)] > 0
        /\ Share(w, PlaceOf(w, target) - 1) < Threshold(w, Kept)
    BY <1>2, <1>3, PlaceOfTarget
  <1> QED
    BY <1>2, <1>4, <1>5 DEF w

(***************************************************************************)
(* The nucleus.                                                            *)
(***************************************************************************)
\* The first n of the ranking.
Best(l, n) == {Order(l)[j] : j \in 1 .. n}

\* They are the ones before the next, and grow by one at a time to all.
LEMMA BestIs ==
    ASSUME NEW l \in [Tokens -> Int]
    PROVE  /\ \A n \in 0 .. Vocab : Best(l, n) \in SUBSET Tokens
           /\ Best(l, 0) = {}
           /\ \A n \in 1 .. Vocab : /\ Order(l)[n] \in Best(l, n)
                                    /\ Best(l, n) \ {Order(l)[n]} = Best(l, n - 1)
           /\ \A i \in 1 .. Vocab : BetterOf(l, Order(l)[i]) = Best(l, i - 1)
           /\ Best(l, Vocab) = Tokens
  <1> DEFINE o == Order(l)
  <1>1. Vocab \in Nat \ {0}
    BY SamplerAssumption
  <1>2. /\ \A i \in 1 .. Vocab : o[i] \in Tokens
        /\ \A i, j \in 1 .. Vocab : Outranks(l, o[i], o[j]) <=> i < j
        /\ \A t \in Tokens : \E i \in 1 .. Vocab : o[i] = t
    BY OrderIsRanking
  <1>3. \A n : Best(l, n) = {o[j] : j \in 1 .. n}
    BY DEF Best
  <1> HIDE DEF o
  <1>4. \A i, j \in 1 .. Vocab : o[i] = o[j] => i = j
    <2> SUFFICES ASSUME NEW i \in 1 .. Vocab, NEW j \in 1 .. Vocab, o[i] = o[j]
                 PROVE  i = j
      OBVIOUS
    <2>1. (i < j <=> i < i) /\ (j < i <=> i < i)
      BY <1>2
    <2> QED
      BY <1>1, <2>1
  <1>5. \A n \in 0 .. Vocab : Best(l, n) \in SUBSET Tokens
    BY <1>1, <1>2, <1>3
  <1>6. Best(l, 0) = {}
    BY <1>3
  <1>7. ASSUME NEW n \in 1 .. Vocab
        PROVE  o[n] \in Best(l, n) /\ Best(l, n) \ {o[n]} = Best(l, n - 1)
    <2>1. n \in 1 .. n /\ \A j \in 1 .. n : j \in 1 .. n - 1 \/ j = n
      BY <1>1
    <2>2. \A j \in 1 .. n - 1 : j \in 1 .. n /\ j \in 1 .. Vocab /\ j # n
      BY <1>1
    <2>3. \A j \in 1 .. n - 1 : o[j] # o[n]
      BY <1>4, <2>2
    <2> QED
      BY <1>3, <2>1, <2>2, <2>3
  <1>8. ASSUME NEW i \in 1 .. Vocab
        PROVE  BetterOf(l, o[i]) = Best(l, i - 1)
    <2>1. ASSUME NEW u \in BetterOf(l, o[i])
          PROVE  u \in Best(l, i - 1)
      <3>1. u \in Tokens /\ Outranks(l, u, o[i])
        BY <2>1 DEF BetterOf
      <3> PICK j \in 1 .. Vocab : o[j] = u
        BY <1>2, <3>1
      <3>2. j < i
        BY <1>2, <3>1
      <3>3. j \in 1 .. i - 1
        BY <1>1, <3>2
      <3> QED
        BY <1>3, <3>3
    <2>2. ASSUME NEW u \in Best(l, i - 1)
          PROVE  u \in BetterOf(l, o[i])
      <3> PICK j \in 1 .. i - 1 : u = o[j]
        BY <1>3, <2>2
      <3>1. j \in 1 .. Vocab /\ j < i
        BY <1>1
      <3> QED
        BY <1>2, <3>1 DEF BetterOf
    <2> QED
      BY <2>1, <2>2
  <1>9. Best(l, Vocab) = Tokens
    BY <1>2, <1>3
  <1> QED
    BY <1>5, <1>6, <1>7, <1>8, <1>9 DEF o

\* What the first n weigh together.
LEMMA BestSum ==
    ASSUME NEW l \in [Tokens -> Int], NEW m, NEW M, IsSum(M, m, Tokens),
           NEW K \in 1 .. Vocab, NEW w, \A i \in 1 .. K : w[i] \in Nat,
           \A i \in 1 .. K : w[i] = m[Order(l)[i]]
    PROVE  \A n \in 0 .. K : M[Best(l, n)] = FirstSum(w, n)
  <1> DEFINE T == {n \in 0 .. K : M[Best(l, n)] = FirstSum(w, n)}
  <1>1. K \in Nat \ {0} /\ K <= Vocab /\ Vocab \in Nat
    BY SamplerAssumption
  <1>2. /\ FirstSum(w, 0) = 0
        /\ \A n \in 1 .. K : FirstSum(w, n) = w[n] + FirstSum(w, n - 1)
    BY <1>1, FirstSums
  <1>3. 0 \in T
    <2>1. Best(l, 0) = {} /\ M[{}] = 0
      BY BestIs DEF IsSum
    <2>2. M[Best(l, 0)] = FirstSum(w, 0) /\ 0 \in 0 .. K
      BY <1>1, <1>2, <2>1
    <2> QED
      BY <2>2
  <1>4. ASSUME NEW n \in 1 .. K, n - 1 \in T
        PROVE  n \in T
    <2> DEFINE t == Order(l)[n]
    <2>1. n \in 1 .. Vocab /\ n \in 0 .. Vocab /\ n \in 0 .. K
      BY <1>1
    <2>2. /\ Best(l, n) \in SUBSET Tokens /\ t \in Best(l, n)
          /\ Best(l, n) \ {t} = Best(l, n - 1)
      BY <2>1, BestIs
    <2>3. w[n] = m[t]
      OBVIOUS
    <2> HIDE DEF t
    <2>4. M[Best(l, n)] = m[t] + M[Best(l, n) \ {t}]
      BY <2>2 DEF IsSum
    <2>5. M[Best(l, n - 1)] = FirstSum(w, n - 1)
      BY <1>4
    <2>6. M[Best(l, n)] = FirstSum(w, n)
      BY <1>2, <2>2, <2>3, <2>4, <2>5
    <2> QED
      BY <2>1, <2>6
  <1> HIDE DEF T
  <1>5. \A n \in 0 .. K : n \in T
    BY <1>1, <1>3, <1>4, FromZero
  <1> QED
    BY <1>5 DEF T

\* What the properties call the mass of the tokens before a place, of the one there
\* and of all that are kept, is what the draw sums up.
LEMMA MassIs ==
    ASSUME Checked, params.temperature # 0, Judged \in [Tokens -> Int],
           NEW i \in 1 .. Kept, NEW t, t = Order(Judged)[i]
    PROVE  /\ t \in TopRanked
           /\ Mass({t}) = Weights(Judged)[i]
           /\ Mass(Better(t)) = FirstSum(Weights(Judged), i - 1)
           /\ Mass(TopRanked) = FirstSum(Weights(Judged), Kept)
  <1> DEFINE l == Judged
             best == CHOOSE u \in Tokens : Better(u) = {}
             m == [u \in Tokens |-> Weight(l[best] - l[u])]
             w == Weights(l)
  <1>1. \A S : Mass(S) = SumFunctionOnSet(m, S)
    BY DEF Mass
  <1>2. \A u : Better(u) = BetterOf(l, u)
    BY DEF Better, BetterOf
  <1>3. l \in [Tokens -> Int] /\ params.topK \in Int /\ Vocab \in Nat \ {0}
    BY SamplerAssumption DEF Checked
  <1>4. best = CHOOSE u \in Tokens : BetterOf(l, u) = {}
    BY <1>2
  <1>5. m = [u \in Tokens |-> Weight(l[best] - l[u])]
    OBVIOUS
  <1>6. t = Order(l)[i]
    OBVIOUS
  <1> HIDE DEF l, best, m
  <1>7. /\ Kept \in 1 .. Vocab /\ 1 \in 1 .. Vocab /\ 1 \in 1 .. Kept
        /\ i \in 1 .. Vocab /\ Kept \in 0 .. Vocab
    BY <1>3, RankedIs
  <1>8. /\ \A j \in 1 .. Vocab : Order(l)[j] \in Tokens
        /\ \A u \in Tokens : \E j \in 1 .. Vocab : Order(l)[j] = u
        /\ \A j \in 1 .. Vocab : Cardinality(BetterOf(l, Order(l)[j])) = j - 1
    BY <1>3, OrderIsRanking
  <1>9. best = Order(l)[1]
    <2>1. BetterOf(l, Order(l)[1]) = {} /\ Order(l)[1] \in Tokens
      <3>1. BetterOf(l, Order(l)[1]) = Best(l, 1 - 1) /\ Best(l, 0) = {}
        BY <1>3, <1>7, BestIs
      <3> QED
        BY <1>7, <1>8, <3>1
    <2>2. best \in Tokens /\ BetterOf(l, best) = {}
      BY <1>4, <2>1
    <2> PICK j \in 1 .. Vocab : Order(l)[j] = best
      BY <1>8, <2>2
    <2>3. j - 1 = 0
      <3>1. Cardinality(BetterOf(l, Order(l)[j])) = j - 1
        BY <1>8
      <3> QED
        BY <2>2, <3>1, FS_EmptySet
    <2> QED
      BY <2>3
  <1>10. \A u \in Tokens : m[u] = Weight(Distance(l, u)) /\ m[u] \in Nat
    <2> SUFFICES ASSUME NEW u \in Tokens
                 PROVE  m[u] = Weight(Distance(l, u)) /\ m[u] \in Nat
      OBVIOUS
    <2>1. m[u] = Weight(Distance(l, u))
      BY <1>5, <1>9 DEF Distance
    <2>2. Distance(l, u) \in Nat
      BY <1>3, DistanceType
    <2> QED
      BY <2>1, <2>2, WeightType
  <1>11. \A j \in 1 .. Kept : w[j] \in Nat /\ w[j] = m[Order(l)[j]]
    <2>1. \A j \in 1 .. Kept : w[j] \in Nat /\ w[j] = Weight(Distance(l, Order(l)[j]))
      BY <1>3, WeightsAre
    <2>2. \A j \in 1 .. Kept : Order(l)[j] \in Tokens
      BY <1>3, <1>7, <1>8
    <2> HIDE DEF w
    <2> QED
      BY <1>10, <2>1, <2>2
  <1>12. PICK M : IsSum(M, m, Tokens)
    BY <1>10, SumExists, TokensAreFinite
  <1>13. \A S \in SUBSET Tokens : Mass(S) = M[S]
    BY <1>1, <1>12, FoldIsSum, TokensAreFinite
  <1> HIDE DEF w
  <1>14. \A n \in 0 .. Kept : M[Best(l, n)] = FirstSum(w, n)
    BY <1>3, <1>7, <1>11, <1>12, BestSum
  <1>15. Mass({t}) = w[i]
    <2>1. t \in Tokens /\ {t} \in SUBSET Tokens /\ {t} \ {t} = {} /\ w[i] = m[t] /\ w[i] \in Nat
      BY <1>6, <1>7, <1>8, <1>11
    <2>2. M[{t}] = m[t] + M[{t} \ {t}] /\ M[{}] = 0
      BY <1>12, <2>1 DEF IsSum
    <2>3. M[{t}] = m[t] + 0
      BY <2>1, <2>2
    <2>4. M[{t}] = w[i]
      BY <2>1, <2>3
    <2> QED
      BY <1>13, <2>1, <2>4
  <1>16. Mass(Better(t)) = FirstSum(w, i - 1)
    <2>1. Better(t) = Best(l, i - 1)
      BY <1>2, <1>3, <1>6, <1>7, BestIs
    <2>2. i - 1 \in 0 .. Kept /\ i - 1 \in 0 .. Vocab
      BY <1>3, <1>7
    <2>3. Best(l, i - 1) \in SUBSET Tokens
      BY <1>3, <2>2, BestIs
    <2> QED
      BY <1>13, <1>14, <2>1, <2>2, <2>3
  <1>17. TopRanked = Best(l, Kept)
    <2>1. ASSUME NEW j \in 1 .. Vocab
          PROVE  Order(l)[j] \in TopRanked <=> j \in 1 .. Kept
      <3>1. /\ Order(l)[j] \in Tokens
            /\ Cardinality(Better(Order(l)[j])) = j - 1
        BY <1>2, <1>8
      <3>2. Order(l)[j] \in TopRanked <=> params.topK <= 0 \/ j - 1 < params.topK
        BY <3>1 DEF TopRanked
      <3> PICK k : k = params.topK
        OBVIOUS
      <3>3. k \in Int /\ Kept = IF 0 < k /\ k < Vocab THEN k ELSE Vocab
        BY <1>3 DEF Kept
      <3>4. (k <= 0 \/ j - 1 < k) <=> j \in 1 .. Kept
        BY <1>3, <3>3
      <3> QED
        BY <3>2, <3>4
    <2>2. TopRanked \in SUBSET Tokens
      BY DEF TopRanked
    <2>3. \A u : u \in Best(l, Kept) <=> \E j \in 1 .. Kept : u = Order(l)[j]
      BY DEF Best
    <2>4. \A j \in 1 .. Kept : j \in 1 .. Vocab
      BY <1>3, <1>7
    <2> QED
      BY <1>8, <2>1, <2>2, <2>3, <2>4
  <1>18. t \in TopRanked
    BY <1>6, <1>17 DEF Best
  <1>19. Mass(TopRanked) = FirstSum(w, Kept)
    <2>1. Best(l, Kept) \in SUBSET Tokens /\ Kept \in 0 .. Kept
      BY <1>3, <1>7, BestIs
    <2> QED
      BY <1>13, <1>14, <1>17, <2>1
  <1> QED
    BY <1>15, <1>16, <1>18, <1>19 DEF w, l

(***************************************************************************)
(* The sampler.                                                            *)
(***************************************************************************)
\* Of a request that was accepted, all that the draw needs; and the tokens to
\* penalise are those of the whole history.
SamplerInv ==
    /\ spc \in {"new", "forward", "sample", "failed"}
    /\ params \in [temperature : Temperatures, topK : TopKs,
                   topP : TopPs, penalty : Penalties]
    /\ spc = "new" => emitted = {}
    /\ spc \in {"forward", "sample"} => Valid(params) /\ seen = prompt \cup emitted
    /\ spc = "sample" => logits \in [Tokens -> Logits]

\* The invariant holds in all states.
THEOREM SamplerInvHolds == SamplerSpec => []SamplerInv
  <1>1. SamplerInit => SamplerInv
    BY DEF SamplerInit, SamplerInv
  <1>2. SamplerInv /\ [SamplerNext]_samplerVars => SamplerInv'
    <2> SUFFICES ASSUME SamplerInv, [SamplerNext]_samplerVars
                 PROVE  SamplerInv'
      OBVIOUS
    <2>1. CASE New
      BY <2>1 DEF New, SamplerInv, request, Valid
    <2>2. CASE Forward
      BY <2>2 DEF Forward, SamplerInv, request, Valid
    <2>3. CASE Sample
      <3>1. /\ spc = "sample" /\ params' = params /\ prompt' = prompt
            /\ \/ spc' = "failed"
               \/ /\ spc' = "forward"
                  /\ \E token : seen' = seen \cup {token} /\ emitted' = emitted \cup {token}
        BY <2>3 DEF Sample, request
      <3>2. Valid(params)' <=> Valid(params)
        BY <3>1 DEF Valid
      <3> QED
        BY <3>1, <3>2 DEF SamplerInv
    <2>4. CASE UNCHANGED samplerVars
      BY <2>4 DEF samplerVars, request, SamplerInv, Valid
    <2> QED
      BY <2>1, <2>2, <2>3, <2>4 DEF SamplerNext
  <1> QED
    BY <1>1, <1>2, PTL DEF SamplerSpec

\* Before a draw: the request is in order, and seen is the history.
LEMMA CheckedIs ==
    ASSUME SamplerInv, spc = "sample"
    PROVE  /\ Checked
           /\ Penalised = Judged
           /\ Judged \in [Tokens -> Int]
  <1>1. Checked
    <2>1. /\ Temperatures \subseteq Nat /\ TopKs \subseteq Int
          /\ TopPs \subseteq Nat \X (Nat \ {0}) /\ Penalties \subseteq Nat \X (Nat \ {0})
      BY SamplerAssumption
    <2>2. /\ params.temperature \in Temperatures /\ params.topK \in TopKs
          /\ params.topP \in TopPs /\ params.penalty \in Penalties /\ Valid(params)
      BY DEF SamplerInv
    <2>3. /\ params.topP[1] \in Nat /\ params.topP[2] \in Nat \ {0}
          /\ params.penalty[1] \in Nat /\ params.penalty[2] \in Nat \ {0}
      BY <2>1, <2>2
    <2>4. 0 < params.topP[1] /\ params.topP[1] <= params.topP[2] /\ params.penalty[1] > 0
      BY <2>2 DEF Valid
    <2>5. params.temperature \in Nat /\ params.topK \in Int
      BY <2>1, <2>2
    <2>6. \A a \in Nat : a > 0 => a \in Nat \ {0}
      OBVIOUS
    <2>7. params.topP[1] \in Nat \ {0} /\ params.penalty[1] \in Nat \ {0}
      BY <2>3, <2>4, <2>6
    <2> QED
      BY <2>3, <2>4, <2>5, <2>7 DEF Checked
  <1>2. Penalised = Judged
    BY DEF SamplerInv, Penalised, Judged
  <1>3. Judged \in [Tokens -> Int]
    <2>1. \A t \in Tokens : logits[t] \in Int
      BY SamplerAssumption DEF SamplerInv
    <2>2. ASSUME NEW x \in Int
          PROVE  Penalise(x) \in Int
      <3> PICK over : over = params.penalty[1]
        OBVIOUS
      <3> PICK under : under = params.penalty[2]
        OBVIOUS
      <3>1. over \in Nat \ {0} /\ under \in Nat \ {0}
        BY <1>1 DEF Checked
      <3>2. Penalise(x) = IF x < 0 THEN (x * over) \div under ELSE (x * under) \div over
        BY DEF Penalise
      <3>3. x * over \in Int /\ x * under \in Int
        BY <3>1
      <3>4. \A y \in Int : y \div under \in Int /\ y \div over \in Int
        BY <3>1
      <3> QED
        BY <3>2, <3>3, <3>4
    <2>3. \A t \in Tokens : Judged[t] \in Int
      BY <2>1, <2>2 DEF Judged
    <2>4. Judged = [t \in Tokens |-> Judged[t]]
      BY DEF Judged
    <2> QED
      BY <2>3, <2>4
  <1> QED
    BY <1>1, <1>2, <1>3

\* Whatever random() returns, a token is only sampled from the part of the ranking
\* that the request leaves: at temperature zero the best one, and else one of the
\* top_k that weighs something and has less than the share top_p before it.
THEOREM SampledFromNucleusHolds == SamplerSpec => SampledFromNucleus
  <1> DEFINE May(t) ==
               IF params.temperature = 0
                 THEN Better(t) = {}
                 ELSE /\ t \in TopRanked
                      /\ Mass({t}) > 0
                      /\ params.topP[2] * Mass(Better(t))
                            < params.topP[1] * Mass(TopRanked)
  <1>1. ASSUME SamplerInv, Sample, NEW t \in result' \ result
        PROVE  May(t)
    <2>1. /\ spc = "sample"
          /\ t \in IF params.temperature = 0 THEN Greatest(Penalised) ELSE Drawn(Penalised)
      BY <1>1 DEF Sample
    <2>2. Checked /\ Penalised = Judged /\ Judged \in [Tokens -> Int]
      BY <1>1, <2>1, CheckedIs
    <2>3. CASE params.temperature = 0
      <3>1. t \in Tokens /\ \A u \in Tokens \ {t} : Outranks(Judged, t, u)
        BY <2>1, <2>2, <2>3 DEF Greatest
      <3>2. ASSUME NEW u \in Tokens
            PROVE  ~Outranks(Judged, u, t)
        <4>1. /\ u \in Int /\ t \in Int
              /\ Judged[u] \in Int /\ Judged[t] \in Int
          BY <2>2, <3>1, SamplerAssumption DEF Tokens
        <4>2. u = t \/ Outranks(Judged, t, u)
          BY <3>1
        <4> QED
          BY <4>1, <4>2 DEF Outranks
      <3>3. Better(t) = {}
        BY <3>2 DEF Better
      <3> QED
        BY <2>3, <3>3
    <2>4. CASE params.temperature # 0
      <3>1. t \in Drawn(Judged)
        BY <2>1, <2>2, <2>4
      <3> PICK i \in 1 .. Kept : /\ t = Order(Judged)[i] /\ Weights(Judged)[i] > 0
                                 /\ Share(Weights(Judged), i - 1)
                                       < Threshold(Weights(Judged), Kept)
        BY <2>2, <2>4, <3>1, DrawnHasPlace
      <3>2. /\ t \in TopRanked
            /\ Mass({t}) = Weights(Judged)[i]
            /\ Mass(Better(t)) = FirstSum(Weights(Judged), i - 1)
            /\ Mass(TopRanked) = FirstSum(Weights(Judged), Kept)
        BY <2>2, <2>4, MassIs
      <3> QED
        BY <2>4, <3>2 DEF Share, Threshold
    <2> QED
      BY <2>3, <2>4
  <1>2. ASSUME New \/ Forward \/ UNCHANGED samplerVars
        PROVE  \A t \in result' \ result : May(t)
    <2>1. result' \ result = {}
      BY <1>2 DEF New, Forward, samplerVars
    <2> QED
      BY <2>1
  <1>3. SamplerInv /\ [SamplerNext]_samplerVars
           => [\A t \in result' \ result : May(t)]_samplerVars
    <2> HIDE DEF May
    <2> QED
      BY <1>1, <1>2 DEF SamplerNext
  <1> QED
    BY <1>3, SamplerInvHolds, PTL DEF SamplerSpec, SampledFromNucleus
=============================================================================
