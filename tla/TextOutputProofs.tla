-------------------------- MODULE TextOutputProofs --------------------------
(***************************************************************************)
(* For every output, every cut of it into tokens and every set of stop     *)
(* strings: what TextOutput has shown is a prefix of the lossy text, what  *)
(* it holds back it must, and it stops at a stop string and nowhere else.  *)
(* First the least elements that stand in for induction, then UTF-8 units, *)
(* then the decoder, whose text of a whole is that of a part and of what   *)
(* the part left, then the stop strings, then the invariant.               *)
(***************************************************************************)
EXTENDS TextOutput, Arithmetic, SequenceTheorems, TLAPS

(***************************************************************************)
(* Least and greatest elements, and induction on them.                     *)
(***************************************************************************)
LEMMA MinOfNumbers ==
    ASSUME NEW T \in SUBSET Nat, T # {}
    PROVE  Min(T) \in T /\ \A y \in T : Min(T) <= y
  <1>1. \E x \in T : \A y \in T : x =< y
    BY LeastNumber
  <1> QED
    BY <1>1 DEF Min

LEMMA MaxOfNumbers ==
    ASSUME NEW n \in Nat, NEW T \in SUBSET (0 .. n), T # {}
    PROVE  Max(T) \in T /\ \A y \in T : y <= Max(T)
  <1> DEFINE U == {u \in 0 .. n : n - u \in T}
  <1>1. U \in SUBSET Nat /\ U # {}
    <2>1. PICK x \in T : TRUE
      OBVIOUS
    <2>2. x \in 0 .. n
      BY <2>1
    <2>3. n - x \in 0 .. n /\ n - (n - x) = x
      BY <2>2
    <2>4. n - x \in U
      BY <2>1, <2>3
    <2>5. U \subseteq Nat
      OBVIOUS
    <2> QED
      BY <2>4, <2>5
  <1>2. PICK u \in U : \A y \in U : u <= y
    BY <1>1, LeastNumber
  <1>3. \E x \in T : \A y \in T : x >= y
    <2>1. n - u \in T /\ u \in 0 .. n
      BY <1>2
    <2>2. ASSUME NEW y \in T
          PROVE  n - u >= y
      <3>1. n - y \in U
        OBVIOUS
      <3>2. u <= n - y
        BY <1>2, <3>1
      <3> QED
        BY <2>1, <3>2
    <2> QED
      BY <2>1, <2>2
  <1> QED
    BY <1>3 DEF Max

\* What holds at the end and before wherever it holds after, holds everywhere.
LEMMA FromTheEnd ==
    ASSUME NEW n \in Nat, NEW T,
           \A i \in 1 .. n : (\A j \in i + 1 .. n : j \in T) => i \in T
    PROVE  \A i \in 1 .. n : i \in T
  <1> DEFINE Missing == {i \in 1 .. n : i \notin T}
  <1> SUFFICES ASSUME Missing # {}
               PROVE  FALSE
    OBVIOUS
  <1> HIDE DEF Missing
  <1>1. Missing \in SUBSET (0 .. n)
    BY DEF Missing
  <1>2. Max(Missing) \in Missing /\ \A y \in Missing : y <= Max(Missing)
    BY <1>1, MaxOfNumbers
  <1> QED
    BY <1>2 DEF Missing

(***************************************************************************)
(* Parts of a sequence.                                                    *)
(***************************************************************************)
LEMMA Slice ==
    ASSUME NEW S, NEW s \in Seq(S), NEW m \in 1 .. Len(s) + 1, NEW n \in m - 1 .. Len(s)
    PROVE  /\ SubSeq(s, m, n) \in Seq(S)
           /\ Len(SubSeq(s, m, n)) = n - m + 1
           /\ \A k \in 1 .. n - m + 1 : SubSeq(s, m, n)[k] = s[m + k - 1]
  <1>1. m \in Int /\ n \in Int /\ Len(s) \in Nat
    OBVIOUS
  <1>2. \A k \in m .. n : s[k] \in S
    BY <1>1, ElementOfSeq
  <1> QED
    BY <1>1, <1>2, SubSeqProperties

\* Two parts with the same elements at the same places.
LEMMA SameSlice ==
    ASSUME NEW S, NEW s \in Seq(S), NEW t \in Seq(S),
           NEW m \in 1 .. Len(s) + 1, NEW n \in m - 1 .. Len(s),
           m \in 1 .. Len(t) + 1, n \in m - 1 .. Len(t),
           \A k \in m .. n : s[k] = t[k]
    PROVE  SubSeq(t, m, n) = SubSeq(s, m, n)
  <1>1. /\ SubSeq(s, m, n) \in Seq(S) /\ SubSeq(t, m, n) \in Seq(S)
        /\ Len(SubSeq(s, m, n)) = n - m + 1 /\ Len(SubSeq(t, m, n)) = n - m + 1
        /\ \A k \in 1 .. n - m + 1 : SubSeq(s, m, n)[k] = s[m + k - 1]
        /\ \A k \in 1 .. n - m + 1 : SubSeq(t, m, n)[k] = t[m + k - 1]
    BY Slice
  <1>2. \A k \in 1 .. n - m + 1 : m + k - 1 \in m .. n
    OBVIOUS
  <1>3. \A k \in 1 .. n - m + 1 : SubSeq(t, m, n)[k] = SubSeq(s, m, n)[k]
    BY <1>1, <1>2
  <1> QED
    BY <1>1, <1>3, SeqEqual

\* A part of a part.
LEMMA SliceOfSlice ==
    ASSUME NEW S, NEW s \in Seq(S), NEW m \in 1 .. Len(s) + 1, NEW n \in m - 1 .. Len(s),
           NEW i \in 1 .. n - m + 2, NEW j \in i - 1 .. n - m + 1
    PROVE  SubSeq(SubSeq(s, m, n), i, j) = SubSeq(s, m + i - 1, m + j - 1)
  <1> DEFINE p == SubSeq(s, m, n)
  <1>1. /\ p \in Seq(S) /\ Len(p) = n - m + 1
        /\ \A k \in 1 .. n - m + 1 : p[k] = s[m + k - 1]
    BY Slice
  <1> HIDE DEF p
  <1>2. /\ i \in 1 .. Len(p) + 1 /\ j \in i - 1 .. Len(p)
        /\ m + i - 1 \in 1 .. Len(s) + 1 /\ m + j - 1 \in (m + i - 1) - 1 .. Len(s)
        /\ (m + j - 1) - (m + i - 1) + 1 = j - i + 1
    BY <1>1
  <1>3. /\ SubSeq(p, i, j) \in Seq(S) /\ Len(SubSeq(p, i, j)) = j - i + 1
        /\ \A k \in 1 .. j - i + 1 : SubSeq(p, i, j)[k] = p[i + k - 1]
    BY <1>1, <1>2, Slice
  <1>4. /\ SubSeq(s, m + i - 1, m + j - 1) \in Seq(S)
        /\ Len(SubSeq(s, m + i - 1, m + j - 1)) = j - i + 1
        /\ \A k \in 1 .. j - i + 1 :
              SubSeq(s, m + i - 1, m + j - 1)[k] = s[(m + i - 1) + k - 1]
    BY <1>2, Slice
  <1>5. ASSUME NEW k \in 1 .. j - i + 1
        PROVE  SubSeq(p, i, j)[k] = SubSeq(s, m + i - 1, m + j - 1)[k]
    <2>1. i + k - 1 \in 1 .. n - m + 1 /\ m + (i + k - 1) - 1 = (m + i - 1) + k - 1
      OBVIOUS
    <2> QED
      BY <1>1, <1>3, <1>4, <2>1
  <1>6. SubSeq(p, i, j) = SubSeq(s, m + i - 1, m + j - 1)
    BY <1>3, <1>4, <1>5, SeqEqual
  <1> QED
    BY <1>6 DEF p

(***************************************************************************)
(* Units of UTF-8.                                                         *)
(***************************************************************************)
\* n bytes from i on: one and the bytes that continue it, as many as there are.
Extent(b, i, n) ==
    /\ n \in 1 .. Size(b[i])
    /\ i + n - 1 <= Len(b)
    /\ \A j \in 1 .. n - 1 : b[i + j] = Cont
    /\ n = Size(b[i]) \/ i + n > Len(b) \/ b[i + n] # Cont

\* A unit is that long, and no other length is.
LEMMA UnitExtent ==
    ASSUME NEW b \in Seq(Bytes), NEW i \in 1 .. Len(b)
    PROVE  /\ Size(b[i]) \in 1 .. 3
           /\ Extent(b, i, Unit(b, i).bytes)
           /\ \A n : Extent(b, i, n) => Unit(b, i).bytes = n
  <1> DEFINE T == {k \in 0 .. Size(b[i]) - 1 :
                     i + k <= Len(b) /\ \A j \in 1 .. k : b[i + j] = Cont}
             t == Max(T)
  <1>1. Size(b[i]) \in 1 .. 3
    BY DEF Size, Lead2, Lead3
  <1>2. Tails(b, i) = t /\ Unit(b, i).bytes = 1 + t
    BY DEF Tails, Unit
  <1>3. T \in SUBSET (0 .. 2) /\ T # {}
    <2>1. 0 \in T
      BY <1>1
    <2> QED
      BY <1>1, <2>1
  <1>4. t \in T /\ \A k \in T : k <= t
    <2> HIDE DEF T
    <2> QED
      BY <1>3, MaxOfNumbers
  <1> HIDE DEF t
  <1>5. Extent(b, i, 1 + t)
    <2>1. /\ 1 + t \in 1 .. Size(b[i]) /\ i + (1 + t) - 1 <= Len(b)
          /\ \A j \in 1 .. (1 + t) - 1 : b[i + j] = Cont
      BY <1>1, <1>4
    <2>2. ASSUME 1 + t # Size(b[i]), i + (1 + t) <= Len(b), b[i + (1 + t)] = Cont
          PROVE  FALSE
      <3>1. t \in 0 .. 2 /\ 1 + t \in 0 .. Size(b[i]) - 1
        BY <1>1, <1>3, <1>4, <2>2
      <3>2. \A j \in 1 .. 1 + t : b[i + j] = Cont
        <4> TAKE j \in 1 .. 1 + t
        <4>1. CASE j = 1 + t
          BY <2>2, <4>1
        <4>2. CASE j # 1 + t
          BY <1>4, <3>1, <4>2
        <4> QED
          BY <4>1, <4>2
      <3>3. 1 + t \in T
        BY <2>2, <3>1, <3>2
      <3> HIDE DEF T
      <3> QED
        BY <1>4, <3>1, <3>3
    <2>3. t \in 0 .. 2
      BY <1>3, <1>4
    <2> QED
      BY <2>1, <2>2, <2>3 DEF Extent
  <1>6. ASSUME NEW n, Extent(b, i, n)
        PROVE  1 + t = n
    <2>1. n \in 1 .. 3 /\ t \in 0 .. 2
      BY <1>1, <1>3, <1>4, <1>6 DEF Extent
    <2>2. n - 1 \in T
      BY <1>1, <1>6, <2>1 DEF Extent
    <2>3. n - 1 <= t
      BY <1>4, <2>2
    <2>4. CASE n - 1 < t
      <3>1. b[i + n] = Cont /\ i + n <= Len(b) /\ n < Size(b[i])
        BY <1>1, <1>4, <2>1, <2>4
      <3> QED
        BY <1>1, <1>6, <2>1, <3>1 DEF Extent
    <2> QED
      BY <2>1, <2>3, <2>4
  <1> QED
    BY <1>1, <1>2, <1>5, <1>6

\* A unit has a byte and ends inside.
LEMMA UnitFits ==
    ASSUME NEW b \in Seq(Bytes), NEW i \in 1 .. Len(b)
    PROVE  i + Unit(b, i).bytes \in i + 1 .. Len(b) + 1 /\ Unit(b, i).bytes \in 1 .. 3
  <1> DEFINE n == Unit(b, i).bytes
  <1>1. Size(b[i]) \in 1 .. 3 /\ Extent(b, i, n) /\ Len(b) \in Nat
    BY UnitExtent
  <1> HIDE DEF n
  <1>2. n \in 1 .. 3 /\ i + n - 1 <= Len(b)
    BY <1>1 DEF Extent
  <1>3. i + n \in i + 1 .. Len(b) + 1
    BY <1>1, <1>2
  <1> QED
    BY <1>2, <1>3 DEF n

\* The kind of a unit.
LEMMA UnitKind ==
    ASSUME NEW b \in Seq(Bytes), NEW i \in 1 .. Len(b)
    PROVE  Unit(b, i).kind =
             IF b[i] # Cont /\ Unit(b, i).bytes = Size(b[i]) THEN "char"
             ELSE IF b[i] # Cont /\ i + Unit(b, i).bytes = Len(b) + 1 THEN "cut"
             ELSE "error"
  <1>1. Unit(b, i).bytes \in Nat /\ Unit(b, i).bytes = 1 + Tails(b, i)
    <2>1. Unit(b, i).bytes \in 1 .. Size(b[i]) /\ Size(b[i]) \in 1 .. 3
      BY UnitExtent DEF Extent
    <2> QED
      BY <2>1 DEF Unit
  <1>2. Tails(b, i) \in Int
    <2> DEFINE T == {k \in 0 .. Size(b[i]) - 1 :
                       i + k <= Len(b) /\ \A j \in 1 .. k : b[i + j] = Cont}
    <2>1. Size(b[i]) \in 1 .. 3
      BY UnitExtent
    <2>2. 0 \in T /\ T \in SUBSET (0 .. 2)
      BY <2>1
    <2> HIDE DEF T
    <2>3. Max(T) \in T
      BY <2>2, MaxOfNumbers
    <2> QED
      BY <2>2, <2>3 DEF Tails, T
  <1>3. i + Tails(b, i) = Len(b) <=> i + Unit(b, i).bytes = Len(b) + 1
    BY <1>1, <1>2
  <1> QED
    BY <1>1, <1>3 DEF Unit

\* Two byte strings that agree as far as both go.
Agree(y, z) == \A j \in 1 .. Len(y) : j <= Len(z) => y[j] = z[j]

\* A unit is known before the end is seen: unless it was cut off, another end
\* shows the same.
LEMMA UnitIsLocal ==
    ASSUME NEW y \in Seq(Bytes), NEW z \in Seq(Bytes), Agree(y, z),
           NEW i \in 1 .. Len(y), Unit(y, i).kind # "cut",
           i + Unit(y, i).bytes - 1 <= Len(z)
    PROVE  /\ i \in 1 .. Len(z)
           /\ Unit(z, i).bytes = Unit(y, i).bytes
           /\ Shown(z, i) = Shown(y, i)
  <1> DEFINE n == Unit(y, i).bytes
  <1>1. Extent(y, i, n) /\ Size(y[i]) \in 1 .. 3 /\ n \in 1 .. 3
    BY UnitExtent DEF Extent
  <1>2. i \in 1 .. Len(z) /\ z[i] = y[i]
    BY <1>1 DEF Agree
  <1>3. Extent(z, i, n)
    <2>1. ASSUME NEW j \in 1 .. n - 1
          PROVE  z[i + j] = Cont
      <3>1. i + n - 1 <= Len(z) /\ i + n - 1 <= Len(y) /\ y[i + j] = Cont
        BY <1>1 DEF Extent
      <3> HIDE DEF n
      <3>2. i + j \in 1 .. Len(y) /\ i + j <= Len(z)
        BY <1>1, <1>2, <3>1
      <3> QED
        BY <3>1, <3>2 DEF Agree
    <2>2. ASSUME n # Size(z[i]), i + n <= Len(z)
          PROVE  z[i + n] # Cont
      <3>1. n # Size(y[i])
        BY <1>2, <2>2
      <3>2. i + n <= Len(y)
        <4>1. Cont # Lead2 /\ Cont # Lead3
          BY DEF Cont, Lead2, Lead3
        <4>2. y[i] # Cont
          BY <1>1, <3>1, <4>1 DEF Size, Extent
        <4>3. i + n # Len(y) + 1
          BY <3>1, <4>2, UnitKind
        <4>4. i + n - 1 <= Len(y) /\ Len(y) \in Nat
          BY <1>1 DEF Extent
        <4> HIDE DEF n
        <4> QED
          BY <1>1, <4>3, <4>4
      <3> QED
        BY <1>1, <2>2, <3>1, <3>2 DEF Extent, Agree
    <2> QED
      BY <1>1, <1>2, <2>1, <2>2 DEF Extent
  <1>4. Unit(z, i).bytes = n
    BY <1>2, <1>3, UnitExtent
  <1>5. Unit(z, i).kind = "char" <=> Unit(y, i).kind = "char"
    BY <1>2, <1>4, UnitKind
  <1>6. SubSeq(z, i, i + n - 1) = SubSeq(y, i, i + n - 1)
    <2> HIDE DEF n
    <2>1. /\ i \in 1 .. Len(y) + 1 /\ i + n - 1 \in i - 1 .. Len(y)
          /\ i \in 1 .. Len(z) + 1 /\ i + n - 1 \in i - 1 .. Len(z)
      BY <1>1, <1>2 DEF Extent, n
    <2>2. \A k \in i .. i + n - 1 : y[k] = z[k]
      BY <2>1 DEF Agree
    <2> QED
      BY <2>1, <2>2, SameSlice
  <1> QED
    BY <1>2, <1>4, <1>5, <1>6 DEF Shown

(***************************************************************************)
(* The decoder.                                                            *)
(***************************************************************************)
\* What is decoded at a byte depends on what is decoded after it.
LEMMA DecodeLooksAhead ==
    ASSUME NEW b \in Seq(Bytes), NEW flush \in BOOLEAN, NEW i \in 1 .. Len(b) + 1, NEW f, NEW g,
           \A j \in i + 1 .. Len(b) + 1 : f[j] = g[j]
    PROVE  DecodeAt(b, flush, f, i) = DecodeAt(b, flush, g, i)
  <1>1. CASE i > Len(b)
    BY <1>1 DEF DecodeAt
  <1>2. CASE i <= Len(b)
    <2>1. i \in 1 .. Len(b)
      BY <1>2
    <2>3. i + Unit(b, i).bytes \in i + 1 .. Len(b) + 1
      BY <2>1, UnitFits
    <2>4. f[i + Unit(b, i).bytes] = g[i + Unit(b, i).bytes]
      BY <2>3
    <2> QED
      BY <2>4 DEF DecodeAt
  <1> QED
    BY <1>1, <1>2

\* The recursive function exists, so it is what its definition says.
LEMMA DecodeRuns ==
    ASSUME NEW b \in Seq(Bytes), NEW flush \in BOOLEAN, NEW i \in 1 .. Len(b) + 1
    PROVE  DecodeFrom(b, flush)[i] = DecodeAt(b, flush, DecodeFrom(b, flush), i)
  <1> DEFINE n == Len(b) + 1
             Partly(m, g) == g = [j \in m .. n |-> DecodeAt(b, flush, g, j)]
             T == {m \in 1 .. n : \E g : Partly(m, g)}
  <1>1. n \in Nat
    OBVIOUS
  <1>2. ASSUME NEW m \in 1 .. n, \A j \in m + 1 .. n : j \in T
        PROVE  m \in T
    <2>1. \E g : \A j \in m + 1 .. n : g[j] = DecodeAt(b, flush, g, j)
      <3>1. CASE m = n
        BY <1>1, <3>1
      <3>2. CASE m # n
        <4>1. m + 1 \in T
          BY <1>1, <1>2, <3>2
        <4>2. PICK g : Partly(m + 1, g)
          BY <4>1
        <4> QED
          BY <4>2
      <3> QED
        BY <3>1, <3>2
    <2>2. PICK g : \A j \in m + 1 .. n : g[j] = DecodeAt(b, flush, g, j)
      BY <2>1
    <2> DEFINE h == [j \in m .. n |-> DecodeAt(b, flush, g, j)]
    <2>3. \A j \in m + 1 .. n : h[j] = g[j]
      BY <2>2
    <2>4. ASSUME NEW j \in m .. n
          PROVE  DecodeAt(b, flush, g, j) = DecodeAt(b, flush, h, j)
      <3>1. j \in 1 .. Len(b) + 1
        BY <1>1
      <3> HIDE DEF h
      <3>2. \A k \in j + 1 .. Len(b) + 1 : k \in m + 1 .. n
        BY <3>1
      <3>3. \A k \in j + 1 .. Len(b) + 1 : g[k] = h[k]
        BY <2>3, <3>2
      <3> QED
        BY <3>1, <3>3, DecodeLooksAhead
    <2>5. h = [j \in m .. n |-> DecodeAt(b, flush, h, j)]
      BY <2>4
    <2> QED
      BY <2>5
  <1>3. 1 \in T
    <2> HIDE DEF T
    <2>1. \A m \in 1 .. n : m \in T
      BY <1>1, <1>2, FromTheEnd
    <2> QED
      BY <1>1, <2>1
  <1>4. PICK g : Partly(1, g)
    BY <1>3
  <1> DEFINE F == CHOOSE from : from = [j \in 1 .. Len(b) + 1 |-> DecodeAt(b, flush, from, j)]
  <1>5. F = [j \in 1 .. Len(b) + 1 |-> DecodeAt(b, flush, F, j)]
    BY <1>4
  <1>6. DecodeFrom(b, flush) = F
    BY DEF DecodeFrom
  <1> HIDE DEF F
  <1> QED
    BY <1>5, <1>6

Chars == Seq(Bytes \cup {"U+FFFD"})

LEMMA ShownIsAChar ==
    ASSUME NEW b \in Seq(Bytes), NEW i \in 1 .. Len(b)
    PROVE  Shown(b, i) \in Chars
  <1>1. i + Unit(b, i).bytes \in i + 1 .. Len(b) + 1 /\ Unit(b, i).bytes \in 1 .. 3
    BY UnitFits
  <1>2. i + Unit(b, i).bytes - 1 \in i - 1 .. Len(b) /\ i \in 1 .. Len(b) + 1
    BY <1>1
  <1>3. SubSeq(b, i, i + Unit(b, i).bytes - 1) \in Seq(Bytes)
    BY <1>2, Slice
  <1>4. SubSeq(b, i, i + Unit(b, i).bytes - 1) \in Chars
    BY <1>3, SeqMonotonic DEF Chars
  <1>5. Replacement \in Chars
    BY DEF Replacement, Chars
  <1> QED
    BY <1>4, <1>5 DEF Shown

\* The two ways to read a place: the decoder ends there or goes on.
LEMMA DecodeEnds ==
    ASSUME NEW b \in Seq(Bytes), NEW flush \in BOOLEAN, NEW i \in 1 .. Len(b) + 1,
           i > Len(b) \/ (Unit(b, i).kind = "cut" /\ ~flush)
    PROVE  DecodeFrom(b, flush)[i].text = << >> /\ DecodeFrom(b, flush)[i].consumed = i - 1
  <1>1. DecodeFrom(b, flush)[i] = DecodeAt(b, flush, DecodeFrom(b, flush), i)
    BY DecodeRuns
  <1>2. DecodeAt(b, flush, DecodeFrom(b, flush), i) = [text |-> << >>, consumed |-> i - 1]
    BY DEF DecodeAt
  <1> QED
    BY <1>1, <1>2

LEMMA DecodeGoesOn ==
    ASSUME NEW b \in Seq(Bytes), NEW flush \in BOOLEAN, NEW i \in 1 .. Len(b),
           ~(Unit(b, i).kind = "cut" /\ ~flush)
    PROVE  LET rest == DecodeFrom(b, flush)[i + Unit(b, i).bytes]
           IN /\ DecodeFrom(b, flush)[i].text = <<Shown(b, i)>> \o rest.text
              /\ DecodeFrom(b, flush)[i].consumed = rest.consumed
  <1> DEFINE F == DecodeFrom(b, flush)
             rest == F[i + Unit(b, i).bytes]
  <1>1. i \in 1 .. Len(b) + 1 /\ ~(i > Len(b))
    OBVIOUS
  <1>2. F[i] = DecodeAt(b, flush, F, i)
    BY <1>1, DecodeRuns
  <1>3. DecodeAt(b, flush, F, i) =
          [text |-> <<Shown(b, i)>> \o rest.text, consumed |-> rest.consumed]
    BY <1>1 DEF DecodeAt
  <1> HIDE DEF F
  <1> QED
    BY <1>2, <1>3 DEF F

\* What comes out are characters, and nothing beyond the end is consumed; who
\* flushes consumes all.
DecodeIsSound(b, flush, i) ==
    LET r == DecodeFrom(b, flush)[i]
    IN /\ r.text \in Seq(Chars)
       /\ r.consumed \in i - 1 .. Len(b)
       /\ flush => r.consumed = Len(b)

LEMMA DecodeType ==
    ASSUME NEW b \in Seq(Bytes), NEW flush \in BOOLEAN, NEW i \in 1 .. Len(b) + 1
    PROVE  DecodeIsSound(b, flush, i)
  <1> DEFINE n == Len(b) + 1
             T == {k \in 1 .. n : DecodeIsSound(b, flush, k)}
  <1>1. n \in Nat /\ Len(b) \in Nat
    OBVIOUS
  <1>2. ASSUME NEW k \in 1 .. n, \A j \in k + 1 .. n : j \in T
        PROVE  k \in T
    <2>1. CASE k > Len(b) \/ (Unit(b, k).kind = "cut" /\ ~flush)
      <3>1. /\ DecodeFrom(b, flush)[k].text = << >>
            /\ DecodeFrom(b, flush)[k].consumed = k - 1
        BY <2>1, DecodeEnds
      <3>2. k - 1 \in k - 1 .. Len(b) /\ (flush => k - 1 = Len(b))
        BY <1>1, <2>1
      <3>3. << >> \in Seq(Chars)
        OBVIOUS
      <3> QED
        BY <3>1, <3>2, <3>3 DEF DecodeIsSound
    <2>2. CASE ~(k > Len(b) \/ (Unit(b, k).kind = "cut" /\ ~flush))
      <3> DEFINE j == k + Unit(b, k).bytes
                 rest == DecodeFrom(b, flush)[j]
      <3>1. k \in 1 .. Len(b)
        BY <1>1, <2>2
      <3>2. j \in k + 1 .. n
        BY <3>1, UnitFits
      <3>3. /\ DecodeFrom(b, flush)[k].text = <<Shown(b, k)>> \o rest.text
            /\ DecodeFrom(b, flush)[k].consumed = rest.consumed
        BY <2>2, <3>1, DecodeGoesOn
      <3>4. DecodeIsSound(b, flush, j)
        BY <1>2, <3>2
      <3>5. <<Shown(b, k)>> \in Seq(Chars)
        BY <3>1, ShownIsAChar
      <3> HIDE DEF j
      <3>6. rest.text \in Seq(Chars) /\ rest.consumed \in j - 1 .. Len(b)
        BY <3>4 DEF DecodeIsSound
      <3>7. <<Shown(b, k)>> \o rest.text \in Seq(Chars)
        BY <3>5, <3>6, ConcatProperties
      <3>8. rest.consumed \in k - 1 .. Len(b)
        BY <1>1, <3>2, <3>6
      <3> QED
        BY <3>3, <3>4, <3>7, <3>8 DEF DecodeIsSound
    <2> QED
      BY <2>1, <2>2
  <1> HIDE DEF T
  <1>3. \A k \in 1 .. n : k \in T
    BY <1>1, <1>2, FromTheEnd
  <1> QED
    BY <1>3 DEF T

LEMMA DecodeWhole ==
    ASSUME NEW b \in Seq(Bytes), NEW flush \in BOOLEAN
    PROVE  /\ Decode(b, flush).text \in Seq(Chars)
           /\ Decode(b, flush).consumed \in 0 .. Len(b)
           /\ flush => Decode(b, flush).consumed = Len(b)
  <1>1. 1 \in 1 .. Len(b) + 1
    OBVIOUS
  <1>2. DecodeIsSound(b, flush, 1)
    BY <1>1, DecodeType
  <1> QED
    BY <1>2 DEF DecodeIsSound, Decode

\* Where the decoder ended it would end again.
LEMMA DecodeEndsForGood ==
    ASSUME NEW b \in Seq(Bytes), NEW flush \in BOOLEAN, NEW c, c = Decode(b, flush).consumed
    PROVE  DecodeFrom(b, flush)[c + 1].consumed = c
  <1> DEFINE n == Len(b) + 1
             F == DecodeFrom(b, flush)
             T == {k \in 1 .. n : F[F[k].consumed + 1].consumed = F[k].consumed}
  <1>1. n \in Nat /\ Len(b) \in Nat /\ 1 \in 1 .. n
    OBVIOUS
  <1>2. ASSUME NEW k \in 1 .. n, \A j \in k + 1 .. n : j \in T
        PROVE  k \in T
    <2>1. CASE k > Len(b) \/ (Unit(b, k).kind = "cut" /\ ~flush)
      <3>1. F[k].consumed = k - 1 /\ (k - 1) + 1 = k
        BY <2>1, DecodeEnds
      <3> QED
        BY <3>1
    <2>2. CASE ~(k > Len(b) \/ (Unit(b, k).kind = "cut" /\ ~flush))
      <3> DEFINE j == k + Unit(b, k).bytes
      <3>1. k \in 1 .. Len(b)
        BY <1>1, <2>2
      <3>2. j \in k + 1 .. n
        BY <3>1, UnitFits
      <3>3. F[k].consumed = F[j].consumed
        BY <2>2, <3>1, DecodeGoesOn
      <3> QED
        BY <1>2, <3>2, <3>3
    <2> QED
      BY <2>1, <2>2
  <1>3. 1 \in T
    <2> HIDE DEF T
    <2> QED
      BY <1>1, <1>2, FromTheEnd
  <1> QED
    BY <1>3 DEF Decode

\* The bytes from the d-th on.
From(b, d) == SubSeq(b, d + 1, Len(b))

LEMMA FromIsAShift ==
    ASSUME NEW b \in Seq(Bytes), NEW d \in 0 .. Len(b)
    PROVE  /\ From(b, d) \in Seq(Bytes) /\ Len(From(b, d)) = Len(b) - d
           /\ \A i \in 1 .. Len(b) - d : From(b, d)[i] = b[d + i]
  <1>1. /\ d + 1 \in 1 .. Len(b) + 1 /\ Len(b) \in (d + 1) - 1 .. Len(b)
        /\ Len(b) - (d + 1) + 1 = Len(b) - d
    OBVIOUS
  <1>2. /\ From(b, d) \in Seq(Bytes) /\ Len(From(b, d)) = Len(b) - d
        /\ \A i \in 1 .. Len(b) - d : From(b, d)[i] = b[(d + 1) + i - 1]
    BY <1>1, Slice DEF From
  <1>3. \A i \in 1 .. Len(b) - d : (d + 1) + i - 1 = d + i
    OBVIOUS
  <1> QED
    BY <1>2, <1>3

\* A unit is the same wherever the bytes before it end.
LEMMA UnitShifts ==
    ASSUME NEW b \in Seq(Bytes), NEW d \in 0 .. Len(b), NEW i \in 1 .. Len(b) - d
    PROVE  /\ Unit(From(b, d), i) .bytes = Unit(b, d + i).bytes
           /\ Unit(From(b, d), i).kind = Unit(b, d + i).kind
           /\ Shown(From(b, d), i) = Shown(b, d + i)
  <1> DEFINE r == From(b, d)
             n == Unit(b, d + i).bytes
  <1>1. /\ r \in Seq(Bytes) /\ Len(r) = Len(b) - d
        /\ \A j \in 1 .. Len(b) - d : r[j] = b[d + j]
    BY FromIsAShift
  <1>2. /\ i \in 1 .. Len(r) /\ d + i \in 1 .. Len(b) /\ r[i] = b[d + i]
    BY <1>1
  <1>3. Size(b[d + i]) \in 1 .. 3 /\ Extent(b, d + i, n)
    BY <1>2, UnitExtent
  <1> HIDE DEF n, r
  <1>4. n \in 1 .. 3 /\ (d + i) + n - 1 <= Len(b)
    BY <1>3 DEF Extent
  <1>5. Extent(r, i, n)
    <2>1. i + n - 1 <= Len(r) /\ n \in 1 .. Size(r[i])
      BY <1>1, <1>2, <1>3, <1>4 DEF Extent
    <2>2. ASSUME NEW j \in 1 .. n - 1
          PROVE  r[i + j] = Cont
      <3>1. i + j \in 1 .. Len(b) - d /\ d + (i + j) = (d + i) + j
        BY <1>4
      <3> QED
        BY <1>1, <1>3, <3>1 DEF Extent
    <2>3. ASSUME n # Size(r[i]), i + n <= Len(r)
          PROVE  r[i + n] # Cont
      <3>1. i + n \in 1 .. Len(b) - d /\ d + (i + n) = (d + i) + n
        BY <1>1, <1>4, <2>3
      <3>2. ~((d + i) + n > Len(b))
        BY <3>1
      <3> QED
        BY <1>1, <1>2, <1>3, <2>3, <3>1, <3>2 DEF Extent
    <2>4. i + n <= Len(r) \/ i + n > Len(r)
      BY <1>1, <1>4
    <2> QED
      BY <2>1, <2>2, <2>3, <2>4 DEF Extent
  <1>6. Unit(r, i).bytes = n
    BY <1>1, <1>2, <1>5, UnitExtent
  <1>7. Unit(r, i).kind = Unit(b, d + i).kind
    <2>1. i + n = Len(r) + 1 <=> (d + i) + n = Len(b) + 1
      BY <1>1, <1>4
    <2> QED
      BY <1>1, <1>2, <1>6, <2>1, UnitKind DEF n
  <1>8. SubSeq(r, i, i + n - 1) = SubSeq(b, d + i, (d + i) + n - 1)
    <2>1. /\ d + 1 \in 1 .. Len(b) + 1 /\ Len(b) \in (d + 1) - 1 .. Len(b)
          /\ i \in 1 .. Len(b) - (d + 1) + 2 /\ i + n - 1 \in i - 1 .. Len(b) - (d + 1) + 1
          /\ (d + 1) + i - 1 = d + i /\ (d + 1) + (i + n - 1) - 1 = (d + i) + n - 1
      BY <1>4
    <2>2. SubSeq(SubSeq(b, d + 1, Len(b)), i, i + n - 1) =
            SubSeq(b, (d + 1) + i - 1, (d + 1) + (i + n - 1) - 1)
      BY <2>1, SliceOfSlice
    <2> QED
      BY <2>1, <2>2 DEF r, From
  <1> QED
    BY <1>6, <1>7, <1>8 DEF Shown, n, r

\* So is what is decoded from there.
LEMMA DecodeShifts ==
    ASSUME NEW b \in Seq(Bytes), NEW flush \in BOOLEAN, NEW d \in 0 .. Len(b)
    PROVE  /\ Decode(From(b, d), flush).text = DecodeFrom(b, flush)[d + 1].text
           /\ d + Decode(From(b, d), flush).consumed = DecodeFrom(b, flush)[d + 1].consumed
  <1> DEFINE r == From(b, d)
             n == Len(b) - d + 1
             F == DecodeFrom(b, flush)
             G == DecodeFrom(r, flush)
             T == {k \in 1 .. n : /\ G[k].text = F[d + k].text
                                  /\ d + G[k].consumed = F[d + k].consumed}
  <1>1. n \in Nat /\ 1 \in 1 .. n /\ Len(b) \in Nat
    OBVIOUS
  <1>2. r \in Seq(Bytes) /\ Len(r) = Len(b) - d
    BY FromIsAShift
  <1> HIDE DEF r
  <1>3. ASSUME NEW k \in 1 .. n, \A j \in k + 1 .. n : j \in T
        PROVE  k \in T
    <2>1. k \in 1 .. Len(r) + 1 /\ d + k \in 1 .. Len(b) + 1 /\ (k > Len(r) <=> d + k > Len(b))
      BY <1>1, <1>2
    <2>2. k <= Len(r) => /\ Unit(r, k).bytes = Unit(b, d + k).bytes
                         /\ Unit(r, k).kind = Unit(b, d + k).kind
                         /\ Shown(r, k) = Shown(b, d + k)
      BY <1>1, <1>2, UnitShifts DEF r
    <2>3. CASE k > Len(r) \/ (Unit(r, k).kind = "cut" /\ ~flush)
      <3>1. G[k].text = << >> /\ G[k].consumed = k - 1
        BY <1>2, <2>1, <2>3, DecodeEnds
      <3>2. d + k > Len(b) \/ (Unit(b, d + k).kind = "cut" /\ ~flush)
        <4>1. CASE k > Len(r)
          BY <2>1, <4>1
        <4>2. CASE k <= Len(r)
          BY <2>2, <2>3, <4>2, <2>1, <1>2
        <4> QED
          BY <4>1, <4>2, <2>1, <1>1, <1>2
      <3>3. F[d + k].text = << >> /\ F[d + k].consumed = (d + k) - 1
        BY <2>1, <3>2, DecodeEnds
      <3>4. d + (k - 1) = (d + k) - 1
        BY <1>1
      <3> HIDE DEF F, G
      <3> QED
        BY <3>1, <3>3, <3>4
    <2>4. CASE ~(k > Len(r) \/ (Unit(r, k).kind = "cut" /\ ~flush))
      <3> DEFINE j == k + Unit(r, k).bytes
      <3>1. k \in 1 .. Len(r) /\ d + k \in 1 .. Len(b) /\ k <= Len(r)
        BY <1>1, <1>2, <2>1, <2>4
      <3>2. j \in k + 1 .. n /\ Unit(r, k).bytes \in 1 .. 3
        BY <1>2, <3>1, UnitFits
      <3>3. d + j = (d + k) + Unit(b, d + k).bytes
        BY <2>2, <3>1, <3>2
      <3>4. G[k].text = <<Shown(r, k)>> \o G[j].text /\ G[k].consumed = G[j].consumed
        BY <1>2, <2>4, <3>1, DecodeGoesOn
      <3>5. ~(Unit(b, d + k).kind = "cut" /\ ~flush)
        BY <2>2, <2>4, <3>1
      <3>6. /\ F[d + k].text = <<Shown(b, d + k)>> \o F[d + j].text
            /\ F[d + k].consumed = F[d + j].consumed
        BY <3>1, <3>3, <3>5, DecodeGoesOn
      <3>7. j \in T
        BY <1>3, <3>2
      <3> HIDE DEF j, F, G
      <3> QED
        BY <2>2, <3>1, <3>4, <3>6, <3>7
    <2> QED
      BY <2>3, <2>4
  <1>4. 1 \in T
    <2> HIDE DEF T
    <2> QED
      BY <1>1, <1>3, FromTheEnd
  <1> QED
    BY <1>4 DEF Decode, r

\* The whole is decoded in two steps: what a part gave, and then the rest from
\* where the part ended, whatever came after the part.
LEMMA DecodeResumes ==
    ASSUME NEW y \in Seq(Bytes), NEW z \in Seq(Bytes), Agree(y, z),
           Decode(y, FALSE).consumed <= Len(z)
    PROVE  Lossy(z) = Decode(y, FALSE).text \o Lossy(From(z, Decode(y, FALSE).consumed))
  <1> DEFINE F == DecodeFrom(y, FALSE)
             L == DecodeFrom(z, TRUE)
             c == Decode(y, FALSE).consumed
             n == c + 1
             T == {k \in 1 .. n : F[k].consumed = c => L[k].text = F[k].text \o L[n].text}
  <1>1. /\ c \in 0 .. Len(y) /\ c \in 0 .. Len(z) /\ n \in Nat /\ 1 \in 1 .. n
        /\ n \in 1 .. Len(y) + 1 /\ n \in 1 .. Len(z) + 1
        /\ Len(y) \in Nat /\ Len(z) \in Nat
    <2>1. c \in 0 .. Len(y) /\ c <= Len(z)
      BY DecodeWhole
    <2> HIDE DEF c
    <2> QED
      BY <2>1
  <1>2. L[n].text \in Seq(Chars)
    <2> HIDE DEF n
    <2> QED
      BY <1>1, DecodeType DEF DecodeIsSound
  <1> HIDE DEF c
  <1>3. ASSUME NEW k \in 1 .. n, \A j \in k + 1 .. n : j \in T, F[k].consumed = c
        PROVE  L[k].text = F[k].text \o L[n].text
    <2>1. k \in 1 .. Len(y) + 1 /\ k \in 1 .. Len(z) + 1
      BY <1>1
    <2>2. CASE k > Len(y) \/ (Unit(y, k).kind = "cut" /\ ~FALSE)
      <3>1. F[k].text = << >> /\ F[k].consumed = k - 1
        BY <2>1, <2>2, DecodeEnds
      <3>2. k = n
        <4> HIDE DEF F, L, T
        <4> QED
          BY <1>1, <1>3, <3>1
      <3> HIDE DEF F, L, n
      <3> QED
        BY <1>2, <3>1, <3>2, ConcatEmptySeq
    <2>3. CASE ~(k > Len(y) \/ (Unit(y, k).kind = "cut" /\ ~FALSE))
      <3> DEFINE u == Unit(y, k).bytes
                 j == k + u
      <3>1. k \in 1 .. Len(y)
        BY <1>1, <2>1, <2>3
      <3>2. u \in 1 .. 3 /\ j \in k + 1 .. Len(y) + 1
        BY <3>1, UnitFits
      <3>3. F[k].text = <<Shown(y, k)>> \o F[j].text /\ F[k].consumed = F[j].consumed
        BY <2>3, <3>1, DecodeGoesOn
      <3>4. j \in 1 .. Len(y) + 1
        BY <3>1, <3>2
      <3>5. F[j].text \in Seq(Chars) /\ F[j].consumed \in j - 1 .. Len(y)
        <4> HIDE DEF j
        <4> QED
          BY <3>4, DecodeType DEF DecodeIsSound
      <3> HIDE DEF u
      <3>6. j \in k + 1 .. n /\ k + u - 1 <= Len(z)
        <4>1. c \in j - 1 .. Len(y)
          BY <1>3, <3>3, <3>5
        <4> HIDE DEF F, L, T
        <4> QED
          BY <1>1, <3>2, <4>1
      <3>7. /\ k \in 1 .. Len(z) /\ Unit(z, k).bytes = u /\ Shown(z, k) = Shown(y, k)
        BY <2>3, <3>1, <3>6, UnitIsLocal DEF u
      <3>8. L[k].text = <<Shown(y, k)>> \o L[j].text
        BY <3>7, DecodeGoesOn
      <3>9. L[j].text = F[j].text \o L[n].text
        BY <1>3, <3>3, <3>6
      <3>10. <<Shown(y, k)>> \in Seq(Chars)
        BY <3>1, ShownIsAChar
      <3> HIDE DEF j, F, L, n
      <3>11. (<<Shown(y, k)>> \o F[j].text) \o L[n].text
               = <<Shown(y, k)>> \o (F[j].text \o L[n].text)
        <4> DEFINE a == F[j].text
                   e == L[n].text
                   h == <<Shown(y, k)>>
        <4>1. a \in Seq(Chars) /\ e \in Seq(Chars) /\ h \in Seq(Chars)
          BY <1>2, <3>5, <3>10
        <4> HIDE DEF a, e, h
        <4>2. (h \o a) \o e = h \o (a \o e)
          BY <4>1, ConcatAssociative
        <4> QED
          BY <4>2 DEF a, e, h
      <3> QED
        BY <3>3, <3>8, <3>9, <3>11
    <2> QED
      BY <2>2, <2>3
  <1>4. ASSUME NEW k \in 1 .. n, \A j \in k + 1 .. n : j \in T
        PROVE  k \in T
    BY <1>3, <1>4
  <1>5. 1 \in T
    <2> HIDE DEF T, n
    <2> QED
      BY <1>1, <1>4, FromTheEnd
  <1>6. L[1].text = F[1].text \o L[n].text
    BY <1>5 DEF c, Decode
  <1>7. Lossy(From(z, c)) = L[n].text
    BY <1>1, DecodeShifts DEF Lossy
  <1> QED
    BY <1>6, <1>7 DEF Lossy, Decode, c

\* Nothing is consumed of what was left.
LEMMA DecodeLeavesNothing ==
    ASSUME NEW y \in Seq(Bytes)
    PROVE  Decode(From(y, Decode(y, FALSE).consumed), FALSE).consumed = 0
  <1> DEFINE c == Decode(y, FALSE).consumed
             r == From(y, c)
  <1>1. c \in 0 .. Len(y)
    BY DecodeWhole
  <1> DEFINE e == Decode(r, FALSE).consumed
  <1>2. c + e = DecodeFrom(y, FALSE)[c + 1].consumed
    BY <1>1, DecodeShifts
  <1>3. DecodeFrom(y, FALSE)[c + 1].consumed = c
    BY DecodeEndsForGood
  <1>4. r \in Seq(Bytes) /\ Len(r) = Len(y) - c
    <2> HIDE DEF c
    <2> QED
      BY <1>1, FromIsAShift
  <1>5. e \in 0 .. Len(r)
    <2> HIDE DEF r
    <2> QED
      BY <1>4, DecodeWhole
  <1> HIDE DEF c, r, e
  <1>6. c + e = c
    BY <1>2, <1>3
  <1>7. Len(y) \in Nat /\ Len(r) \in Nat
    BY <1>4
  <1>8. c \in Nat /\ e \in Nat
    BY <1>1, <1>5, <1>7
  <1>9. e = 0
    BY <1>6, <1>8
  <1> QED
    BY <1>9 DEF c, r, e

(***************************************************************************)
(* Stop strings, byte by byte.                                             *)
(***************************************************************************)
GoodStops == \A s \in stops : s \in Seq(Bytes) /\ s # << >>

OccursAt(s, b, i) ==
    /\ i \in Nat \ {0} /\ i + Len(s) - 1 <= Len(b)
    /\ \A j \in 1 .. Len(s) : b[i + j - 1] = s[j]

LEMMA OccurrenceIs ==
    ASSUME NEW s \in Seq(Bytes), s # << >>, NEW b \in Seq(Bytes), NEW i
    PROVE  i \in Occurrences(s, b) <=> OccursAt(s, b, i)
  <1>1. Len(s) \in Nat \ {0} /\ Len(b) \in Nat
    BY EmptySeq
  <1>2. i \in 1 .. Len(b) - Len(s) + 1 <=> i \in Nat \ {0} /\ i + Len(s) - 1 <= Len(b)
    BY <1>1
  <1>3. ASSUME i \in Nat \ {0}, i + Len(s) - 1 <= Len(b)
        PROVE  SubSeq(b, i, i + Len(s) - 1) = s
                 <=> \A j \in 1 .. Len(s) : b[i + j - 1] = s[j]
    <2> DEFINE p == SubSeq(b, i, i + Len(s) - 1)
    <2>1. /\ i \in 1 .. Len(b) + 1 /\ i + Len(s) - 1 \in i - 1 .. Len(b)
          /\ (i + Len(s) - 1) - i + 1 = Len(s)
      BY <1>1, <1>3
    <2>2. /\ p \in Seq(Bytes) /\ Len(p) = Len(s)
          /\ \A j \in 1 .. Len(s) : p[j] = b[i + j - 1]
      <3>1. /\ p \in Seq(Bytes) /\ Len(p) = (i + Len(s) - 1) - i + 1
            /\ \A j \in 1 .. (i + Len(s) - 1) - i + 1 : p[j] = b[i + j - 1]
        BY <2>1, Slice
      <3> QED
        BY <2>1, <3>1
    <2> HIDE DEF p
    <2>3. p = s <=> \A j \in 1 .. Len(s) : p[j] = s[j]
      BY <2>2, SeqEqual
    <2> QED
      BY <2>2, <2>3 DEF p
  <1> QED
    BY <1>2, <1>3 DEF Occurrences, OccursAt

LEMMA FoundIs ==
    ASSUME GoodStops, NEW b \in Seq(Bytes)
    PROVE  /\ \A i : i \in Found(b) <=> \E s \in stops : OccursAt(s, b, i)
           /\ Found(b) \in SUBSET (1 .. Len(b))
  <1>1. \A i : i \in Found(b) <=> \E s \in stops : i \in Occurrences(s, b)
    BY DEF Found
  <1>2. \A s \in stops : \A i : i \in Occurrences(s, b) <=> OccursAt(s, b, i)
    BY OccurrenceIs DEF GoodStops
  <1>3. ASSUME NEW s \in stops, NEW i, OccursAt(s, b, i)
        PROVE  i \in 1 .. Len(b)
    <2>1. Len(s) \in Nat \ {0} /\ Len(b) \in Nat
      BY EmptySeq DEF GoodStops
    <2> QED
      BY <1>3, <2>1 DEF OccursAt
  <1> QED
    BY <1>1, <1>2, <1>3

\* The last n bytes start a stop string.
StartsAt(s, b, n) ==
    n < Len(s) /\ \A j \in 1 .. n : s[j] = b[Len(b) - n + j]

LEMMA EndingIs ==
    ASSUME GoodStops, NEW b \in Seq(Bytes), NEW n \in 0 .. Len(b)
    PROVE  /\ Ending(b, n) \in Seq(Bytes) /\ Len(Ending(b, n)) = n
           /\ \A j \in 1 .. n : Ending(b, n)[j] = b[Len(b) - n + j]
           /\ StartsStop(Ending(b, n)) <=> \E s \in stops : StartsAt(s, b, n)
  <1> DEFINE e == Ending(b, n)
             m == Len(b) - n + 1
  <1>1. Len(b) \in Nat /\ m \in 1 .. Len(b) + 1 /\ Len(b) \in m - 1 .. Len(b)
    OBVIOUS
  <1>2. /\ e \in Seq(Bytes) /\ Len(e) = Len(b) - m + 1
        /\ \A j \in 1 .. Len(b) - m + 1 : e[j] = b[m + j - 1]
    <2> HIDE DEF m
    <2>1. e = SubSeq(b, m, Len(b))
      BY DEF Ending, m
    <2> HIDE DEF e
    <2> QED
      BY <1>1, <2>1, Slice
  <1> HIDE DEF e
  <1>3. /\ Len(e) = n /\ \A j \in 1 .. n : e[j] = b[Len(b) - n + j]
    <2>1. Len(b) - m + 1 = n /\ \A j \in 1 .. n : m + j - 1 = Len(b) - n + j
      BY <1>1
    <2> HIDE DEF m
    <2> QED
      BY <1>2, <2>1
  <1>4. ASSUME NEW s \in stops
        PROVE  (Len(e) < Len(s) /\ IsPrefix(e, s)) <=> StartsAt(s, b, n)
    <2>1. s \in Seq(Bytes) /\ Len(s) \in Nat
      BY DEF GoodStops
    <2>2. ASSUME n < Len(s)
          PROVE  IsPrefix(e, s) <=> \A j \in 1 .. n : s[j] = e[j]
      <3>1. SubSeq(e, 1, n) = e
        BY <1>2, <1>3, SubSeqFull
      <3>2. /\ SubSeq(s, 1, n) \in Seq(Bytes) /\ Len(SubSeq(s, 1, n)) = n
            /\ \A j \in 1 .. n : SubSeq(s, 1, n)[j] = s[j]
        <4>1. /\ 1 \in 1 .. Len(s) + 1 /\ n \in 1 - 1 .. Len(s) /\ n - 1 + 1 = n
              /\ \A j \in 1 .. n : 1 + j - 1 = j
          BY <2>1, <2>2
        <4>2. /\ SubSeq(s, 1, n) \in Seq(Bytes) /\ Len(SubSeq(s, 1, n)) = n - 1 + 1
              /\ \A j \in 1 .. n - 1 + 1 : SubSeq(s, 1, n)[j] = s[1 + j - 1]
          BY <2>1, <4>1, Slice
        <4> QED
          BY <4>1, <4>2
      <3>3. IsPrefix(e, s) <=> e = SubSeq(s, 1, n)
        BY <1>3, <2>1, <2>2, <3>1 DEF IsPrefix
      <3>4. e = SubSeq(s, 1, n) <=> \A j \in 1 .. n : e[j] = SubSeq(s, 1, n)[j]
        BY <1>2, <1>3, <3>2, SeqEqual
      <3> QED
        BY <3>2, <3>3, <3>4
    <2> QED
      BY <1>3, <2>2 DEF StartsAt
  <1>5. StartsStop(e) <=> \E s \in stops : StartsAt(s, b, n)
    BY <1>4 DEF StartsStop
  <1> QED
    BY <1>2, <1>3, <1>5 DEF e

\* What is held starts a stop string, and no longer end does.
LEMMA HeldIs ==
    ASSUME NEW b \in Seq(Bytes)
    PROVE  /\ Held(b) \in 0 .. Len(b)
           /\ Held(b) > 0 => StartsStop(Ending(b, Held(b)))
           /\ \A n \in 1 .. Len(b) : StartsStop(Ending(b, n)) => n <= Held(b)
  <1> DEFINE T == {0} \cup {n \in 1 .. Len(b) : StartsStop(Ending(b, n))}
  <1>1. T \in SUBSET (0 .. Len(b)) /\ T # {} /\ Len(b) \in Nat
    OBVIOUS
  <1>2. Max(T) \in T /\ \A n \in T : n <= Max(T)
    <2> HIDE DEF T
    <2> QED
      BY <1>1, MaxOfNumbers
  <1>3. Held(b) = Max(T)
    BY DEF Held
  <1>4. Held(b) \in T /\ \A n \in T : n <= Held(b)
    BY <1>2, <1>3
  <1> QED
    BY <1>1, <1>4

\* The first u bytes hold no stop string, and those after d all that could start one.
Clean(b, u, d) ==
    /\ Found(SubSeq(b, 1, u)) = {}
    /\ \A n \in 1 .. u : StartsStop(Ending(SubSeq(b, 1, u), n)) => n <= u - d

LEMMA FirstBytes ==
    ASSUME NEW b \in Seq(Bytes), NEW u \in 0 .. Len(b)
    PROVE  /\ SubSeq(b, 1, u) \in Seq(Bytes) /\ Len(SubSeq(b, 1, u)) = u
           /\ \A j \in 1 .. u : SubSeq(b, 1, u)[j] = b[j]
  <1>1. /\ 1 \in 1 .. Len(b) + 1 /\ u \in 1 - 1 .. Len(b) /\ u - 1 + 1 = u
        /\ \A j \in 1 .. u : 1 + j - 1 = j
    OBVIOUS
  <1>2. /\ SubSeq(b, 1, u) \in Seq(Bytes) /\ Len(SubSeq(b, 1, u)) = u - 1 + 1
        /\ \A j \in 1 .. u - 1 + 1 : SubSeq(b, 1, u)[j] = b[1 + j - 1]
    BY <1>1, Slice
  <1> QED
    BY <1>1, <1>2

\* So a stop string that comes with more bytes lies after d.
LEMMA FoundAfter ==
    ASSUME GoodStops, NEW b \in Seq(Bytes), NEW u \in 0 .. Len(b), NEW d \in 0 .. u,
           Clean(b, u, d)
    PROVE  \A i : i \in Found(b) <=> i \in Int /\ i - d \in Found(From(b, d))
  <1> DEFINE p == SubSeq(b, 1, u)
             r == From(b, d)
  <1>1. /\ p \in Seq(Bytes) /\ Len(p) = u /\ \A j \in 1 .. u : p[j] = b[j]
        /\ Len(b) \in Nat
    BY FirstBytes
  <1>2. /\ r \in Seq(Bytes) /\ Len(r) = Len(b) - d /\ d \in 0 .. Len(b)
        /\ \A j \in 1 .. Len(b) - d : r[j] = b[d + j]
    <2>1. d \in 0 .. Len(b)
      OBVIOUS
    <2> QED
      BY <2>1, FromIsAShift
  <1>3. Found(p) = {} /\ \A n \in 1 .. u : StartsStop(Ending(p, n)) => n <= u - d
    BY DEF Clean
  <1> HIDE DEF p, r
  <1>4. \A s \in stops : Len(s) \in Nat \ {0}
    BY EmptySeq DEF GoodStops
  <1>5. ASSUME NEW s \in stops, NEW i, OccursAt(s, b, i)
        PROVE  i > d
    <2>1. i \in Nat \ {0} /\ i + Len(s) - 1 <= Len(b)
          /\ \A j \in 1 .. Len(s) : b[i + j - 1] = s[j]
      BY <1>5 DEF OccursAt
    <2>2. CASE i + Len(s) - 1 <= u
      <3>1. \A j \in 1 .. Len(s) : i + j - 1 \in 1 .. u
        BY <1>4, <2>1, <2>2
      <3>2. OccursAt(s, p, i)
        BY <1>1, <2>1, <2>2, <3>1 DEF OccursAt
      <3> QED
        BY <1>1, <1>3, <3>2, FoundIs
    <2>3. CASE i + Len(s) - 1 > u /\ i <= u
      <3> DEFINE n == u - i + 1
      <3>1. n \in 1 .. u /\ n \in 0 .. Len(p) /\ n < Len(s) /\ Len(p) - n = i - 1
        BY <1>1, <1>4, <2>1, <2>3
      <3>2. ASSUME NEW j \in 1 .. n
            PROVE  s[j] = p[Len(p) - n + j]
        <4>1. j \in 1 .. Len(s) /\ (i - 1) + j \in 1 .. u /\ i + j - 1 = (i - 1) + j
          BY <1>4, <2>1, <2>3, <3>1
        <4> QED
          BY <1>1, <2>1, <3>1, <4>1
      <3>3. StartsAt(s, p, n)
        BY <3>1, <3>2 DEF StartsAt
      <3>4. StartsStop(Ending(p, n))
        <4> HIDE DEF n
        <4> QED
          BY <1>1, <3>1, <3>3, EndingIs
      <3>5. n <= u - d
        BY <1>3, <3>1, <3>4
      <3> QED
        BY <2>1, <3>5
    <2>4. CASE i > u
      BY <2>1, <2>4
    <2> QED
      BY <1>4, <2>1, <2>2, <2>3, <2>4
  <1>6. ASSUME NEW s \in stops, NEW i \in Int, i > d
        PROVE  OccursAt(s, b, i) <=> OccursAt(s, r, i - d)
    <2>1. i \in Nat \ {0} /\ i - d \in Nat \ {0}
      BY <1>6
    <2>2. i + Len(s) - 1 <= Len(b) <=> (i - d) + Len(s) - 1 <= Len(r)
      BY <1>1, <1>2, <1>4
    <2>3. ASSUME i + Len(s) - 1 <= Len(b), NEW j \in 1 .. Len(s)
          PROVE  r[(i - d) + j - 1] = b[i + j - 1]
      <3>1. (i - d) + j - 1 \in 1 .. Len(b) - d /\ d + ((i - d) + j - 1) = i + j - 1
        BY <1>1, <1>4, <1>6, <2>3
      <3> QED
        BY <1>2, <3>1
    <2> QED
      BY <2>1, <2>2, <2>3 DEF OccursAt
  <1>7. ASSUME NEW i
        PROVE  i \in Found(b) <=> i \in Int /\ i - d \in Found(r)
    <2>1. ASSUME i \in Found(b)
          PROVE  i \in Int /\ i - d \in Found(r)
      <3>1. PICK s \in stops : OccursAt(s, b, i)
        BY <2>1, FoundIs
      <3>2. i \in Int /\ i > d
        <4>1. i > d
          BY <1>5, <3>1
        <4> QED
          BY <3>1, <4>1 DEF OccursAt
      <3>3. OccursAt(s, r, i - d)
        BY <1>6, <3>1, <3>2
      <3> QED
        BY <1>2, <3>2, <3>3, FoundIs
    <2>2. ASSUME i \in Int, i - d \in Found(r)
          PROVE  i \in Found(b)
      <3>1. PICK s \in stops : OccursAt(s, r, i - d)
        BY <1>2, <2>2, FoundIs
      <3>2. i > d
        BY <2>2, <3>1 DEF OccursAt
      <3> QED
        BY <1>6, <2>2, <3>1, <3>2, FoundIs
    <2> QED
      BY <2>1, <2>2
  <1> QED
    BY <1>7 DEF r

\* And what could start one at the new end is held.
LEMMA HeldCovers ==
    ASSUME GoodStops, NEW b \in Seq(Bytes), NEW u \in 0 .. Len(b), NEW d \in 0 .. u,
           Clean(b, u, d)
    PROVE  \A n \in 1 .. Len(b) : StartsStop(Ending(b, n)) => n <= Held(From(b, d))
  <1> DEFINE p == SubSeq(b, 1, u)
             r == From(b, d)
  <1>1. /\ p \in Seq(Bytes) /\ Len(p) = u /\ \A j \in 1 .. u : p[j] = b[j]
        /\ Len(b) \in Nat
    BY FirstBytes
  <1>2. /\ r \in Seq(Bytes) /\ Len(r) = Len(b) - d /\ d \in 0 .. Len(b)
        /\ \A j \in 1 .. Len(b) - d : r[j] = b[d + j]
    <2>1. d \in 0 .. Len(b)
      OBVIOUS
    <2> QED
      BY <2>1, FromIsAShift
  <1>3. \A n \in 1 .. u : StartsStop(Ending(p, n)) => n <= u - d
    BY DEF Clean
  <1> HIDE DEF p, r
  <1>4. ASSUME NEW n \in 1 .. Len(b), StartsStop(Ending(b, n))
        PROVE  n <= Held(r)
    <2>1. PICK s \in stops : StartsAt(s, b, n)
      BY <1>4, EndingIs
    <2>2. n < Len(s) /\ \A j \in 1 .. n : s[j] = b[Len(b) - n + j]
      BY <2>1 DEF StartsAt
    <2>3. CASE n > Len(b) - d
      <3> DEFINE m == n - (Len(b) - u)
      <3>1. m \in 1 .. u /\ m \in 0 .. Len(p) /\ m <= n /\ Len(p) - m = Len(b) - n
        BY <1>1, <2>3
      <3>2. ASSUME NEW j \in 1 .. m
            PROVE  s[j] = p[Len(p) - m + j]
        <4>1. j \in 1 .. n /\ (Len(b) - n) + j \in 1 .. u
          BY <1>1, <3>1
        <4> QED
          BY <1>1, <2>2, <3>1, <4>1
      <3>3. Len(s) \in Nat
        BY EmptySeq DEF GoodStops
      <3>4. StartsAt(s, p, m)
        BY <2>2, <3>1, <3>2, <3>3 DEF StartsAt
      <3>5. StartsStop(Ending(p, m))
        <4> HIDE DEF m
        <4> QED
          BY <1>1, <3>1, <3>4, EndingIs
      <3>6. m <= u - d
        BY <1>3, <3>1, <3>5
      <3> QED
        BY <1>1, <2>3, <3>6
    <2>4. CASE n <= Len(b) - d
      <3>1. n \in 1 .. Len(r) /\ n \in 0 .. Len(r) /\ Len(r) - n = Len(b) - d - n
        BY <1>1, <1>2, <2>4
      <3>2. ASSUME NEW j \in 1 .. n
            PROVE  s[j] = r[Len(r) - n + j]
        <4>1. (Len(r) - n) + j \in 1 .. Len(b) - d
          BY <1>1, <1>2, <3>1
        <4>2. d + ((Len(r) - n) + j) = Len(b) - n + j
          BY <1>1, <1>2
        <4> QED
          BY <1>2, <2>2, <4>1, <4>2
      <3>3. StartsAt(s, r, n)
        BY <2>2, <3>2 DEF StartsAt
      <3>4. StartsStop(Ending(r, n))
        BY <1>2, <3>1, <3>3, EndingIs
      <3> QED
        BY <1>2, <3>1, <3>4, HeldIs
    <2> QED
      BY <1>1, <2>3, <2>4
  <1> QED
    BY <1>4 DEF r

(***************************************************************************)
(* The invariant.                                                          *)
(***************************************************************************)
\* Nothing about stop strings changes while they do not.
LEMMA SameStops ==
    ASSUME stops' = stops, NEW CONSTANT b, NEW CONSTANT u, NEW CONSTANT d
    PROVE  /\ Found(b)' = Found(b)
           /\ Held(b)' = Held(b)
           /\ Clean(b, u, d)' = Clean(b, u, d)
           /\ BeforeStop(b)' = BeforeStop(b)
  <1>1. \A x : Found(x)' = Found(x)
    BY DEF Found
  <1>2. \A x : StartsStop(x)' = StartsStop(x)
    BY DEF StartsStop
  <1>3. Clean(b, u, d)' = Clean(b, u, d)
    BY <1>1, <1>2 DEF Clean
  <1>4. Held(b)' = Held(b)
    BY <1>2 DEF Held
  <1>5. BeforeStop(b)' = BeforeStop(b)
    BY <1>1 DEF BeforeStop
  <1> QED
    BY <1>1, <1>3, <1>4, <1>5

\* The bytes after lo up to hi.
Part(b, lo, hi) == SubSeq(b, lo + 1, hi)

LEMMA PartIs ==
    ASSUME NEW b \in Seq(Bytes), NEW lo \in 0 .. Len(b), NEW hi \in lo .. Len(b)
    PROVE  /\ Part(b, lo, hi) \in Seq(Bytes) /\ Len(Part(b, lo, hi)) = hi - lo
           /\ \A j \in 1 .. hi - lo : Part(b, lo, hi)[j] = b[lo + j]
  <1>1. /\ lo + 1 \in 1 .. Len(b) + 1 /\ hi \in (lo + 1) - 1 .. Len(b)
        /\ hi - (lo + 1) + 1 = hi - lo /\ \A j \in 1 .. hi - lo : (lo + 1) + j - 1 = lo + j
    OBVIOUS
  <1>2. /\ Part(b, lo, hi) \in Seq(Bytes) /\ Len(Part(b, lo, hi)) = hi - (lo + 1) + 1
        /\ \A j \in 1 .. hi - (lo + 1) + 1 : Part(b, lo, hi)[j] = b[(lo + 1) + j - 1]
    BY <1>1, Slice DEF Part
  <1> QED
    BY <1>1, <1>2

LEMMA PartOfPart ==
    ASSUME NEW b \in Seq(Bytes), NEW lo \in 0 .. Len(b), NEW hi \in lo .. Len(b),
           NEW i \in 0 .. hi - lo, NEW j \in i .. hi - lo
    PROVE  Part(Part(b, lo, hi), i, j) = Part(b, lo + i, lo + j)
  <1>1. /\ lo + 1 \in 1 .. Len(b) + 1 /\ hi \in (lo + 1) - 1 .. Len(b)
        /\ i + 1 \in 1 .. hi - (lo + 1) + 2 /\ j \in (i + 1) - 1 .. hi - (lo + 1) + 1
        /\ (lo + 1) + (i + 1) - 1 = (lo + i) + 1 /\ (lo + 1) + j - 1 = lo + j
    OBVIOUS
  <1>2. SubSeq(SubSeq(b, lo + 1, hi), i + 1, j)
          = SubSeq(b, (lo + 1) + (i + 1) - 1, (lo + 1) + j - 1)
    BY <1>1, SliceOfSlice
  <1> QED
    BY <1>1, <1>2 DEF Part

LEMMA PartsJoin ==
    ASSUME NEW b \in Seq(Bytes), NEW lo \in 0 .. Len(b), NEW mid \in lo .. Len(b),
           NEW hi \in mid .. Len(b)
    PROVE  Part(b, lo, mid) \o Part(b, mid, hi) = Part(b, lo, hi)
  <1>1. lo + 1 \in 1 .. Len(b) + 1 /\ mid \in (lo + 1) - 1 .. Len(b)
    OBVIOUS
  <1> QED
    BY <1>1, ConcatAdjacentSubSeq DEF Part

\* How many bytes of the output are in the text.
Done == used - Len(pending)

TextTypes ==
    /\ stops \in StopSets /\ output \in Seq(Bytes) /\ used \in 0 .. Len(output)
    /\ pending \in Seq(Bytes) /\ Len(pending) <= used
    /\ text \in Seq(Chars) /\ stopped \in BOOLEAN /\ finished \in BOOLEAN

\* While bytes are pushed, the text is that of the bytes before those pending,
\* whatever the output goes on with; and where a stop string may have begun is
\* still pending.
Running ==
    /\ pending = Part(output, Done, used)
    /\ Clean(output, used, Done)
    /\ \A e \in Done .. Len(output) :
          Lossy(Part(output, 0, e)) = text \o Lossy(Part(output, Done, e))

\* Then the text is all there was to show.
Ended == pending = << >> /\ text = Lossy(BeforeStop(Pushed))

TextInv ==
    /\ TextTypes
    /\ stopped <=> Found(Pushed) # {}
    /\ IF stopped \/ finished THEN Ended ELSE Running
    /\ HeldForAReason

LEMMA TypesAreGood == TextTypes => GoodStops
BY TextAssumption DEF TextTypes, GoodStops

LEMMA TextStarts == Init => TextInv
  <1> SUFFICES ASSUME Init
               PROVE  TextInv
    OBVIOUS
  <1>1. output \in Seq(Bytes) /\ Len(output) \in Nat
    BY TextAssumption DEF Init
  <1>2. /\ stops \in StopSets /\ pending = << >> /\ text = << >> /\ used = 0
        /\ stopped = FALSE /\ finished = FALSE
    BY DEF Init
  <1>3. TextTypes
    <2>1. Len(pending) = 0 /\ pending \in Seq(Bytes) /\ text \in Seq(Chars)
      BY <1>2
    <2>2. used \in 0 .. Len(output) /\ Len(pending) <= used
      BY <1>1, <1>2, <2>1
    <2> QED
      BY <1>1, <1>2, <2>1, <2>2 DEF TextTypes
  <1>10. Done = 0
    <2>1. Len(pending) = 0 /\ used = 0
      BY <1>2
    <2> QED
      BY <2>1 DEF Done
  <1>4. Part(output, 0, 0) = << >> /\ Pushed = << >> /\ SubSeq(output, 1, 0) = << >>
    BY <1>2, SubSeqEmpty DEF Part, Pushed
  <1>5. Found(Pushed) = {} /\ Found(SubSeq(output, 1, 0)) = {}
    <2>1. << >> \in Seq(Bytes) /\ Len(<< >>) = 0
      OBVIOUS
    <2>2. Found(<< >>) \in SUBSET (1 .. Len(<< >>))
      <3>1. GoodStops
        BY <1>3, TypesAreGood
      <3> QED
        BY <2>1, <3>1, FoundIs
    <2>3. Found(<< >>) = {}
      BY <2>1, <2>2
    <2> QED
      BY <1>4, <2>3
  <1>6. Clean(output, 0, 0)
    BY <1>5 DEF Clean
  <1>7. ASSUME NEW e \in 0 .. Len(output)
        PROVE  Lossy(Part(output, 0, e)) = text \o Lossy(Part(output, 0, e))
    <2>1. Part(output, 0, e) \in Seq(Bytes)
      BY <1>1, PartIs
    <2>2. Lossy(Part(output, 0, e)) \in Seq(Chars)
      BY <2>1, DecodeWhole DEF Lossy
    <2> QED
      BY <1>2, <2>2, ConcatEmptySeq
  <1>8. Running
    BY <1>2, <1>4, <1>6, <1>7, <1>10 DEF Running
  <1>9. HeldForAReason
    BY <1>2 DEF HeldForAReason
  <1> QED
    BY <1>2, <1>3, <1>5, <1>8, <1>9 DEF TextInv

\* What push sees: the pending bytes and the new ones are the output from Done
\* on, with every stop string and every start of one that the output has there.
Sees(u, r, q) ==
    /\ Done \in 0 .. used /\ r = Part(output, Done, u)
    /\ r \in Seq(Bytes) /\ Len(r) = u - Done
    /\ q \in Seq(Bytes) /\ Len(q) = u
    /\ \A i : i \in Found(q) <=> i \in Int /\ i - Done \in Found(r)
    /\ \A n \in 1 .. u : StartsStop(Ending(q, n)) => n <= Held(r)

LEMMA PushSees ==
    ASSUME TextInv, ~stopped, ~finished, NEW u \in used .. Len(output), NEW r, NEW q,
           r = pending \o SubSeq(output, used + 1, u), q = SubSeq(output, 1, u)
    PROVE  Sees(u, r, q)
  <1> DEFINE d == Done
  <1>1. /\ output \in Seq(Bytes) /\ used \in 0 .. Len(output) /\ Len(output) \in Nat
        /\ pending \in Seq(Bytes) /\ Len(pending) \in Nat /\ Len(pending) <= used
        /\ GoodStops /\ Running
    BY TypesAreGood DEF TextInv, TextTypes
  <1>2. d \in 0 .. used /\ d \in 0 .. Len(output) /\ u \in d .. Len(output)
        /\ used \in d .. Len(output) /\ u \in 0 .. Len(output) /\ used \in 0 .. u /\ d \in 0 .. u
        /\ u \in Nat
    BY <1>1 DEF Done
  <1>3. pending = Part(output, d, used) /\ Clean(output, used, d)
    BY <1>1 DEF Running
  <1> HIDE DEF d
  <1>4. r = Part(output, d, u)
    <2>1. Part(output, d, used) \o Part(output, used, u) = Part(output, d, u)
      BY <1>1, <1>2, PartsJoin
    <2> QED
      BY <1>3, <2>1 DEF Part
  <1>5. r \in Seq(Bytes) /\ Len(r) = u - d
    BY <1>1, <1>2, <1>4, PartIs
  <1>6. q \in Seq(Bytes) /\ Len(q) = u
    BY <1>1, <1>2, FirstBytes
  <1>7. q = Part(output, 0, u)
    BY DEF Part
  <1>8. From(q, d) = r
    <2>1. Part(Part(output, 0, u), d, u) = Part(output, 0 + d, 0 + u)
      <3>1. /\ 0 \in 0 .. Len(output) /\ d \in 0 .. u - 0 /\ u \in d .. u - 0
        BY <1>1, <1>2
      <3> QED
        BY <1>1, <1>2, <3>1, PartOfPart
    <2>2. 0 + d = d /\ 0 + u = u
      BY <1>2
    <2>3. Part(q, d, u) = r
      BY <1>4, <1>7, <2>1, <2>2
    <2> QED
      BY <1>6, <2>3 DEF From, Part
  <1>9. SubSeq(q, 1, used) = SubSeq(output, 1, used)
    <2>1. Part(Part(output, 0, u), 0, used) = Part(output, 0 + 0, 0 + used)
      <3>1. /\ 0 \in 0 .. Len(output) /\ 0 \in 0 .. u - 0 /\ used \in 0 .. u - 0
        BY <1>1, <1>2
      <3> QED
        BY <1>1, <1>2, <3>1, PartOfPart
    <2>2. 0 + 0 = 0 /\ 0 + used = used /\ 0 + 1 = 1
      BY <1>1
    <2> QED
      BY <1>7, <2>1, <2>2 DEF Part
  <1>10. Clean(q, used, d)
    BY <1>3, <1>9 DEF Clean
  <1>11. used \in 0 .. Len(q) /\ d \in 0 .. used
    BY <1>2, <1>6
  <1>12. \A i : i \in Found(q) <=> i \in Int /\ i - d \in Found(r)
    BY <1>1, <1>6, <1>8, <1>10, <1>11, FoundAfter
  <1>13. \A n \in 1 .. u : StartsStop(Ending(q, n)) => n <= Held(r)
    BY <1>1, <1>6, <1>8, <1>10, <1>11, HeldCovers
  <1> QED
    BY <1>2, <1>4, <1>5, <1>6, <1>12, <1>13 DEF d, Sees

\* A piece without a stop string: the text goes on where it ended.
LEMMA GoOnKeeps ==
    ASSUME TextInv, ~stopped, ~finished, NEW u \in used .. Len(output), used' = u,
           UNCHANGED <<stops, output, finished>>,
           GoOn(pending \o SubSeq(output, used + 1, u))
    PROVE  TextInv'
  <1> PICK r : r = pending \o SubSeq(output, used + 1, u)
    OBVIOUS
  <1> PICK q : q = SubSeq(output, 1, u)
    OBVIOUS
  <1> PICK d : d = Done
    OBVIOUS
  <1> PICK b : b = output
    OBVIOUS
  <1>1. /\ d \in 0 .. used /\ r = Part(b, d, u) /\ r \in Seq(Bytes) /\ Len(r) = u - d
        /\ q \in Seq(Bytes) /\ Len(q) = u
        /\ \A i : i \in Found(q) <=> i \in Int /\ i - d \in Found(r)
        /\ \A n \in 1 .. u : StartsStop(Ending(q, n)) => n <= Held(r)
    <2>1. Sees(u, r, q)
      BY PushSees
    <2> QED
      BY <2>1 DEF Sees
  <1>2. /\ b \in Seq(Bytes) /\ Len(b) \in Nat /\ used \in 0 .. Len(b) /\ u \in 0 .. Len(b)
        /\ d \in 0 .. u /\ d \in 0 .. Len(b) /\ u \in d .. Len(b) /\ text \in Seq(Chars)
        /\ u \in Nat /\ d \in Nat
    BY <1>1 DEF TextInv, TextTypes
  <1> PICK h : h = Held(r)
    OBVIOUS
  <1> DEFINE e == Len(r) - h
             y == SubSeq(r, 1, e)
             c == Decode(y, FALSE).consumed
             t == Decode(y, FALSE).text
  <1>3. h \in 0 .. u - d /\ e \in 0 .. u - d /\ e = (u - d) - h
    <2> HIDE DEF e
    <2>1. h \in 0 .. Len(r) /\ Len(r) = u - d
      BY <1>1, HeldIs
    <2>2. h \in 0 .. u - d
      BY <2>1
    <2>3. e = (u - d) - h
      BY <2>1 DEF e
    <2> QED
      BY <1>2, <2>2, <2>3
  <1>4. y \in Seq(Bytes) /\ Len(y) = e /\ y = Part(b, d, d + e)
    <2> HIDE DEF e
    <2>1. Part(Part(b, d, u), 0, e) = Part(b, d + 0, d + e)
      <3>1. 0 \in 0 .. u - d /\ e \in 0 .. u - d
        BY <1>2, <1>3
      <3> QED
        BY <1>2, <3>1, PartOfPart
    <2>2. e \in 0 .. Len(r)
      BY <1>1, <1>3
    <2>3. d + 0 = d /\ 0 + 1 = 1
      BY <1>2
    <2> QED
      BY <1>1, <2>1, <2>2, <2>3, FirstBytes DEF Part
  <1> HIDE DEF e
  <1>5. c \in 0 .. e /\ t \in Seq(Chars)
    <2> HIDE DEF y
    <2> QED
      BY <1>4, DecodeWhole
  <1>6. /\ Found(r) = {} /\ text' = text \o t /\ pending' = From(r, c) /\ stopped' = stopped
    <2>1. GoOn(r)
      OBVIOUS
    <2>2. Found(r) = {} /\ Emit(r, Len(r) - Held(r), FALSE) /\ stopped' = stopped
      BY <2>1 DEF GoOn
    <2>3. Emit(r, e, FALSE)
      BY <2>2 DEF e
    <2> QED
      BY <2>2, <2>3 DEF Emit, From
  <1> HIDE DEF c, t
  <1>7. c \in 0 .. u - d /\ d + c \in 0 .. u /\ d + c \in 0 .. Len(b) /\ u \in d + c .. Len(b)
        /\ c \in Nat
    BY <1>2, <1>3, <1>5
  <1>8. pending' = Part(b, d + c, u)
    <2>1. Part(Part(b, d, u), c, u - d) = Part(b, d + c, d + (u - d))
      <3>1. c \in 0 .. u - d /\ u - d \in c .. u - d
        BY <1>2, <1>7
      <3> QED
        BY <1>2, <3>1, PartOfPart
    <2>2. d + (u - d) = u
      BY <1>2
    <2> QED
      BY <1>1, <1>6, <2>1, <2>2 DEF From, Part
  <1>9. pending' \in Seq(Bytes) /\ Len(pending') = u - (d + c)
    BY <1>2, <1>7, <1>8, PartIs
  <1>10. Done' = d + c /\ Done' \in 0 .. u
    <2>1. Done' = u - Len(pending')
      BY DEF Done
    <2> QED
      BY <1>2, <1>7, <1>9, <2>1
  <1>11. TextTypes'
    <2>1. text' \in Seq(Chars)
      BY <1>2, <1>5, <1>6, ConcatProperties
    <2>2. Len(pending)' <= used'
      BY <1>2, <1>7, <1>9
    <2> QED
      BY <1>2, <1>6, <1>9, <2>1, <2>2 DEF TextInv, TextTypes
  <1>12. ~stopped' /\ ~finished'
    BY <1>6
  <1>13. Pushed' = q
    BY DEF Pushed
  <1>14. Found(q) = {}
    BY <1>1, <1>6
  <1>15. Found(Pushed)' = {}
    BY <1>13, <1>14, SameStops
  <1>16. Clean(b, u, d + c)
    <2>1. SubSeq(b, 1, u) = q
      OBVIOUS
    <2>2. u - (d + c) >= h
      BY <1>2, <1>3, <1>5
    <2>3. ASSUME NEW n \in 1 .. u, StartsStop(Ending(q, n))
          PROVE  n <= u - (d + c)
      <3>1. n <= h
        BY <1>1, <2>3
      <3> QED
        BY <1>2, <1>3, <1>7, <2>2, <3>1
    <2> QED
      BY <1>14, <2>1, <2>3 DEF Clean
  <1>17. Clean(output, used, Done)'
    BY <1>10, <1>16, SameStops
  <1>18. ASSUME NEW k \in d + c .. Len(b)
         PROVE  Lossy(Part(b, 0, k)) = (text \o t) \o Lossy(Part(b, d + c, k))
    <2> DEFINE z == Part(b, d, k)
    <2>1. k \in d .. Len(b) /\ k \in Nat /\ c \in 0 .. k - d
      BY <1>2, <1>7
    <2>2. /\ z \in Seq(Bytes) /\ Len(z) = k - d
          /\ \A j \in 1 .. k - d : z[j] = b[d + j]
      BY <1>2, <2>1, PartIs
    <2>3. \A j \in 1 .. e : y[j] = b[d + j]
      <3>1. d + e \in d .. Len(b) /\ (d + e) - d = e
        BY <1>2, <1>3
      <3>2. \A j \in 1 .. (d + e) - d : Part(b, d, d + e)[j] = b[d + j]
        BY <1>2, <3>1, PartIs
      <3> HIDE DEF y
      <3> QED
        BY <1>4, <3>1, <3>2
    <2>4. Agree(y, z)
      <3> SUFFICES ASSUME NEW j \in 1 .. Len(y), j <= Len(z)
                   PROVE  y[j] = z[j]
        BY DEF Agree
      <3>1. j \in 1 .. e /\ j \in 1 .. k - d
        <4> HIDE DEF y, z
        <4> QED
          BY <1>2, <1>3, <1>4, <2>1, <2>2
      <3> HIDE DEF y, z
      <3> QED
        BY <2>2, <2>3, <3>1
    <2>5. From(z, c) = Part(b, d + c, k)
      <3>1. c \in 0 .. k - d /\ k - d \in c .. k - d /\ d + (k - d) = k
        BY <1>2, <2>1
      <3>2. Part(Part(b, d, k), c, k - d) = Part(b, d + c, d + (k - d))
        BY <1>2, <2>1, <3>1, PartOfPart
      <3> QED
        BY <2>2, <3>1, <3>2 DEF From, Part
    <2>6. Lossy(z) = t \o Lossy(From(z, c))
      <3>1. c <= Len(z)
        BY <2>1, <2>2
      <3> HIDE DEF y, z
      <3> QED
        BY <1>4, <2>2, <2>4, <3>1, DecodeResumes DEF c, t
    <2>7. Lossy(Part(b, 0, k)) = text \o Lossy(z)
      <3>1. Running
        BY DEF TextInv
      <3> QED
        BY <2>1, <3>1 DEF Running
    <2>8. Part(b, d + c, k) \in Seq(Bytes)
      BY <1>7, PartIs, <1>2
    <2>9. Lossy(Part(b, d + c, k)) \in Seq(Chars)
      BY <2>8, DecodeWhole DEF Lossy
    <2> PICK w : w = Lossy(Part(b, d + c, k))
      OBVIOUS
    <2>10. text \o (t \o w) = (text \o t) \o w
      <3>1. w \in Seq(Chars) /\ t \in Seq(Chars) /\ text \in Seq(Chars)
        BY <1>2, <1>5, <2>9
      <3> HIDE DEF y, z
      <3> QED
        BY <3>1, ConcatAssociative
    <2> QED
      BY <2>5, <2>6, <2>7, <2>10
  <1>19. Running'
    BY <1>6, <1>8, <1>10, <1>17, <1>18 DEF Running
  <1> PICK p : p = pending'
    OBVIOUS
  <1>20. HeldForAReason'
    <2>1. h \in 0 .. Len(p)
      BY <1>2, <1>3, <1>5, <1>7, <1>9
    <2>2. ASSUME h > 0
          PROVE  StartsStop(Ending(p, h))
      <3>1. StartsStop(Ending(r, h))
        BY <1>1, <2>2, HeldIs
      <3>2. Ending(r, h) = Ending(p, h)
        <4>1. /\ c \in 0 .. u - d /\ (u - d) - h \in c .. u - d /\ u - d \in (u - d) - h .. u - d
              /\ (u - d) - h - c \in 0 .. u - (d + c)
              /\ u - (d + c) \in (u - d) - h - c .. u - (d + c)
          BY <1>2, <1>3, <1>5, <1>7
        <4>2. Ending(r, h) = Part(r, (u - d) - h, u - d)
          BY <1>1 DEF Ending, Part
        <4>3. Ending(p, h) = Part(p, (u - d) - h - c, u - (d + c))
          <5>1. u - (d + c) - h + 1 = ((u - d) - h - c) + 1
            BY <1>2, <1>3, <1>7
          <5> QED
            BY <1>9, <5>1 DEF Ending, Part
        <4>4. Part(r, (u - d) - h, u - d) = Part(b, d + ((u - d) - h), d + (u - d))
          <5>1. (u - d) - h \in 0 .. u - d
            BY <1>2, <1>3
          <5>2. u - d \in (u - d) - h .. u - d
            BY <4>1
          <5>3. Part(Part(b, d, u), (u - d) - h, u - d)
                  = Part(b, d + ((u - d) - h), d + (u - d))
            BY <1>2, <5>1, <5>2, PartOfPart
          <5> QED
            BY <1>1, <5>3
        <4>5. Part(p, (u - d) - h - c, u - (d + c))
                = Part(b, (d + c) + ((u - d) - h - c), (d + c) + (u - (d + c)))
          BY <1>2, <1>7, <1>8, <4>1, PartOfPart
        <4>6. /\ (d + c) + ((u - d) - h - c) = d + ((u - d) - h)
              /\ (d + c) + (u - (d + c)) = d + (u - d)
          BY <1>2, <1>3, <1>7
        <4> QED
          BY <4>2, <4>3, <4>4, <4>5, <4>6
      <3> QED
        BY <3>1, <3>2
    <2>3. Decode(SubSeq(p, 1, Len(p) - h), FALSE).consumed = 0
      <3>1. SubSeq(p, 1, Len(p) - h) = From(y, c)
        <4>1. /\ 0 \in 0 .. u - (d + c) /\ (u - (d + c)) - h \in 0 .. u - (d + c)
              /\ (u - (d + c)) - h = e - c /\ c \in 0 .. e /\ e \in c .. e
              /\ d + e \in d .. Len(b) /\ (d + e) - d = e /\ e \in Nat
              /\ (d + c) + (e - c) = d + e /\ (d + c) + 0 = d + c /\ 0 + 1 = 1
          <5>1. u \in Nat /\ d \in Nat /\ c \in Nat /\ h \in Nat /\ e \in Nat /\ Len(b) \in Nat
            BY <1>2, <1>3, <1>7
          <5>2. c <= e /\ e = (u - d) - h /\ d + c <= u /\ u <= Len(b) /\ d + e <= u
            BY <1>2, <1>3, <1>5, <1>7, <5>1
          <5> HIDE DEF y, c, e
          <5>3. (u - (d + c)) - h = e - c /\ (d + c) + (e - c) = d + e /\ (d + e) - d = e
            BY <5>1, <5>2
          <5>7. e - c \in Nat /\ u - (d + c) \in Nat
            BY <5>1, <5>2
          <5>8. e - c <= u - (d + c)
            BY <5>1, <5>2
          <5>4. e - c \in 0 .. u - (d + c) /\ 0 \in 0 .. u - (d + c)
            BY <5>7, <5>8
          <5>5. c \in 0 .. e /\ e \in c .. e /\ d + e \in d .. Len(b)
            BY <5>1, <5>2
          <5>6. (d + c) + 0 = d + c
            BY <5>1
          <5> QED
            BY <5>1, <5>3, <5>4, <5>5, <5>6
        <4>2. Part(Part(b, d + c, u), 0, (u - (d + c)) - h)
                = Part(b, (d + c) + 0, (d + c) + ((u - (d + c)) - h))
          BY <1>2, <1>7, <4>1, PartOfPart
        <4>3. Part(Part(b, d, d + e), c, e) = Part(b, d + c, d + e)
          BY <1>2, <4>1, PartOfPart
        <4>4. From(y, c) = Part(b, d + c, d + e)
          <5> HIDE DEF y
          <5> QED
            BY <1>4, <4>3 DEF From, Part
        <4>5. SubSeq(p, 1, Len(p) - h) = Part(b, d + c, d + e)
          BY <1>8, <1>9, <4>1, <4>2 DEF Part
        <4> QED
          BY <4>4, <4>5
      <3>2. Decode(From(y, c), FALSE).consumed = 0
        <4> HIDE DEF y
        <4> QED
          BY <1>4, DecodeLeavesNothing DEF c
      <3> QED
        BY <3>1, <3>2
    <2>4. \A x : StartsStop(x)' = StartsStop(x)
      BY DEF StartsStop
    <2> HIDE DEF y
    <2> QED
      BY <2>1, <2>2, <2>3, <2>4 DEF HeldForAReason
  <1> QED
    BY <1>11, <1>12, <1>15, <1>19, <1>20 DEF TextInv

\* A piece with a stop string: the text ends before its leftmost occurrence.
LEMMA StopAtKeeps ==
    ASSUME TextInv, ~stopped, ~finished, NEW u \in used .. Len(output), used' = u,
           UNCHANGED <<stops, output, finished>>,
           StopAt(pending \o SubSeq(output, used + 1, u))
    PROVE  TextInv'
  <1> PICK r : r = pending \o SubSeq(output, used + 1, u)
    OBVIOUS
  <1> PICK q : q = SubSeq(output, 1, u)
    OBVIOUS
  <1> PICK d : d = Done
    OBVIOUS
  <1> PICK b : b = output
    OBVIOUS
  <1>1. /\ d \in 0 .. used /\ r = Part(b, d, u) /\ r \in Seq(Bytes) /\ Len(r) = u - d
        /\ q \in Seq(Bytes) /\ Len(q) = u
        /\ \A i : i \in Found(q) <=> i \in Int /\ i - d \in Found(r)
    <2>1. Sees(u, r, q)
      BY PushSees
    <2> QED
      BY <2>1 DEF Sees
  <1>2. /\ b \in Seq(Bytes) /\ Len(b) \in Nat /\ u \in 0 .. Len(b) /\ u \in Nat
        /\ d \in 0 .. Len(b) /\ u \in d .. Len(b) /\ d \in Nat /\ text \in Seq(Chars)
        /\ TextTypes /\ GoodStops /\ Running
    BY <1>1, TypesAreGood DEF TextInv, TextTypes
  <1> PICK m : m = Min(Found(r))
    OBVIOUS
  <1>3. /\ Found(r) # {} /\ text' = text \o Lossy(SubSeq(r, 1, m - 1))
        /\ pending' = << >> /\ stopped'
    <2>1. StopAt(r)
      OBVIOUS
    <2> QED
      BY <2>1 DEF StopAt
  <1>4. m \in Found(r) /\ m \in 1 .. u - d /\ \A i \in Found(r) : m <= i
    <2>1. Found(r) \in SUBSET (1 .. Len(r))
      BY <1>1, <1>2, FoundIs
    <2>2. Len(r) \in Nat /\ Found(r) \in SUBSET Nat
      BY <1>1, <2>1
    <2>3. m \in Found(r) /\ \A i \in Found(r) : m <= i
      BY <1>3, <2>2, MinOfNumbers
    <2> QED
      BY <1>1, <2>1, <2>3
  <1> PICK n : n = Min(Found(q))
    OBVIOUS
  <1>5. Found(q) # {} /\ n = d + m
    <2>1. Found(q) \in SUBSET Nat
      <3>1. Found(q) \in SUBSET (1 .. Len(q))
        BY <1>1, <1>2, FoundIs
      <3> QED
        BY <1>1, <3>1
    <2>2. d + m \in Found(q)
      <3>1. d + m \in Int /\ (d + m) - d = m
        BY <1>2, <1>4
      <3> QED
        BY <1>1, <1>4, <3>1
    <2>3. n \in Found(q) /\ \A i \in Found(q) : n <= i
      BY <2>1, <2>2, MinOfNumbers
    <2>4. n \in Nat /\ n - d \in Found(r)
      BY <1>1, <2>1, <2>3
    <2>5. n <= d + m
      BY <2>2, <2>3
    <2>6. m <= n - d
      BY <1>4, <2>4
    <2>7. n = d + m
      <3>1. n \in Nat /\ d \in Nat /\ m \in Nat
        BY <1>2, <1>4, <2>4
      <3> QED
        BY <2>5, <2>6, <3>1
    <2> QED
      BY <2>2, <2>7
  <1> PICK e : e = d + m - 1
    OBVIOUS
  <1>6. e \in d .. u /\ e \in d .. Len(b) /\ e \in 0 .. u /\ m - 1 \in 0 .. u - d /\ d + (m - 1) = e
    BY <1>2, <1>4
  <1>7. BeforeStop(q) = Part(b, 0, e)
    <2>1. BeforeStop(q) = SubSeq(q, 1, e)
      <3>1. BeforeStop(q) = SubSeq(q, 1, n - 1)
        BY <1>5 DEF BeforeStop
      <3>2. n - 1 = e
        BY <1>2, <1>4, <1>5
      <3> QED
        BY <3>1, <3>2
    <2>2. Part(Part(b, 0, u), 0, e) = Part(b, 0 + 0, 0 + e)
      <3>1. 0 \in 0 .. Len(b) /\ u \in 0 .. Len(b) /\ 0 \in 0 .. u - 0 /\ e \in 0 .. u - 0
        BY <1>2, <1>6
      <3> QED
        BY <1>2, <3>1, PartOfPart
    <2>3. 0 + 0 = 0 /\ 0 + e = e /\ 0 + 1 = 1
      BY <1>6
    <2> QED
      BY <2>1, <2>2, <2>3 DEF Part
  <1>8. SubSeq(r, 1, m - 1) = Part(b, d, e)
    <2>1. Part(Part(b, d, u), 0, m - 1) = Part(b, d + 0, d + (m - 1))
      <3>1. 0 \in 0 .. u - d
        BY <1>2
      <3> QED
        BY <1>2, <1>6, <3>1, PartOfPart
    <2>2. d + 0 = d /\ 0 + 1 = 1
      BY <1>2
    <2> QED
      BY <1>1, <1>6, <2>1, <2>2 DEF Part
  <1>9. text' = Lossy(BeforeStop(q))
    <2>1. Lossy(Part(b, 0, e)) = text \o Lossy(Part(b, d, e))
      BY <1>2, <1>6 DEF Running
    <2> QED
      BY <1>3, <1>7, <1>8, <2>1
  <1>10. Pushed' = q
    BY DEF Pushed
  <1>11. Found(Pushed)' # {} /\ BeforeStop(Pushed)' = BeforeStop(q)
    BY <1>5, <1>10, SameStops
  <1>12. Ended'
    BY <1>3, <1>9, <1>11 DEF Ended
  <1>13. TextTypes'
    <2>1. Part(b, d, e) \in Seq(Bytes)
      BY <1>2, <1>6, PartIs
    <2>2. Lossy(Part(b, d, e)) \in Seq(Chars)
      BY <2>1, DecodeWhole DEF Lossy
    <2>3. text' \in Seq(Chars)
      BY <1>2, <1>3, <1>8, <2>2, ConcatProperties
    <2>4. pending' \in Seq(Bytes) /\ Len(pending') = 0
      BY <1>3
    <2>5. Len(pending)' <= used'
      BY <1>2, <2>4
    <2>6. finished' \in BOOLEAN /\ stopped' \in BOOLEAN
      BY <1>2, <1>3 DEF TextTypes
    <2> QED
      BY <1>2, <2>3, <2>4, <2>5, <2>6 DEF TextTypes
  <1>14. HeldForAReason'
    BY <1>3 DEF HeldForAReason
  <1> QED
    BY <1>3, <1>11, <1>12, <1>13, <1>14 DEF TextInv

\* What finish() flushes is what was left to show.
LEMMA FinishKeeps ==
    ASSUME TextInv, Finish
    PROVE  TextInv'
  <1> PICK p : p = pending
    OBVIOUS
  <1> PICK q : q = Pushed
    OBVIOUS
  <1>1. /\ TextTypes /\ output \in Seq(Bytes) /\ used \in 0 .. Len(output) /\ Len(output) \in Nat
        /\ p \in Seq(Bytes) /\ Len(p) \in Nat /\ Len(p) <= used /\ text \in Seq(Chars)
    BY DEF TextInv, TextTypes
  <1>2. /\ text' = text \o Lossy(p) /\ pending' = << >>
    <2>1. SubSeq(p, 1, Len(p)) = p
      BY <1>1, SubSeqFull
    <2>2. Emit(p, Len(p), TRUE)
      BY DEF Finish
    <2>3. Decode(p, TRUE).consumed = Len(p)
      BY <1>1, DecodeWhole
    <2>4. pending' = SubSeq(p, Len(p) + 1, Len(p)) /\ text' = text \o Lossy(p)
      BY <2>1, <2>2, <2>3 DEF Emit, Lossy
    <2>5. SubSeq(p, Len(p) + 1, Len(p)) = << >>
      BY <1>1, SubSeqEmpty
    <2> QED
      BY <2>4, <2>5
  <1>3. Lossy(p) \in Seq(Chars)
    BY <1>1, DecodeWhole DEF Lossy
  <1>4. text' = Lossy(BeforeStop(q))
    <2>1. CASE stopped
      <3>1. p = << >> /\ text = Lossy(BeforeStop(q))
        BY <2>1 DEF TextInv, Ended
      <3>2. Lossy(p) = << >>
        <4>1. 1 \in 1 .. Len(p) + 1 /\ 1 > Len(p)
          BY <3>1
        <4>2. DecodeFrom(p, TRUE)[1].text = << >>
          BY <1>1, <4>1, DecodeEnds
        <4> QED
          BY <4>2 DEF Lossy, Decode
      <3> QED
        BY <1>1, <1>2, <3>1, <3>2, ConcatEmptySeq
    <2>2. CASE ~stopped
      <3>1. Running /\ Found(q) = {}
        BY <2>2 DEF TextInv, Finish
      <3>2. BeforeStop(q) = Part(output, 0, used)
        <4>1. BeforeStop(q) = q
          BY <3>1 DEF BeforeStop
        <4>2. 0 + 1 = 1
          OBVIOUS
        <4> QED
          BY <4>1, <4>2 DEF Pushed, Part
      <3>3. p = Part(output, Done, used)
        BY <3>1 DEF Running
      <3>4. used \in Done .. Len(output)
        BY <1>1 DEF Done
      <3> QED
        BY <1>2, <3>1, <3>2, <3>3, <3>4 DEF Running
    <2> QED
      BY <2>1, <2>2
  <1>5. Pushed' = q /\ stopped' = stopped /\ stops' = stops
    BY DEF Finish, Pushed
  <1>6. Found(Pushed)' = Found(q) /\ BeforeStop(Pushed)' = BeforeStop(q)
    BY <1>5, SameStops
  <1>7. Ended'
    BY <1>2, <1>4, <1>6 DEF Ended
  <1>8. TextTypes'
    <2>1. text' \in Seq(Chars)
      BY <1>1, <1>2, <1>3, ConcatProperties
    <2>2. pending' \in Seq(Bytes) /\ Len(pending') = 0
      BY <1>2
    <2>3. Len(pending)' <= used'
      BY <1>1, <2>2 DEF Finish
    <2> QED
      BY <1>1, <2>1, <2>2, <2>3 DEF TextTypes, Finish
  <1>9. HeldForAReason'
    BY <1>2 DEF HeldForAReason
  <1>10. stopped' <=> Found(Pushed)' # {}
    BY <1>5, <1>6 DEF TextInv
  <1>11. finished'
    BY DEF Finish
  <1> QED
    BY <1>7, <1>8, <1>9, <1>10, <1>11 DEF TextInv

\* Nothing happens.
LEMMA TextStutters ==
    ASSUME TextInv, UNCHANGED vars
    PROVE  TextInv'
  <1> PICK q : q = Pushed
    OBVIOUS
  <1> PICK b : b = output
    OBVIOUS
  <1> PICK p : p = pending
    OBVIOUS
  <1>1. /\ stops' = stops /\ pending' = pending /\ text' = text /\ stopped' = stopped
        /\ output' = output /\ used' = used /\ finished' = finished
    BY DEF vars
  <1>2. Pushed' = q /\ Done' = Done
    BY <1>1 DEF Pushed, Done
  <1>3. Found(Pushed)' = Found(q) /\ BeforeStop(Pushed)' = BeforeStop(q)
    BY <1>1, <1>2, SameStops
  <1>4. Clean(output, used, Done)' = Clean(b, used, Done)
    BY <1>1, <1>2, SameStops
  <1>5. \A x : StartsStop(x)' = StartsStop(x)
    BY <1>1 DEF StartsStop
  <1>6. TextTypes'
    BY <1>1 DEF TextInv, TextTypes
  <1>7. Ended' = Ended /\ Running' = Running
    BY <1>1, <1>2, <1>3, <1>4 DEF Ended, Running
  <1>8. HeldForAReason'
    BY <1>1, <1>5 DEF TextInv, HeldForAReason
  <1> QED
    BY <1>1, <1>3, <1>6, <1>7, <1>8 DEF TextInv

\* The text and what is pending are always as TextInv says.
THEOREM TextAlways == Spec => []TextInv
  <1>1. ASSUME TextInv, [Next]_vars
        PROVE  TextInv'
    <2>1. ASSUME NEW n \in 0 .. MaxPiece, Push(n)
          PROVE  TextInv'
      <3>1. /\ ~stopped /\ ~finished /\ UNCHANGED <<stops, output, finished>>
            /\ used' = used + n
        BY <2>1 DEF Push
      <3> PICK u : u = used + n
        OBVIOUS
      <3>2. u \in used .. Len(output)
        <4>1. n \in Nat /\ used \in 0 .. Len(output) /\ Len(output) \in Nat
          BY <1>1, TextAssumption DEF TextInv, TextTypes
        <4>2. used + n <= Len(output)
          BY <2>1 DEF Push
        <4> QED
          BY <4>1, <4>2
      <3>3. CASE StopAt(pending \o SubSeq(output, used + 1, u))
        BY <1>1, <3>1, <3>2, <3>3, StopAtKeeps
      <3>4. CASE GoOn(pending \o SubSeq(output, used + 1, u))
        BY <1>1, <3>1, <3>2, <3>4, GoOnKeeps
      <3> QED
        BY <2>1, <3>3, <3>4 DEF Push
    <2>2. CASE Finish
      BY <1>1, <2>2, FinishKeeps
    <2>3. CASE UNCHANGED vars
      BY <1>1, <2>3, TextStutters
    <2> QED
      BY <1>1, <2>1, <2>2, <2>3 DEF Next
  <1> QED
    BY <1>1, TextStarts, PTL DEF Spec

(***************************************************************************)
(* What follows.                                                           *)
(***************************************************************************)
\* What is held back is the start of a stop string or of a character: whatever
\* push (generation.rs) keeps pending it keeps for a reason.
THEOREM HeldForAReasonHolds == Spec => []HeldForAReason
  <1>1. TextInv => HeldForAReason
    BY DEF TextInv
  <1> QED
    BY <1>1, TextAlways, PTL

\* Whatever the stop strings are, a stop is noticed with the piece that completes
\* it, and the text that push and finish (generation.rs) leave is the one the
\* bytes before it decode to, however they came in pieces.
THEOREM ShownAsPushedHolds == Spec => []ShownAsPushed
  <1>1. TextInv => ShownAsPushed
    BY DEF TextInv, Ended, ShownAsPushed
  <1> QED
    BY <1>1, TextAlways, PTL

LEMMA PrefixOfConcat ==
    ASSUME NEW S, NEW s \in Seq(S), NEW t \in Seq(S)
    PROVE  IsPrefix(s, s \o t)
  <1>1. s \o t \in Seq(S) /\ Len(s \o t) = Len(s) + Len(t) /\ Len(s) \in Nat /\ Len(t) \in Nat
    BY ConcatProperties
  <1>2. SubSeq(s \o t, 1, Len(s)) = SubSeq(s, 1, Len(s))
    <2>1. CASE Len(s) = 0
      BY <1>1, <2>1, SubSeqEmpty
    <2>2. CASE Len(s) # 0
      <3>1. 1 \in 1 .. Len(s) /\ Len(s) \in 1 .. Len(s)
        BY <1>1, <2>2
      <3> QED
        BY <3>1, SubSeqOfConcat1
    <2> QED
      BY <2>1, <2>2
  <1>3. Len(s) <= Len(s \o t)
    BY <1>1
  <1> QED
    BY <1>2, <1>3 DEF IsPrefix

\* What the client has read from the stream of text is never taken back by a
\* later push or finish (generation.rs).
THEOREM NothingTakenBackHolds == Spec => []NothingTakenBack
  <1>1. ASSUME TextInv
        PROVE  NothingTakenBack
    <2>1. /\ TextTypes /\ output \in Seq(Bytes) /\ used \in 0 .. Len(output)
          /\ Len(output) \in Nat /\ pending \in Seq(Bytes) /\ Len(pending) \in Nat
          /\ Len(pending) <= used /\ text \in Seq(Chars)
      BY <1>1 DEF TextInv, TextTypes
    <2>2. CASE stopped \/ finished
      <3>1. text = Lossy(BeforeStop(Pushed))
        BY <1>1, <2>2 DEF TextInv, Ended
      <3>2. IsPrefix(text, text)
        BY <2>1 DEF IsPrefix
      <3> QED
        BY <3>1, <3>2 DEF NothingTakenBack
    <2>3. CASE ~(stopped \/ finished)
      <3>1. Running /\ Found(Pushed) = {}
        BY <1>1, <2>3 DEF TextInv
      <3>2. Lossy(pending) \in Seq(Chars)
        BY <2>1, DecodeWhole DEF Lossy
      <3>3. used \in Done .. Len(output)
        BY <2>1 DEF Done
      <3>4. BeforeStop(Pushed) = Part(output, 0, used)
        <4>1. BeforeStop(Pushed) = Pushed
          BY <3>1 DEF BeforeStop
        <4>2. 0 + 1 = 1
          OBVIOUS
        <4> QED
          BY <4>1, <4>2 DEF Pushed, Part
      <3>5. Lossy(BeforeStop(Pushed)) = text \o Lossy(pending)
        BY <3>1, <3>3, <3>4 DEF Running
      <3> QED
        BY <2>1, <3>2, <3>5, PrefixOfConcat DEF NothingTakenBack
    <2> QED
      BY <2>2, <2>3
  <1> QED
    BY <1>1, TextAlways, PTL

\* The first stop string to be complete is the leftmost: one that began earlier
\* and is still incomplete would have it strictly inside.
LEMMA FirstIsLeftmost ==
    ASSUME GoodStops, Apart(stops), NEW b \in Seq(Bytes), NEW u \in 0 .. Len(b),
           Found(SubSeq(b, 1, u)) # {}
    PROVE  BeforeStop(b) = BeforeStop(SubSeq(b, 1, u))
  <1> DEFINE q == SubSeq(b, 1, u)
  <1>1. /\ q \in Seq(Bytes) /\ Len(q) = u /\ \A j \in 1 .. u : q[j] = b[j]
        /\ Len(b) \in Nat /\ u \in Nat
    BY FirstBytes
  <1>2. q = Part(b, 0, u)
    <2>1. 0 + 1 = 1
      OBVIOUS
    <2> QED
      BY <2>1 DEF Part
  <1>3. Found(q) # {}
    OBVIOUS
  <1> HIDE DEF q
  <1>4. \A s \in stops : s \in Seq(Bytes) /\ Len(s) \in Nat \ {0}
    BY EmptySeq DEF GoodStops
  <1>5. ASSUME NEW i \in Found(q)
        PROVE  i \in Found(b)
    <2>1. PICK s \in stops : OccursAt(s, q, i)
      BY <1>1, FoundIs
    <2>2. /\ i \in Nat \ {0} /\ i + Len(s) - 1 <= u
          /\ \A j \in 1 .. Len(s) : q[i + j - 1] = s[j]
      BY <1>1, <2>1 DEF OccursAt
    <2>3. \A j \in 1 .. Len(s) : i + j - 1 \in 1 .. u
      BY <1>1, <1>4, <2>2
    <2>4. OccursAt(s, b, i)
      <3>1. i + Len(s) - 1 <= Len(b)
        BY <1>1, <1>4, <2>2
      <3> QED
        BY <1>1, <2>2, <2>3, <3>1 DEF OccursAt
    <2> QED
      BY <2>4, FoundIs
  <1> PICK m : m = Min(Found(b))
    OBVIOUS
  <1> PICK n : n = Min(Found(q))
    OBVIOUS
  <1>6. m \in Found(b) /\ m \in 1 .. Len(b) /\ \A i \in Found(b) : m <= i
    <2>1. Found(b) \in SUBSET (1 .. Len(b))
      BY FoundIs
    <2>2. Found(b) \in SUBSET Nat /\ Found(b) # {}
      BY <1>3, <1>5, <2>1
    <2> QED
      BY <2>1, <2>2, MinOfNumbers
  <1>7. n \in Found(q) /\ n \in 1 .. u /\ \A i \in Found(q) : n <= i
    <2>1. Found(q) \in SUBSET (1 .. u)
      BY <1>1, FoundIs
    <2>2. Found(q) \in SUBSET Nat
      BY <2>1
    <2> QED
      BY <1>3, <2>1, <2>2, MinOfNumbers
  <1>8. m = n
    <2>1. m <= n
      BY <1>5, <1>6, <1>7
    <2> SUFFICES ASSUME m < n
                 PROVE  FALSE
      BY <1>6, <1>7, <2>1
    <2>2. PICK t \in stops : OccursAt(t, b, m)
      BY <1>6, FoundIs
    <2>3. PICK s \in stops : OccursAt(s, q, n)
      BY <1>1, <1>7, FoundIs
    <2>4. /\ s \in Seq(Bytes) /\ Len(s) \in Nat \ {0}
          /\ t \in Seq(Bytes) /\ Len(t) \in Nat \ {0} /\ m \in Nat \ {0} /\ n \in Nat \ {0}
      BY <1>4, <1>6, <1>7
    <2>5. m + Len(t) - 1 <= Len(b) /\ \A j \in 1 .. Len(t) : b[m + j - 1] = t[j]
      BY <2>2 DEF OccursAt
    <2>6. n + Len(s) - 1 <= u /\ \A j \in 1 .. Len(s) : q[n + j - 1] = s[j]
      BY <1>1, <2>3 DEF OccursAt
    <2>7. m + Len(t) - 1 > u
      <3> SUFFICES ASSUME m + Len(t) - 1 <= u
                   PROVE  FALSE
        BY <1>1, <2>4
      <3>1. \A j \in 1 .. Len(t) : m + j - 1 \in 1 .. u
        BY <1>1, <2>4
      <3>2. OccursAt(t, q, m)
        BY <1>1, <2>4, <2>5, <3>1 DEF OccursAt
      <3>3. m \in Found(q)
        BY <1>1, <3>2, FoundIs
      <3> QED
        BY <1>7, <2>4, <3>3
    <2> DEFINE i == n - m + 1
    <2>8. i \in Nat \ {0} /\ i # 1 /\ i + Len(s) - 1 < Len(t)
      BY <1>1, <2>4, <2>6, <2>7
    <2>9. ASSUME NEW j \in 1 .. Len(s)
          PROVE  t[i + j - 1] = s[j]
      <3>1. /\ i + j - 1 \in 1 .. Len(t) /\ m + (i + j - 1) - 1 = n + j - 1
            /\ n + j - 1 \in 1 .. u
        <4>1. j \in Nat \ {0} /\ j <= Len(s)
          BY <2>4
        <4>2. m + (i + j - 1) - 1 = n + j - 1
          BY <2>4, <4>1
        <4> HIDE DEF i
        <4>3. i + j - 1 \in 1 .. Len(t)
          BY <2>4, <2>8, <4>1
        <4>4. n + j - 1 \in 1 .. u
          BY <1>1, <2>4, <2>6, <4>1
        <4> QED
          BY <4>2, <4>3, <4>4
      <3> HIDE DEF i
      <3> QED
        BY <1>1, <2>5, <2>6, <3>1
    <2> HIDE DEF i
    <2>10. i \in Occurrences(s, t)
      <3>1. OccursAt(s, t, i)
        BY <2>4, <2>8, <2>9 DEF OccursAt
      <3> QED
        BY <2>4, <3>1, OccurrenceIs
    <2>11. i = 1 \/ i + Len(s) - 1 = Len(t)
      BY <2>10 DEF Apart
    <2> QED
      BY <2>4, <2>8, <2>11
  <1>9. BeforeStop(b) = SubSeq(b, 1, m - 1) /\ BeforeStop(q) = SubSeq(q, 1, n - 1)
    BY <1>3, <1>6 DEF BeforeStop
  <1>10. SubSeq(q, 1, n - 1) = SubSeq(b, 1, n - 1)
    <2>1. 0 \in 0 .. Len(b) /\ u \in 0 .. Len(b) /\ 0 \in 0 .. u - 0 /\ n - 1 \in 0 .. u - 0
      BY <1>1, <1>7
    <2>2. Part(Part(b, 0, u), 0, n - 1) = Part(b, 0 + 0, 0 + (n - 1))
      BY <2>1, PartOfPart
    <2>3. 0 + 0 = 0 /\ 0 + (n - 1) = n - 1 /\ 0 + 1 = 1
      BY <1>7
    <2> QED
      BY <1>2, <2>2, <2>3 DEF Part
  <1> QED
    BY <1>8, <1>9, <1>10 DEF q

\* With no stop string strictly inside another, what TextOutput (generation.rs)
\* shows and where it stops do not depend on how the output came in pieces.
THEOREM SplitIndependentHolds ==
    ASSUME StopsApart
    PROVE  Spec => []SplitIndependent
  <1>1. ASSUME TextInv
        PROVE  SplitIndependent
    <2>1. /\ TextTypes /\ output \in Seq(Bytes) /\ used \in 0 .. Len(output)
          /\ GoodStops /\ Apart(stops)
      BY <1>1, TypesAreGood DEF TextInv, TextTypes, StopsApart
    <2>2. ShownAsPushed
      BY <1>1 DEF TextInv, Ended, ShownAsPushed
    <2>3. stopped => BeforeStop(output) = BeforeStop(Pushed)
      BY <2>1, <2>2, FirstIsLeftmost DEF Pushed, ShownAsPushed
    <2> QED
      BY <2>2, <2>3 DEF SplitIndependent, ShownAsPushed
  <1> QED
    BY <1>1, TextAlways, PTL
=============================================================================
