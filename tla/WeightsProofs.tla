---------------------------- MODULE WeightsProofs ----------------------------
(***************************************************************************)
(* What Gguf::parse accepts is sound for every file and every table of     *)
(* types (WeightsSpec => []DirectoryIsSound), and a product over it        *)
(* computes every cell once, from its own row's bytes, for every number of *)
(* threads, chunk and tile and every order of the pieces (WeightsSpec =>   *)
(* []EveryCellFromItsRow).  First the directory and its sizes, then the    *)
(* rows of a view, then the cuts of an output into tasks, then the         *)
(* inductive invariant of the whole.                                       *)
(***************************************************************************)
EXTENDS Weights, Arithmetic, SequenceTheorems, FiniteSetTheorems, TLAPS

(***************************************************************************)
(* Shapes of one to four dimensions.                                       *)
(***************************************************************************)
Shapes == {dims \in Seq(Nat) : Len(dims) \in 1 .. 4 /\ \A i \in 1 .. Len(dims) : dims[i] > 0}

\* The product of the dimensions after the first.
Rest(dims) ==
    (IF Len(dims) >= 2 THEN dims[2] ELSE 1)
      * ((IF Len(dims) >= 3 THEN dims[3] ELSE 1)
           * (IF Len(dims) = 4 THEN dims[4] ELSE 1))

\* The recursive product, written out for the dimensions a tensor may have.
LEMMA ProductIsFinite ==
    ASSUME NEW dims \in Shapes
    PROVE  /\ Rest(dims) \in Nat \ {0} /\ dims[1] \in Nat \ {0}
           /\ Product(dims) = dims[1] * Rest(dims)
  <1> DEFINE n == Len(dims)
             p1 == dims[1]
             p2 == p1 * dims[2]
             p3 == p2 * dims[3]
             p4 == p3 * dims[4]
             f == [k \in 0 .. n |-> IF k = 0 THEN 1 ELSE IF k = 1 THEN p1
                                      ELSE IF k = 2 THEN p2 ELSE IF k = 3 THEN p3 ELSE p4]
             g == CHOOSE upTo : upTo = [k \in 0 .. n |->
                     IF k = 0 THEN 1 ELSE upTo[k - 1] * dims[k]]
  <1>1. n \in 1 .. 4 /\ \A i \in 1 .. n : dims[i] \in Nat \ {0}
    BY ElementOfSeq DEF Shapes
  <1>2. f = [k \in 0 .. n |-> IF k = 0 THEN 1 ELSE f[k - 1] * dims[k]]
    BY <1>1
  <1>3. g = [k \in 0 .. n |-> IF k = 0 THEN 1 ELSE g[k - 1] * dims[k]]
    <2> HIDE DEF f
    <2> QED
      BY <1>2
  <1>4. Product(dims) = g[n]
    BY DEF Product
  <1>5. /\ g[0] = 1
        /\ \A k \in 1 .. n : g[k] = g[k - 1] * dims[k]
    <2> HIDE DEF g
    <2> QED
      BY <1>1, <1>3
  <1> HIDE DEF g
  <1>6. g[1] = dims[1]
    BY <1>1, <1>5
  <1>7. n >= 2 => g[2] = dims[1] * dims[2]
    BY <1>1, <1>5, <1>6
  <1>8. n >= 3 => g[3] = dims[1] * (dims[2] * dims[3])
    BY <1>1, <1>5, <1>7
  <1>9. n = 4 => g[4] = dims[1] * (dims[2] * (dims[3] * dims[4]))
    BY <1>1, <1>5, <1>8
  <1> QED
    <2>1. Rest(dims) \in Nat \ {0} /\ dims[1] \in Nat \ {0}
      <3> DEFINE a == IF n >= 2 THEN dims[2] ELSE 1
                 b == IF n >= 3 THEN dims[3] ELSE 1
                 c == IF n = 4 THEN dims[4] ELSE 1
      <3>1. a \in Nat \ {0} /\ b \in Nat \ {0} /\ c \in Nat \ {0}
        BY <1>1
      <3>2. Rest(dims) = a * (b * c)
        BY DEF Rest
      <3> HIDE DEF a, b, c
      <3> QED
        BY <1>1, <3>1, <3>2, PositiveProduct
    <2>2. CASE n = 1
      BY <1>1, <1>4, <1>6, <2>1, <2>2 DEF Rest
    <2>3. CASE n = 2
      BY <1>1, <1>4, <1>7, <2>1, <2>3 DEF Rest
    <2>4. CASE n = 3
      BY <1>1, <1>4, <1>8, <2>1, <2>4 DEF Rest
    <2>5. CASE n = 4
      BY <1>1, <1>4, <1>9, <2>1, <2>5 DEF Rest
    <2> QED
      BY <1>1, <2>1, <2>2, <2>3, <2>4, <2>5

\* What does not overflow is the product.
LEMMA ElementsAreProduct ==
    ASSUME NEW dims \in Shapes, Elements(dims) < Word
    PROVE  Elements(dims) = Product(dims)
  <1> DEFINE n == Len(dims)
             times(a, b) == IF a * b < Word THEN a * b ELSE Word
             p1 == times(1, dims[1])
             p2 == times(p1, dims[2])
             p3 == times(p2, dims[3])
             p4 == times(p3, dims[4])
             f == [k \in 0 .. n |-> IF k = 0 THEN 1 ELSE IF k = 1 THEN p1
                                      ELSE IF k = 2 THEN p2 ELSE IF k = 3 THEN p3 ELSE p4]
             g == CHOOSE upTo : upTo = [k \in 0 .. n |->
                     IF k = 0 THEN 1 ELSE times(upTo[k - 1], dims[k])]
  <1>1. n \in 1 .. 4 /\ \A i \in 1 .. n : dims[i] \in Nat \ {0}
    BY ElementOfSeq DEF Shapes
  <1>2. f = [k \in 0 .. n |-> IF k = 0 THEN 1 ELSE times(f[k - 1], dims[k])]
    <2> HIDE DEF times
    <2> QED
      BY <1>1
  <1>3. g = [k \in 0 .. n |-> IF k = 0 THEN 1 ELSE times(g[k - 1], dims[k])]
    <2> HIDE DEF f
    <2> QED
      BY <1>2
  <1>4. Elements(dims) = g[n]
    BY DEF Elements
  <1>5. /\ g[0] = 1
        /\ \A k \in 1 .. n : g[k] = times(g[k - 1], dims[k])
    <2> HIDE DEF g, times
    <2> QED
      BY <1>1, <1>3
  <1> HIDE DEF g
  <1>6. \A a \in Nat, b \in Nat \ {0} :
           /\ times(a, b) \in Nat
           /\ times(a, b) < Word => times(a, b) = a * b /\ a < Word
    <2> TAKE a \in Nat, b \in Nat \ {0}
    <2>1. a <= a * b /\ a * b \in Nat
      OBVIOUS
    <2> QED
      BY <2>1, GgufAssumption
  <1> HIDE DEF times
  <1>7. g[1] \in Nat /\ (g[1] < Word => g[1] = dims[1])
    <2>1. g[1] = times(1, dims[1])
      BY <1>1, <1>5
    <2>2. dims[1] \in Nat \ {0} /\ 1 \in Nat
      BY <1>1
    <2>3. times(1, dims[1]) \in Nat /\ (times(1, dims[1]) < Word => times(1, dims[1]) = 1 * dims[1])
      BY <1>6, <2>2
    <2> QED
      BY <2>1, <2>2, <2>3
  <1>8. ASSUME n >= 2
        PROVE  g[2] \in Nat /\ (g[2] < Word => g[2] = dims[1] * dims[2])
    <2>1. g[2] = times(g[1], dims[2]) /\ dims[2] \in Nat \ {0}
      BY <1>1, <1>5, <1>8
    <2> QED
      BY <1>6, <1>7, <2>1
  <1>9. ASSUME n >= 3
        PROVE  g[3] \in Nat /\ (g[3] < Word => g[3] = dims[1] * (dims[2] * dims[3]))
    <2>1. g[3] = times(g[2], dims[3]) /\ dims[3] \in Nat \ {0} /\ n >= 2
      BY <1>1, <1>5, <1>9
    <2>2. dims[1] \in Nat /\ dims[2] \in Nat
      BY <1>1, <1>9
    <2> DEFINE a == g[2]
               b == dims[3]
    <2>3. a \in Nat /\ b \in Nat \ {0} /\ g[3] = times(a, b)
      BY <1>8, <2>1
    <2> HIDE DEF a, b
    <2>4. g[3] \in Nat /\ (g[3] < Word => g[3] = a * b /\ a < Word)
      BY <1>6, <2>3
    <2> QED
      BY <1>8, <2>1, <2>2, <2>4 DEF a, b
  <1>10. ASSUME n = 4
         PROVE  g[4] < Word => g[4] = dims[1] * (dims[2] * (dims[3] * dims[4]))
    <2>1. g[4] = times(g[3], dims[4]) /\ dims[4] \in Nat \ {0} /\ n >= 3
      BY <1>1, <1>5, <1>10
    <2>2. dims[1] \in Nat /\ dims[2] \in Nat /\ dims[3] \in Nat
      BY <1>1, <1>10
    <2>3. g[4] < Word => g[4] = (dims[1] * (dims[2] * dims[3])) * dims[4]
      <3> DEFINE a == g[3]
                 b == dims[4]
      <3>1. a \in Nat /\ b \in Nat \ {0} /\ g[4] = times(a, b)
        BY <1>9, <2>1
      <3> HIDE DEF a, b
      <3>2. g[4] < Word => g[4] = a * b /\ a < Word
        BY <1>6, <3>1
      <3> QED
        BY <1>9, <2>1, <3>2 DEF a, b
    <2> QED
      BY <2>1, <2>2, <2>3
  <1>11. Elements(dims) = dims[1] * Rest(dims)
    <2>1. CASE n = 1
      BY <1>1, <1>4, <1>7, <2>1 DEF Rest
    <2>2. CASE n = 2
      BY <1>1, <1>4, <1>8, <2>2 DEF Rest
    <2>3. CASE n = 3
      BY <1>1, <1>4, <1>9, <2>3 DEF Rest
    <2>4. CASE n = 4
      BY <1>1, <1>4, <1>10, <2>4 DEF Rest
    <2> QED
      BY <1>1, <2>1, <2>2, <2>3, <2>4
  <1> QED
    BY <1>11, ProductIsFinite

(***************************************************************************)
(* The directory.                                                          *)
(***************************************************************************)
ReadEntries == {e \in Entries : e.dims \in Shapes /\ e.offset % alignment = 0}

TensorSet ==
    [name : {e.name : e \in Entries}, dims : Shapes, type : DOMAIN BlockLen,
     offset : Nat, byteLen : Nat]

\* A tensor in whole blocks, on the alignment, inside the file.
Placed(t) ==
    /\ t.dims[1] % BlockLen[t.type] = 0
    /\ t.byteLen = (Product(t.dims) \div BlockLen[t.type]) * BlockBytes[t.type]
    /\ t.offset % alignment = 0
    /\ pos <= t.offset /\ t.offset + t.byteLen <= length

\* The inductive invariant of parse.
Counted ==
    /\ length \in Nat /\ alignment \in Nat \ {0} /\ pos \in Nat /\ count \in Nat
    /\ raw \in Seq(ReadEntries) /\ tensors \in Seq(TensorSet)
    /\ gpc \in {"entries", "place", "overlap", "open", "refused"}
    /\ gpc = "entries" => tensors = << >>
    /\ gpc \in {"place", "overlap", "open"} => Len(raw) = count /\ pos % alignment = 0
    /\ gpc \in {"overlap", "open"} => Len(tensors) = count

AllPlaced ==
    /\ \A i \in 1 .. Len(tensors) : Placed(tensors[i])
    /\ \A i, j \in 1 .. Len(tensors) : i # j => tensors[i].name # tensors[j].name

NoOverlap ==
    gpc = "open" =>
       \A i, j \in 1 .. count :
          i # j /\ tensors[i].offset <= tensors[j].offset => Apart(tensors[i], tensors[j])

FileInv == Counted /\ AllPlaced /\ NoOverlap

\* The bytes of a tensor are those of its rows, and there is at least one.
LEMMA TensorBytes ==
    ASSUME NEW t \in TensorSet, Placed(t)
    PROVE  /\ RowBytes(t) \in Nat \ {0}
           /\ RowBytes(t) = (t.dims[1] * BlockBytes[t.type]) \div BlockLen[t.type]
           /\ Rest(t.dims) \in Nat \ {0}
           /\ t.byteLen = RowBytes(t) * Rest(t.dims)
           /\ t.byteLen * BlockLen[t.type] = Product(t.dims) * BlockBytes[t.type]
           /\ t.byteLen > 0
  <1> DEFINE b == BlockLen[t.type]
             c == BlockBytes[t.type]
             r == Rest(t.dims)
             d == t.dims[1]
             k == d \div b
  <1>1. b \in Nat \ {0} /\ c \in Nat \ {0} /\ t.dims \in Shapes
    BY GgufAssumption DEF TensorSet
  <1>2. r \in Nat \ {0} /\ d \in Nat \ {0} /\ Product(t.dims) = d * r
    BY <1>1, ProductIsFinite
  <1>3. d % b = 0 /\ t.byteLen = (Product(t.dims) \div b) * c
    BY DEF Placed
  <1> HIDE DEF b, c, r, d
  <1>4. k \in Nat \ {0} /\ d = b * k
    <2>1. k \in Nat /\ d = b * k
      BY <1>1, <1>2, <1>3
    <2> QED
      BY <1>1, <1>2, <2>1
  <1> HIDE DEF k
  <1>5. k * r \in Nat \ {0} /\ k * c \in Nat \ {0}
    BY <1>1, <1>2, <1>4, PositiveProduct
  <1>6. d * r = b * (k * r) /\ d * c = b * (k * c)
    BY <1>1, <1>2, <1>4
  <1>7. (d * r) \div b = k * r /\ (d * c) \div b = k * c
    BY <1>1, <1>5, <1>6, MultipleDivides
  <1>8. RowBytes(t) = k * c
    BY DEF RowBytes, k, b, c, d
  <1>9. t.byteLen = (k * r) * c
    BY <1>2, <1>3, <1>7
  <1>10. (k * r) * c = (k * c) * r /\ ((k * r) * c) * b = (d * r) * c
    BY <1>1, <1>2, <1>4
  <1>11. (k * c) * r \in Nat \ {0}
    BY <1>2, <1>5, PositiveProduct
  <1>12. RowBytes(t) \in Nat \ {0} /\ RowBytes(t) = (d * c) \div b
    BY <1>5, <1>7, <1>8
  <1>13. t.byteLen = RowBytes(t) * r /\ t.byteLen * b = Product(t.dims) * c /\ t.byteLen > 0
    BY <1>2, <1>8, <1>9, <1>10, <1>11
  <1> QED
    BY <1>2, <1>12, <1>13 DEF b, c, d, r

LEMMA FileInvInit == GgufInit => FileInv
  <1> SUFFICES ASSUME GgufInit PROVE FileInv
    OBVIOUS
  <1>1. length \in Nat /\ alignment \in Nat \ {0} /\ pos \in Nat /\ count \in Nat
    <2>1. length \in Nat /\ alignment \in Nat \ {0} /\ pos \in Nat
      BY GgufAssumption DEF GgufInit
    <2>2. length \div EntryBytes \in Nat
      BY <2>1, GgufAssumption
    <2> QED
      BY <2>1, <2>2 DEF GgufInit
  <1>2. Counted
    BY <1>1 DEF GgufInit, Counted
  <1>3. AllPlaced /\ NoOverlap
    BY DEF GgufInit, AllPlaced, NoOverlap
  <1> QED
    BY <1>2, <1>3 DEF FileInv

\* A step that leaves the tensors and what they are measured against alone.
LEMMA FileKept ==
    ASSUME FileInv, UNCHANGED <<file, pos, raw, tensors>>,
           \/ gpc' = gpc \/ gpc' = "refused"
           \/ gpc = "place" /\ gpc' = "overlap" /\ Len(tensors) = count
    PROVE  FileInv'
  <1>1. Counted'
    BY DEF FileInv, Counted, file, ReadEntries, TensorSet
  <1>2. AllPlaced' /\ NoOverlap'
    BY DEF FileInv, AllPlaced, NoOverlap, Placed, Apart, file
  <1> QED
    BY <1>1, <1>2 DEF FileInv

\* An entry is read: a shape, on the alignment.
LEMMA ReadEntryKeeps ==
    ASSUME FileInv, NEW e \in Entries, ReadEntry(e)
    PROVE  FileInv'
  <1>1. CASE Refuse
    BY <1>1, FileKept DEF Refuse
  <1>2. CASE /\ Readable(e)
             /\ raw' = Append(raw, e)
             /\ pos' = pos + EntryBytes
             /\ UNCHANGED <<gpc, file, tensors>>
    <2>1. e \in ReadEntries
      BY <1>2, GgufAssumption DEF Readable, ReadEntries, Shapes
    <2>2. raw' \in Seq(ReadEntries)
      BY <1>2, <2>1, AppendProperties DEF FileInv, Counted
    <2>3. gpc = "entries" /\ tensors = << >>
      BY DEF ReadEntry, FileInv, Counted
    <2>4. Counted'
      BY <1>2, <2>2, <2>3, GgufAssumption DEF FileInv, Counted, file, ReadEntries, TensorSet
    <2>5. AllPlaced' /\ NoOverlap'
      BY <1>2, <2>3 DEF AllPlaced, NoOverlap
    <2> QED
      BY <2>4, <2>5 DEF FileInv
  <1> QED
    BY <1>1, <1>2 DEF ReadEntry

\* The data begins on the alignment behind the directory.
LEMMA EndOfEntriesKeeps ==
    ASSUME FileInv, EndOfEntries
    PROVE  FileInv'
  <1>1. CASE Refuse
    BY <1>1, FileKept DEF Refuse
  <1>2. CASE pos' = DataStart /\ gpc' = "place" /\ UNCHANGED <<file, raw, tensors>>
    <2>1. gpc = "entries" /\ tensors = << >> /\ Len(raw) = count
      BY DEF EndOfEntries, FileInv, Counted
    <2>2. pos' \in Nat /\ pos' % alignment = 0
      <3> DEFINE k == (pos + alignment - 1) \div alignment
      <3>1. k \in Nat /\ alignment \in Nat \ {0}
        BY DEF FileInv, Counted
      <3>2. pos' = k * alignment
        BY <1>2 DEF DataStart
      <3> HIDE DEF k
      <3>3. k * alignment = alignment * k /\ k * alignment \in Nat
        BY <3>1
      <3> QED
        BY <3>1, <3>2, <3>3, MultipleDivides
    <2>3. Counted'
      BY <1>2, <2>1, <2>2 DEF FileInv, Counted, file, ReadEntries, TensorSet
    <2>4. AllPlaced' /\ NoOverlap'
      BY <1>2, <2>1 DEF AllPlaced, NoOverlap
    <2> QED
      BY <2>3, <2>4 DEF FileInv
  <1> QED
    BY <1>1, <1>2 DEF EndOfEntries

\* A tensor is placed: whole blocks inside the file, under a new name.
LEMMA PlaceKeeps ==
    ASSUME FileInv, Place
    PROVE  FileInv'
  <1> DEFINE e == raw[Len(tensors) + 1]
             t == [name |-> e.name, dims |-> e.dims, type |-> e.type,
                   offset |-> pos + e.offset, byteLen |-> ByteLen(e)]
  <1>1. CASE Refuse
    BY <1>1, FileKept DEF Refuse
  <1>2. CASE Fits(e) /\ tensors' = Append(tensors, t) /\ UNCHANGED <<gpc, file, pos, raw>>
    <2>1. gpc = "place" /\ Len(tensors) < count /\ Len(raw) = count /\ pos % alignment = 0
      BY DEF Place, FileInv, Counted
    <2>2. e \in Entries /\ e.dims \in Shapes /\ e.offset \in Nat /\ e.offset % alignment = 0
      <3>1. Len(tensors) + 1 \in 1 .. Len(raw)
        BY <2>1 DEF FileInv, Counted
      <3>2. e \in ReadEntries
        BY <3>1, ElementOfSeq DEF FileInv, Counted
      <3> QED
        BY <3>2, GgufAssumption DEF ReadEntries
    <2> HIDE DEF e
    <2>3. e.type \in DOMAIN BlockLen /\ Elements(e.dims) = Product(e.dims)
      BY <1>2, <2>2, ElementsAreProduct DEF Fits
    <2>4. ByteLen(e) \in Nat
      <3> DEFINE b == BlockLen[e.type]
                 c == BlockBytes[e.type]
      <3>1. b \in Nat \ {0} /\ c \in Nat
        BY <2>3, GgufAssumption
      <3>2. Product(e.dims) \in Nat
        BY <2>2, ProductIsFinite, PositiveProduct
      <3> HIDE DEF b, c
      <3>3. Product(e.dims) \div b \in Nat
        BY <3>1, <3>2
      <3> QED
        BY <2>3, <3>1, <3>3 DEF ByteLen, b, c
    <2>5. t \in TensorSet
      BY <2>2, <2>3, <2>4 DEF TensorSet, FileInv, Counted
    <2>6. Placed(t)
      <3>1. (pos + e.offset) % alignment = 0
        BY <2>1, <2>2, MultiplesAdd DEF FileInv, Counted
      <3>2. pos <= pos + e.offset
        BY <2>2 DEF FileInv, Counted
      <3> QED
        BY <1>2, <2>3, <3>1, <3>2 DEF Placed, Fits, ByteLen
    <2>7. \A i \in 1 .. Len(tensors) : tensors[i].name # t.name
      BY <1>2 DEF Fits
    <2> HIDE DEF t
    <2>8. /\ tensors' \in Seq(TensorSet) /\ Len(tensors') = Len(tensors) + 1
          /\ \A i \in 1 .. Len(tensors) : tensors'[i] = tensors[i]
          /\ tensors'[Len(tensors) + 1] = t
      BY <1>2, <2>5, AppendProperties DEF FileInv, Counted
    <2>9. Counted'
      BY <1>2, <2>1, <2>8 DEF FileInv, Counted, file, ReadEntries, TensorSet
    <2>10. AllPlaced'
      <3>1. \A i \in 1 .. Len(tensors) + 1 : Placed(tensors'[i])
        BY <2>6, <2>8 DEF FileInv, Counted, AllPlaced
      <3>2. \A i \in 1 .. Len(tensors) + 1 : Placed(tensors[i])'
        BY <1>2, <3>1 DEF Placed, file
      <3>3. \A i, j \in 1 .. Len(tensors) + 1 : i # j => tensors'[i].name # tensors'[j].name
        BY <2>7, <2>8 DEF FileInv, Counted, AllPlaced
      <3> QED
        BY <2>8, <3>2, <3>3 DEF AllPlaced
    <2>11. NoOverlap'
      BY <1>2, <2>1 DEF NoOverlap
    <2> QED
      BY <2>9, <2>10, <2>11 DEF FileInv
  <1> QED
    BY <1>1, <1>2 DEF Place

\* An order by offset in which neighbours do not overlap is one without overlaps.
LEMMA NeighboursSuffice ==
    ASSUME FileInv, Len(tensors) = count, NEW f \in Sorted,
           \A i \in 1 .. count - 1 : Apart(tensors[f[i]], tensors[f[i + 1]]),
           NEW i \in 1 .. count, NEW j \in 1 .. count,
           i # j, tensors[i].offset <= tensors[j].offset
    PROVE  Apart(tensors[i], tensors[j])
  <1>1. count \in Nat /\ f \in [1 .. count -> 1 .. count]
    BY DEF FileInv, Counted, Sorted
  <1>2. \A a, b \in 1 .. count : a < b =>
           f[a] # f[b] /\ tensors[f[a]].offset <= tensors[f[b]].offset
    BY DEF Sorted
  <1>3. \A a \in 1 .. count :
           tensors[a].offset \in Nat /\ tensors[a].byteLen \in Nat /\ tensors[a].byteLen > 0
    <2> TAKE a \in 1 .. count
    <2>1. tensors[a] \in TensorSet /\ Placed(tensors[a])
      BY ElementOfSeq DEF FileInv, Counted, AllPlaced
    <2> QED
      BY <2>1, TensorBytes DEF TensorSet
  <1>4. \A k \in 1 .. count : \E a \in 1 .. count : f[a] = k
    <2>1. f \in Injection(1 .. count, 1 .. count)
      BY <1>1, <1>2 DEF Injection, IsInjective
    <2>2. IsFiniteSet(1 .. count) /\ Cardinality(1 .. count) = count
      BY <1>1, FS_Interval
    <2>3. f \in Surjection(1 .. count, 1 .. count)
      BY <2>1, <2>2, FS_Injection
    <2> QED
      BY <2>3 DEF Surjection
  <1>5. PICK a \in 1 .. count, b \in 1 .. count : f[a] = i /\ f[b] = j
    BY <1>4
  <1>6. CASE a < b
    <2>1. a \in 1 .. count - 1 /\ a + 1 \in 1 .. count /\ (a + 1 = b \/ a + 1 < b)
      BY <1>1, <1>6
    <2> DEFINE c == f[a + 1]
    <2>2. c \in 1 .. count
      BY <1>1, <2>1
    <2>3. Apart(tensors[i], tensors[c])
      BY <1>5, <2>1
    <2>4. tensors[c].offset <= tensors[j].offset
      <3>1. CASE a + 1 = b
        BY <1>3, <1>5, <3>1
      <3>2. CASE a + 1 < b
        BY <1>2, <1>5, <2>1, <3>2
      <3> QED
        BY <2>1, <3>1, <3>2
    <2> HIDE DEF c
    <2> QED
      BY <1>3, <2>2, <2>3, <2>4 DEF Apart
  <1>7. CASE b < a
    <2>1. b \in 1 .. count - 1 /\ b + 1 \in 1 .. count /\ (b + 1 = a \/ b + 1 < a)
      BY <1>1, <1>7
    <2> DEFINE c == f[b + 1]
    <2>2. c \in 1 .. count
      BY <1>1, <2>1
    <2>3. Apart(tensors[j], tensors[c])
      BY <1>5, <2>1
    <2>4. tensors[c].offset <= tensors[i].offset
      <3>1. CASE b + 1 = a
        BY <1>3, <1>5, <3>1
      <3>2. CASE b + 1 < a
        BY <1>2, <1>5, <2>1, <3>2
      <3> QED
        BY <2>1, <3>1, <3>2
    <2> HIDE DEF c
    <2> QED
      BY <1>3, <2>2, <2>3, <2>4 DEF Apart
  <1> QED
    BY <1>1, <1>5, <1>6, <1>7

\* Extents sorted in any order with neighbours apart are all apart.
LEMMA CheckOverlapKeeps ==
    ASSUME FileInv, CheckOverlap
    PROVE  FileInv'
  <1>1. Len(tensors) = count /\ UNCHANGED <<file, pos, raw, tensors>>
    BY DEF CheckOverlap, FileInv, Counted
  <1>2. PICK f \in Sorted :
           gpc' = IF \A i \in 1 .. count - 1 : Apart(tensors[f[i]], tensors[f[i + 1]])
                    THEN "open" ELSE "refused"
    BY DEF CheckOverlap
  <1>3. gpc = "overlap"
    BY DEF CheckOverlap
  <1>4. CASE gpc' = "refused"
    BY <1>1, <1>4, FileKept
  <1>5. CASE gpc' = "open"
    <2>1. \A i \in 1 .. count - 1 : Apart(tensors[f[i]], tensors[f[i + 1]])
      BY <1>2, <1>5
    <2>2. NoOverlap'
      <3> SUFFICES ASSUME NEW i \in 1 .. count, NEW j \in 1 .. count,
                          i # j, tensors[i].offset <= tensors[j].offset
                   PROVE  Apart(tensors[i], tensors[j])
        BY <1>1 DEF NoOverlap, Apart, file
      <3> QED
        BY <1>1, <2>1, NeighboursSuffice
    <2>3. Counted' /\ AllPlaced'
      BY <1>1, <1>3, <1>5 DEF FileInv, Counted, AllPlaced, Placed, file, ReadEntries, TensorSet
    <2> QED
      BY <2>2, <2>3 DEF FileInv
  <1> QED
    BY <1>2, <1>4, <1>5

LEMMA FileInvStep ==
    ASSUME FileInv, GgufNext \/ UNCHANGED ggufVars
    PROVE  FileInv'
  <1>1. CASE UNCHANGED ggufVars
    BY <1>1, FileKept DEF ggufVars
  <1>2. CASE PlacedAll
    BY <1>2, FileKept DEF PlacedAll
  <1> QED
    BY <1>1, <1>2, ReadEntryKeeps, EndOfEntriesKeeps, PlaceKeeps, CheckOverlapKeeps
    DEF GgufNext

\* What the directory of an open file promises follows from the invariant.
LEMMA FileIsSound == FileInv => DirectoryIsSound
  <1> SUFFICES ASSUME FileInv, gpc = "open" PROVE DirectoryIsSound
    BY DEF DirectoryIsSound
  <1>1. Len(tensors) = count
    BY DEF FileInv, Counted
  <1>2. \A i \in 1 .. count :
           LET t == tensors[i]
           IN /\ t.byteLen * BlockLen[t.type] = Product(t.dims) * BlockBytes[t.type]
              /\ t.dims[1] % BlockLen[t.type] = 0
              /\ t.offset % alignment = 0
              /\ pos <= t.offset /\ t.offset + t.byteLen <= length
    <2> TAKE i \in 1 .. count
    <2>1. tensors[i] \in TensorSet /\ Placed(tensors[i])
      BY <1>1, ElementOfSeq DEF FileInv, Counted, AllPlaced
    <2> QED
      BY <2>1, TensorBytes DEF Placed
  <1>3. \A i, j \in 1 .. count : i # j =>
           /\ tensors[i].name # tensors[j].name
           /\ tensors[i].offset <= tensors[j].offset =>
                 tensors[i].offset + tensors[i].byteLen <= tensors[j].offset
    BY <1>1 DEF FileInv, AllPlaced, NoOverlap, Apart
  <1> QED
    BY <1>2, <1>3 DEF DirectoryIsSound

(***************************************************************************)
(* Views.                                                                  *)
(***************************************************************************)

\* A view of an open file is a matrix of some rows, and its rows are the tensor's.
LEMMA ViewRows ==
    ASSUME FileInv, gpc = "open", NEW v \in Views
    PROVE  /\ Rows(v) \in Nat \ {0}
           /\ \A row \in 0 .. Rows(v) - 1 :
                 LET t == tensors[v.tensor]
                     first == Matrix(v).offset + row * RowBytes(Matrix(v))
                 IN /\ OwnBytes(v, row) = <<first, first + RowBytes(Matrix(v))>>
                    /\ t.offset <= first
                    /\ first + RowBytes(Matrix(v)) <= t.offset + t.byteLen
  <1> DEFINE t == tensors[v.tensor]
             b == RowBytes(t)
             n == Len(t.dims)
  <1>1. v.tensor \in 1 .. count /\ v.expert \in Nat
        /\ \/ n = 2 /\ v.expert = 0
           \/ n = 3 /\ v.expert \in 0 .. t.dims[3] - 1
    <2>1. CASE v \in [tensor : {i \in 1 .. count : Len(tensors[i].dims) = 2}, expert : {0}]
      BY <2>1
    <2>2. CASE v \in UNION {[tensor : {i}, expert : 0 .. tensors[i].dims[3] - 1] :
                            i \in {j \in 1 .. count : Len(tensors[j].dims) = 3}}
      <3>1. PICK i \in 1 .. count :
               /\ Len(tensors[i].dims) = 3
               /\ v \in [tensor : {i}, expert : 0 .. tensors[i].dims[3] - 1]
        BY <2>2
      <3> QED
        BY <3>1
    <2> QED
      BY <2>1, <2>2 DEF Views
  <1>2. t \in TensorSet /\ Placed(t)
    BY <1>1, ElementOfSeq DEF FileInv, Counted, AllPlaced
  <1>3. /\ b \in Nat \ {0} /\ b = (t.dims[1] * BlockBytes[t.type]) \div BlockLen[t.type]
        /\ t.byteLen = b * Rest(t.dims)
        /\ t.offset \in Nat /\ t.byteLen \in Nat
    BY <1>2, TensorBytes DEF TensorSet
  <1>4. t.dims \in Seq(Nat) /\ \A i \in 1 .. n : t.dims[i] \in Nat \ {0}
    BY <1>2, ElementOfSeq DEF TensorSet, Shapes
  <1> DEFINE own(row) == t.offset + (v.expert * t.dims[2] + row) * b
  <1>7. \A row : OwnBytes(v, row) = <<own(row), own(row) + b>>
    BY <1>3 DEF OwnBytes
  <1>5. CASE n = 2
    <2>1. Matrix(v) = t /\ Rows(v) = t.dims[2] /\ Rest(t.dims) = t.dims[2] /\ v.expert = 0
      BY <1>1, <1>4, <1>5 DEF Matrix, Rows, Rest
    <2> DEFINE d == t.dims[2]
    <2>2. d \in Nat \ {0}
      BY <1>4, <1>5
    <2>3. ASSUME NEW row \in 0 .. d - 1
          PROVE  /\ (v.expert * d + row) * b = row * b
                 /\ row * b \in Nat /\ row * b + b <= b * d
      <3>1. (row + 1) * b <= d * b
        BY <1>3, <2>2
      <3>2. v.expert * d + row = row
        BY <2>1, <2>2
      <3>3. (row + 1) * b = row * b + b /\ d * b = b * d /\ row * b \in Nat
        BY <1>3, <2>2
      <3> HIDE DEF b, d
      <3> QED
        BY <3>1, <3>2, <3>3
    <2>4. ASSUME NEW row \in 0 .. d - 1
          PROVE  /\ own(row) = t.offset + row * b
                 /\ t.offset <= t.offset + row * b
                 /\ (t.offset + row * b) + b <= t.offset + t.byteLen
      <3> DEFINE z == row * b
                 w == b * d
      <3>1. own(row) = t.offset + z
        BY <2>3
      <3>2. z \in Nat /\ z + b <= w /\ t.byteLen = w
        BY <1>3, <2>1, <2>3
      <3> HIDE DEF b, z, w, own
      <3>3. t.offset <= t.offset + z /\ (t.offset + z) + b <= t.offset + t.byteLen
        BY <1>3, <3>2
      <3> QED
        BY <3>1, <3>3 DEF z
    <2> HIDE DEF own, b
    <2> QED
      BY <1>7, <2>1, <2>2, <2>4 DEF b
  <1>6. CASE n = 3
    <2> DEFINE d == t.dims[2]
               e == t.dims[3]
               x == v.expert
    <2>1. d \in Nat \ {0} /\ e \in Nat \ {0} /\ x \in 0 .. e - 1
      BY <1>1, <1>4, <1>6
    <2>2. Rest(t.dims) = d * e
      BY <1>4, <1>6 DEF Rest
    <2>3. t.byteLen \div e = b * d /\ b * d \in Nat
      <3> HIDE DEF b, d, e
      <3>1. t.byteLen = e * (b * d) /\ b * d \in Nat
        BY <1>3, <2>1, <2>2
      <3> QED
        BY <2>1, <3>1, MultipleDivides
    <2>4. /\ Matrix(v).offset = t.offset + x * (b * d)
          /\ Matrix(v).dims = SubSeq(t.dims, 1, 2) /\ Matrix(v).type = t.type
      BY <1>2, <1>6, <2>3 DEF Matrix, Expert, TensorSet
    <2>5. Matrix(v).dims[1] = t.dims[1] /\ Matrix(v).dims[2] = d
      <3>1. \A i \in 1 .. 2 : t.dims[i] \in Nat
        BY <1>4, <1>6
      <3> QED
        BY <2>4, <3>1, SubSeqProperties
    <2>6. Rows(v) = d /\ RowBytes(Matrix(v)) = b
      BY <2>4, <2>5 DEF Rows, RowBytes
    <2>7. ASSUME NEW row \in 0 .. d - 1
          PROVE  /\ t.offset + (x * d + row) * b = (t.offset + x * (b * d)) + row * b
                 /\ x * (b * d) \in Nat /\ row * b \in Nat
                 /\ x * (b * d) + (row * b + b) <= b * (d * e)
      <3> HIDE DEF b, d, e, x
      <3>1. (x * d + row) * b = x * (b * d) + row * b
        BY <1>3, <2>1
      <3>2. x * (b * d) \in Nat /\ row * b \in Nat
        BY <1>3, <2>1
      <3>3. (row + 1) * b <= d * b /\ (row + 1) * b = row * b + b /\ d * b = b * d
        BY <1>3, <2>1
      <3>4. x * (b * d) + b * d <= b * (d * e)
        <4> DEFINE m == b * d
        <4>1. m \in Nat /\ m * e = b * (d * e)
          BY <1>3, <2>1, <2>3
        <4> HIDE DEF m
        <4>2. (x + 1) * m <= e * m
          BY <2>1, <4>1
        <4>3. (x + 1) * m = x * m + m /\ e * m = m * e
          BY <2>1, <4>1
        <4>4. x * m + m <= b * (d * e)
          BY <4>1, <4>2, <4>3
        <4> QED
          BY <4>4 DEF m
      <3> DEFINE y == x * (b * d)
                 z == row * b
                 m == b * d
                 w == b * (d * e)
      <3>5. y \in Nat /\ z \in Nat /\ m \in Nat /\ y + m <= w /\ z + b <= m
        BY <2>3, <3>2, <3>3, <3>4
      <3>6. w \in Nat
        BY <1>3, <2>1
      <3>7. y + (z + b) <= w
        <4> HIDE DEF y, z, m, w
        <4> QED
          BY <1>3, <3>5, <3>6
      <3>8. (t.offset + (y + z) = (t.offset + y) + z)
        <4> HIDE DEF y, z
        <4> QED
          BY <1>3, <3>5
      <3> QED
        BY <3>1, <3>5, <3>7, <3>8
    <2>8. ASSUME NEW row \in 0 .. d - 1
          PROVE  LET first == Matrix(v).offset + row * b
                 IN /\ own(row) = first
                    /\ t.offset <= first
                    /\ first + b <= t.offset + t.byteLen
      <3> DEFINE y == x * (b * d)
                 z == row * b
                 w == b * (d * e)
      <3>1. own(row) = (t.offset + y) + z /\ Matrix(v).offset = t.offset + y
        BY <2>4, <2>7
      <3>2. y \in Nat /\ z \in Nat /\ y + (z + b) <= w /\ t.byteLen = w /\ w \in Nat
        BY <1>3, <2>2, <2>7
      <3> HIDE DEF y, w, b, own
      <3>3. /\ t.offset <= (t.offset + y) + z
            /\ ((t.offset + y) + z) + b <= t.offset + t.byteLen
        <4> HIDE DEF z
        <4> QED
          BY <1>3, <3>2
      <3> QED
        BY <3>1, <3>3
    <2> HIDE DEF own, b
    <2> QED
      BY <1>7, <2>1, <2>6, <2>8
  <1> QED
    BY <1>1, <1>5, <1>6

(***************************************************************************)
(* Cutting an output: each of its rows is in one piece of one task.        *)
(***************************************************************************)
Pieces == [output : Nat, first : Nat, end : Nat]
Cuts == Seq(Seq(Pieces))

Takes(cut, t, k, o, r) == cut[t][k].output = o /\ r \in RowsOf(cut[t][k])

\* Each row of output o is in exactly one piece.
Once(cut, o, rows) ==
    \A r \in 0 .. rows - 1 :
       \E t \in DOMAIN cut : \E k \in DOMAIN cut[t] :
          /\ Takes(cut, t, k, o, r)
          /\ \A u \in DOMAIN cut : \A l \in DOMAIN cut[u] :
                Takes(cut, u, l, o, r) => u = t /\ l = k

\* No piece is of output o.
Without(cut, o) == \A t \in DOMAIN cut : \A k \in DOMAIN cut[t] : cut[t][k].output # o

\* Two by two and the one that is left, that is all rows of a piece.
LEMMA RowsOfPiece ==
    ASSUME NEW piece \in Pieces, piece.first <= piece.end
    PROVE  RowsOf(piece) = piece.first .. piece.end - 1
  <1> DEFINE a == piece.first
             n == piece.end - a
             h == n \div 2
             m == n % 2
  <1>1. a \in Nat /\ n \in Nat /\ piece.end = a + n
    BY DEF Pieces
  <1>2. h \in Nat /\ m \in 0 .. 1 /\ n = 2 * h + m
    BY <1>1
  <1>3. RowsOf(piece) = {a + i : i \in 0 .. 2 * h - 1} \cup (IF m = 1 THEN {a + n - 1} ELSE {})
    BY <1>1 DEF RowsOf
  <1> HIDE DEF a, n, h, m
  <1>4. ASSUME NEW r \in a .. a + n - 1
        PROVE  r \in RowsOf(piece)
    <2>1. CASE r = a + n - 1 /\ m = 1
      BY <1>3, <2>1
    <2>2. CASE ~(r = a + n - 1 /\ m = 1)
      <3>1. r - a \in 0 .. 2 * h - 1 /\ r = a + (r - a)
        BY <1>1, <1>2, <2>2
      <3> QED
        BY <1>3, <3>1
    <2> QED
      BY <2>1, <2>2
  <1>5. ASSUME NEW r \in RowsOf(piece)
        PROVE  r \in a .. a + n - 1
    <2>1. CASE r \in {a + i : i \in 0 .. 2 * h - 1}
      BY <1>1, <1>2, <2>1
    <2>2. CASE m = 1 /\ r = a + n - 1
      BY <1>1, <1>2, <2>2
    <2> QED
      BY <1>3, <1>5, <2>1, <2>2
  <1>6. RowsOf(piece) = a .. a + n - 1
    BY <1>4, <1>5
  <1>7. (a + n) - 1 = piece.end - 1 /\ a = piece.first
    BY <1>1 DEF a
  <1>8. piece.first \in Nat /\ piece.end \in Nat
    BY DEF Pieces
  <1> QED
    BY <1>1, <1>6, <1>7, <1>8

\* How many pieces of a size it takes.
LEMMA Ceiling ==
    ASSUME NEW n \in Nat, NEW c \in Nat \ {0}, NEW i \in Nat
    PROVE  /\ (n + c - 1) \div c \in Nat
           /\ i + 1 <= (n + c - 1) \div c <=> i * c < n
  <1> DEFINE x == n + c - 1
             q == x \div c
             r == x % c
  <1>1. x \in Nat /\ x = n + c - 1
    OBVIOUS
  <1> HIDE DEF x
  <1>2. q \in Nat /\ r \in 0 .. c - 1 /\ x = (c * q) + r
    BY <1>1
  <1> HIDE DEF q, r
  <1>3. ASSUME i + 1 <= q PROVE i * c < n
    <2>1. (i + 1) * c <= q * c
      BY <1>2, <1>3
    <2>2. (i + 1) * c = i * c + c /\ q * c = c * q /\ i * c \in Nat /\ q * c \in Nat
      BY <1>2
    <2> QED
      BY <1>1, <1>2, <2>1, <2>2
  <1>4. ASSUME ~(i + 1 <= q) PROVE ~(i * c < n)
    <2>1. q <= i
      BY <1>2, <1>4
    <2>2. q * c <= i * c
      BY <1>2, <2>1
    <2>3. q * c = c * q /\ i * c \in Nat /\ q * c \in Nat
      BY <1>2
    <2> QED
      BY <1>1, <1>2, <2>2, <2>3
  <1> QED
    BY <1>2, <1>3, <1>4 DEF q, x

\* Chunks of one output take each of its rows once.
LEMMA CutCoversOnce ==
    ASSUME NEW o \in Nat, NEW rows \in Nat \ {0}, NEW size \in Nat \ {0}
    PROVE  /\ CutOutput(o, rows, size) \in Cuts
           /\ Once(CutOutput(o, rows, size), o, rows)
           /\ \A other : other # o => Without(CutOutput(o, rows, size), other)
  <1> DEFINE n == (rows + size - 1) \div size
             p(i) == Piece(o, (i - 1) * size, Least(i * size, rows))
             cut == [i \in 1 .. n |-> <<p(i)>>]
  <1>1. CutOutput(o, rows, size) = cut
    BY DEF CutOutput
  <1>2. n \in Nat
    BY Ceiling
  <1> HIDE DEF n
  <1>3. ASSUME NEW i \in 1 .. n
        PROVE  /\ p(i) \in Pieces /\ p(i).output = o
               /\ \A r \in 0 .. rows - 1 : r \in RowsOf(p(i)) <=> i = (r \div size) + 1
    <2> DEFINE a == (i - 1) * size
               e == i * size
    <2>1. i - 1 \in Nat /\ (i - 1) + 1 <= n
      BY <1>2
    <2>2. a < rows
      BY <2>1, Ceiling DEF n
    <2>3. a \in Nat /\ e = a + size
      BY <2>1
    <2>4. p(i) = [output |-> o, first |-> a, end |-> Least(e, rows)]
      BY DEF Piece
    <2>5. p(i) \in Pieces /\ p(i).first <= p(i).end
      <3> HIDE DEF a, e, p
      <3> QED
        BY <2>2, <2>3, <2>4 DEF Pieces, Least
    <2>6. RowsOf(p(i)) = a .. Least(e, rows) - 1
      BY <2>4, <2>5, RowsOfPiece
    <2>7. ASSUME NEW r \in 0 .. rows - 1
          PROVE  r \in RowsOf(p(i)) <=> i = (r \div size) + 1
      <3>1. r \in (i - 1) * size .. ((i - 1) + 1) * size - 1 <=> i - 1 = r \div size
        BY <2>1, PieceOf
      <3>2. (i - 1) + 1 = i
        BY <2>1
      <3>3. r \in RowsOf(p(i)) <=> r \in a .. e - 1
        <4> HIDE DEF a, e, p
        <4> QED
          BY <2>3, <2>6 DEF Least
      <3>4. r \div size \in Nat
        OBVIOUS
      <3> QED
        BY <2>1, <3>1, <3>2, <3>3, <3>4
    <2> QED
      BY <2>4, <2>5, <2>7
  <1> HIDE DEF p
  <1>4. cut \in Cuts
    <2>1. \A i \in 1 .. n : <<p(i)>> \in Seq(Pieces)
      BY <1>3
    <2>2. cut \in [1 .. n -> Seq(Pieces)]
      BY <2>1
    <2> QED
      BY <1>2, <2>2, SeqDef DEF Cuts
  <1>5. Once(cut, o, rows)
    <2> SUFFICES ASSUME NEW r \in 0 .. rows - 1
                 PROVE  \E t \in DOMAIN cut : \E k \in DOMAIN cut[t] :
                           /\ Takes(cut, t, k, o, r)
                           /\ \A u \in DOMAIN cut : \A l \in DOMAIN cut[u] :
                                 Takes(cut, u, l, o, r) => u = t /\ l = k
      BY DEF Once
    <2> DEFINE d == r \div size
    <2>1. d \in Nat /\ d * size <= r
      <3>1. d \in Nat
        OBVIOUS
      <3>2. r \in d * size .. (d + 1) * size - 1
        BY <3>1, PieceOf
      <3> QED
        BY <3>1, <3>2
    <2>2. d + 1 \in 1 .. n
      <3>1. d * size < rows
        BY <2>1
      <3>2. d + 1 <= n
        BY <2>1, <3>1, Ceiling DEF n
      <3> QED
        BY <1>2, <2>1, <3>2
    <2> HIDE DEF d
    <2>3. \A u \in 1 .. n : DOMAIN cut[u] = {1} /\ (Takes(cut, u, 1, o, r) <=> u = d + 1)
      BY <1>3 DEF Takes, d
    <2>4. d + 1 \in DOMAIN cut /\ 1 \in DOMAIN cut[d + 1] /\ Takes(cut, d + 1, 1, o, r)
      BY <2>2, <2>3
    <2>5. \A u \in DOMAIN cut : \A l \in DOMAIN cut[u] :
             Takes(cut, u, l, o, r) => u = d + 1 /\ l = 1
      BY <2>3
    <2> HIDE DEF cut
    <2> QED
      BY <2>4, <2>5
  <1>6. \A other : other # o => Without(cut, other)
    BY <1>3 DEF Without
  <1> QED
    BY <1>1, <1>4, <1>5, <1>6

\* Tasks for one output behind tasks for others.
LEMMA ConcatCovers ==
    ASSUME NEW a \in Cuts, NEW b \in Cuts, NEW o, NEW rows \in Nat,
           \/ Once(a, o, rows) /\ Without(b, o)
           \/ Without(a, o) /\ Once(b, o, rows)
    PROVE  a \o b \in Cuts /\ Once(a \o b, o, rows)
  <1> DEFINE c == a \o b
  <1>1. /\ c \in Cuts /\ Len(c) = Len(a) + Len(b) /\ DOMAIN c = 1 .. Len(c)
        /\ Len(a) \in Nat /\ Len(b) \in Nat
        /\ DOMAIN a = 1 .. Len(a) /\ DOMAIN b = 1 .. Len(b)
        /\ \A i \in 1 .. Len(a) + Len(b) :
              c[i] = IF i <= Len(a) THEN a[i] ELSE b[i - Len(a)]
    BY ConcatProperties DEF Cuts
  <1> HIDE DEF c
  <1>2. \A i \in DOMAIN a : i \in DOMAIN c /\ c[i] = a[i]
    BY <1>1
  <1>3. \A i \in DOMAIN b : i + Len(a) \in DOMAIN c /\ c[i + Len(a)] = b[i]
    BY <1>1
  <1>4. \A i \in DOMAIN c : \/ i \in DOMAIN a /\ c[i] = a[i]
                            \/ i - Len(a) \in DOMAIN b /\ c[i] = b[i - Len(a)]
    BY <1>1
  <1>5. ASSUME Once(a, o, rows), Without(b, o), NEW r \in 0 .. rows - 1
        PROVE  \E t \in DOMAIN c : \E k \in DOMAIN c[t] :
                  /\ Takes(c, t, k, o, r)
                  /\ \A u \in DOMAIN c : \A l \in DOMAIN c[u] :
                        Takes(c, u, l, o, r) => u = t /\ l = k
    <2>1. PICK t \in DOMAIN a : \E k \in DOMAIN a[t] :
             /\ Takes(a, t, k, o, r)
             /\ \A u \in DOMAIN a : \A l \in DOMAIN a[u] :
                   Takes(a, u, l, o, r) => u = t /\ l = k
      BY <1>5 DEF Once
    <2>2. PICK k \in DOMAIN a[t] :
             /\ Takes(a, t, k, o, r)
             /\ \A u \in DOMAIN a : \A l \in DOMAIN a[u] :
                   Takes(a, u, l, o, r) => u = t /\ l = k
      BY <2>1
    <2>3. t \in DOMAIN c /\ k \in DOMAIN c[t] /\ Takes(c, t, k, o, r)
      BY <1>2, <2>2 DEF Takes
    <2>4. ASSUME NEW u \in DOMAIN c, NEW l \in DOMAIN c[u], Takes(c, u, l, o, r)
          PROVE  u = t /\ l = k
      <3>1. u \in DOMAIN a /\ c[u] = a[u]
        BY <1>4, <1>5, <2>4 DEF Without, Takes
      <3>2. Takes(a, u, l, o, r)
        BY <2>4, <3>1 DEF Takes
      <3> QED
        BY <2>2, <3>1, <3>2
    <2> QED
      BY <2>3, <2>4
  <1>6. ASSUME Without(a, o), Once(b, o, rows), NEW r \in 0 .. rows - 1
        PROVE  \E t \in DOMAIN c : \E k \in DOMAIN c[t] :
                  /\ Takes(c, t, k, o, r)
                  /\ \A u \in DOMAIN c : \A l \in DOMAIN c[u] :
                        Takes(c, u, l, o, r) => u = t /\ l = k
    <2>1. PICK t \in DOMAIN b : \E k \in DOMAIN b[t] :
             /\ Takes(b, t, k, o, r)
             /\ \A u \in DOMAIN b : \A l \in DOMAIN b[u] :
                   Takes(b, u, l, o, r) => u = t /\ l = k
      BY <1>6 DEF Once
    <2>2. PICK k \in DOMAIN b[t] :
             /\ Takes(b, t, k, o, r)
             /\ \A u \in DOMAIN b : \A l \in DOMAIN b[u] :
                   Takes(b, u, l, o, r) => u = t /\ l = k
      BY <2>1
    <2> DEFINE v == t + Len(a)
    <2>3. v \in DOMAIN c /\ k \in DOMAIN c[v] /\ Takes(c, v, k, o, r)
      BY <1>3, <2>2 DEF Takes
    <2>4. ASSUME NEW u \in DOMAIN c, NEW l \in DOMAIN c[u], Takes(c, u, l, o, r)
          PROVE  u = v /\ l = k
      <3>1. u - Len(a) \in DOMAIN b /\ c[u] = b[u - Len(a)]
        BY <1>4, <1>6, <2>4 DEF Without, Takes
      <3>2. Takes(b, u - Len(a), l, o, r)
        BY <2>4, <3>1 DEF Takes
      <3>3. u - Len(a) = t /\ l = k
        BY <2>2, <3>1, <3>2
      <3> QED
        BY <1>1, <3>3
    <2> QED
      BY <2>3, <2>4
  <1>7. Once(c, o, rows)
    BY <1>5, <1>6 DEF Once
  <1> QED
    BY <1>1, <1>7 DEF c

\* Tasks of other outputs take no row of this one.
LEMMA ConcatWithout ==
    ASSUME NEW a \in Cuts, NEW b \in Cuts, NEW o, Without(a, o), Without(b, o)
    PROVE  a \o b \in Cuts /\ Without(a \o b, o)
  <1>1. /\ a \o b \in Cuts /\ DOMAIN (a \o b) = 1 .. Len(a) + Len(b)
        /\ Len(a) \in Nat /\ Len(b) \in Nat
        /\ DOMAIN a = 1 .. Len(a) /\ DOMAIN b = 1 .. Len(b)
        /\ \A i \in 1 .. Len(a) + Len(b) :
              (a \o b)[i] = IF i <= Len(a) THEN a[i] ELSE b[i - Len(a)]
    BY ConcatProperties DEF Cuts
  <1>2. \A i \in 1 .. Len(a) + Len(b) : i \in DOMAIN a \/ i - Len(a) \in DOMAIN b
    BY <1>1
  <1> QED
    BY <1>1, <1>2 DEF Without


HasRow(s, o, r) == \E l \in DOMAIN s : s[l].output = o /\ r \in RowsOf(s[l])
Outputs(s) == {s[l].output : l \in DOMAIN s}
OnePieceEach(s) == \A l, m \in DOMAIN s : s[l].output = s[m].output => l = m

\* Pieces of different outputs in one task.
LEMMA JoinPieces ==
    ASSUME NEW a \in Seq(Pieces), NEW b \in Seq(Pieces),
           OnePieceEach(a), OnePieceEach(b), Outputs(a) \cap Outputs(b) = {}
    PROVE  /\ a \o b \in Seq(Pieces) /\ OnePieceEach(a \o b)
           /\ Outputs(a \o b) = Outputs(a) \cup Outputs(b)
           /\ \A o, r : HasRow(a \o b, o, r) <=> HasRow(a, o, r) \/ HasRow(b, o, r)
  <1> DEFINE c == a \o b
  <1>1. /\ c \in Seq(Pieces) /\ DOMAIN c = 1 .. Len(a) + Len(b)
        /\ Len(a) \in Nat /\ Len(b) \in Nat
        /\ DOMAIN a = 1 .. Len(a) /\ DOMAIN b = 1 .. Len(b)
        /\ \A i \in 1 .. Len(a) + Len(b) :
              c[i] = IF i <= Len(a) THEN a[i] ELSE b[i - Len(a)]
    BY ConcatProperties
  <1> HIDE DEF c
  <1>2. \A i \in DOMAIN a : i \in DOMAIN c /\ c[i] = a[i]
    BY <1>1
  <1>3. \A i \in DOMAIN b : i + Len(a) \in DOMAIN c /\ c[i + Len(a)] = b[i]
    BY <1>1
  <1>4. \A i \in DOMAIN c : \/ i \in DOMAIN a /\ c[i] = a[i]
                            \/ i - Len(a) \in DOMAIN b /\ c[i] = b[i - Len(a)]
    BY <1>1
  <1>5. OnePieceEach(c)
    <2> SUFFICES ASSUME NEW l \in DOMAIN c, NEW m \in DOMAIN c, c[l].output = c[m].output
                 PROVE  l = m
      BY DEF OnePieceEach
    <2>1. CASE l \in DOMAIN a /\ c[l] = a[l] /\ m \in DOMAIN a /\ c[m] = a[m]
      BY <2>1 DEF OnePieceEach
    <2>2. CASE /\ l - Len(a) \in DOMAIN b /\ c[l] = b[l - Len(a)]
               /\ m - Len(a) \in DOMAIN b /\ c[m] = b[m - Len(a)]
      <3>1. l - Len(a) = m - Len(a)
        BY <2>2 DEF OnePieceEach
      <3> QED
        BY <1>1, <3>1
    <2>3. CASE l \in DOMAIN a /\ c[l] = a[l] /\ m - Len(a) \in DOMAIN b /\ c[m] = b[m - Len(a)]
      BY <2>3 DEF Outputs
    <2>4. CASE m \in DOMAIN a /\ c[m] = a[m] /\ l - Len(a) \in DOMAIN b /\ c[l] = b[l - Len(a)]
      BY <2>4 DEF Outputs
    <2> QED
      BY <1>4, <2>1, <2>2, <2>3, <2>4
  <1>6. Outputs(c) = Outputs(a) \cup Outputs(b)
    <2>1. Outputs(c) \subseteq Outputs(a) \cup Outputs(b)
      BY <1>4 DEF Outputs
    <2>2. Outputs(a) \subseteq Outputs(c)
      BY <1>2 DEF Outputs
    <2>3. Outputs(b) \subseteq Outputs(c)
      BY <1>3 DEF Outputs
    <2> QED
      BY <2>1, <2>2, <2>3
  <1>7. ASSUME NEW o, NEW r
        PROVE  HasRow(c, o, r) <=> HasRow(a, o, r) \/ HasRow(b, o, r)
    <2>1. HasRow(c, o, r) => HasRow(a, o, r) \/ HasRow(b, o, r)
      BY <1>4 DEF HasRow
    <2>2. HasRow(a, o, r) => HasRow(c, o, r)
      BY <1>2 DEF HasRow
    <2>3. HasRow(b, o, r) => HasRow(c, o, r)
      BY <1>3 DEF HasRow
    <2> QED
      BY <2>1, <2>2, <2>3
  <1> QED
    BY <1>1, <1>5, <1>6, <1>7 DEF c

\* Tasks with at most one piece per output, where each row has one task.
LEMMA OneTaskEach ==
    ASSUME NEW cut \in Cuts, NEW o, NEW rows \in Nat, NEW at,
           \A t \in DOMAIN cut : OnePieceEach(cut[t]),
           \A r \in 0 .. rows - 1 :
              /\ at[r] \in DOMAIN cut
              /\ \A t \in DOMAIN cut : HasRow(cut[t], o, r) <=> t = at[r]
    PROVE  Once(cut, o, rows)
  <1> SUFFICES ASSUME NEW r \in 0 .. rows - 1
               PROVE  \E t \in DOMAIN cut : \E k \in DOMAIN cut[t] :
                         /\ Takes(cut, t, k, o, r)
                         /\ \A u \in DOMAIN cut : \A l \in DOMAIN cut[u] :
                               Takes(cut, u, l, o, r) => u = t /\ l = k
    BY DEF Once
  <1>1. PICK t \in DOMAIN cut : t = at[r] /\ HasRow(cut[t], o, r)
    OBVIOUS
  <1>2. PICK k \in DOMAIN cut[t] : Takes(cut, t, k, o, r)
    BY <1>1 DEF HasRow, Takes
  <1>3. ASSUME NEW u \in DOMAIN cut, NEW l \in DOMAIN cut[u], Takes(cut, u, l, o, r)
        PROVE  u = t /\ l = k
    <2>1. HasRow(cut[u], o, r)
      BY <1>3 DEF HasRow, Takes
    <2>2. u = t
      BY <1>1, <2>1
    <2>3. l = k
      BY <1>2, <1>3, <2>2 DEF OnePieceEach, Takes
    <2> QED
      BY <2>2, <2>3
  <1> QED
    BY <1>2, <1>3

\* The part of a chunk on one of the outputs: none, or one piece with the rows
\* of the output that are in the chunk.
LEMMA PortionIs ==
    ASSUME NEW o \in Nat, NEW start \in Nat, NEW end \in Nat, NEW lo \in Nat, NEW hi \in Nat,
           start < end, lo < hi
    PROVE  /\ Portion(o, start, end, lo, hi) \in Seq(Pieces)
           /\ OnePieceEach(Portion(o, start, end, lo, hi))
           /\ Outputs(Portion(o, start, end, lo, hi)) \subseteq {o}
           /\ \A r \in 0 .. hi - lo - 1 :
                 HasRow(Portion(o, start, end, lo, hi), o, r) <=> lo + r \in start .. end - 1
           /\ \A other, r : other # o => ~HasRow(Portion(o, start, end, lo, hi), other, r)
  <1> DEFINE portion == Portion(o, start, end, lo, hi)
             p == Piece(o, Greatest(start, lo) - lo, Least(end, hi) - lo)
  <1>1. CASE start < hi /\ end > lo
    <2>1. portion = <<p>>
      BY <1>1 DEF Portion
    <2>2. p \in Pieces /\ p.output = o /\ p.first = Greatest(start, lo) - lo
          /\ p.end = Least(end, hi) - lo /\ p.first <= p.end
      BY <1>1 DEF Piece, Pieces, Greatest, Least
    <2>3. RowsOf(p) = p.first .. p.end - 1
      BY <2>2, RowsOfPiece
    <2> HIDE DEF p, portion
    <2>4. \A r \in 0 .. hi - lo - 1 : r \in RowsOf(p) <=> lo + r \in start .. end - 1
      BY <2>2, <2>3 DEF Greatest, Least
    <2>5. portion \in Seq(Pieces) /\ DOMAIN portion = {1} /\ portion[1] = p
      BY <2>1, <2>2
    <2> QED
      BY <2>2, <2>4, <2>5 DEF portion, OnePieceEach, Outputs, HasRow
  <1>2. CASE ~(start < hi /\ end > lo)
    <2>1. portion = << >>
      BY <1>2 DEF Portion
    <2>2. \A r \in 0 .. hi - lo - 1 : ~(lo + r \in start .. end - 1)
      BY <1>2
    <2> HIDE DEF portion
    <2>3. portion \in Seq(Pieces) /\ DOMAIN portion = {}
      BY <2>1
    <2> QED
      BY <2>2, <2>3 DEF portion, OnePieceEach, Outputs, HasRow
  <1> QED
    BY <1>1, <1>2

\* Ranges of three outputs one behind the other take each row of each once.
LEMMA FusedCoversOnce ==
    ASSUME NEW q \in Nat \ {0}, NEW k \in Nat \ {0}, NEW v \in Nat \ {0},
           NEW size \in Nat \ {0}
    PROVE  /\ CutFused(q, k, v, size) \in Cuts
           /\ Once(CutFused(q, k, v, size), 1, q)
           /\ Once(CutFused(q, k, v, size), 2, k)
           /\ Once(CutFused(q, k, v, size), 3, v)
  <1> DEFINE total == q + k + v
             n == (total + size - 1) \div size
             start(i) == (i - 1) * size
             end(i) == Least(start(i) + size, total)
             a(i) == Portion(1, start(i), end(i), 0, q)
             b(i) == Portion(2, start(i), end(i), q, q + k)
             c(i) == Portion(3, start(i), end(i), q + k, total)
             cut == [i \in 1 .. n |-> a(i) \o b(i) \o c(i)]
             at(x) == (x \div size) + 1
  <1>1. CutFused(q, k, v, size) = cut
    BY DEF CutFused
  <1>2. n \in Nat /\ total \in Nat
    BY Ceiling
  <1> HIDE DEF n
  <1>3. ASSUME NEW i \in 1 .. n
        PROVE  /\ start(i) \in Nat /\ end(i) \in Nat /\ start(i) < end(i)
               /\ \A x \in 0 .. total - 1 : x \in start(i) .. end(i) - 1 <=> i = at(x)
    <2>1. i - 1 \in Nat /\ (i - 1) + 1 <= n /\ (i - 1) + 1 = i
      BY <1>2
    <2>2. start(i) < total /\ start(i) \in Nat
      BY <2>1, Ceiling DEF n
    <2>3. ((i - 1) + 1) * size = start(i) + size
      BY <2>1
    <2>4. ASSUME NEW x \in 0 .. total - 1
          PROVE  x \in start(i) .. end(i) - 1 <=> i = at(x)
      <3>1. x \in start(i) .. (start(i) + size) - 1 <=> i - 1 = x \div size
        BY <2>1, <2>3, PieceOf
      <3>2. x \div size \in Nat
        OBVIOUS
      <3> HIDE DEF start
      <3>3. x \in start(i) .. end(i) - 1 <=> x \in start(i) .. (start(i) + size) - 1
        BY <2>2 DEF Least
      <3> QED
        BY <2>1, <3>1, <3>2, <3>3
    <2> HIDE DEF start
    <2> QED
      BY <2>2, <2>4 DEF Least
  <1>4. ASSUME NEW x \in 0 .. total - 1
        PROVE  at(x) \in 1 .. n
    <2>1. x \div size \in Nat
      OBVIOUS
    <2>2. x \in (x \div size) * size .. ((x \div size) + 1) * size - 1
      BY <2>1, PieceOf
    <2>3. (x \div size) * size < total
      BY <2>1, <2>2
    <2>4. (x \div size) + 1 <= n
      BY <2>1, <2>3, Ceiling DEF n
    <2> QED
      BY <1>2, <2>1, <2>4
  <1> HIDE DEF start, end, at
  <1>5. ASSUME NEW i \in 1 .. n
        PROVE  /\ cut[i] \in Seq(Pieces) /\ OnePieceEach(cut[i])
               /\ \A r \in 0 .. q - 1 : HasRow(cut[i], 1, r) <=> i = at(r)
               /\ \A r \in 0 .. k - 1 : HasRow(cut[i], 2, r) <=> i = at(q + r)
               /\ \A r \in 0 .. v - 1 : HasRow(cut[i], 3, r) <=> i = at(q + k + r)
    <2>1. /\ start(i) \in Nat /\ end(i) \in Nat /\ start(i) < end(i)
          /\ \A x \in 0 .. total - 1 : x \in start(i) .. end(i) - 1 <=> i = at(x)
      BY <1>3
    <2>2. /\ 0 < q /\ q < q + k /\ q + k < total /\ q + k \in Nat /\ total \in Nat
          /\ q \in Nat /\ 0 \in Nat /\ 1 \in Nat /\ 2 \in Nat /\ 3 \in Nat
      OBVIOUS
    <2> HIDE DEF total
    <2>3. /\ a(i) \in Seq(Pieces) /\ OnePieceEach(a(i)) /\ Outputs(a(i)) \subseteq {1}
          /\ \A r \in 0 .. q - 0 - 1 :
                HasRow(a(i), 1, r) <=> 0 + r \in start(i) .. end(i) - 1
          /\ \A other, r : other # 1 => ~HasRow(a(i), other, r)
      BY <2>1, <2>2, PortionIs, Zenon
    <2>4. /\ b(i) \in Seq(Pieces) /\ OnePieceEach(b(i)) /\ Outputs(b(i)) \subseteq {2}
          /\ \A r \in 0 .. (q + k) - q - 1 :
                HasRow(b(i), 2, r) <=> q + r \in start(i) .. end(i) - 1
          /\ \A other, r : other # 2 => ~HasRow(b(i), other, r)
      BY <2>1, <2>2, PortionIs, Zenon
    <2>5. /\ c(i) \in Seq(Pieces) /\ OnePieceEach(c(i)) /\ Outputs(c(i)) \subseteq {3}
          /\ \A r \in 0 .. total - (q + k) - 1 :
                HasRow(c(i), 3, r) <=> (q + k) + r \in start(i) .. end(i) - 1
          /\ \A other, r : other # 3 => ~HasRow(c(i), other, r)
      <3> DEFINE m == q + k
      <3>1. m \in Nat /\ m < total /\ 3 \in Nat /\ total \in Nat
        BY <2>2
      <3> HIDE DEF m
      <3>2. /\ Portion(3, start(i), end(i), m, total) \in Seq(Pieces)
            /\ OnePieceEach(Portion(3, start(i), end(i), m, total))
            /\ Outputs(Portion(3, start(i), end(i), m, total)) \subseteq {3}
            /\ \A r \in 0 .. total - m - 1 :
                  HasRow(Portion(3, start(i), end(i), m, total), 3, r)
                     <=> m + r \in start(i) .. end(i) - 1
            /\ \A other, r : other # 3 => ~HasRow(Portion(3, start(i), end(i), m, total), other, r)
        BY <2>1, <3>1, PortionIs, Zenon
      <3> QED
        BY <3>2 DEF m
    <2> HIDE DEF a, b, c
    <2> DEFINE d == a(i) \o b(i)
    <2>6. /\ d \in Seq(Pieces) /\ OnePieceEach(d) /\ Outputs(d) \subseteq {1, 2}
          /\ \A o, r : HasRow(d, o, r) <=> HasRow(a(i), o, r) \/ HasRow(b(i), o, r)
      <3>1. Outputs(a(i)) \cap Outputs(b(i)) = {}
        BY <2>3, <2>4
      <3>2. Outputs(d) = Outputs(a(i)) \cup Outputs(b(i)) /\ d \in Seq(Pieces) /\ OnePieceEach(d)
            /\ \A o, r : HasRow(d, o, r) <=> HasRow(a(i), o, r) \/ HasRow(b(i), o, r)
        BY <2>3, <2>4, <3>1, JoinPieces
      <3> QED
        BY <2>3, <2>4, <3>2
    <2>7. cut[i] = d \o c(i)
      OBVIOUS
    <2> HIDE DEF d, cut
    <2>8. /\ cut[i] \in Seq(Pieces) /\ OnePieceEach(cut[i])
          /\ \A o, r : HasRow(cut[i], o, r) <=> HasRow(d, o, r) \/ HasRow(c(i), o, r)
      <3>1. Outputs(d) \cap Outputs(c(i)) = {}
        BY <2>5, <2>6
      <3> QED
        BY <2>5, <2>6, <2>7, <3>1, JoinPieces
    <2>9. /\ \A r : HasRow(cut[i], 1, r) <=> HasRow(a(i), 1, r)
          /\ \A r : HasRow(cut[i], 2, r) <=> HasRow(b(i), 2, r)
          /\ \A r : HasRow(cut[i], 3, r) <=> HasRow(c(i), 3, r)
      <3>1. 1 # 2 /\ 1 # 3 /\ 2 # 3
        OBVIOUS
      <3> QED
        BY <2>3, <2>4, <2>5, <2>6, <2>8, <3>1, Zenon
    <2>10. \A r \in 0 .. q - 1 : HasRow(cut[i], 1, r) <=> i = at(r)
      <3>1. \A r \in 0 .. q - 1 : r \in 0 .. q - 0 - 1 /\ 0 + r = r /\ r \in 0 .. total - 1
        BY DEF total
      <3> QED
        BY <2>1, <2>3, <2>9, <3>1
    <2>11. \A r \in 0 .. k - 1 : HasRow(cut[i], 2, r) <=> i = at(q + r)
      <3>1. \A r \in 0 .. k - 1 : r \in 0 .. (q + k) - q - 1 /\ q + r \in 0 .. total - 1
        BY DEF total
      <3> QED
        BY <2>1, <2>4, <2>9, <3>1
    <2>12. \A r \in 0 .. v - 1 : HasRow(cut[i], 3, r) <=> i = at(q + k + r)
      <3>1. \A r \in 0 .. v - 1 :
               r \in 0 .. total - (q + k) - 1 /\ (q + k) + r \in 0 .. total - 1
        BY DEF total
      <3> QED
        BY <2>1, <2>5, <2>9, <3>1
    <2> QED
      BY <2>8, <2>10, <2>11, <2>12
  <1>6. cut \in Cuts /\ DOMAIN cut = 1 .. n
    <2>1. cut \in [1 .. n -> Seq(Pieces)]
      BY <1>5
    <2> QED
      BY <1>2, <2>1, SeqDef DEF Cuts
  <1> HIDE DEF cut
  <1>7. Once(cut, 1, q)
    <2> DEFINE where == [r \in 0 .. q - 1 |-> at(r)]
    <2>1. \A r \in 0 .. q - 1 : r \in 0 .. total - 1
      OBVIOUS
    <2> HIDE DEF total
    <2>2. \A r \in 0 .. q - 1 :
             /\ where[r] \in DOMAIN cut
             /\ \A t \in DOMAIN cut : HasRow(cut[t], 1, r) <=> t = where[r]
      BY <1>4, <1>5, <1>6, <2>1
    <2> HIDE DEF where
    <2>3. \A t \in DOMAIN cut : OnePieceEach(cut[t])
      BY <1>5, <1>6
    <2> QED
      BY <1>6, <2>2, <2>3, OneTaskEach
  <1>8. Once(cut, 2, k)
    <2> DEFINE where == [r \in 0 .. k - 1 |-> at(q + r)]
    <2>1. \A r \in 0 .. k - 1 : q + r \in 0 .. total - 1
      OBVIOUS
    <2> HIDE DEF total
    <2>2. \A r \in 0 .. k - 1 :
             /\ where[r] \in DOMAIN cut
             /\ \A t \in DOMAIN cut : HasRow(cut[t], 2, r) <=> t = where[r]
      BY <1>4, <1>5, <1>6, <2>1
    <2> HIDE DEF where
    <2>3. \A t \in DOMAIN cut : OnePieceEach(cut[t])
      BY <1>5, <1>6
    <2> QED
      BY <1>6, <2>2, <2>3, OneTaskEach
  <1>9. Once(cut, 3, v)
    <2> DEFINE where == [r \in 0 .. v - 1 |-> at(q + k + r)]
    <2>1. \A r \in 0 .. v - 1 : q + k + r \in 0 .. total - 1
      OBVIOUS
    <2> HIDE DEF total
    <2>2. \A r \in 0 .. v - 1 :
             /\ where[r] \in DOMAIN cut
             /\ \A t \in DOMAIN cut : HasRow(cut[t], 3, r) <=> t = where[r]
      BY <1>4, <1>5, <1>6, <2>1
    <2> HIDE DEF where
    <2>3. \A t \in DOMAIN cut : OnePieceEach(cut[t])
      BY <1>5, <1>6
    <2> QED
      BY <1>6, <2>2, <2>3, OneTaskEach
  <1> QED
    BY <1>1, <1>6, <1>7, <1>8, <1>9

\* The size of a chunk is never nothing.
LEMMA ChunkRowsPositive ==
    ASSUME NEW rows \in Nat, NEW threads \in Nat \ {0}
    PROVE  ChunkRows(rows, threads) \in Nat \ {0}
  <1>1. 2 * threads \in Nat \ {0}
    OBVIOUS
  <1> DEFINE d == rows \div (2 * threads)
  <1>2. d \in Nat
    BY <1>1
  <1> HIDE DEF d
  <1>3. Least(Greatest(d, MinChunk), MaxChunk) \in Nat \ {0}
    BY <1>2, WeightsAssumption DEF Least, Greatest
  <1> QED
    BY <1>3 DEF ChunkRows, d

(***************************************************************************)
(* The inductive invariant of the products.                                *)
(***************************************************************************)

TasksTyped ==
    /\ tasks \in Cuts
    /\ DOMAIN done = DOMAIN tasks
    /\ \A t \in DOMAIN tasks : done[t] \in 0 .. Len(tasks[t])

\* The operands of an output are views of the same shape and type.
OperandsMatch ==
    \A o \in DOMAIN operands :
       /\ 1 \in DOMAIN operands[o]
       /\ \A w \in DOMAIN operands[o] :
             /\ operands[o][w] \in Views
             /\ Matrix(operands[o][w]).dims = Matrix(operands[o][1]).dims
             /\ Matrix(operands[o][w]).type = Matrix(operands[o][1]).type

\* The tasks are the rows of every output, each row once.
CutIntoRows == \A o \in DOMAIN operands : Once(tasks, o, Rows(operands[o][1]))

Finished(o, r) ==
    \E t \in DOMAIN tasks : \E k \in 1 .. done[t] : Takes(tasks, t, k, o, r)

\* A cell holds one result if the piece with its row is finished, and nothing if not.
Cells ==
    /\ DOMAIN out = DOMAIN operands
    /\ \A o \in DOMAIN operands :
          /\ DOMAIN out[o] = 0 .. Rows(operands[o][1]) - 1
          /\ \A r \in DOMAIN out[o] :
                out[o][r] = IF Finished(o, r) THEN <<Read(operands[o], r)>> ELSE << >>

WeightsInv ==
    /\ FileInv
    /\ operands # << >> => gpc = "open"
    /\ TasksTyped /\ OperandsMatch /\ CutIntoRows /\ Cells

LEMMA WeightsInvInit == WeightsInit => WeightsInv
  <1> SUFFICES ASSUME WeightsInit PROVE WeightsInv
    OBVIOUS
  <1>1. FileInv
    BY FileInvInit DEF WeightsInit
  <1>2. operands = << >> /\ tasks = << >> /\ done = << >> /\ out = << >>
    BY DEF WeightsInit
  <1> QED
    BY <1>1, <1>2 DEF WeightsInv, TasksTyped, OperandsMatch, CutIntoRows, Cells, Cuts

\* What does not touch the file leaves its views as they are.
LEMMA SameViews ==
    ASSUME UNCHANGED ggufVars
    PROVE  /\ gpc' = gpc /\ tensors' = tensors
           /\ Views' = Views
           /\ \A v : Matrix(v)' = Matrix(v) /\ Rows(v)' = Rows(v)
           /\ \A views, r : Read(views, r)' = Read(views, r)
  <1>1. gpc' = gpc /\ tensors' = tensors /\ count' = count
    BY DEF ggufVars, file
  <1>2. \A v : Matrix(v)' = Matrix(v)
    BY <1>1 DEF Matrix
  <1> QED
    BY <1>1, <1>2 DEF Views, Rows, Read

\* A product of views of one shape that is cut into its rows.
LEMMA RunKeeps ==
    ASSUME WeightsInv, gpc = "open", NEW views, NEW cut, Run(views, cut), cut \in Cuts,
           \A o \in DOMAIN views :
              /\ 1 \in DOMAIN views[o]
              /\ \A w \in DOMAIN views[o] :
                    /\ views[o][w] \in Views
                    /\ Matrix(views[o][w]).dims = Matrix(views[o][1]).dims
                    /\ Matrix(views[o][w]).type = Matrix(views[o][1]).type
              /\ Once(cut, o, Rows(views[o][1]))
    PROVE  WeightsInv'
  <1>1. /\ operands' = views /\ tasks' = cut
        /\ done' = [t \in DOMAIN cut |-> 0]
        /\ out' = [o \in DOMAIN views |-> [r \in 0 .. Rows(views[o][1]) - 1 |-> << >>]]
        /\ UNCHANGED ggufVars
    BY DEF Run
  <1>2. FileInv' /\ gpc' = "open"
    BY <1>1, FileInvStep, SameViews DEF WeightsInv
  <1>3. TasksTyped'
    <2>1. \A t \in DOMAIN cut : Len(cut[t]) \in Nat
      BY DEF Cuts
    <2>2. \A t \in DOMAIN cut : done'[t] \in 0 .. Len(cut[t])
      BY <1>1, <2>1
    <2> QED
      BY <1>1, <2>2 DEF TasksTyped
  <1>4. OperandsMatch'
    <2>1. /\ Views' = Views
          /\ \A v : Matrix(v)' = Matrix(v)
      BY <1>1, SameViews
    <2>2. tensors' = tensors
      BY <1>1, SameViews
    <2> SUFFICES ASSUME NEW o \in DOMAIN views
                 PROVE  /\ 1 \in DOMAIN views[o]
                        /\ \A w \in DOMAIN views[o] :
                              /\ views[o][w] \in Views'
                              /\ Matrix(views[o][w])'.dims = Matrix(views[o][1])'.dims
                              /\ Matrix(views[o][w])'.type = Matrix(views[o][1])'.type
      BY <1>1, <2>1, <2>2 DEF OperandsMatch, Matrix
    <2> QED
      BY <2>1, <2>2 DEF Matrix
  <1>5. \A o \in DOMAIN views : Rows(operands[o][1])' = Rows(views[o][1])
    BY <1>1, SameViews DEF Rows, Matrix
  <1>6. CutIntoRows'
    BY <1>1, <1>5 DEF CutIntoRows, Once, Takes, RowsOf
  <1>7. \A o, r : ~Finished(o, r)'
    BY <1>1 DEF Finished
  <1>8. Cells'
    BY <1>1, <1>5, <1>7 DEF Cells
  <1> QED
    BY <1>2, <1>3, <1>4, <1>6, <1>8 DEF WeightsInv

\* A product starts: every kind of cut covers its outputs.
LEMMA MultiplyKeeps ==
    ASSUME WeightsInv, Multiply
    PROVE  WeightsInv'
  <1>1. FileInv /\ gpc = "open"
    BY DEF WeightsInv, Multiply
  <1>2. PICK threads \in ThreadCounts :
           \/ \E w \in Views : Matmul(w, threads)
           \/ \E q, k, v \in Views : Projections(q, k, v, threads)
           \/ \E gate, up \in Views : GateUp(gate, up, threads)
    BY DEF Multiply
  <1>3. threads \in Nat \ {0}
    BY WeightsAssumption
  <1>4. \A v \in Views : Rows(v) \in Nat \ {0}
    BY <1>1, ViewRows
  <1>5. \A v \in Views : ChunkRows(Rows(v), threads) \in Nat \ {0}
    BY <1>3, <1>4, ChunkRowsPositive
  <1>6. ASSUME NEW w \in Views, Matmul(w, threads)
        PROVE  WeightsInv'
    <2>1. PICK size \in {ChunkRows(Rows(w), threads)} \cup Tiles :
             Run(<< <<w>> >>, CutOutput(1, Rows(w), size))
      BY <1>6 DEF Matmul
    <2>2. size \in Nat \ {0}
      BY <1>5, <2>1, WeightsAssumption
    <2> DEFINE views == << <<w>> >>
               cut == CutOutput(1, Rows(w), size)
    <2>3. cut \in Cuts /\ Once(cut, 1, Rows(w))
      BY <1>4, <2>2, CutCoversOnce
    <2>4. DOMAIN views = {1} /\ views[1] = <<w>> /\ DOMAIN <<w>> = {1} /\ views[1][1] = w
      OBVIOUS
    <2> HIDE DEF cut, views
    <2>5. Run(views, cut)
      BY <2>1 DEF views, cut
    <2> QED
      BY <1>1, <2>3, <2>4, <2>5, RunKeeps
  <1>7. ASSUME NEW q \in Views, NEW k \in Views, NEW v \in Views, Projections(q, k, v, threads)
        PROVE  WeightsInv'
    <2> DEFINE views == << <<q>>, <<k>>, <<v>> >>
               fused == CutFused(Rows(q), Rows(k), Rows(v),
                                 ChunkRows(Rows(q) + Rows(k) + Rows(v), threads))
               a == CutOutput(1, Rows(q), ChunkRows(Rows(q), threads))
               b == CutOutput(2, Rows(k), ChunkRows(Rows(k), threads))
               c == CutOutput(3, Rows(v), ChunkRows(Rows(v), threads))
    <2>1. /\ DOMAIN views = {1, 2, 3}
          /\ \A o \in {1, 2, 3} : DOMAIN views[o] = {1}
          /\ views[1][1] = q /\ views[2][1] = k /\ views[3][1] = v
      OBVIOUS
    <2>2. \E cut \in {fused, a \o b \o c} : Run(views, cut)
      BY <1>7 DEF Projections
    <2>3. /\ fused \in Cuts
          /\ Once(fused, 1, Rows(q)) /\ Once(fused, 2, Rows(k)) /\ Once(fused, 3, Rows(v))
      <3>1. ChunkRows(Rows(q) + Rows(k) + Rows(v), threads) \in Nat \ {0}
        BY <1>3, <1>4, ChunkRowsPositive
      <3> QED
        BY <1>4, <3>1, FusedCoversOnce
    <2>4. /\ a \in Cuts /\ Once(a, 1, Rows(q)) /\ Without(a, 2) /\ Without(a, 3)
          /\ b \in Cuts /\ Once(b, 2, Rows(k)) /\ Without(b, 1) /\ Without(b, 3)
          /\ c \in Cuts /\ Once(c, 3, Rows(v)) /\ Without(c, 1) /\ Without(c, 2)
      BY <1>4, <1>5, CutCoversOnce
    <2> HIDE DEF views, fused, a, b, c
    <2>5. Rows(q) \in Nat /\ Rows(k) \in Nat /\ Rows(v) \in Nat
      BY <1>4
    <2>6. /\ a \o b \in Cuts /\ Once(a \o b, 1, Rows(q)) /\ Once(a \o b, 2, Rows(k))
          /\ Without(a \o b, 3)
      BY <2>4, <2>5, ConcatCovers, ConcatWithout
    <2> DEFINE d == a \o b
    <2> HIDE DEF d
    <2>7. d \in Cuts /\ Once(d, 1, Rows(q)) /\ Once(d, 2, Rows(k)) /\ Without(d, 3)
      BY <2>6 DEF d
    <2>8. /\ d \o c \in Cuts /\ Once(d \o c, 1, Rows(q)) /\ Once(d \o c, 2, Rows(k))
          /\ Once(d \o c, 3, Rows(v))
      BY <2>4, <2>5, <2>7, ConcatCovers
    <2>9. PICK cut \in Cuts :
             /\ Run(views, cut)
             /\ Once(cut, 1, Rows(q)) /\ Once(cut, 2, Rows(k)) /\ Once(cut, 3, Rows(v))
      BY <2>2, <2>3, <2>8 DEF d
    <2>10. \A o \in DOMAIN views :
             /\ 1 \in DOMAIN views[o]
             /\ \A w \in DOMAIN views[o] :
                   /\ views[o][w] \in Views
                   /\ Matrix(views[o][w]).dims = Matrix(views[o][1]).dims
                   /\ Matrix(views[o][w]).type = Matrix(views[o][1]).type
             /\ Once(cut, o, Rows(views[o][1]))
      BY <2>1, <2>9
    <2> QED
      BY <1>1, <2>9, <2>10, RunKeeps
  <1>8. ASSUME NEW gate \in Views, NEW up \in Views, GateUp(gate, up, threads)
        PROVE  WeightsInv'
    <2> DEFINE views == << <<gate, up>> >>
               cut == CutOutput(1, Rows(gate), ChunkRows(Rows(gate), threads))
    <2>1. cut \in Cuts /\ Once(cut, 1, Rows(gate))
      BY <1>4, <1>5, CutCoversOnce
    <2>2. /\ DOMAIN views = {1} /\ DOMAIN views[1] = {1, 2}
          /\ views[1][1] = gate /\ views[1][2] = up
      OBVIOUS
    <2>3. Run(views, cut) /\ Matrix(up).dims = Matrix(gate).dims
          /\ Matrix(up).type = Matrix(gate).type
      BY <1>8 DEF GateUp
    <2> HIDE DEF views, cut
    <2> QED
      BY <1>1, <2>1, <2>2, <2>3, RunKeeps
  <1> QED
    BY <1>2, <1>6, <1>7, <1>8

\* A piece that is finished now was not before, and its rows are in no other.
LEMMA ComputeKeeps ==
    ASSUME WeightsInv, NEW t \in DOMAIN tasks, Compute(t)
    PROVE  WeightsInv'
  <1> DEFINE k == done[t] + 1
             piece == tasks[t][k]
  <1>1. /\ done[t] < Len(tasks[t])
        /\ out' = [out EXCEPT ![piece.output] =
                     [r \in DOMAIN @ |->
                        IF r \in RowsOf(piece)
                          THEN Append(@[r], Read(operands[piece.output], r))
                          ELSE @[r]]]
        /\ done' = [done EXCEPT ![t] = @ + 1]
        /\ UNCHANGED ggufVars /\ operands' = operands /\ tasks' = tasks
    BY DEF Compute
  <1>2. /\ done[t] \in Nat /\ tasks \in Cuts /\ tasks[t] \in Seq(Pieces)
        /\ DOMAIN done = DOMAIN tasks
        /\ \A u \in DOMAIN tasks : done[u] \in 0 .. Len(tasks[u]) /\ Len(tasks[u]) \in Nat
    <2>1. \A u \in DOMAIN tasks : tasks[u] \in Seq(Pieces)
      BY DEF WeightsInv, TasksTyped, Cuts
    <2>2. \A u \in DOMAIN tasks : Len(tasks[u]) \in Nat
      BY <2>1
    <2> QED
      BY <2>1, <2>2 DEF WeightsInv, TasksTyped
  <1>3. k \in DOMAIN tasks[t] /\ k \in Nat
    BY <1>1, <1>2
  <1>4. FileInv' /\ gpc' = gpc
    BY <1>1, FileInvStep, SameViews DEF WeightsInv
  <1>5. TasksTyped'
    BY <1>1, <1>2 DEF TasksTyped
  <1>6. \A o : Rows(operands[o][1])' = Rows(operands[o][1])
    BY <1>1, SameViews DEF Rows, Matrix
  <1>7. OperandsMatch'
    <2>1. tensors' = tensors /\ Views' = Views
      BY <1>1, SameViews
    <2> QED
      BY <1>1, <2>1 DEF OperandsMatch, WeightsInv, Matrix
  <1>8. CutIntoRows'
    BY <1>1, <1>6 DEF CutIntoRows, WeightsInv, Once, Takes, RowsOf
  <1> HIDE DEF piece, k
  <1>9. \A o, r : Finished(o, r)' <=> Finished(o, r) \/ Takes(tasks, t, k, o, r)
    <2>1. \A u \in DOMAIN tasks : done'[u] = IF u = t THEN k ELSE done[u]
      BY <1>1, <1>2 DEF k
    <2>2. \A l : l \in 1 .. k <=> l \in 1 .. done[t] \/ l = k
      BY <1>2 DEF k
    <2>3. \A o, r : Finished(o, r)' <=>
             \E u \in DOMAIN tasks : \E l \in 1 .. done'[u] : Takes(tasks, u, l, o, r)
      BY <1>1 DEF Finished, Takes, RowsOf
    <2> QED
      BY <2>1, <2>2, <2>3 DEF Finished
  <1>10. ASSUME NEW o \in DOMAIN operands, NEW r \in 0 .. Rows(operands[o][1]) - 1,
                Takes(tasks, t, k, o, r)
         PROVE  ~Finished(o, r)
    <2>1. PICK u \in DOMAIN tasks : \E l \in DOMAIN tasks[u] :
             \A w \in DOMAIN tasks : \A m \in DOMAIN tasks[w] :
                Takes(tasks, w, m, o, r) => w = u /\ m = l
      BY DEF WeightsInv, CutIntoRows, Once
    <2>2. PICK l \in DOMAIN tasks[u] :
             \A w \in DOMAIN tasks : \A m \in DOMAIN tasks[w] :
                Takes(tasks, w, m, o, r) => w = u /\ m = l
      BY <2>1
    <2>3. u = t /\ l = k
      BY <1>3, <1>10, <2>2
    <2>4. ASSUME NEW w \in DOMAIN tasks, NEW m \in 1 .. done[w], Takes(tasks, w, m, o, r)
          PROVE  FALSE
      <3>1. m \in DOMAIN tasks[w]
        <4>1. tasks[w] \in Seq(Pieces)
          BY <1>2 DEF Cuts
        <4>2. m \in 1 .. Len(tasks[w])
          BY <1>2
        <4> QED
          BY <4>1, <4>2
      <3>2. w = t /\ m = k
        BY <2>2, <2>3, <2>4, <3>1
      <3> QED
        BY <1>2, <3>2 DEF k
    <2> QED
      BY <2>4 DEF Finished
  <1>11. Cells'
    <2>1. DOMAIN out' = DOMAIN operands
      BY <1>1 DEF WeightsInv, Cells
    <2>2. ASSUME NEW o \in DOMAIN operands
          PROVE  /\ DOMAIN out'[o] = 0 .. Rows(operands[o][1]) - 1
                 /\ \A r \in DOMAIN out'[o] :
                       out'[o][r] = IF Finished(o, r)' THEN <<Read(operands[o], r)>> ELSE << >>
      <3>1. /\ o \in DOMAIN out /\ DOMAIN out[o] = 0 .. Rows(operands[o][1]) - 1
            /\ \A r \in DOMAIN out[o] :
                  out[o][r] = IF Finished(o, r) THEN <<Read(operands[o], r)>> ELSE << >>
        BY DEF WeightsInv, Cells
      <3>2. CASE o = piece.output
        <4>1. out'[o] = [r \in DOMAIN out[o] |->
                           IF r \in RowsOf(piece)
                             THEN Append(out[o][r], Read(operands[o], r))
                             ELSE out[o][r]]
          BY <1>1, <3>1, <3>2
        <4>2. ASSUME NEW r \in DOMAIN out[o]
              PROVE  out'[o][r] = IF Finished(o, r)' THEN <<Read(operands[o], r)>> ELSE << >>
          <5>1. r \in RowsOf(piece) <=> Takes(tasks, t, k, o, r)
            BY <3>2 DEF Takes, piece
          <5>2. CASE r \in RowsOf(piece)
            <6>1. ~Finished(o, r) /\ Finished(o, r)'
              BY <1>9, <1>10, <3>1, <5>1, <5>2
            <6>2. out[o][r] = << >> /\ out'[o][r] = Append(out[o][r], Read(operands[o], r))
              BY <3>1, <4>1, <5>2, <6>1
            <6> QED
              BY <6>1, <6>2
          <5>3. CASE r \notin RowsOf(piece)
            <6>1. Finished(o, r)' <=> Finished(o, r)
              BY <1>9, <5>1, <5>3
            <6> QED
              BY <3>1, <4>1, <5>3, <6>1
          <5> QED
            BY <5>2, <5>3
        <4> QED
          BY <3>1, <4>1, <4>2
      <3>3. CASE o # piece.output
        <4>1. out'[o] = out[o]
          BY <1>1, <3>1, <3>3
        <4>2. \A r : Finished(o, r)' <=> Finished(o, r)
          BY <1>9, <3>3 DEF Takes, piece
        <4> QED
          BY <3>1, <4>1, <4>2
      <3> QED
        BY <3>2, <3>3
    <2>3. ASSUME NEW o, NEW r
          PROVE  Read(operands[o], r)' = Read(operands[o], r)
      <3> DEFINE cell(i) ==
                   LET first == Matrix(operands[o][i]).offset
                                  + r * RowBytes(Matrix(operands[o][1]))
                   IN <<first, first + RowBytes(Matrix(operands[o][1]))>>
      <3>1. tensors' = tensors
        BY <1>1, SameViews
      <3>2. \A i : Matrix(operands[o][i])' = Matrix(operands[o][i])
        BY <1>1, <3>1 DEF Matrix
      <3>3. RowBytes(Matrix(operands[o][1]))' = RowBytes(Matrix(operands[o][1]))
        BY <3>2 DEF RowBytes
      <3>4. \A i : cell(i)' = cell(i)
        BY <3>2, <3>3
      <3>5. /\ Read(operands[o], r) = [i \in DOMAIN operands[o] |-> cell(i)]
            /\ Read(operands[o], r)' = [i \in DOMAIN operands[o] |-> cell(i)']
        BY <1>1 DEF Read
      <3> HIDE DEF cell
      <3> QED
        BY <3>4, <3>5
    <2> SUFFICES ASSUME NEW o \in DOMAIN operands
                 PROVE  /\ DOMAIN out'[o] = 0 .. Rows(operands[o][1])' - 1
                        /\ \A r \in DOMAIN out'[o] :
                              out'[o][r] = IF Finished(o, r)'
                                             THEN <<Read(operands[o], r)'>> ELSE << >>
      BY <1>1, <2>1 DEF Cells
    <2> QED
      BY <1>6, <2>2, <2>3
  <1> QED
    BY <1>1, <1>4, <1>5, <1>7, <1>8, <1>11 DEF WeightsInv

\* Each action keeps the invariant.
LEMMA WeightsInvStep ==
    ASSUME WeightsInv, [WeightsNext]_<<ggufVars, weightsVars>>
    PROVE  WeightsInv'
  <1>1. CASE UNCHANGED <<ggufVars, weightsVars>>
    <2>1. /\ UNCHANGED ggufVars /\ operands' = operands /\ tasks' = tasks /\ done' = done
          /\ out' = out
      BY <1>1 DEF weightsVars
    <2>2. FileInv' /\ gpc' = gpc /\ tensors' = tensors /\ Views' = Views
      BY <2>1, FileInvStep, SameViews DEF WeightsInv
    <2>3. TasksTyped' /\ OperandsMatch'
      BY <2>1, <2>2 DEF WeightsInv, TasksTyped, OperandsMatch, Matrix
    <2>4. CutIntoRows'
      BY <2>1, <2>2 DEF WeightsInv, CutIntoRows, Once, Takes, RowsOf, Rows, Matrix
    <2>5. Cells'
      BY <2>1, <2>2 DEF WeightsInv, Cells, Finished, Takes, RowsOf, Rows, Matrix, Read
    <2> QED
      BY <2>1, <2>2, <2>3, <2>4, <2>5 DEF WeightsInv
  <1>2. CASE GgufNext /\ UNCHANGED weightsVars
    <2>1. gpc # "open"
      BY <1>2 DEF GgufNext, ReadEntry, EndOfEntries, Place, PlacedAll, CheckOverlap
    <2>2. operands = << >> /\ operands' = << >> /\ tasks' = tasks /\ done' = done /\ out' = out
      BY <1>2, <2>1 DEF WeightsInv, weightsVars
    <2>3. FileInv'
      BY <1>2, FileInvStep DEF WeightsInv
    <2>4. TasksTyped' /\ OperandsMatch' /\ CutIntoRows' /\ Cells'
      BY <2>2 DEF WeightsInv, TasksTyped, OperandsMatch, CutIntoRows, Cells
    <2> QED
      BY <2>2, <2>3, <2>4 DEF WeightsInv
  <1> QED
    BY <1>1, <1>2, MultiplyKeeps, ComputeKeeps DEF WeightsNext

\* A finished piece has written its rows, and nobody else has.
LEMMA CellsAreRight == WeightsInv => EveryCellFromItsRow
  <1> SUFFICES ASSUME WeightsInv, NEW o \in DOMAIN out, NEW r \in DOMAIN out[o]
               PROVE  /\ Len(out[o][r]) <= 1
                      /\ (\A t \in DOMAIN tasks : done[t] = Len(tasks[t])) => out[o][r] # << >>
                      /\ \A i \in DOMAIN out[o][r] : \A w \in DOMAIN operands[o] :
                            LET v == operands[o][w]
                                t == tensors[v.tensor]
                            IN /\ out[o][r][i][w] = OwnBytes(v, r)
                               /\ t.offset <= out[o][r][i][w][1]
                               /\ out[o][r][i][w][2] <= t.offset + t.byteLen
    BY DEF EveryCellFromItsRow
  <1>1. /\ o \in DOMAIN operands /\ r \in 0 .. Rows(operands[o][1]) - 1
        /\ out[o][r] = IF Finished(o, r) THEN <<Read(operands[o], r)>> ELSE << >>
    BY DEF WeightsInv, Cells
  <1>2. Len(out[o][r]) <= 1
    BY <1>1
  <1>3. ASSUME \A t \in DOMAIN tasks : done[t] = Len(tasks[t])
        PROVE  out[o][r] # << >>
    <2>1. PICK t \in DOMAIN tasks : \E k \in DOMAIN tasks[t] : Takes(tasks, t, k, o, r)
      BY <1>1 DEF WeightsInv, CutIntoRows, Once
    <2>2. tasks[t] \in Seq(Pieces)
      BY DEF WeightsInv, TasksTyped, Cuts
    <2>3. Finished(o, r)
      BY <1>3, <2>1, <2>2 DEF Finished
    <2> QED
      BY <1>1, <2>3
  <1>4. ASSUME NEW i \in DOMAIN out[o][r], NEW w \in DOMAIN operands[o]
        PROVE  LET v == operands[o][w]
                   t == tensors[v.tensor]
               IN /\ out[o][r][i][w] = OwnBytes(v, r)
                  /\ t.offset <= out[o][r][i][w][1]
                  /\ out[o][r][i][w][2] <= t.offset + t.byteLen
    <2> DEFINE v == operands[o][w]
               t == tensors[v.tensor]
               first == Matrix(v).offset + r * RowBytes(Matrix(v))
    <2>1. out[o][r][i] = Read(operands[o], r)
      BY <1>1, <1>4
    <2>2. /\ v \in Views /\ 1 \in DOMAIN operands[o]
          /\ Matrix(v).dims = Matrix(operands[o][1]).dims
          /\ Matrix(v).type = Matrix(operands[o][1]).type
      BY <1>1 DEF WeightsInv, OperandsMatch
    <2>3. RowBytes(Matrix(operands[o][1])) = RowBytes(Matrix(v))
      BY <2>2 DEF RowBytes
    <2>4. out[o][r][i][w] = <<first, first + RowBytes(Matrix(v))>>
      BY <2>1, <2>3 DEF Read
    <2>5. gpc = "open" /\ FileInv
      BY <1>1 DEF WeightsInv
    <2>6. r \in 0 .. Rows(v) - 1
      BY <1>1, <2>2 DEF Rows
    <2>7. /\ OwnBytes(v, r) = <<first, first + RowBytes(Matrix(v))>>
          /\ t.offset <= first
          /\ first + RowBytes(Matrix(v)) <= t.offset + t.byteLen
      BY <2>2, <2>5, <2>6, ViewRows
    <2> QED
      BY <2>4, <2>7
  <1> QED
    BY <1>2, <1>3, <1>4

\* Every step keeps the invariant: what Gguf::parse accepts, cut into tasks of the
\* pool that run in any order.
THEOREM WeightsInvHolds == WeightsSpec => []WeightsInv
  <1> QED
    BY WeightsInvInit, WeightsInvStep, PTL DEF WeightsSpec

\* For every file, alignment and table of types, and for sizes of any width: the
\* directory Gguf::parse accepts promises what the readers of src/src/quant.rs rely on.
THEOREM AcceptedFilesAreSound == WeightsSpec => []DirectoryIsSound
  <1>1. WeightsInv => DirectoryIsSound
    BY FileIsSound DEF WeightsInv
  <1> QED
    BY <1>1, WeightsInvHolds, PTL

\* For every number of threads, bounds of a chunk and tile, and every order of the
\* pieces: each cell is computed once and from exactly its own row's bytes.
THEOREM RowsComputedOnce == WeightsSpec => []EveryCellFromItsRow
  <1> QED
    BY CellsAreRight, WeightsInvHolds, PTL
=============================================================================
