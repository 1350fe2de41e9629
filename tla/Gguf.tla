-------------------------------- MODULE Gguf --------------------------------
(***************************************************************************)
(* The tensor directory of a model file: Gguf::parse of src/src/gguf.rs,   *)
(* with sizes that wrap at Word as a usize does, and the views of          *)
(* src/src/quant.rs that turn an accepted tensor into byte ranges.  Magic, *)
(* version and metadata are a header that ends somewhere; the entries of   *)
(* the directory are any of a given set, sound or not.                     *)
(***************************************************************************)
EXTENDS Naturals, Sequences, FiniteSets

CONSTANTS
    Word,        \* the number of values of a usize
    Lengths,     \* lengths of the files to open
    Headers,     \* bytes a header may take
    EntryBytes,  \* the least bytes of a directory entry
    Alignments,  \* accepted values of general.alignment
    Entries,     \* entries the directory of a file may have
    MaxTensors,  \* bound: tensors of a file
    BlockLen,    \* DType::block_len, a function of the supported types
    BlockBytes   \* DType::block_bytes

\* Alignments are powers of two up to 65536, or parse has refused the file; what
\* an entry claims is any list of numbers that were read as integers without a
\* sign.
ASSUME GgufAssumption ==
    /\ Word \in Nat /\ Lengths \subseteq 0 .. Word - 1 /\ Headers \subseteq Nat
    /\ EntryBytes \in Nat \ {0}
    /\ Alignments \subseteq {2 ^ n : n \in 0 .. 16} \cap (Nat \ {0})
    /\ \A e \in Entries : e.dims \in Seq(Nat) /\ e.offset \in Nat
    /\ \A t \in DOMAIN BlockLen : {BlockLen[t], BlockBytes[t]} \subseteq Nat \ {0}

VARIABLES
    gpc,        \* where parse is
    length,     \* data.len()
    alignment,  \* general.alignment
    count,      \* tensor_count
    pos,        \* Reader.pos; at the end, data_start
    raw,        \* the entries read
    tensors     \* TensorInfo of the entries placed, in the order of the file

file == <<length, alignment, count>>
ggufVars == <<gpc, file, pos, raw, tensors>>

\* Mutant: the product wraps.
ElementsWrapping(dims) ==
    LET upTo[n \in 0 .. Len(dims)] ==
          IF n = 0 THEN 1 ELSE (upTo[n - 1] * dims[n]) % Word
    IN upTo[Len(dims)]

\* checked_mul over the dimensions: the product, or Word if one step overflows.
Elements(dims) ==
    LET times(a, b) == IF a * b < Word THEN a * b ELSE Word
        upTo[n \in 0 .. Len(dims)] ==
          IF n = 0 THEN 1 ELSE times(upTo[n - 1], dims[n])
    IN upTo[Len(dims)]

\* The header is accepted; count() has compared the number of entries with the
\* bytes of the file, not yet with those the metadata leave.
GgufInit ==
    /\ gpc = "entries"
    /\ length \in Lengths
    /\ alignment \in Alignments
    /\ pos \in {h \in Headers : h <= length}
    /\ count \in 0 .. length \div EntryBytes
    /\ count <= MaxTensors
    /\ raw = << >> /\ tensors = << >>

Refuse ==
    /\ gpc' = "refused"
    /\ UNCHANGED <<file, pos, raw, tensors>>

\* What is checked of an entry while it is read.
Readable(e) ==
    /\ pos + EntryBytes <= length
    /\ Len(e.dims) \in 1 .. 4
    /\ \A i \in DOMAIN e.dims : e.dims[i] > 0
    /\ e.offset % alignment = 0

ReadEntry(e) ==
    /\ gpc = "entries" /\ Len(raw) < count
    /\ \/ ~Readable(e) /\ Refuse
       \/ /\ Readable(e)
          /\ raw' = Append(raw, e)
          /\ pos' = pos + EntryBytes
          /\ UNCHANGED <<gpc, file, tensors>>

\* The directory is followed by padding up to the alignment.
DataStart == ((pos + alignment - 1) \div alignment) * alignment

EndOfEntries ==
    /\ gpc = "entries" /\ Len(raw) = count
    /\ \/ DataStart > length /\ Refuse
       \/ /\ DataStart <= length
          /\ pos' = DataStart
          /\ gpc' = "place"
          /\ UNCHANGED <<file, raw, tensors>>

\* The tensor of an entry, in numbers that have not overflowed if it Fits.
ByteLen(e) == (Elements(e.dims) \div BlockLen[e.type]) * BlockBytes[e.type]

Fits(e) ==
    /\ e.type \in DOMAIN BlockLen
    /\ e.dims[1] % BlockLen[e.type] = 0
    /\ Elements(e.dims) < Word
    /\ pos + e.offset + ByteLen(e) <= length
    /\ \A i \in 1 .. Len(tensors) : tensors[i].name # e.name

Place ==
    /\ gpc = "place" /\ Len(tensors) < count
    /\ LET e == raw[Len(tensors) + 1]
       IN \/ ~Fits(e) /\ Refuse
          \/ /\ Fits(e)
             /\ tensors' = Append(tensors,
                   [name |-> e.name, dims |-> e.dims, type |-> e.type,
                    offset |-> pos + e.offset, byteLen |-> ByteLen(e)])
             /\ UNCHANGED <<gpc, file, pos, raw>>

PlacedAll ==
    /\ gpc = "place" /\ Len(tensors) = count
    /\ gpc' = "overlap"
    /\ UNCHANGED <<file, pos, raw, tensors>>

\* The orders an unstable sort by offset may leave the tensors in.
Sorted ==
    {f \in [1 .. count -> 1 .. count] :
        \A i, j \in 1 .. count : i < j =>
           f[i] # f[j] /\ tensors[f[i]].offset <= tensors[f[j]].offset}

\* Of two neighbours the first ends before the second starts.
Apart(a, b) == a.offset + a.byteLen <= b.offset

CheckOverlap ==
    /\ gpc = "overlap"
    /\ \E f \in Sorted :
          gpc' = IF \A i \in 1 .. count - 1 :
                        Apart(tensors[f[i]], tensors[f[i + 1]])
                   THEN "open" ELSE "refused"
    /\ UNCHANGED <<file, pos, raw, tensors>>

GgufNext ==
    (\E e \in Entries : ReadEntry(e)) \/ EndOfEntries \/ Place \/ PlacedAll
       \/ CheckOverlap

(***************************************************************************)
(* Views of an open file.                                                  *)
(***************************************************************************)
RowBytes(w) == (w.dims[1] \div BlockLen[w.type]) * BlockBytes[w.type]

\* Weight::expert, for a tensor of three dimensions.
Expert(w, i) ==
    [w EXCEPT !.dims = SubSeq(w.dims, 1, 2),
              !.byteLen = @ \div w.dims[3],
              !.offset = @ + i * (w.byteLen \div w.dims[3])]

-----------------------------------------------------------------------------

Product(dims) ==
    LET upTo[n \in 0 .. Len(dims)] ==
          IF n = 0 THEN 1 ELSE upTo[n - 1] * dims[n]
    IN upTo[Len(dims)]

\* A file that was accepted can be read without further checks: every tensor
\* has exactly the bytes its shape asks for, in whole blocks, on the alignment,
\* behind the directory and inside the file, and no two share a byte or a name.
DirectoryIsSound ==
    gpc = "open" =>
       /\ \A i \in 1 .. count :
             LET t == tensors[i]
             IN /\ t.byteLen * BlockLen[t.type]
                      = Product(t.dims) * BlockBytes[t.type]
                /\ t.dims[1] % BlockLen[t.type] = 0
                /\ t.offset % alignment = 0
                /\ pos <= t.offset /\ t.offset + t.byteLen <= length
       /\ \A i, j \in 1 .. count : i # j =>
             /\ tensors[i].name # tensors[j].name
             /\ tensors[i].offset <= tensors[j].offset =>
                   tensors[i].offset + tensors[i].byteLen <= tensors[j].offset
=============================================================================
