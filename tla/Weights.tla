------------------------------- MODULE Weights -------------------------------
(***************************************************************************)
(* The products of src/src/quant.rs over a file that Gguf opened: how an   *)
(* output is cut into tasks for the CPU pool, which bytes of the mapping a *)
(* task reads and which cells it writes, in any interleaving.  What is     *)
(* computed from the bytes is left out: a cell records the byte ranges it  *)
(* was computed from, once for every time it is written.                   *)
(***************************************************************************)
EXTENDS Gguf

CONSTANTS
    ThreadCounts,   \* threads of the CPU pool
    MinChunk,       \* 32 in chunk_rows
    MaxChunk,       \* 2048 in chunk_rows
    Tiles           \* rows of a tile in a product of several tokens

ASSUME WeightsAssumption ==
    /\ ThreadCounts \subseteq Nat \ {0} /\ Tiles \subseteq Nat \ {0}
    /\ MinChunk \in Nat \ {0} /\ MaxChunk \in Nat /\ MinChunk <= MaxChunk

VARIABLES
    operands,   \* per output, the views each of its cells is computed from
    tasks,      \* the pieces of each task, in order
    done,       \* how many pieces each task has finished
    out         \* per output and row, the byte ranges of each write

weightsVars == <<operands, tasks, done, out>>

Least(a, b) == IF a < b THEN a ELSE b
Greatest(a, b) == IF a > b THEN a ELSE b

\* Two chunks per thread, within bounds, even unless it is the largest.
ChunkRows(rows, threads) ==
    LET chunk == Least(Greatest(rows \div (2 * threads), MinChunk), MaxChunk)
    IN IF chunk % 2 = 1 /\ chunk < MaxChunk THEN chunk + 1 ELSE chunk

\* A view: a matrix of the file, or one expert of a tensor of three dimensions.
Views ==
    [tensor : {i \in 1 .. count : Len(tensors[i].dims) = 2}, expert : {0}]
       \cup UNION {[tensor : {i}, expert : 0 .. tensors[i].dims[3] - 1] :
                      i \in {j \in 1 .. count : Len(tensors[j].dims) = 3}}

Matrix(v) ==
    LET t == tensors[v.tensor]
    IN IF Len(t.dims) = 2 THEN t ELSE Expert(t, v.expert)

Cols(v) == Matrix(v).dims[1]
Rows(v) == Matrix(v).dims[2]

Piece(output, first, end) == [output |-> output, first |-> first, end |-> end]

\* par_chunks_mut over one output.
CutOutput(output, rows, size) ==
    [i \in 1 .. ((rows + size - 1) \div size) |->
        <<Piece(output, (i - 1) * size, Least(i * size, rows))>>]

\* The part of rows start to end - 1 that falls on the output of rows lo to hi - 1.
Portion(output, start, end, lo, hi) ==
    IF start < hi /\ end > lo
      THEN <<Piece(output, Greatest(start, lo) - lo, Least(end, hi) - lo)>>
      ELSE << >>

\* Mutant: a chunk that starts in one matrix does not go on in the next.
CutFusedAtStart(q, k, v, size) ==
    LET total == q + k + v
    IN [i \in 1 .. ((total + size - 1) \div size) |->
          LET start == (i - 1) * size
              end == Least(start + size, total)
          IN CASE start < q -> Portion(1, start, end, 0, q)
               [] start >= q /\ start < q + k -> Portion(2, start, end, q, q + k)
               [] OTHER -> Portion(3, start, end, q + k, total)]

\* gemv_qkv_fast: the rows of all three outputs in one row of chunks.
CutFused(q, k, v, size) ==
    LET total == q + k + v
    IN [i \in 1 .. ((total + size - 1) \div size) |->
          LET start == (i - 1) * size
              end == Least(start + size, total)
          IN Portion(1, start, end, 0, q) \o Portion(2, start, end, q, q + k)
                \o Portion(3, start, end, q + k, total)]

WeightsInit ==
    /\ GgufInit
    /\ operands = << >> /\ tasks = << >> /\ done = << >> /\ out = << >>

Run(views, cut) ==
    /\ operands' = views
    /\ tasks' = cut
    /\ done' = [t \in DOMAIN cut |-> 0]
    /\ out' = [o \in DOMAIN views |->
                  [r \in 0 .. Rows(views[o][1]) - 1 |-> << >>]]
    /\ UNCHANGED ggufVars

\* matmul of one token, or of several in tiles.
Matmul(w, threads) ==
    \E size \in {ChunkRows(Rows(w), threads)} \cup Tiles :
       Run(<< <<w>> >>, CutOutput(1, Rows(w), size))

\* Query, key and value: fused, or one after the other in one parallel region;
\* which of the two depends on the types and the processor.
Projections(q, k, v, threads) ==
    /\ Cardinality({q, k, v}) = 3
    /\ Cols(q) = Cols(k) /\ Cols(q) = Cols(v)
    /\ \/ Run(<< <<q>>, <<k>>, <<v>> >>,
              CutFused(Rows(q), Rows(k), Rows(v),
                       ChunkRows(Rows(q) + Rows(k) + Rows(v), threads)))
       \/ Run(<< <<q>>, <<k>>, <<v>> >>,
              CutOutput(1, Rows(q), ChunkRows(Rows(q), threads))
                 \o CutOutput(2, Rows(k), ChunkRows(Rows(k), threads))
                 \o CutOutput(3, Rows(v), ChunkRows(Rows(v), threads)))

\* The fused gate and up products read both weights with the rows of the gate;
\* weights of different types are multiplied one after the other instead.
GateUp(gate, up, threads) ==
    /\ gate # up
    /\ Matrix(gate).dims = Matrix(up).dims
    /\ Matrix(gate).type = Matrix(up).type
    /\ Run(<< <<gate, up>> >>,
           CutOutput(1, Rows(gate), ChunkRows(Rows(gate), threads)))

\* compute_chunk_q8: rows two by two and the one that is left, as for Q2_0C; the
\* other types take them one by one.
RowsOf(piece) ==
    LET pairs == (piece.end - piece.first) \div 2
    IN {piece.first + i : i \in 0 .. 2 * pairs - 1}
          \cup (IF (piece.end - piece.first) % 2 = 1
                  THEN {piece.end - 1} ELSE {})

\* What a cell of a row is computed from; every operand has the first's rows.
Read(views, row) ==
    [i \in DOMAIN views |->
        LET first == Matrix(views[i]).offset + row * RowBytes(Matrix(views[1]))
        IN <<first, first + RowBytes(Matrix(views[1]))>>]

Compute(t) ==
    /\ t \in DOMAIN tasks /\ done[t] < Len(tasks[t])
    /\ LET piece == tasks[t][done[t] + 1]
       IN out' = [out EXCEPT ![piece.output] =
                     [r \in DOMAIN @ |->
                        IF r \in RowsOf(piece)
                          THEN Append(@[r], Read(operands[piece.output], r))
                          ELSE @[r]]]
    /\ done' = [done EXCEPT ![t] = @ + 1]
    /\ UNCHANGED <<ggufVars, operands, tasks>>

Multiply ==
    /\ gpc = "open" /\ operands = << >>
    /\ \E threads \in ThreadCounts :
          \/ \E w \in Views : Matmul(w, threads)
          \/ \E q, k, v \in Views : Projections(q, k, v, threads)
          \/ \E gate, up \in Views : GateUp(gate, up, threads)

WeightsNext ==
    \/ GgufNext /\ UNCHANGED weightsVars
    \/ Multiply
    \/ \E t \in DOMAIN tasks : Compute(t)

WeightsSpec == WeightsInit /\ [][WeightsNext]_<<ggufVars, weightsVars>>

-----------------------------------------------------------------------------

\* The bytes of a row, from the tensor and its shape alone.
OwnBytes(v, row) ==
    LET t == tensors[v.tensor]
        rowBytes == (t.dims[1] * BlockBytes[t.type]) \div BlockLen[t.type]
        first == t.offset + (v.expert * t.dims[2] + row) * rowBytes
    IN <<first, first + rowBytes>>

\* Whatever the number of threads, the rows and the interleaving: no cell is
\* written twice or by two tasks, each is computed from exactly the bytes of its
\* own row in each operand, which are its tensor's, and in the end all are there.
EveryCellFromItsRow ==
    \A o \in DOMAIN out : \A r \in DOMAIN out[o] :
       /\ Len(out[o][r]) <= 1
       /\ (\A t \in DOMAIN tasks : done[t] = Len(tasks[t])) => out[o][r] # << >>
       /\ \A i \in DOMAIN out[o][r] : \A w \in DOMAIN operands[o] :
             LET v == operands[o][w]
                 t == tensors[v.tensor]
             IN /\ out[o][r][i][w] = OwnBytes(v, r)
                /\ t.offset <= out[o][r][i][w][1]
                /\ out[o][r][i][w][2] <= t.offset + t.byteLen
=============================================================================
