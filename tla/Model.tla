-------------------------------- MODULE Model --------------------------------
(***************************************************************************)
(* The transformer of src/src/model.rs: which files Model::open accepts, the *)
(* buffers of a session, and one forward pass through all layers, by the   *)
(* path for one token and by the path for several.  A vector of head_dim   *)
(* numbers is one entry, which remembers whose it is and what was done to  *)
(* it; sizes are the real ones.  When a call is refused, cancelled or      *)
(* fails with an error is the matter of module Session.                    *)
(*                                                                         *)
(* The processors are those the crate compiles for, ARM with and without   *)
(* the integer dot product.                                                *)
(*                                                                         *)
(* A file has                                                              *)
(*    pairs    the keys and values of its metadata, as they are read (see  *)
(*             module Metadata); keys below the name of the architecture   *)
(*             are written without it                                      *)
(*    tok      the part of them that Tokenizer reads                       *)
(*    tensors  a function from names, <<name>> or <<name, layer>>, to the  *)
(*             dims, the type id and whether all values are finite; of the *)
(*             router's bias also its values                               *)
(*    digest   the known file it is, or "other"                            *)
(***************************************************************************)
EXTENDS Kernels, Metadata, Tokenizer, FiniteSetsExt

CONSTANTS
    Files,      \* model files to load
    Requests,   \* profiles to open them with
    Machines,   \* processors: with "sdot" or with "neon" alone
    Contexts,   \* context sizes to ask a session for
    Chunk,      \* PREFILL_CHUNK
    Scores,     \* router scores of one token: functions from the experts, in
                \* sixteenths of what the sigmoid can give
    Widths      \* lengths of the vectors that occur

\* Tokens are numbered from 0, the value of an integer kind is an integer, the
\* router's bias has a number for each of its experts, and no score is negative.
ASSUME ModelAssumption ==
    /\ Requests \subseteq {"auto", "standard", "tencent_q2_0c", "tencent_stq1"}
    /\ Machines \subseteq {"neon", "sdot"}
    /\ Contexts \subseteq Nat /\ Chunk \in Nat \ {0} /\ Widths \subseteq Nat
    /\ \A f \in Files :
          /\ VocabSize(f.tok) \in Nat /\ Ids(f.tok) = 0 .. VocabSize(f.tok) - 1
          /\ \A i \in DOMAIN f.pairs :
                f.pairs[i][2].kind \in IntegerKinds => f.pairs[i][2].is \in Int
          /\ \A name \in DOMAIN f.tensors :
                name[1] = "exp_probs_b" =>
                   f.tensors[name].bias \in [0 .. f.tensors[name].dims[1] - 1 -> Int]
    /\ \A s \in Scores : \A e \in DOMAIN s : s[e] \in Nat

VARIABLES
    machine,    \* the processor
    file,       \* the file that is opened
    gguf,       \* Gguf: profile and, of the file, metadata and tensors
    mpc,        \* "file", "open", "refused", "model", or "session" when there is one
    session,    \* the session: context, position, poisoned, caches, buffers
    fault,      \* what went wrong in the last pass: "buffer" or "index" for an
                \* assertion on lengths, "kernel" for a type without one, "rope"
                \* for angles read past their buffer
    calls,      \* kernels the last pass ran, with the type and columns of a row
    seen,       \* queries of the last pass with the entries they were compared to
    routed      \* expert layers of the last pass: scores and contributions

modelVars == <<machine, file, gguf, mpc, session, fault, calls, seen, routed>>

Get(key) == gguf.meta[key].is
Dense == Get("general.architecture") = "hunyuan-dense"

Hidden == Get("embedding_length")
Heads == Get("attention.head_count")
KvHeads == Get("attention.head_count_kv")
HeadDim == Get("attention.key_length")
QueryWidth == Heads * HeadDim
KvWidth == KvHeads * HeadDim
LayerIds == 0 .. Get("block_count") - 1

Tensor(name) == gguf.tensors[name]
Type(name) == TypeOf(Tensor(name).id, gguf.profile)

(***************************************************************************)
(* Opening: the ids become types, and rows are whole blocks of their type. *)
(* Where the tensors lie is the matter of module Gguf.                     *)
(***************************************************************************)
NoGguf == [profile |-> "none"]

Opens(requested) ==
    LET meta == MetadataOf(file.pairs)
        names == DOMAIN file.tensors
        ids == {file.tensors[n].id : n \in names}
        profile == ProfileOf(requested, file.digest, ids)
    IN /\ HeaderAccepts(file.pairs)
       /\ ProfileAccepts(profile, meta, ids)
       /\ \A n \in names :
             LET type == TypeOf(file.tensors[n].id, profile)
             IN /\ type \in DOMAIN BlockLen
                /\ file.tensors[n].dims[1] % BlockLen[type] = 0

Open(requested) ==
    /\ mpc = "file"
    /\ IF Opens(requested)
         THEN /\ mpc' = "open"
              /\ gguf' = [profile |-> ProfileOf(requested, file.digest,
                                        {file.tensors[n].id : n \in DOMAIN file.tensors}),
                          requested |-> requested,
                          meta |-> MetadataOf(file.pairs), tensors |-> file.tensors]
         ELSE mpc' = "refused" /\ UNCHANGED gguf
    /\ UNCHANGED <<machine, file, session, fault, calls, seen, routed>>

(***************************************************************************)
(* Loading.                                                                *)
(***************************************************************************)
HasSizes(keys) == \A k \in keys : HasUsize(gguf.meta, k)
HasFloats(keys) == \A k \in keys : HasFloat(gguf.meta, k)

\* Mutant: query heads need not be a multiple of the key heads.
ConfigAcceptsAnyHeads ==
    /\ HasSizes({"block_count", "embedding_length", "attention.head_count",
                 "attention.head_count_kv", "attention.key_length",
                 "attention.value_length", "context_length"})
    /\ HasFloats({"rope.freq_base", "attention.layer_norm_rms_epsilon"})
    /\ Get("block_count") \in 1 .. 1024 /\ Hidden > 0
    /\ Heads > 0 /\ KvHeads > 0
    /\ HeadDim > 0 /\ HeadDim % 2 = 0
    /\ Get("attention.value_length") = HeadDim
    /\ Get("context_length") > 0 /\ Get("rope.freq_base") > 0
    /\ Get("attention.layer_norm_rms_epsilon") > 0
    /\ "rope.scaling.type" \in DOMAIN gguf.meta =>
          HasString(gguf.meta, "rope.scaling.type") /\ Get("rope.scaling.type") = "none"
    /\ "rope.dimension_count" \in DOMAIN gguf.meta =>
          HasSizes({"rope.dimension_count"}) /\ Get("rope.dimension_count") = HeadDim

\* The dimensions and settings; floats are known by their sign.
ConfigAccepts ==
    /\ HasSizes({"block_count", "embedding_length", "attention.head_count",
                 "attention.head_count_kv", "attention.key_length",
                 "attention.value_length", "context_length"})
    /\ HasFloats({"rope.freq_base", "attention.layer_norm_rms_epsilon"})
    /\ Get("block_count") \in 1 .. 1024 /\ Hidden > 0
    /\ Heads > 0 /\ KvHeads > 0 /\ Heads % KvHeads = 0
    /\ HeadDim > 0 /\ HeadDim % 2 = 0
    /\ Get("attention.value_length") = HeadDim
    /\ Get("context_length") > 0 /\ Get("rope.freq_base") > 0
    /\ Get("attention.layer_norm_rms_epsilon") > 0
    /\ "rope.scaling.type" \in DOMAIN gguf.meta =>
          HasString(gguf.meta, "rope.scaling.type") /\ Get("rope.scaling.type") = "none"
    /\ "rope.dimension_count" \in DOMAIN gguf.meta =>
          HasSizes({"rope.dimension_count"}) /\ Get("rope.dimension_count") = HeadDim

\* A layer has experts or is dense.
IsMoe(i) == ~Dense /\ i > 0

\* What the layers with experts ask of the metadata and of their router.
ExpertsAccepted(i) ==
    /\ HasSizes({"expert_count", "expert_used_count", "expert_feed_forward_length",
                 "expert_shared_feed_forward_length", "expert_gating_func"})
    /\ HasFloats({"expert_weights_scale"})
    /\ HasBoolean(gguf.meta, "expert_weights_norm")
    /\ Get("expert_count") > 0
    /\ Get("expert_used_count") \in 1 .. Get("expert_count")
    /\ Get("expert_feed_forward_length") > 0
    /\ Get("expert_shared_feed_forward_length") > 0
    /\ Get("expert_gating_func") = 2
    /\ Get("expert_weights_scale") > 0
    /\ <<"ffn_gate_inp", i>> \in DOMAIN gguf.tensors
    /\ Type(<<"ffn_gate_inp", i>>) = "F32"

\* matrix() and norm(): the tensor is there, in that shape, a norm all finite.
Matrix(name, dims) ==
    /\ name \in DOMAIN gguf.tensors
    /\ Tensor(name).dims = dims

Norm(name, len) == Matrix(name, <<len>>) /\ Tensor(name).finite

FeedForwardAccepted(i) ==
    IF IsMoe(i)
      THEN /\ ExpertsAccepted(i)
           /\ LET experts == Get("expert_count")
                  mid == Get("expert_feed_forward_length")
                  shared == Get("expert_shared_feed_forward_length")
              IN /\ Matrix(<<"ffn_gate_inp", i>>, <<Hidden, experts>>)
                 /\ Norm(<<"exp_probs_b", i>>, experts)
                 /\ Matrix(<<"ffn_gate_exps", i>>, <<Hidden, mid, experts>>)
                 /\ Matrix(<<"ffn_up_exps", i>>, <<Hidden, mid, experts>>)
                 /\ Matrix(<<"ffn_down_exps", i>>, <<mid, Hidden, experts>>)
                 /\ Matrix(<<"ffn_gate_shexp", i>>, <<Hidden, shared>>)
                 /\ Matrix(<<"ffn_up_shexp", i>>, <<Hidden, shared>>)
                 /\ Matrix(<<"ffn_down_shexp", i>>, <<shared, Hidden>>)
      ELSE /\ HasSizes({"feed_forward_length"})
           /\ LET mid == Get("feed_forward_length")
              IN /\ Matrix(<<"ffn_gate", i>>, <<Hidden, mid>>)
                 /\ Matrix(<<"ffn_up", i>>, <<Hidden, mid>>)
                 /\ Matrix(<<"ffn_down", i>>, <<mid, Hidden>>)

LayerAccepted(i) ==
    /\ FeedForwardAccepted(i)
    /\ Norm(<<"attn_norm", i>>, Hidden) /\ Norm(<<"ffn_norm", i>>, Hidden)
    /\ Matrix(<<"attn_q", i>>, <<Hidden, QueryWidth>>)
    /\ Matrix(<<"attn_k", i>>, <<Hidden, KvWidth>>)
    /\ Matrix(<<"attn_v", i>>, <<Hidden, KvWidth>>)
    /\ Matrix(<<"attn_output", i>>, <<QueryWidth, Hidden>>)
    /\ Norm(<<"attn_q_norm", i>>, HeadDim) /\ Norm(<<"attn_k_norm", i>>, HeadDim)

\* The embedding is also the output unless the file has weights for it, which
\* the architecture with experts must.
OutputsAccepted ==
    /\ Matrix(<<"token_embd">>, <<Hidden, VocabSize(file.tok)>>)
    /\ IF <<"output">> \in DOMAIN gguf.tensors
         THEN Matrix(<<"output">>, <<Hidden, VocabSize(file.tok)>>)
         ELSE Dense
    /\ Norm(<<"output_norm">>, Hidden)

Output == IF <<"output">> \in DOMAIN gguf.tensors THEN <<"output">> ELSE <<"token_embd">>

Accepted ==
    /\ HasString(gguf.meta, "general.architecture")
    /\ Get("general.architecture") \in {"hunyuan-dense", "hy_v3"}
    /\ TokenizerAccepts(file.tok)
    /\ ConfigAccepts
    /\ OutputsAccepted
    /\ \A i \in LayerIds : LayerAccepted(i)

NoSession == [context |-> 0]

ModelInit ==
    /\ machine \in Machines /\ file \in Files
    /\ mpc = "file" /\ gguf = NoGguf
    /\ session = NoSession
    /\ fault = "none" /\ calls = {} /\ seen = << >> /\ routed = << >>

LoadModel ==
    /\ mpc = "open"
    /\ mpc' = IF Accepted THEN "model" ELSE "refused"
    /\ UNCHANGED <<machine, file, gguf, session, fault, calls, seen, routed>>

(***************************************************************************)
(* Sessions.                                                               *)
(***************************************************************************)
Rows(name) == Tensor(name).dims[2]
Cols(name) == Tensor(name).dims[1]

\* new_session: empty caches, and the lengths of the buffers the path for one
\* token works in; the first layer is always dense.
NewSession(context) ==
    /\ mpc \in {"model", "session"}
    /\ context \in 1 .. Get("context_length")
    /\ mpc' = "session"
    /\ session' =
          [context |-> context, position |-> 0,
           caches |-> [i \in LayerIds |-> [keys |-> << >>, values |-> << >>]],
           hidden |-> Hidden, q |-> QueryWidth, kv |-> KvWidth,
           gate |-> Rows(<<"ffn_gate", 0>>),
           q8Hidden |-> Hidden, q8Ffn |-> Rows(<<"ffn_gate", 0>>)]
    /\ fault' = "none" /\ calls' = {} /\ seen' = << >> /\ routed' = << >>
    /\ UNCHANGED <<machine, file, gguf>>

(***************************************************************************)
(* Attention.                                                              *)
(***************************************************************************)
\* What a projection gives for one head: of which layer, token and head it is,
\* by which position it was rotated, and what was done to it in which order.
Raw(layer, token, head) ==
    [layer |-> layer, token |-> token, head |-> head, at |-> 0, prep |-> << >>]

Normed(e) == [e EXCEPT !.prep = Append(@, "norm")]
Rotated(e, at) == [e EXCEPT !.at = at, !.prep = Append(@, "rope")]

\* The buffers for the angles of one token, and what stands for an angle that
\* was read behind them.
RopeBuffer == 64
Stray == -1

\* Queries or keys of one token: rotated, then normed, the other way round with
\* experts.
OfToken(layer, heads) ==
    LET at == session.position
        angle == IF HeadDim \div 2 <= RopeBuffer THEN at ELSE Stray
    IN [u \in 1 .. heads |->
          LET e == Raw(layer, at, u - 1)
          IN IF Dense THEN Normed(Rotated(e, angle)) ELSE Rotated(Normed(e), angle)]

\* Mutant: the rotation starts again with every batch.
OfBatchFromZero(layer, heads, n) ==
    [u \in 1 .. n * heads |->
        LET token == (u - 1) \div heads
            e == Raw(layer, session.position + token, (u - 1) % heads)
        IN IF Dense THEN Normed(Rotated(e, token)) ELSE Rotated(Normed(e), token)]

\* Of several tokens, row after row; rope counts the rows from the position.
OfBatch(layer, heads, n) ==
    [u \in 1 .. n * heads |->
        LET token == (u - 1) \div heads
            at == session.position + token
            e == Raw(layer, at, (u - 1) % heads)
        IN IF Dense THEN Normed(Rotated(e, at)) ELSE Rotated(Normed(e), at)]

Queries(layer, n) ==
    IF n = 1 THEN OfToken(layer, Heads) ELSE OfBatch(layer, Heads, n)

\* The cache of a layer after append.
Appended(layer, n) ==
    LET old == session.caches[layer]
        keys == IF n = 1 THEN OfToken(layer, KvHeads) ELSE OfBatch(layer, KvHeads, n)
    IN [keys |-> old.keys \o keys,
        values |-> old.values
                     \o [u \in 1 .. n * KvHeads |->
                           Raw(layer, session.position + (u - 1) \div KvHeads,
                               (u - 1) % KvHeads)]]

\* compute_head: the head with this index compares its query with the entries of
\* its key head at every position up to its own.
Visible(index) == session.position + index \div Heads + 1
KvHead(index) == (index % Heads) \div (Heads \div KvHeads)
Offset(index, pos) == pos * KvHeads + KvHead(index) + 1

Attention(layer, n) ==
    LET cache == Appended(layer, n)
        queries == Queries(layer, n)
    IN [index \in 0 .. n * Heads - 1 |->
          [query |-> queries[index + 1],
           keys |-> [pos \in 0 .. Visible(index) - 1 |->
                       cache.keys[Offset(index, pos)]],
           values |-> [pos \in 0 .. Visible(index) - 1 |->
                         cache.values[Offset(index, pos)]]]]

InBounds(layer, n) ==
    /\ KvHeads <= Heads
    /\ \A index \in 0 .. n * Heads - 1 :
          Offset(index, Visible(index) - 1) <= Len(Appended(layer, n).keys)

(***************************************************************************)
(* Experts.                                                                *)
(***************************************************************************)
\* The least denominator, in the unit of the scores.
MinDenominator == 1

\* Sorted by score and bias, then by index.
Before(i, scores, a, b) ==
    LET bias == Tensor(<<"exp_probs_b", i>>).bias
    IN \/ scores[a] + bias[a] > scores[b] + bias[b]
       \/ scores[a] + bias[a] = scores[b] + bias[b] /\ a < b

\* The sum of the scores of some experts.
SumOf(scores, chosen) ==
    LET f[n \in 0 .. Cardinality(DOMAIN scores)] ==
          IF n = 0 THEN 0
          ELSE f[n - 1] + (IF n - 1 \in chosen THEN scores[n - 1] ELSE 0)
    IN f[Cardinality(DOMAIN scores)]

\* route: the experts of one token, with the numerator and the denominator of
\* their weight.
Route(i, scores) ==
    LET experts == DOMAIN scores
        chosen == {e \in experts :
                     Cardinality({o \in experts : Before(i, scores, o, e)})
                       < Get("expert_used_count")}
        sum == SumOf(scores, chosen)
        denominator == IF sum > MinDenominator THEN sum ELSE MinDenominator
    IN [e \in chosen |->
          <<scores[e], IF Get("expert_weights_norm") THEN denominator ELSE 1>>]

\* The tokens of a batch an expert is chosen for, in order.
Assigned(i, scores, e) ==
    LET f[n \in 0 .. Cardinality(DOMAIN scores)] ==
          IF n = 0 THEN << >>
          ELSE IF e \in DOMAIN Route(i, scores[n - 1]) THEN Append(f[n - 1], n - 1)
          ELSE f[n - 1]
    IN f[Cardinality(DOMAIN scores)]

\* The shared expert, beside those with numbers from 0.
Shared == -1

\* Mutant: the results of an expert are added to the first tokens of the batch.
ContributionsUngathered(i, scores) ==
    [t \in DOMAIN scores |->
        {[expert |-> Shared, input |-> t, weight |-> <<1, 1>>]}
          \cup UNION {
            LET tokens == Assigned(i, scores, e)
            IN {[expert |-> e, input |-> tokens[k],
                 weight |-> Route(i, scores[tokens[k]])[e]] :
                   k \in {n \in DOMAIN tokens : n - 1 = t}} :
            e \in 0 .. Get("expert_count") - 1}]

\* Moe::forward: what is added to the output of each token.  The shared expert
\* sees the whole batch; of the others each sees the rows of its tokens, gathered,
\* and its results go back to them with their weights.
Contributions(i, scores) ==
    [t \in DOMAIN scores |->
        {[expert |-> Shared, input |-> t, weight |-> <<1, 1>>]}
          \cup UNION {
            LET tokens == Assigned(i, scores, e)
            IN {[expert |-> e, input |-> tokens[k],
                 weight |-> Route(i, scores[tokens[k]])[e]] :
                   k \in {n \in DOMAIN tokens : tokens[n] = t}} :
            e \in 0 .. Get("expert_count") - 1}]

MoeLayers == {i \in LayerIds : IsMoe(i)}

(***************************************************************************)
(* Matrix products: the kernels that run, each with the type and length of *)
(* the rows.                                                               *)
(***************************************************************************)
Sdot == machine = "sdot"
FastTypes == {"STQ1_0", "Q6_K", "Q2_0C"}
Fast(name) == Type(name) \in FastTypes

\* row_dot_q8_raw; compute_chunk_q8, which takes rows of Q2_0C by two; and the
\* products of a row with numbers.
RowKernels(type) ==
    CASE type = "STQ1_0" -> {"stq_row_dot_sdot"}
      [] type = "Q6_K" -> {"q6_row_dot_sdot"}
      [] type = "Q2_0C" -> {"q2c_row_dot_sdot"}

ChunkKernels(type) ==
    IF type = "Q2_0C" THEN {"q2c_2rows_dot_sdot", "q2c_row_dot_sdot"} ELSE RowKernels(type)

FloatKernels(type) ==
    CASE type = "STQ1_0" -> {"stq_row_dot"}
      [] type = "Q6_K" -> {"q6_row_dot"}
      [] type = "Q2_0C" -> {"q2c_row_dot"}
      [] OTHER -> {"decode"}

With(kernels, name) == {<<k, Type(name), Cols(name)>> : k \in kernels}

Matmul(name, batch) ==
    With(IF batch > 1 THEN {"decode"}
         ELSE IF Sdot /\ Fast(name) THEN ChunkKernels(Type(name))
         ELSE FloatKernels(Type(name)), name)

\* gemv_qkv_fast when the type of the query weights has an integer kernel; three
\* products otherwise.
Projections(i, batch) ==
    LET names == {<<"attn_q", i>>, <<"attn_k", i>>, <<"attn_v", i>>}
    IN IF batch = 1 /\ Sdot /\ Fast(<<"attn_q", i>>)
         THEN UNION {With(ChunkKernels(Type(n)), n) : n \in names}
         ELSE UNION {Matmul(n, batch) : n \in names}

\* matmul_gate_up_silu: row by row when both have the same integer kernel.
GateUp(gate, up, batch) ==
    IF batch = 1 /\ Sdot /\ Fast(gate) /\ Type(gate) = Type(up)
      THEN With(RowKernels(Type(gate)), gate)
      ELSE Matmul(gate, batch) \cup Matmul(up, batch)

\* DenseFfn::forward.
DenseForward(gate, up, down, batch) == GateUp(gate, up, batch) \cup Matmul(down, batch)

\* A dense layer takes the buffers of the session when all three weights have
\* integer kernels; rows of gate and up then meet in one call for Q2_0C.
InBuffers(i) ==
    /\ Sdot /\ Fast(<<"ffn_gate", i>>) /\ Fast(<<"ffn_down", i>>)
    /\ Type(<<"ffn_gate", i>>) = Type(<<"ffn_up", i>>)

FeedForward(i, batch) ==
    LET gate == <<"ffn_gate", i>>
    IN IF batch = 1 /\ InBuffers(i)
         THEN With(IF Type(gate) = "Q2_0C" THEN {"q2c_2rows_dot_sdot"}
                   ELSE RowKernels(Type(gate)), gate)
                \cup With(ChunkKernels(Type(<<"ffn_down", i>>)), <<"ffn_down", i>>)
         ELSE DenseForward(gate, <<"ffn_up", i>>, <<"ffn_down", i>>, batch)

\* The router and the shared expert for the batch, each expert for its tokens.
ExpertForward(i, scores) ==
    LET batch == Cardinality(DOMAIN scores)
        sizes == {Len(Assigned(i, scores, e)) : e \in 0 .. Get("expert_count") - 1}
    IN Matmul(<<"ffn_gate_inp", i>>, batch)
         \cup DenseForward(<<"ffn_gate_shexp", i>>, <<"ffn_up_shexp", i>>,
                           <<"ffn_down_shexp", i>>, batch)
         \cup UNION {DenseForward(<<"ffn_gate_exps", i>>, <<"ffn_up_exps", i>>,
                                  <<"ffn_down_exps", i>>, k) : k \in sizes \ {0}}

\* Norms and sums over the hidden state, dot products of the length of a head.
Vectors == {<<"vector", "F32", Hidden>>, <<"vector", "F32", HeadDim>>}

Calls(batch, scores) ==
    {<<"decode", Type(<<"token_embd">>), Hidden>>} \cup Vectors
      \cup UNION {Projections(i, batch) \cup Matmul(<<"attn_output", i>>, batch)
                    \cup (IF IsMoe(i) THEN ExpertForward(i, scores[i])
                          ELSE FeedForward(i, batch)) : i \in LayerIds}
      \cup Matmul(Output, 1)

(***************************************************************************)
(* What a pass relies on, in the order it does: a kind and whether it      *)
(* holds.  Quantizing asserts that its buffer has the length of its input; *)
(* a row is taken by row_dot_q8_raw, which has three types; angles and     *)
(* cache entries are read by index.                                        *)
(***************************************************************************)
Need(kind, holds) == [kind |-> kind, holds |-> holds]

OneTokenNeeds(i) ==
    << Need("buffer", Sdot /\ Fast(<<"attn_q", i>>) => session.q8Hidden = Hidden),
       Need("kernel", Sdot /\ Fast(<<"attn_q", i>>) =>
                         Fast(<<"attn_k", i>>) /\ Fast(<<"attn_v", i>>)),
       Need("buffer", /\ session.q = Rows(<<"attn_q", i>>)
                      /\ session.kv = Rows(<<"attn_k", i>>)),
       Need("rope", HeadDim \div 2 <= RopeBuffer),
       Need("index", InBounds(i, 1)),
       Need("buffer", Sdot /\ Fast(<<"attn_output", i>>) =>
                         session.q8Hidden = Cols(<<"attn_output", i>>)),
       Need("buffer", ~IsMoe(i) /\ InBuffers(i) =>
                         /\ session.q8Hidden = Hidden
                         /\ session.gate = Rows(<<"ffn_gate", i>>)
                         /\ session.q8Ffn = Rows(<<"ffn_gate", i>>)) >>

\* Layer after layer, and the output behind the last.
NeedsOf(i, batch) ==
    IF i = Get("block_count")
      THEN << Need("buffer", batch = 1 /\ Sdot /\ Fast(Output) => session.q8Hidden = Hidden) >>
    ELSE IF batch = 1 THEN OneTokenNeeds(i) ELSE << Need("index", InBounds(i, batch)) >>

\* The places where something does not hold: the layer and which of its needs.
Failing(batch) ==
    UNION {LET needs == NeedsOf(i, batch)
           IN {<<i, j>> : j \in {k \in DOMAIN needs : ~needs[k].holds}} :
              i \in 0 .. Get("block_count")}

Kind(place, batch) == NeedsOf(place[1], batch)[place[2]].kind

\* Angles past their buffer are numbers all the same, unless a head leaves a rest
\* that is not read in fours.
Stops(batch) ==
    {p \in Failing(batch) : Kind(p, batch) = "rope" => (HeadDim \div 2) % 4 # 0}

FirstKind(places, batch) ==
    Kind(CHOOSE p \in places :
            \A o \in places : p[1] < o[1] \/ (p[1] = o[1] /\ p[2] <= o[2]), batch)

(***************************************************************************)
(* A pass over n tokens, with the scores of each token in each layer with  *)
(* experts.  A panic takes the session with it.                            *)
(***************************************************************************)
Panic(n) ==
    /\ mpc = "session"
    /\ n \in 1 .. Chunk /\ session.position + n <= session.context
    /\ Stops(n) # {}
    /\ mpc' = "model"
    /\ session' = NoSession
    /\ fault' = FirstKind(Stops(n), n)
    /\ calls' = {} /\ seen' = << >> /\ routed' = << >>
    /\ UNCHANGED <<machine, file, gguf>>

\* What the router may give for n tokens: in each layer with experts, for each
\* token, a score of each expert.
RouterScores(n) ==
    {scores \in [MoeLayers -> [0 .. n - 1 -> Scores]] :
        \A i \in MoeLayers, t \in 0 .. n - 1 :
           DOMAIN scores[i][t] = 0 .. Get("expert_count") - 1}

Forward(n, scores) ==
    /\ mpc = "session"
    /\ n \in 1 .. Chunk /\ session.position + n <= session.context
    /\ Stops(n) = {}
    /\ fault' = IF Failing(n) = {} THEN "none" ELSE FirstKind(Failing(n), n)
    /\ session' = [session EXCEPT !.position = @ + n,
                                  !.caches = [i \in LayerIds |-> Appended(i, n)]]
    /\ calls' = Calls(n, scores)
    /\ seen' = [i \in LayerIds |-> Attention(i, n)]
    /\ routed' = [i \in MoeLayers |->
                    [scores |-> scores[i], out |-> Contributions(i, scores[i])]]
    /\ UNCHANGED <<machine, file, gguf, mpc>>

ModelNext ==
    \/ \E requested \in Requests : Open(requested)
    \/ LoadModel
    \/ \E context \in Contexts : NewSession(context)
    \/ \E n \in 1 .. Chunk : Panic(n)
    \/ \E n \in 1 .. Chunk :
          /\ mpc = "session"
          /\ \E scores \in RouterScores(n) : Forward(n, scores)

ModelSpec == ModelInit /\ [][ModelNext]_modelVars

(***************************************************************************)
(* Properties.                                                             *)
(***************************************************************************)
Loaded == mpc \in {"model", "session"}

\* A pass over a file that was accepted runs to its end, with heads of at most
\* 128 and, where integer kernels are used, keys and values that have them when
\* the queries do and attention outputs that have them only if the queries of a
\* token are as wide as its hidden state; whatever the mixture of types besides.
PassesRun ==
    fault # "none" =>
       \/ HeadDim \div 2 > RopeBuffer
       \/ /\ Sdot
          /\ \E i \in LayerIds :
                \/ /\ Fast(<<"attn_q", i>>)
                   /\ ~(Fast(<<"attn_k", i>>) /\ Fast(<<"attn_v", i>>))
                \/ Fast(<<"attn_output", i>>) /\ QueryWidth # Hidden

\* The query of a head at position own, with the keys of its group at each
\* position up to there and no other, rotated by their position and prepared like
\* the query, and the values of the same entries.
Attends(i, own, head, a) ==
    LET prep == IF Dense THEN <<"rope", "norm">> ELSE <<"norm", "rope">>
        group == CHOOSE g \in 0 .. KvHeads - 1 :
                    head \in g * (Heads \div KvHeads) .. (g + 1) * (Heads \div KvHeads) - 1
    IN /\ a.query = [layer |-> i, token |-> own, head |-> head, at |-> own, prep |-> prep]
       /\ DOMAIN a.keys = 0 .. own /\ DOMAIN a.values = 0 .. own
       /\ \A pos \in 0 .. own :
             /\ a.keys[pos] = [layer |-> i, token |-> pos, head |-> group,
                               at |-> pos, prep |-> prep]
             /\ a.values[pos] = Raw(i, pos, group)

\* However a prompt was cut into passes, each query head of the last pass was
\* compared in each layer with the keys of its own group at each position up to
\* its own and no other, keys that were rotated by their position and prepared
\* like the query, and took the values of the same entries.
AttendsToItsPast ==
    \A i \in DOMAIN seen :
       LET n == Cardinality(DOMAIN seen[i]) \div Heads
       IN HeadDim \div 2 <= RopeBuffer =>
            \A token \in 0 .. n - 1, head \in 0 .. Heads - 1 :
               Attends(i, session.position - n + token, head, seen[i][token * Heads + head])

\* What the numerators of some contributions add up to.
WeightOf(contributions) == MapThenSumSet(LAMBDA c : c.weight[1], contributions)

\* In a layer with experts each token of a batch receives the shared expert's
\* result for itself and, once each, those of as many experts as are used, none
\* of which scores below one left out; its weights are fractions of a positive
\* denominator that together do not exceed the scale.
RoutedOnce ==
    \A i \in DOMAIN routed :
       \A t \in DOMAIN routed[i].out :
          LET out == routed[i].out[t]
              score(e) == routed[i].scores[t][e] + Tensor(<<"exp_probs_b", i>>).bias[e]
              special == {c \in out : c.expert # Shared}
              used == {c.expert : c \in special}
          IN /\ \A c \in out : c.input = t
             /\ Cardinality(out \ special) = 1
             /\ Cardinality(used) = Cardinality(special)
             /\ Cardinality(used) = Get("expert_used_count")
             /\ \A e \in used, o \in DOMAIN routed[i].scores[t] \ used :
                   score(e) >= score(o)
             /\ \A c \in special : c.weight[2] > 0
             /\ Get("expert_weights_norm") =>
                  \A c \in special :
                     WeightOf(special) <= c.weight[2]

ExactTable ==
    [k \in Kernels, t \in DOMAIN BlockLen, c \in Widths |->
        c % BlockLen[t] = 0 /\ Exact(k, t, c \div BlockLen[t])]

\* Every kernel a pass ran is one for the type of its weights, and meets each
\* activation of a row once, with the bits and the scale that belong to it: the
\* vector kernels, on one row or two, with numbers or with integers and the order
\* these are stored in, agree with the decoding of a block.
RowDotIsExact == \A c \in calls : ExactTable[c]

LayoutSound ==
    [t \in DOMAIN BlockLen |->
        LET fields == Fields(t)
        IN /\ Cardinality({Element(t, i) : i \in 0 .. BlockLen[t] - 1}) = BlockLen[t]
           /\ \A bit \in 0 .. 8 * BlockBytes[t] - 1 :
                 Cardinality({f \in fields : bit \in f[1] .. f[1] + f[2] - 1}) = 1]

\* The decoding itself: in the types of an accepted file's weights every bit of a
\* block is in one field, and no two elements are made from the same fields.
EveryBitOnce ==
    Loaded => \A name \in DOMAIN gguf.tensors : LayoutSound[Type(name)]

\* An accepted file has one vocabulary: each token a pass may choose has a name
\* that encodes to it again and bytes to print, and so have the tokens that
\* begin and end a prompt.
VocabularyIsOne ==
    Loaded =>
       LET tokenizer == TokenizerOf(file.tok)
       IN /\ \A row \in 0 .. Rows(Output) - 1 :
                /\ row \in DOMAIN tokenizer.pieces /\ row < Rows(<<"token_embd">>)
                /\ HasPiece(file.tok.tokens[row])
                /\ TokenToId(file.tok, file.tok.tokens[row].name) = row
          /\ Rows(Output) = VocabSize(file.tok)
          /\ tokenizer.eos # {} /\ tokenizer.eos \subseteq DOMAIN tokenizer.pieces
          /\ TokenToId(file.tok, tokenizer.eosToken) \in tokenizer.eos

\* The ids 40 and 42, which mean other types today, are read as the layouts of
\* the old exports only in a file that is one of them, or that the caller says is
\* one: of the right architecture and file type, with no other of these types.
NeverReinterpreted ==
    Loaded =>
       \A name \in DOMAIN gguf.tensors :
          Type(name) \in {"Q2_0C", "STQ1_0"} =>
             LET export == IF Type(name) = "Q2_0C" THEN "tencent_q2_0c" ELSE "tencent_stq1"
             IN /\ export \in {file.digest, gguf.requested}
                /\ Dense /\ Get("general.file_type") = Legacy[export].fileType
                /\ \A other \in DOMAIN gguf.tensors :
                      Type(other) \in {"F32", "Q6_K", Type(name)}

\* What docs/reference.md says of the architecture with experts, whose query is
\* wider than its hidden state: no pass fails on the length of a buffer.
BuffersFit == fault # "buffer"
=============================================================================
