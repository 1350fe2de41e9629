------------------------------ MODULE MCModel -------------------------------
(***************************************************************************)
(* Files for Model: of both architectures, in mixtures of types with and   *)
(* without kernels of their own, and files that differ from an accepted    *)
(* one in one place.  Dimensions are those of small published models,      *)
(* divided; two layers, of which the later has the experts.                *)
(***************************************************************************)
EXTENDS Model, TLC

Vocabulary ==
    [model |-> "gpt2", pre |-> "hunyuan", merges |-> TRUE, template |-> TRUE,
     types |-> 4,
     tokens |-> 0 :> [name |-> "<s>", kind |-> 3, form |-> "bytes"]
                  @@ 1 :> [name |-> "</s>", kind |-> 3, form |-> "bytes"]
                  @@ 2 :> [name |-> "a", kind |-> 1, form |-> "bytes"]
                  @@ 3 :> [name |-> "<0x0A>", kind |-> 6, form |-> "hex"],
     ids |-> "bos_token_id" :> 0 @@ "eos_token_id" :> 1 @@ "eot_token_id" :> 1]

\* Types of the attention weights, of the feed-forward weights, the embedding
\* and the output, "tied" if it is the embedding.
Mix(q, k, v, o, gate, up, down, embd, output) ==
    [attn_q |-> q, attn_k |-> k, attn_v |-> v, attn_output |-> o,
     ffn_gate |-> gate, ffn_up |-> up, ffn_down |-> down,
     token_embd |-> embd, output |-> output]

Pure(t, embd, output) == Mix(t, t, t, t, t, t, t, embd, output)

IdOf == [F32 |-> 0, F16 |-> 1, Q8_0 |-> 8, Q4_K |-> 12, Q6_K |-> 14, Q2_0C |-> 40,
         STQ1_0 |-> 42]

Tens(dims, type) == [dims |-> dims, id |-> IdOf[type], finite |-> TRUE]
NormOf(len) == Tens(<<len>>, "F32")

AttentionOf(h, heads, kv, dim, mix, i) ==
    <<"attn_norm", i>> :> NormOf(h) @@ <<"ffn_norm", i>> :> NormOf(h)
      @@ <<"attn_q_norm", i>> :> NormOf(dim) @@ <<"attn_k_norm", i>> :> NormOf(dim)
      @@ <<"attn_q", i>> :> Tens(<<h, heads * dim>>, mix.attn_q)
      @@ <<"attn_k", i>> :> Tens(<<h, kv * dim>>, mix.attn_k)
      @@ <<"attn_v", i>> :> Tens(<<h, kv * dim>>, mix.attn_v)
      @@ <<"attn_output", i>> :> Tens(<<heads * dim, h>>, mix.attn_output)

DenseOf(h, mid, mix, i) ==
    <<"ffn_gate", i>> :> Tens(<<h, mid>>, mix.ffn_gate)
      @@ <<"ffn_up", i>> :> Tens(<<h, mid>>, mix.ffn_up)
      @@ <<"ffn_down", i>> :> Tens(<<mid, h>>, mix.ffn_down)

ExpertsOf(h, mid, mix, i) ==
    <<"ffn_gate_inp", i>> :> Tens(<<h, 3>>, "F32")
      @@ <<"exp_probs_b", i>> :>
            [dims |-> <<3>>, id |-> 0, finite |-> TRUE,
             bias |-> 0 :> 0 @@ 1 :> 0 @@ 2 :> 1]
      @@ <<"ffn_gate_exps", i>> :> Tens(<<h, mid, 3>>, mix.ffn_gate)
      @@ <<"ffn_up_exps", i>> :> Tens(<<h, mid, 3>>, mix.ffn_up)
      @@ <<"ffn_down_exps", i>> :> Tens(<<mid, h, 3>>, mix.ffn_down)
      @@ <<"ffn_gate_shexp", i>> :> Tens(<<h, mid>>, mix.ffn_gate)
      @@ <<"ffn_up_shexp", i>> :> Tens(<<h, mid>>, mix.ffn_up)
      @@ <<"ffn_down_shexp", i>> :> Tens(<<mid, h>>, mix.ffn_down)

\* Values of the metadata.
U32(n) == [kind |-> 4, is |-> n]
F32(x) == [kind |-> 6, is |-> x, finite |-> "f32"]
Bool(b) == [kind |-> 7, is |-> b, byte |-> IF b THEN 1 ELSE 0]
Str(s) == [kind |-> 8, is |-> s, utf8 |-> TRUE, bytes |-> 8]
Arr(e, items) == [kind |-> 9, element |-> e, items |-> items]

PairsOf(arch, type, h, heads, kv, dim, mid) ==
    << <<"general.architecture", Str(arch)>>, <<"general.file_type", U32(type)>>,
       <<"block_count", U32(2)>>, <<"embedding_length", U32(h)>>,
       <<"attention.head_count", U32(heads)>>, <<"attention.head_count_kv", U32(kv)>>,
       <<"attention.key_length", U32(dim)>>, <<"attention.value_length", U32(dim)>>,
       <<"context_length", U32(4)>>, <<"rope.freq_base", F32(1)>>,
       <<"attention.layer_norm_rms_epsilon", F32(1)>>,
       <<"feed_forward_length", U32(mid)>> >>

ExpertPairs(mid) ==
    << <<"expert_count", U32(3)>>, <<"expert_used_count", U32(2)>>,
       <<"expert_feed_forward_length", U32(mid)>>,
       <<"expert_shared_feed_forward_length", U32(mid)>>,
       <<"expert_gating_func", U32(2)>>, <<"expert_weights_scale", F32(1)>>,
       <<"expert_weights_norm", Bool(TRUE)>> >>

EndsOf(h, mix) ==
    <<"token_embd">> :> Tens(<<h, 4>>, mix.token_embd) @@ <<"output_norm">> :> NormOf(h)
      @@ (IF mix.output = "tied" THEN << >>
          ELSE <<"output">> :> Tens(<<h, 4>>, mix.output))

DenseFile(h, heads, kv, dim, mid, mix) ==
    [tok |-> Vocabulary, digest |-> "other",
     pairs |-> PairsOf("hunyuan-dense", 15, h, heads, kv, dim, mid),
     tensors |-> EndsOf(h, mix)
                   @@ AttentionOf(h, heads, kv, dim, mix, 0) @@ DenseOf(h, mid, mix, 0)
                   @@ AttentionOf(h, heads, kv, dim, mix, 1) @@ DenseOf(h, mid, mix, 1)]

ExpertFile(h, heads, kv, dim, mid, mix) ==
    [tok |-> Vocabulary, digest |-> "other",
     pairs |-> PairsOf("hy_v3", 15, h, heads, kv, dim, mid) \o ExpertPairs(mid),
     tensors |-> EndsOf(h, mix)
                   @@ AttentionOf(h, heads, kv, dim, mix, 0) @@ DenseOf(h, mid, mix, 0)
                   @@ AttentionOf(h, heads, kv, dim, mix, 1) @@ ExpertsOf(h, mid, mix, 1)]

Q4KM == Mix("Q4_K", "Q4_K", "Q6_K", "Q4_K", "Q4_K", "Q4_K", "Q6_K", "Q4_K", "Q6_K")

\* A value in the place of another, a pair added and a key left out.
Put(f, key, value) ==
    [f EXCEPT !.pairs =
       [i \in DOMAIN @ |-> IF @[i][1] = key THEN <<key, value>> ELSE @[i]]]
Add(f, key, value) == [f EXCEPT !.pairs = Append(@, <<key, value>>)]
Without(f, key) == [f EXCEPT !.pairs = SelectSeq(@, LAMBDA p : p[1] # key)]
LeftOut(f, keys) == [k \in DOMAIN f \ keys |-> f[k]]

\* Files the code runs, on one processor at least.
StqExport ==
    Put(DenseFile(512, 4, 2, 128, 512, Pure("STQ1_0", "Q6_K", "tied")),
        "general.file_type", U32(41))
Stq == [StqExport EXCEPT !.digest = "tencent_stq1"]
Q2Export ==
    Put(DenseFile(512, 4, 2, 128, 512, Pure("Q2_0C", "Q6_K", "tied")),
        "general.file_type", U32(39))
Dense6 == DenseFile(512, 4, 2, 128, 512, Pure("Q6_K", "Q6_K", "tied"))
Wide == ExpertFile(512, 4, 2, 256, 512, Pure("Q4_K", "Q6_K", "Q6_K"))
Experts == ExpertFile(512, 8, 2, 128, 512,
             Mix("Q6_K", "Q6_K", "Q6_K", "Q4_K", "Q6_K", "Q6_K", "Q6_K", "Q4_K", "Q6_K"))
Tiny == DenseFile(22, 4, 2, 6, 10, Pure("F32", "F32", "tied"))

Sound ==
    {StqExport, Stq, Q2Export, [Q2Export EXCEPT !.digest = "tencent_q2_0c"],
     Dense6, Wide, Experts, Tiny,
     DenseFile(512, 4, 1, 128, 512, Q4KM),
     DenseFile(512, 4, 4, 128, 512,
       Mix("Q6_K", "Q6_K", "Q8_0", "F16", "Q6_K", "Q6_K", "Q8_0", "F16", "tied")),
     DenseFile(512, 2, 1, 256, 512, Pure("Q8_0", "Q8_0", "tied")),
     DenseFile(22, 2, 1, 132, 10, Pure("F32", "F32", "tied")),
     ExpertFile(512, 8, 2, 128, 512, Pure("Q6_K", "Q4_K", "Q6_K")),
     ExpertFile(512, 4, 2, 128, 512, Pure("Q6_K", "Q6_K", "Q6_K")),
     Put(Experts, "expert_weights_norm", Bool(FALSE)),
     Add(Add(Dense6, "general.alignment", U32(64)), "general.tags",
         Arr(8, <<Str("chat"), Str("mt")>>))}

\* One place of a file changed.
Deviant ==
    {Put(Stq, "general.architecture", Str("other")),
     Put(Stq, "general.file_type", U32(39)),
     [Stq EXCEPT !.tensors[<<"attn_q", 1>>].id = 40],
     [Dense6 EXCEPT !.tensors[<<"attn_q", 1>>].id = 42],
     [Dense6 EXCEPT !.tensors[<<"attn_q", 1>>].id = 9],
     Put(DenseFile(512, 4, 2, 128, 512, Pure("Q8_0", "STQ1_0", "tied")),
         "general.file_type", U32(41)),
     ExpertFile(512, 4, 2, 128, 512, Pure("Q2_0C", "Q2_0C", "Q2_0C")),
     Add(Dense6, "block_count", U32(2)),
     Add(Dense6, "general.alignment", U32(48)), Add(Dense6, "split.count", U32(2)),
     Add(Dense6, "x", [Bool(TRUE) EXCEPT !.byte = 2]),
     Add(Dense6, "x", [F32(1) EXCEPT !.finite = "no"]),
     Add(Dense6, "x", Arr(9, << >>)),
     Put(Dense6, "rope.freq_base", [kind |-> 12, is |-> 1, finite |-> "f64"]),
     Put(Dense6, "block_count", [kind |-> 5, is |-> -1]),
     Put(Dense6, "block_count", F32(2)), Put(Dense6, "block_count", U32(3)),
     Without(Dense6, "rope.freq_base"),
     Put(Dense6, "attention.value_length", U32(64)),
     Add(Dense6, "rope.scaling.type", Str("yarn")),
     Add(Dense6, "rope.dimension_count", U32(64)),
     DenseFile(22, 3, 2, 6, 10, Pure("F32", "F32", "tied")),
     DenseFile(384, 3, 1, 128, 512, Pure("Q6_K", "Q6_K", "tied")),
     [Dense6 EXCEPT !.tensors[<<"attn_k", 1>>].dims = <<512, 512>>],
     [Dense6 EXCEPT !.tensors[<<"ffn_norm", 1>>].finite = FALSE],
     [Dense6 EXCEPT !.tensors = @ @@ <<"output">> :> Tens(<<512, 5>>, "Q6_K")],
     [Wide EXCEPT !.tensors = LeftOut(@, {<<"output">>})],
     Put(Wide, "expert_used_count", U32(4)), Put(Wide, "expert_gating_func", U32(1)),
     Put(Wide, "expert_weights_norm", U32(1)),
     [Wide EXCEPT !.tensors[<<"ffn_gate_inp", 1>>].id = 1],
     [Dense6 EXCEPT !.tok.pre = "llama"],
     [Dense6 EXCEPT !.tok.types = 3], [Dense6 EXCEPT !.tok.template = FALSE],
     [Dense6 EXCEPT !.tok.tokens[3].kind = 7],
     [Dense6 EXCEPT !.tok.tokens[3].form = "badhex"],
     [Dense6 EXCEPT !.tok.tokens[2].form = "foreign"],
     [Dense6 EXCEPT !.tok.tokens[2].name = "</s>"],
     [Dense6 EXCEPT !.tok.ids["eot_token_id"] = 4],
     [Dense6 EXCEPT !.tok.ids = LeftOut(@, {"bos_token_id"})]}

MCFiles == Sound \cup Deviant

\* Three experts: none chosen by the router, two alike, and the bias deciding.
MCScores == {<<0, 0, 0>>, <<6, 6, 1>>, <<2, 9, 8>>}
MCRouter == {[e \in 0 .. 2 |-> s[e + 1]] : s \in MCScores}

MCWidths == {6, 10, 22, 24, 128, 132, 256, 264, 512, 1024}
=============================================================================
