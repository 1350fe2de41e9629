----------------------------- MODULE ModelProofs -----------------------------
(***************************************************************************)
(* Facts about every set of model files: whose ids are read as the layouts *)
(* of the old exports, that an accepted file has one vocabulary, that a    *)
(* pass over it runs, that each head attends to its own past, and that     *)
(* each token is sent to its best experts, once.                           *)
(***************************************************************************)
EXTENDS Model, Arithmetic, FiniteSetTheorems, SequenceTheorems, TLAPS

(***************************************************************************)
(* Opening and loading.                                                    *)
(***************************************************************************)

\* Between Open and the end of the program the gguf is the file's, by a profile
\* that Open accepted.
Opened ==
    /\ Opens(gguf.requested)
    /\ gguf = [profile |-> ProfileOf(gguf.requested, file.digest,
                             {file.tensors[n].id : n \in DOMAIN file.tensors}),
               requested |-> gguf.requested,
               meta |-> MetadataOf(file.pairs), tensors |-> file.tensors]

LoadInv ==
    /\ file \in Files
    /\ mpc \in {"file", "open", "refused", "model", "session"}
    /\ mpc \in {"open", "model", "session"} => Opened
    /\ Loaded => Accepted

LEMMA LoadInvInit == ModelInit => LoadInv
  BY DEF ModelInit, LoadInv, Loaded

\* What is read of the file stays as long as the file does.
LEMMA SameFile ==
    ASSUME file' = file, gguf' = gguf
    PROVE  /\ \A k : Get(k)' = Get(k)
           /\ \A name : Tensor(name)' = Tensor(name) /\ Type(name)' = Type(name)
           /\ Hidden' = Hidden /\ Heads' = Heads /\ KvHeads' = KvHeads /\ HeadDim' = HeadDim
           /\ QueryWidth' = QueryWidth /\ KvWidth' = KvWidth /\ Dense' = Dense
           /\ LayerIds' = LayerIds
           /\ Opened' = Opened
           /\ Accepted' = Accepted
  <1>1. /\ \A k : Get(k)' = Get(k)
        /\ \A name : Tensor(name)' = Tensor(name) /\ Type(name)' = Type(name)
    BY DEF Get, Tensor, Type
  <1>2. /\ Hidden' = Hidden /\ Heads' = Heads /\ KvHeads' = KvHeads /\ HeadDim' = HeadDim
        /\ Dense' = Dense
    BY DEF Hidden, Heads, KvHeads, HeadDim, Get, Dense
  <1>3. QueryWidth' = QueryWidth /\ KvWidth' = KvWidth /\ LayerIds' = LayerIds
    BY <1>2 DEF QueryWidth, KvWidth, LayerIds, Get
  <1>4. Opened' = Opened
    BY DEF Opened, Opens
  <1>5. /\ \A keys : HasSizes(keys)' = HasSizes(keys)
        /\ \A keys : HasFloats(keys)' = HasFloats(keys)
    BY DEF HasSizes, HasFloats
  <1>6. ConfigAccepts' = ConfigAccepts
    BY <1>2 DEF ConfigAccepts, Get, HasSizes, HasFloats
  <1>7. /\ \A name, dims : Matrix(name, dims)' = Matrix(name, dims)
        /\ \A name, len : Norm(name, len)' = Norm(name, len)
    BY DEF Matrix, Norm, Tensor
  <1>8. OutputsAccepted' = OutputsAccepted
    BY <1>2 DEF OutputsAccepted, Matrix, Norm, Tensor
  <1>9. \A i : LayerAccepted(i)' = LayerAccepted(i)
    <2>1. \A i : ExpertsAccepted(i)' = ExpertsAccepted(i)
      BY <1>1 DEF ExpertsAccepted, HasSizes, HasFloats, Get, Type, Tensor
    <2>2. \A i : IsMoe(i)' = IsMoe(i)
      BY <1>2 DEF IsMoe
    <2>3. \A i : FeedForwardAccepted(i)' = FeedForwardAccepted(i)
      BY <1>2, <2>1, <2>2 DEF FeedForwardAccepted, HasSizes, Get, Matrix, Norm, Tensor
    <2> QED
      BY <1>2, <1>3, <2>3 DEF LayerAccepted, Matrix, Norm, Tensor
  <1>10. Accepted' = Accepted
    <2>1. TokenizerAccepts(file.tok)' = TokenizerAccepts(file.tok)
      BY DEF TokenizerAccepts
    <2> QED
      BY <1>3, <1>6, <1>8, <1>9, <2>1 DEF Accepted, Get
  <1> QED
    BY <1>1, <1>2, <1>3, <1>4, <1>10

\* What Open and LoadModel found holds of the file for as long as there is a model.
LEMMA LoadInvStep ==
    ASSUME LoadInv, [ModelNext]_modelVars
    PROVE  LoadInv'
  <1>1. ASSUME UNCHANGED <<machine, file, gguf>>, Loaded' => Accepted,
               mpc' \in {"file", "open", "refused", "model", "session"},
               mpc' \in {"open", "model", "session"} => mpc \in {"open", "model", "session"}
        PROVE  LoadInv'
    <2>1. file' = file /\ gguf' = gguf
      BY <1>1
    <2>2. Opened' = Opened /\ Accepted' = Accepted
      BY <2>1, SameFile
    <2> QED
      BY <1>1, <2>1, <2>2 DEF LoadInv
  <1>2. ASSUME NEW requested \in Requests, Open(requested)
        PROVE  LoadInv'
    <2>1. file' = file /\ file' \in Files
      BY <1>2 DEF Open, LoadInv
    <2>2. CASE ~Opens(requested)
      BY <1>2, <2>1, <2>2 DEF Open, LoadInv, Loaded
    <2>3. CASE Opens(requested)
      <3>1. /\ mpc' = "open"
            /\ gguf' = [profile |-> ProfileOf(requested, file.digest,
                                     {file.tensors[n].id : n \in DOMAIN file.tensors}),
                        requested |-> requested,
                        meta |-> MetadataOf(file.pairs), tensors |-> file.tensors]
        BY <1>2, <2>3 DEF Open
      <3>2. Opens(requested)'
        BY <2>1, <2>3 DEF Opens
      <3>3. gguf'.requested = requested
        BY <3>1
      <3>4. Opened'
        BY <2>1, <3>1, <3>2, <3>3 DEF Opened
      <3> QED
        BY <2>1, <3>1, <3>4 DEF LoadInv, Loaded
    <2> QED
      BY <2>2, <2>3
  <1>3. CASE LoadModel
    BY <1>1, <1>3 DEF LoadModel, LoadInv, Loaded
  <1>4. ASSUME NEW context \in Contexts, NewSession(context)
        PROVE  LoadInv'
    BY <1>1, <1>4 DEF NewSession, LoadInv, Loaded
  <1>5. ASSUME NEW n \in 1 .. Chunk, Panic(n)
        PROVE  LoadInv'
    BY <1>1, <1>5 DEF Panic, LoadInv, Loaded
  <1>6. ASSUME NEW n \in 1 .. Chunk, NEW scores \in RouterScores(n),
               Forward(n, scores)
        PROVE  LoadInv'
    BY <1>1, <1>6 DEF Forward, LoadInv, Loaded
  <1>7. CASE UNCHANGED modelVars
    BY <1>1, <1>7 DEF modelVars, LoadInv, Loaded
  <1> QED
    BY <1>2, <1>3, <1>4, <1>5, <1>6, <1>7 DEF ModelNext

\* from_id: which ids and profiles give the two old layouts.
LEMMA LegacyTypes ==
    ASSUME NEW id, NEW profile
    PROVE  /\ TypeOf(id, profile) = "Q2_0C" <=> id = 40 /\ profile = "tencent_q2_0c"
           /\ TypeOf(id, profile) = "STQ1_0" <=> id = 42 /\ profile = "tencent_stq1"
           /\ id = 0 => TypeOf(id, profile) = "F32"
           /\ id = 14 => TypeOf(id, profile) = "Q6_K"
  BY DEF TypeOf

\* from_id only gives an old layout under its profile, and that was checked.
LEMMA LoadedIsNeverReinterpreted == LoadInv => NeverReinterpreted
  <1> SUFFICES ASSUME LoadInv, Loaded, NEW name \in DOMAIN gguf.tensors,
                      Type(name) \in {"Q2_0C", "STQ1_0"}
               PROVE  LET export == IF Type(name) = "Q2_0C" THEN "tencent_q2_0c" ELSE "tencent_stq1"
                      IN /\ export \in {file.digest, gguf.requested}
                         /\ Dense /\ Get("general.file_type") = Legacy[export].fileType
                         /\ \A other \in DOMAIN gguf.tensors :
                               Type(other) \in {"F32", "Q6_K", Type(name)}
    BY DEF NeverReinterpreted
  <1> DEFINE ids == {file.tensors[n].id : n \in DOMAIN file.tensors}
             profile == gguf.profile
             meta == MetadataOf(file.pairs)
  <1>1. Opened
    BY DEF LoadInv, Loaded
  <1>2. /\ profile = ProfileOf(gguf.requested, file.digest, ids)
        /\ gguf.meta = meta /\ gguf.tensors = file.tensors
    BY <1>1 DEF Opened
  <1>3. ProfileAccepts(profile, meta, ids)
    BY <1>1, <1>2 DEF Opened, Opens
  <1>4. \A n \in DOMAIN gguf.tensors :
           Type(n) = TypeOf(Tensor(n).id, profile) /\ Tensor(n).id \in ids
    BY <1>2 DEF Type, Tensor
  <1> DEFINE export == IF Type(name) = "Q2_0C" THEN "tencent_q2_0c" ELSE "tencent_stq1"
  <1>5. /\ profile = export /\ Tensor(name).id = Legacy[export].id /\ export \in DOMAIN Legacy
        /\ Type(name) = TypeOf(Legacy[export].id, export)
    BY <1>4, LegacyTypes DEF Legacy
  <1>6. LegacyFits(profile, meta, ids)
    BY <1>3, <1>5 DEF ProfileAccepts
  <1>7. export \in {file.digest, gguf.requested}
    BY <1>2, <1>5 DEF ProfileOf
  <1>8. Dense /\ Get("general.file_type") = Legacy[export].fileType
    BY <1>2, <1>5, <1>6 DEF LegacyFits, Dense, Get
  <1>9. ASSUME NEW other \in DOMAIN gguf.tensors
        PROVE  Type(other) \in {"F32", "Q6_K", Type(name)}
    <2>1. Tensor(other).id \in {0, 14, Legacy[export].id}
      BY <1>4, <1>5, <1>6 DEF LegacyFits
    <2> HIDE DEF export
    <2> QED
      BY <1>4, <1>5, <2>1, LegacyTypes
  <1> HIDE DEF profile, meta, ids
  <1> QED
    BY <1>7, <1>8, <1>9

\* Tokenizer and weights have one number of tokens, and each is whole.
LEMMA LoadedHasOneVocabulary == LoadInv => VocabularyIsOne
  <1> SUFFICES ASSUME LoadInv, Loaded PROVE VocabularyIsOne
    BY DEF VocabularyIsOne
  <1> DEFINE tok == file.tok
             size == VocabSize(tok)
  <1>1. file \in Files /\ Accepted
    BY DEF LoadInv
  <1>2. size \in Nat /\ Ids(tok) = 0 .. size - 1
    BY <1>1, ModelAssumption
  <1>3. TokenizerAccepts(tok)
    BY <1>1 DEF Accepted
  <1>4. Rows(Output) = size /\ Rows(<<"token_embd">>) = size
    BY <1>1 DEF Accepted, OutputsAccepted, Output, Rows, Matrix
  <1>5. DOMAIN TokenizerOf(tok).pieces = Ids(tok) /\ TokenizerOf(tok).eos = Eos(tok)
        /\ TokenizerOf(tok).eosToken = tok.tokens[tok.ids["eos_token_id"]].name
    BY DEF TokenizerOf
  <1>6. ASSUME NEW row \in 0 .. Rows(Output) - 1
        PROVE  /\ row \in DOMAIN TokenizerOf(tok).pieces /\ row < Rows(<<"token_embd">>)
               /\ HasPiece(tok.tokens[row])
               /\ TokenToId(tok, tok.tokens[row].name) = row
    BY <1>2, <1>3, <1>4, <1>5 DEF TokenizerAccepts
  <1>7. Eos(tok) # {} /\ Eos(tok) \subseteq DOMAIN TokenizerOf(tok).pieces
    BY <1>3, <1>5 DEF TokenizerAccepts
  <1>8. TokenToId(tok, TokenizerOf(tok).eosToken) \in Eos(tok)
    <2>1. tok.ids["eos_token_id"] \in Eos(tok)
      BY <1>3 DEF TokenizerAccepts, Eos, EosKeys
    <2> QED
      BY <1>3, <1>5, <2>1 DEF TokenizerAccepts
  <1> QED
    BY <1>4, <1>5, <1>6, <1>7, <1>8 DEF VocabularyIsOne

(***************************************************************************)
(* Sizes.                                                                  *)
(***************************************************************************)
LEMMA SizesAreNumbers ==
    ASSUME LoadInv, Loaded, NEW key, HasUsize(gguf.meta, key)
    PROVE  Get(key) \in Nat
  <1> DEFINE pairs == file.pairs
             i == CHOOSE j \in DOMAIN pairs : pairs[j][1] = key
  <1>1. file \in Files /\ gguf.meta = MetadataOf(pairs)
    BY DEF LoadInv, Loaded, Opened
  <1>2. key \in Keys(pairs) /\ gguf.meta[key] = pairs[i][2]
    BY <1>1 DEF HasUsize, MetadataOf
  <1>3. i \in DOMAIN pairs
    BY <1>2 DEF Keys
  <1>4. pairs[i][2].kind \in IntegerKinds /\ pairs[i][2].is >= 0
    BY <1>2 DEF HasUsize
  <1>5. pairs[i][2].is \in Int
    BY <1>1, <1>3, <1>4, ModelAssumption
  <1> QED
    BY <1>2, <1>4, <1>5 DEF Get

GroupSize == Heads \div KvHeads

\* The sizes an accepted file may have: key heads divide the query heads.
LEMMA Sizes ==
    ASSUME LoadInv, Loaded
    PROVE  /\ Get("block_count") \in 1 .. 1024
           /\ Hidden \in Nat /\ Heads \in Nat \ {0} /\ KvHeads \in Nat \ {0}
           /\ HeadDim \in Nat \ {0}
           /\ GroupSize \in Nat \ {0} /\ Heads = KvHeads * GroupSize
           /\ KvHeads <= Heads
  <1>1. ConfigAccepts
    BY DEF LoadInv, Accepted
  <1>2. /\ HasUsize(gguf.meta, "embedding_length")
        /\ HasUsize(gguf.meta, "attention.head_count")
        /\ HasUsize(gguf.meta, "attention.head_count_kv")
        /\ HasUsize(gguf.meta, "attention.key_length")
    BY <1>1 DEF ConfigAccepts, HasSizes
  <1>3. Hidden \in Nat /\ Heads \in Nat /\ KvHeads \in Nat /\ HeadDim \in Nat
    BY <1>2, SizesAreNumbers DEF Hidden, Heads, KvHeads, HeadDim
  <1>4. Heads > 0 /\ KvHeads > 0 /\ HeadDim > 0 /\ Heads % KvHeads = 0
        /\ Get("block_count") \in 1 .. 1024
    BY <1>1 DEF ConfigAccepts
  <1>5. GroupSize \in Nat /\ Heads = KvHeads * GroupSize
    BY <1>3, <1>4 DEF GroupSize
  <1>6. GroupSize > 0
    <2>1. KvHeads * 0 = 0
      BY <1>3
    <2>2. GroupSize # 0
      BY <1>4, <1>5, <2>1
    <2> QED
      BY <1>5, <2>2
  <1>7. KvHeads <= KvHeads * GroupSize
    BY <1>3, <1>5, <1>6
  <1> QED
    BY <1>3, <1>4, <1>5, <1>6, <1>7

(***************************************************************************)
(* Caches.                                                                 *)
(***************************************************************************)
EntrySet == [layer : Int, token : Int, head : Int, at : Int, prep : Seq({"norm", "rope"})]

Order == IF Dense THEN <<"rope", "norm">> ELSE <<"norm", "rope">>

\* What the key, or the query, of a head is to be, and the angle it gets.
Expected(i, token, head) ==
    [layer |-> i, token |-> token, head |-> head, at |-> token, prep |-> Order]

\* So many entries for each token and head, in the order of the tokens.
Holds(entries, heads, tokens) ==
    entries \in Seq(EntrySet) /\ Len(entries) = tokens * heads

EntrySound(i, cache, token, g) ==
    /\ HeadDim \div 2 <= RopeBuffer =>
          cache.keys[token * KvHeads + g + 1] = Expected(i, token, g)
    /\ cache.values[token * KvHeads + g + 1] = Raw(i, token, g)

CacheSound(i, cache, tokens) ==
    /\ Holds(cache.keys, KvHeads, tokens) /\ Holds(cache.values, KvHeads, tokens)
    /\ \A token \in 0 .. tokens - 1, g \in 0 .. KvHeads - 1 :
          EntrySound(i, cache, token, g)

SessionSound ==
    /\ {"context", "position", "caches", "hidden", "q", "kv", "gate", "q8Hidden", "q8Ffn"}
          \subseteq DOMAIN session
    /\ session.position \in Nat
    /\ session.q = QueryWidth /\ session.kv = KvWidth /\ session.q8Hidden = Hidden
    /\ session.gate = Rows(<<"ffn_gate", 0>>) /\ session.q8Ffn = Rows(<<"ffn_gate", 0>>)
    /\ DOMAIN session.caches = LayerIds
    /\ \A i \in LayerIds : CacheSound(i, session.caches[i], session.position)

\* The rotated and normed vectors of a pass, for queries and keys alike.
NewVectors(i, heads, n) == IF n = 1 THEN OfToken(i, heads) ELSE OfBatch(i, heads, n)

\* Two fields of an entry are changed one after the other.
LEMMA TwoFields ==
    ASSUME NEW e, NEW angle, NEW prep
    PROVE  [e EXCEPT !.at = angle, !.prep = prep]
              = [[e EXCEPT !.at = angle] EXCEPT !.prep = prep]
  BY Zenon

LEMMA TwoSteps ==
    ASSUME NEW x, NEW y
    PROVE  Append(<<x>>, y) = <<x, y>>
  <1> DEFINE all == {x, y}
             s == Append(<<x>>, y)
             t == <<x, y>>
  <1>1. <<x>> \in Seq(all) /\ Len(<<x>>) = 1 /\ <<x>>[1] = x /\ y \in all
    OBVIOUS
  <1>2. s \in Seq(all) /\ Len(s) = 2 /\ s[1] = x /\ s[2] = y
    BY <1>1, AppendProperties
  <1>3. t \in Seq(all) /\ Len(t) = 2 /\ t[1] = x /\ t[2] = y
    OBVIOUS
  <1> HIDE DEF s, t
  <1>4. \A k \in 1 .. Len(s) : s[k] = t[k]
    BY <1>2, <1>3
  <1>5. s = t
    BY <1>2, <1>3, <1>4, SeqEqual
  <1> QED
    BY <1>5 DEF s, t

\* Either order of rotating and norming gives what the architecture expects.
LEMMA Preparing ==
    ASSUME NEW i \in Int, NEW token \in Int, NEW head \in Int, NEW at \in Int
    PROVE  /\ Raw(i, token, head) \in EntrySet
           /\ IF Dense THEN Normed(Rotated(Raw(i, token, head), at)) \in EntrySet
                       ELSE Rotated(Normed(Raw(i, token, head)), at) \in EntrySet
           /\ at = token =>
                 Expected(i, token, head) =
                    IF Dense THEN Normed(Rotated(Raw(i, token, head), at))
                             ELSE Rotated(Normed(Raw(i, token, head)), at)
  <1> DEFINE entry(angle, prep) ==
               [layer |-> i, token |-> token, head |-> head, at |-> angle, prep |-> prep]
             none == << >>
             norm == <<"norm">>
             rope == <<"rope">>
             ropeNorm == <<"rope", "norm">>
             normRope == <<"norm", "rope">>
  <1>1. Append(none, "norm") = norm /\ Append(none, "rope") = rope
    OBVIOUS
  <1>2. Append(rope, "norm") = ropeNorm /\ Append(norm, "rope") = normRope
    BY TwoSteps, Zenon
  <1>3. /\ none \in Seq({"norm", "rope"})
        /\ ropeNorm \in Seq({"norm", "rope"}) /\ normRope \in Seq({"norm", "rope"})
    OBVIOUS
  <1>4. \A angle : \A prep : entry(angle, prep).prep = prep
    OBVIOUS
  <1>5. Raw(i, token, head) = entry(0, none)
    BY DEF Raw
  <1> HIDE DEF none, norm, rope, ropeNorm, normRope
  <1>6. ASSUME NEW angle, NEW prep, NEW next, Append(prep, "norm") = next
        PROVE  Normed(entry(angle, prep)) = entry(angle, next)
    <2>1. Normed(entry(angle, prep)) = [entry(angle, prep) EXCEPT !.prep = Append(@, "norm")]
      BY DEF Normed
    <2>2. [entry(angle, prep) EXCEPT !.prep = Append(@, "norm")]
             = [entry(angle, prep) EXCEPT !.prep = next]
      BY <1>4, <1>6
    <2>3. [entry(angle, prep) EXCEPT !.prep = next] = entry(angle, next)
      OBVIOUS
    <2> QED
      BY <2>1, <2>2, <2>3
  <1>7. ASSUME NEW angle, NEW prep, NEW next, Append(prep, "rope") = next
        PROVE  Rotated(entry(angle, prep), at) = entry(at, next)
    <2>1. Rotated(entry(angle, prep), at)
             = [entry(angle, prep) EXCEPT !.at = at, !.prep = Append(@, "rope")]
      BY DEF Rotated
    <2>2. [entry(angle, prep) EXCEPT !.at = at, !.prep = Append(@, "rope")]
             = [entry(angle, prep) EXCEPT !.at = at, !.prep = next]
      BY <1>4, <1>7
    <2>3. [entry(angle, prep) EXCEPT !.at = at, !.prep = next]
             = [[entry(angle, prep) EXCEPT !.at = at] EXCEPT !.prep = next]
      BY TwoFields, Zenon
    <2>4. [entry(angle, prep) EXCEPT !.at = at] = entry(at, prep)
      OBVIOUS
    <2>5. [entry(at, prep) EXCEPT !.prep = next] = entry(at, next)
      OBVIOUS
    <2> QED
      BY <2>1, <2>2, <2>3, <2>4, <2>5
  <1>8. Normed(Rotated(Raw(i, token, head), at)) = entry(at, ropeNorm)
    <2>1. Rotated(Raw(i, token, head), at) = entry(at, rope)
      BY <1>1, <1>5, <1>7
    <2> QED
      BY <1>2, <1>6, <2>1
  <1>9. Rotated(Normed(Raw(i, token, head)), at) = entry(at, normRope)
    <2>1. Normed(Raw(i, token, head)) = entry(0, norm)
      BY <1>1, <1>5, <1>6
    <2> QED
      BY <1>2, <1>7, <2>1
  <1>10. /\ entry(at, ropeNorm) \in EntrySet /\ entry(at, normRope) \in EntrySet
         /\ entry(0, none) \in EntrySet
    BY <1>3 DEF EntrySet
  <1>11. at = token => Expected(i, token, head) = IF Dense THEN entry(at, ropeNorm)
                                                           ELSE entry(at, normRope)
    BY DEF Expected, Order, ropeNorm, normRope
  <1> QED
    BY <1>5, <1>8, <1>9, <1>10, <1>11

\* Both paths give one vector for each token and head, at the angle of its token.
LEMMA NewVectorsHold ==
    ASSUME NEW i \in Int, NEW heads \in Nat \ {0}, NEW n \in Nat \ {0},
           session.position \in Nat, HeadDim \in Nat
    PROVE  /\ Holds(NewVectors(i, heads, n), heads, n)
           /\ HeadDim \div 2 <= RopeBuffer =>
                 \A token \in 0 .. n - 1, h \in 0 .. heads - 1 :
                    NewVectors(i, heads, n)[token * heads + h + 1]
                       = Expected(i, session.position + token, h)
  <1> DEFINE p == session.position
             vectors == NewVectors(i, heads, n)
             prepared(e, at) == IF Dense THEN Normed(Rotated(e, at)) ELSE Rotated(Normed(e), at)
  <1>1. CASE n = 1
    <2> DEFINE angle == IF HeadDim \div 2 <= RopeBuffer THEN p ELSE Stray
               vector(u) == prepared(Raw(i, p, u - 1), angle)
    <2>1. vectors = [u \in 1 .. heads |-> vector(u)]
      BY <1>1 DEF NewVectors, OfToken
    <2>2. angle \in Int
      BY DEF Stray
    <2>3. \A u \in 1 .. heads : vector(u) \in EntrySet
      BY <2>2, Preparing
    <2>4. \A h \in 0 .. heads - 1 : HeadDim \div 2 <= RopeBuffer =>
             vector(h + 1) = Expected(i, p, h)
      BY <2>2, Preparing
    <2> HIDE DEF vector, vectors, p
    <2>5. vectors \in Seq(EntrySet) /\ Len(vectors) = heads
      BY <2>1, <2>3
    <2>6. n * heads = heads
      BY <1>1
    <2>7. Holds(vectors, heads, n)
      BY <2>5, <2>6 DEF Holds
    <2>8. ASSUME HeadDim \div 2 <= RopeBuffer, NEW token \in 0 .. n - 1, NEW h \in 0 .. heads - 1
          PROVE  vectors[token * heads + h + 1] = Expected(i, p + token, h)
      <3>1. token = 0 /\ p + token = p /\ token * heads + h + 1 = h + 1 /\ h + 1 \in 1 .. heads
        BY <1>1 DEF p
      <3> QED
        BY <2>1, <2>4, <2>8, <3>1
    <2> QED
      BY <2>7, <2>8 DEF vectors, p
  <1>2. CASE n # 1
    <2> DEFINE vector(u) == prepared(Raw(i, p + (u - 1) \div heads, (u - 1) % heads),
                                     p + (u - 1) \div heads)
    <2>1. vectors = [u \in 1 .. n * heads |-> vector(u)]
      BY <1>2 DEF NewVectors, OfBatch
    <2>2. n * heads \in Nat
      OBVIOUS
    <2>3. \A u \in 1 .. n * heads : vector(u) \in EntrySet
      <3> SUFFICES ASSUME NEW u \in 1 .. n * heads PROVE vector(u) \in EntrySet
        OBVIOUS
      <3>1. u - 1 \in Nat
        BY <2>2
      <3>2. (u - 1) \div heads \in Int /\ (u - 1) % heads \in Int /\ p + (u - 1) \div heads \in Int
        BY <3>1
      <3> QED
        BY <3>2, Preparing
    <2>4. ASSUME NEW token \in 0 .. n - 1, NEW h \in 0 .. heads - 1
          PROVE  /\ token * heads + h + 1 \in 1 .. n * heads
                 /\ vector(token * heads + h + 1) = Expected(i, p + token, h)
      <3>1. token * heads \in Nat /\ token * heads + h + 1 \in 1 .. n * heads
        BY RowMajorBound
      <3> DEFINE u == token * heads + h + 1
      <3>2. u - 1 = token * heads + h
        BY <3>1
      <3>3. (u - 1) \div heads = token /\ (u - 1) % heads = h
        BY <3>2, RowMajor
      <3>4. p + token \in Int
        OBVIOUS
      <3> HIDE DEF u, p
      <3>5. vector(u) = prepared(Raw(i, p + token, h), p + token)
        BY <3>3
      <3>6. vector(u) = Expected(i, p + token, h)
        BY <3>4, <3>5, Preparing
      <3> QED
        BY <3>1, <3>6 DEF u
    <2> HIDE DEF vector, vectors, p
    <2>5. vectors \in Seq(EntrySet) /\ Len(vectors) = n * heads
      BY <2>1, <2>2, <2>3
    <2>6. Holds(vectors, heads, n)
      BY <2>5 DEF Holds
    <2>7. \A token \in 0 .. n - 1, h \in 0 .. heads - 1 :
             vectors[token * heads + h + 1] = Expected(i, p + token, h)
      BY <2>1, <2>4
    <2> QED
      BY <2>6, <2>7 DEF vectors, p
  <1> QED
    BY <1>1, <1>2

\* The values of a pass: what the projection gave.
NewValues(i, n) ==
    [u \in 1 .. n * KvHeads |->
        Raw(i, session.position + (u - 1) \div KvHeads, (u - 1) % KvHeads)]

\* Row after row, the values are those of the tokens of the pass.
LEMMA NewValuesHold ==
    ASSUME NEW i \in Int, NEW n \in Nat \ {0}, session.position \in Nat,
           KvHeads \in Nat \ {0}
    PROVE  /\ Holds(NewValues(i, n), KvHeads, n)
           /\ \A token \in 0 .. n - 1, h \in 0 .. KvHeads - 1 :
                 NewValues(i, n)[token * KvHeads + h + 1]
                    = Raw(i, session.position + token, h)
  <1> DEFINE p == session.position
             heads == KvHeads
             value(u) == Raw(i, p + (u - 1) \div heads, (u - 1) % heads)
             values == NewValues(i, n)
  <1>1. values = [u \in 1 .. n * heads |-> value(u)]
    BY DEF NewValues
  <1>2. n * heads \in Nat
    OBVIOUS
  <1>3. \A u \in 1 .. n * heads : value(u) \in EntrySet
    <2> SUFFICES ASSUME NEW u \in 1 .. n * heads PROVE value(u) \in EntrySet
      OBVIOUS
    <2>1. u - 1 \in Nat
      BY <1>2
    <2>2. (u - 1) \div heads \in Int /\ (u - 1) % heads \in Int /\ p + (u - 1) \div heads \in Int
      BY <2>1
    <2> QED
      BY <2>2, Preparing
  <1>4. ASSUME NEW token \in 0 .. n - 1, NEW h \in 0 .. heads - 1
        PROVE  /\ token * heads + h + 1 \in 1 .. n * heads
               /\ value(token * heads + h + 1) = Raw(i, p + token, h)
    <2>1. token * heads \in Nat /\ token * heads + h + 1 \in 1 .. n * heads
      BY RowMajorBound
    <2> DEFINE u == token * heads + h + 1
    <2>2. u - 1 = token * heads + h
      BY <2>1
    <2>3. (u - 1) \div heads = token /\ (u - 1) % heads = h
      BY <2>2, RowMajor
    <2> HIDE DEF u, p, heads
    <2>4. value(u) = Raw(i, p + token, h)
      BY <2>3
    <2> QED
      BY <2>1, <2>4 DEF u
  <1> HIDE DEF value, values, p
  <1>5. values \in Seq(EntrySet) /\ Len(values) = n * heads
    BY <1>1, <1>2, <1>3
  <1>6. Holds(values, heads, n)
    BY <1>5 DEF Holds
  <1>7. \A token \in 0 .. n - 1, h \in 0 .. heads - 1 :
           values[token * heads + h + 1] = Raw(i, p + token, h)
    BY <1>1, <1>4
  <1> QED
    BY <1>6, <1>7 DEF values, p

\* Entries behind those that are there, each where its token says.
Joined(all, old, new, heads, m, n) ==
    /\ Holds(all, heads, m + n)
    /\ \A token \in 0 .. m - 1, h \in 0 .. heads - 1 :
          all[token * heads + h + 1] = old[token * heads + h + 1]
    /\ \A token \in 0 .. n - 1, h \in 0 .. heads - 1 :
          all[(m + token) * heads + h + 1] = new[token * heads + h + 1]

\* Appending moves nothing that is there, and the new entries begin with a token.
LEMMA Concatenated ==
    ASSUME NEW heads \in Nat \ {0}, NEW m \in Nat, NEW n \in Nat, NEW old, NEW new, NEW all,
           Holds(old, heads, m), Holds(new, heads, n), all = old \o new
    PROVE  Joined(all, old, new, heads, m, n)
  <1>1. /\ old \in Seq(EntrySet) /\ Len(old) = m * heads
        /\ new \in Seq(EntrySet) /\ Len(new) = n * heads
    BY DEF Holds
  <1> DEFINE a == m * heads
             b == n * heads
  <1>2. a \in Nat /\ b \in Nat /\ (m + n) * heads = a + b
    OBVIOUS
  <1>3. /\ all \in Seq(EntrySet) /\ Len(all) = a + b
        /\ \A k \in 1 .. a : all[k] = old[k]
        /\ \A k \in a + 1 .. a + b : all[k] = new[k - a]
    <2>1. Len(old) = a /\ Len(new) = b
      BY <1>1
    <2>2. /\ all \in Seq(EntrySet) /\ Len(all) = Len(old) + Len(new)
          /\ \A k \in 1 .. Len(old) + Len(new) :
                all[k] = IF k <= Len(old) THEN old[k] ELSE new[k - Len(old)]
      BY <1>1, ConcatProperties, Zenon
    <2> HIDE DEF a, b
    <2> QED
      BY <1>2, <2>1, <2>2
  <1>4. Holds(all, heads, m + n)
    BY <1>2, <1>3 DEF Holds
  <1>5. ASSUME NEW token \in 0 .. m - 1, NEW h \in 0 .. heads - 1
        PROVE  all[token * heads + h + 1] = old[token * heads + h + 1]
    <2>1. token * heads + h + 1 \in 1 .. a
      BY RowMajorBound
    <2> QED
      BY <1>3, <2>1
  <1>6. ASSUME NEW token \in 0 .. n - 1, NEW h \in 0 .. heads - 1
        PROVE  all[(m + token) * heads + h + 1] = new[token * heads + h + 1]
    <2> DEFINE k == token * heads
    <2>1. k \in Nat /\ k + h + 1 \in 1 .. b
      BY RowMajorBound
    <2>2. (m + token) * heads = a + k
      OBVIOUS
    <2> HIDE DEF a, b, k
    <2>3. a + k + h + 1 \in a + 1 .. a + b /\ (a + k + h + 1) - a = k + h + 1
      BY <1>2, <2>1
    <2>4. all[a + k + h + 1] = new[k + h + 1]
      BY <1>3, <2>3
    <2> QED
      BY <2>2, <2>4 DEF k
  <1> QED
    BY <1>4, <1>5, <1>6 DEF Joined

\* append keeps a cache sound: its entries are those of the tokens before and now.
LEMMA AppendedSound ==
    ASSUME LoadInv, Loaded, SessionSound, NEW i \in LayerIds, NEW n \in Nat \ {0}
    PROVE  CacheSound(i, Appended(i, n), session.position + n)
  <1> DEFINE p == session.position
             heads == KvHeads
             old == session.caches[i]
             keys == NewVectors(i, heads, n)
             values == NewValues(i, n)
  <1>1. p \in Nat /\ CacheSound(i, old, p)
    BY DEF SessionSound
  <1>2. heads \in Nat \ {0} /\ HeadDim \in Nat /\ i \in Int
    BY Sizes DEF LayerIds
  <1>3. Appended(i, n) = [keys |-> old.keys \o keys, values |-> old.values \o values]
    BY DEF Appended, NewVectors, NewValues
  <1>4. /\ Holds(keys, heads, n)
        /\ HeadDim \div 2 <= RopeBuffer =>
              \A token \in 0 .. n - 1, h \in 0 .. heads - 1 :
                 keys[token * heads + h + 1] = Expected(i, p + token, h)
    BY <1>1, <1>2, NewVectorsHold
  <1>5. /\ Holds(values, heads, n)
        /\ \A token \in 0 .. n - 1, h \in 0 .. heads - 1 :
              values[token * heads + h + 1] = Raw(i, p + token, h)
    BY <1>1, <1>2, NewValuesHold
  <1>6. /\ Holds(old.keys, heads, p) /\ Holds(old.values, heads, p)
        /\ \A token \in 0 .. p - 1, g \in 0 .. heads - 1 :
              /\ HeadDim \div 2 <= RopeBuffer =>
                    old.keys[token * heads + g + 1] = Expected(i, token, g)
              /\ old.values[token * heads + g + 1] = Raw(i, token, g)
    BY <1>1 DEF CacheSound, EntrySound
  <1> DEFINE oldKeys == old.keys
             oldValues == old.values
  <1> HIDE DEF p, heads, old, keys, values, oldKeys, oldValues
  <1>7. /\ heads \in Nat \ {0} /\ p \in Nat /\ n \in Nat
        /\ Holds(oldKeys, heads, p) /\ Holds(keys, heads, n)
        /\ Holds(oldValues, heads, p) /\ Holds(values, heads, n)
    BY <1>1, <1>2, <1>4, <1>5, <1>6 DEF oldKeys, oldValues
  <1> DEFINE all == Appended(i, n)
             allKeys == all.keys
             allValues == all.values
  <1>8. allKeys = oldKeys \o keys /\ allValues = oldValues \o values
    BY <1>3 DEF oldKeys, oldValues
  <1> HIDE DEF all, allKeys, allValues
  <1>9. Joined(allKeys, oldKeys, keys, heads, p, n)
    BY <1>7, <1>8, Concatenated
  <1>10. Joined(allValues, oldValues, values, heads, p, n)
    BY <1>7, <1>8, Concatenated
  <1>11. ASSUME NEW token \in 0 .. (p + n) - 1, NEW g \in 0 .. heads - 1
         PROVE  /\ HeadDim \div 2 <= RopeBuffer =>
                      allKeys[token * heads + g + 1] = Expected(i, token, g)
                /\ allValues[token * heads + g + 1] = Raw(i, token, g)
    <2>1. CASE token \in 0 .. p - 1
      <3>1. /\ allKeys[token * heads + g + 1] = oldKeys[token * heads + g + 1]
            /\ allValues[token * heads + g + 1] = oldValues[token * heads + g + 1]
        BY <1>9, <1>10, <2>1 DEF Joined
      <3> QED
        BY <1>6, <2>1, <3>1 DEF oldKeys, oldValues
    <2>2. CASE token \notin 0 .. p - 1
      <3> DEFINE later == token - p
      <3>1. later \in 0 .. n - 1 /\ p + later = token
        BY <1>1, <2>2
      <3> HIDE DEF later
      <3>2. /\ allKeys[(p + later) * heads + g + 1] = keys[later * heads + g + 1]
            /\ allValues[(p + later) * heads + g + 1] = values[later * heads + g + 1]
        BY <1>9, <1>10, <3>1 DEF Joined
      <3>3. /\ allKeys[token * heads + g + 1] = keys[later * heads + g + 1]
            /\ allValues[token * heads + g + 1] = values[later * heads + g + 1]
        BY <3>1, <3>2
      <3>4. /\ HeadDim \div 2 <= RopeBuffer =>
                  keys[later * heads + g + 1] = Expected(i, token, g)
            /\ values[later * heads + g + 1] = Raw(i, token, g)
        BY <1>4, <1>5, <3>1
      <3> QED
        BY <3>3, <3>4
    <2> QED
      BY <2>1, <2>2
  <1>12. \A token \in 0 .. (p + n) - 1, g \in 0 .. heads - 1 : EntrySound(i, all, token, g)
    BY <1>11 DEF EntrySound, allKeys, allValues, heads
  <1>13. Holds(allKeys, heads, p + n) /\ Holds(allValues, heads, p + n)
    BY <1>9, <1>10 DEF Joined
  <1>14. CacheSound(i, all, p + n)
    BY <1>12, <1>13 DEF CacheSound, allKeys, allValues, heads
  <1> QED
    BY <1>14 DEF all, p

(***************************************************************************)
(* Attention.                                                              *)
(***************************************************************************)
\* Which key head a query head compares itself with, and up to where.
LEMMA HeadsInGroups ==
    ASSUME LoadInv, Loaded, session.position \in Nat, NEW n \in Nat \ {0},
           NEW index \in 0 .. n * Heads - 1
    PROVE  /\ index \div Heads \in 0 .. n - 1
           /\ KvHead(index) \in 0 .. KvHeads - 1
           /\ Visible(index) - 1 \in 0 .. (session.position + n) - 1
           /\ \A pos \in 0 .. Visible(index) - 1 :
                 Offset(index, pos) \in 1 .. (session.position + n) * KvHeads
  <1> DEFINE p == session.position
             token == index \div Heads
             head == index % Heads
  <1>1. Heads \in Nat \ {0} /\ KvHeads \in Nat \ {0} /\ GroupSize \in Nat \ {0}
        /\ Heads = KvHeads * GroupSize
    BY Sizes
  <1>2. n * Heads \in Nat /\ index \in Nat
    BY <1>1
  <1>3. token \in 0 .. n - 1
    BY <1>1, <1>2, PieceOfSome
  <1>4. head \in 0 .. Heads - 1
    BY <1>1, <1>2
  <1>5. head \in 0 .. KvHeads * GroupSize - 1
    BY <1>1, <1>4
  <1> HIDE DEF head
  <1>6. head \div GroupSize \in 0 .. KvHeads - 1
    BY <1>1, <1>5, PieceOfSome
  <1>7. KvHead(index) = head \div GroupSize
    BY DEF KvHead, head, GroupSize
  <1>8. Visible(index) = p + token + 1
    BY DEF Visible
  <1> HIDE DEF p, token
  <1>9. Visible(index) - 1 = p + token /\ p + token \in 0 .. (p + n) - 1
    BY <1>3, <1>8 DEF p
  <1>10. ASSUME NEW pos \in 0 .. Visible(index) - 1
         PROVE  Offset(index, pos) \in 1 .. (p + n) * KvHeads
    <2>1. pos \in 0 .. (p + n) - 1 /\ p + n \in Nat
      BY <1>9 DEF p
    <2>2. KvHead(index) \in 0 .. KvHeads - 1
      BY <1>6, <1>7
    <2> QED
      BY <1>1, <2>1, <2>2, RowMajorBound DEF Offset
  <1> QED
    BY <1>3, <1>6, <1>7, <1>9, <1>10 DEF p, token

\* compute_head reads inside what append left.
LEMMA CacheIsReadInBounds ==
    ASSUME LoadInv, Loaded, SessionSound, NEW i \in LayerIds, NEW n \in Nat \ {0}
    PROVE  InBounds(i, n)
  <1>1. session.position \in Nat
    BY DEF SessionSound
  <1>2. Len(Appended(i, n).keys) = (session.position + n) * KvHeads
    BY AppendedSound DEF CacheSound, Holds
  <1>3. KvHeads \in Nat \ {0} /\ (session.position + n) * KvHeads \in Nat
    BY <1>1, Sizes
  <1>4. ASSUME NEW index \in 0 .. n * Heads - 1
        PROVE  Offset(index, Visible(index) - 1) <= Len(Appended(i, n).keys)
    <2>1. Visible(index) - 1 \in 0 .. Visible(index) - 1
      BY <1>1, HeadsInGroups
    <2>2. Offset(index, Visible(index) - 1) \in 1 .. (session.position + n) * KvHeads
      BY <1>1, <2>1, HeadsInGroups
    <2> QED
      BY <1>2, <1>3, <2>2
  <1> QED
    BY <1>4, Sizes DEF InBounds

\* compute_head with a sound cache: the right keys and values, and all of them.
LEMMA AttentionSound ==
    ASSUME LoadInv, Loaded, SessionSound, NEW i \in LayerIds, NEW n \in Nat \ {0},
           HeadDim \div 2 <= RopeBuffer,
           NEW token \in 0 .. n - 1, NEW head \in 0 .. Heads - 1
    PROVE  Attends(i, session.position + token, head,
                   Attention(i, n)[token * Heads + head])
  <1> DEFINE p == session.position
             own == p + token
             index == token * Heads + head
             cache == Appended(i, n)
             queries == Queries(i, n)
             a == Attention(i, n)[index]
             kv == head \div GroupSize
             group == CHOOSE g \in 0 .. KvHeads - 1 :
                         head \in g * (Heads \div KvHeads)
                                    .. (g + 1) * (Heads \div KvHeads) - 1
  <1>1. /\ Heads \in Nat \ {0} /\ KvHeads \in Nat \ {0} /\ GroupSize \in Nat \ {0}
        /\ Heads = KvHeads * GroupSize /\ HeadDim \in Nat
    BY Sizes
  <1>2. p \in Nat
    BY DEF SessionSound
  <1>3. i \in Int
    BY Sizes DEF LayerIds
  <1>4. index + 1 \in 1 .. n * Heads /\ n * Heads \in Nat /\ index \in Nat
    BY <1>1, RowMajorBound
  <1>5. index \in 0 .. n * Heads - 1
    <2> HIDE DEF index
    <2> QED
      BY <1>4
  <1>6. index \div Heads = token /\ index % Heads = head
    BY <1>1, RowMajor
  <1>7. head \in 0 .. KvHeads * GroupSize - 1
    BY <1>1
  <1>8. kv \in 0 .. KvHeads - 1
        /\ \A g \in 0 .. KvHeads - 1 :
              head \in g * GroupSize .. (g + 1) * GroupSize - 1 <=> g = kv
    BY <1>1, <1>7, PieceOfSome
  <1>9. group = kv
    <2> HIDE DEF kv
    <2>1. \A g \in 0 .. KvHeads - 1 :
             head \in g * (Heads \div KvHeads) .. (g + 1) * (Heads \div KvHeads) - 1
                <=> g = kv
      BY <1>8 DEF GroupSize
    <2> QED
      BY <1>8, <2>1
  <1>10. KvHead(index) = kv
    BY <1>6 DEF KvHead, GroupSize
  <1>11. Visible(index) - 1 = own
    <2>1. Visible(index) = p + token + 1
      BY <1>6 DEF Visible
    <2> QED
      BY <1>2, <2>1
  <1>12. a = [query |-> queries[index + 1],
              keys |-> [pos \in 0 .. Visible(index) - 1 |-> cache.keys[Offset(index, pos)]],
              values |-> [pos \in 0 .. Visible(index) - 1 |->
                            cache.values[Offset(index, pos)]]]
    BY <1>5 DEF Attention
  <1> HIDE DEF index, cache, queries, kv, group
  <1>13. queries = NewVectors(i, Heads, n)
    BY DEF queries, Queries, NewVectors
  <1>14. queries[token * Heads + head + 1] = Expected(i, p + token, head)
    BY <1>1, <1>2, <1>3, <1>13, NewVectorsHold
  <1>15. a.query = Expected(i, own, head)
    BY <1>12, <1>14 DEF index
  <1>16. DOMAIN a.keys = 0 .. own /\ DOMAIN a.values = 0 .. own
    BY <1>11, <1>12
  <1>17. \A t \in 0 .. (p + n) - 1, g \in 0 .. KvHeads - 1 : EntrySound(i, cache, t, g)
    BY AppendedSound DEF CacheSound, cache
  <1>18. ASSUME NEW pos \in 0 .. own
         PROVE  a.keys[pos] = Expected(i, pos, kv) /\ a.values[pos] = Raw(i, pos, kv)
    <2>1. pos \in 0 .. (p + n) - 1
      BY <1>2
    <2>2. EntrySound(i, cache, pos, kv)
      BY <1>8, <1>17, <2>1
    <2>3. Offset(index, pos) = pos * KvHeads + kv + 1
      BY <1>10 DEF Offset
    <2>4. /\ a.keys[pos] = cache.keys[Offset(index, pos)]
          /\ a.values[pos] = cache.values[Offset(index, pos)]
      BY <1>11, <1>12
    <2> QED
      BY <2>2, <2>3, <2>4 DEF EntrySound
  <1>19. Attends(i, own, head, a)
    <2> HIDE DEF a, own
    <2> QED
      BY <1>9, <1>15, <1>16, <1>18 DEF Attends, Expected, Order, group
  <1> QED
    BY <1>19 DEF index

(***************************************************************************)
(* What a pass relies on.                                                  *)
(***************************************************************************)
\* The files on which a pass may not run.
Excused ==
    \/ HeadDim \div 2 > RopeBuffer
    \/ /\ Sdot
       /\ \E i \in LayerIds :
             \/ /\ Fast(<<"attn_q", i>>)
                /\ ~(Fast(<<"attn_k", i>>) /\ Fast(<<"attn_v", i>>))
             \/ Fast(<<"attn_output", i>>) /\ QueryWidth # Hidden

\* The buffers of the session fit each layer of an accepted file.
LEMMA OneTokenNeedsHold ==
    ASSUME LoadInv, Loaded, SessionSound, ~Excused, NEW i \in LayerIds
    PROVE  \A j \in DOMAIN OneTokenNeeds(i) : OneTokenNeeds(i)[j].holds
  <1> DEFINE fast == Sdot /\ Fast(<<"attn_q", i>>)
             h1 == fast => session.q8Hidden = Hidden
             h2 == fast => Fast(<<"attn_k", i>>) /\ Fast(<<"attn_v", i>>)
             h3 == /\ session.q = Rows(<<"attn_q", i>>)
                   /\ session.kv = Rows(<<"attn_k", i>>)
             h4 == HeadDim \div 2 <= RopeBuffer
             h5 == InBounds(i, 1)
             h6 == Sdot /\ Fast(<<"attn_output", i>>) =>
                      session.q8Hidden = Cols(<<"attn_output", i>>)
             h7 == ~IsMoe(i) /\ InBuffers(i) =>
                      /\ session.q8Hidden = Hidden
                      /\ session.gate = Rows(<<"ffn_gate", i>>)
                      /\ session.q8Ffn = Rows(<<"ffn_gate", i>>)
  <1>1. LayerAccepted(i) /\ LayerAccepted(0)
    BY Sizes DEF LoadInv, Accepted, LayerIds
  <1>2. /\ session.q8Hidden = Hidden /\ session.q = QueryWidth /\ session.kv = KvWidth
        /\ session.gate = Rows(<<"ffn_gate", 0>>) /\ session.q8Ffn = Rows(<<"ffn_gate", 0>>)
    BY DEF SessionSound
  <1>3. h1
    BY <1>2
  <1>4. h2
    BY DEF Excused
  <1>5. h3
    <2>1. Matrix(<<"attn_q", i>>, <<Hidden, QueryWidth>>)
          /\ Matrix(<<"attn_k", i>>, <<Hidden, KvWidth>>)
      BY <1>1 DEF LayerAccepted
    <2> QED
      BY <1>2, <2>1 DEF Matrix, Rows
  <1>6. h4
    BY Sizes DEF Excused, RopeBuffer
  <1>7. h5
    BY CacheIsReadInBounds
  <1>8. h6
    <2>1. Matrix(<<"attn_output", i>>, <<QueryWidth, Hidden>>)
      BY <1>1 DEF LayerAccepted
    <2>2. Cols(<<"attn_output", i>>) = QueryWidth
      BY <2>1 DEF Matrix, Cols
    <2> QED
      BY <1>2, <2>2 DEF Excused
  <1>9. h7
    <2> SUFFICES ASSUME ~IsMoe(i)
                 PROVE  Rows(<<"ffn_gate", i>>) = Rows(<<"ffn_gate", 0>>)
      BY <1>2
    <2>1. ~IsMoe(0)
      BY DEF IsMoe
    <2>2. Matrix(<<"ffn_gate", i>>, <<Hidden, Get("feed_forward_length")>>)
          /\ Matrix(<<"ffn_gate", 0>>, <<Hidden, Get("feed_forward_length")>>)
      BY <1>1, <2>1 DEF LayerAccepted, FeedForwardAccepted
    <2> QED
      BY <2>2 DEF Matrix, Rows
  <1>10. OneTokenNeeds(i) =
            << Need("buffer", h1), Need("kernel", h2), Need("buffer", h3), Need("rope", h4),
               Need("index", h5), Need("buffer", h6), Need("buffer", h7) >>
    BY DEF OneTokenNeeds
  <1> HIDE DEF h1, h2, h3, h4, h5, h6, h7
  <1>11. \A kind : \A holds \in {TRUE} : Need(kind, holds).holds
    BY DEF Need
  <1> QED
    BY <1>3, <1>4, <1>5, <1>6, <1>7, <1>8, <1>9, <1>10 DEF Need

\* Nothing a pass relies on fails, but on the files that are excused.
LEMMA NeedsHold ==
    ASSUME LoadInv, Loaded, SessionSound, NEW n \in Nat \ {0}, Failing(n) # {}
    PROVE  Excused
  <1> SUFFICES ASSUME ~Excused PROVE FALSE
    OBVIOUS
  <1>1. PICK i \in 0 .. Get("block_count") :
           \E j \in DOMAIN NeedsOf(i, n) : ~NeedsOf(i, n)[j].holds
    BY DEF Failing
  <1>2. CASE i = Get("block_count")
    <2>1. session.q8Hidden = Hidden
      BY DEF SessionSound
    <2> DEFINE fits == n = 1 /\ Sdot /\ Fast(Output) => session.q8Hidden = Hidden
    <2>2. NeedsOf(i, n) = << Need("buffer", fits) >>
      BY <1>2 DEF NeedsOf
    <2>3. fits
      BY <2>1
    <2> HIDE DEF fits
    <2>4. NeedsOf(i, n)[1].holds /\ DOMAIN NeedsOf(i, n) = {1}
      BY <2>2, <2>3 DEF Need
    <2> QED
      BY <1>1, <2>4
  <1>3. CASE i # Get("block_count")
    <2>1. i \in LayerIds
      BY <1>3, Sizes DEF LayerIds
    <2>2. CASE n = 1
      <3>1. NeedsOf(i, n) = OneTokenNeeds(i)
        BY <1>3, <2>2 DEF NeedsOf
      <3> QED
        BY <1>1, <2>1, <3>1, OneTokenNeedsHold
    <2>3. CASE n # 1
      <3>1. NeedsOf(i, n) = << Need("index", InBounds(i, n)) >>
        BY <1>3, <2>3 DEF NeedsOf
      <3> QED
        BY <1>1, <2>1, <3>1, CacheIsReadInBounds DEF Need
    <2> QED
      BY <2>2, <2>3
  <1> QED
    BY <1>2, <1>3

(***************************************************************************)
(* Experts: those with the highest ranks are as many as asked for; a sum   *)
(* over experts does not depend on the order; so route chooses, and the    *)
(* contributions to a token are those of its experts, once each.           *)
(***************************************************************************)
ScoresOfAll(s) == DOMAIN s = 0 .. Cardinality(DOMAIN s) - 1
                  /\ Cardinality(DOMAIN s) \in Nat /\ \A e \in DOMAIN s : s[e] \in Nat

\* SumOf by its steps.
LEMMA SumSteps ==
    ASSUME NEW s, ScoresOfAll(s), NEW A
    PROVE  \E f \in [0 .. Cardinality(DOMAIN s) -> Nat] :
              /\ f[0] = 0 /\ SumOf(s, A) = f[Cardinality(DOMAIN s)]
              /\ \A n \in 1 .. Cardinality(DOMAIN s) :
                    f[n] = f[n - 1] + (IF n - 1 \in A THEN s[n - 1] ELSE 0)
  <1> PICK N : N = Cardinality(DOMAIN s)
    OBVIOUS
  <1>1. N \in Nat /\ DOMAIN s = 0 .. N - 1 /\ \A e \in 0 .. N - 1 : s[e] \in Nat
    BY DEF ScoresOfAll
  <1> DEFINE add(n) == IF n - 1 \in A THEN s[n - 1] ELSE 0
             G == [p \in (1 .. N) \X Nat |-> p[2] + add(p[1])]
             Sums(f) == f = [n \in 0 .. N |-> IF n = 0 THEN 0 ELSE f[n - 1] + add(n)]
  <1>2. \A n \in 1 .. N : add(n) \in Nat
    BY <1>1
  <1> HIDE DEF add
  <1>3. G \in [(1 .. N) \X Nat -> Nat] /\ \A n \in 1 .. N, x \in Nat : G[<<n, x>>] = x + add(n)
    BY <1>2
  <1> HIDE DEF G
  <1>4. PICK g \in [0 .. N -> Nat] : Stepwise(g, N, 0, G)
    BY <1>1, <1>3, StepsExist
  <1>5. g[0] = 0 /\ \A n \in 1 .. N : g[n] = g[n - 1] + add(n)
    <2>1. \A n \in 1 .. N : g[n - 1] \in Nat
      BY <1>1
    <2> QED
      BY <1>3, <1>4, <2>1 DEF Stepwise
  <1>6. Sums(g)
    <2>1. g = [n \in 0 .. N |-> g[n]]
      OBVIOUS
    <2>2. \A n \in 0 .. N : g[n] = IF n = 0 THEN 0 ELSE g[n - 1] + add(n)
      BY <1>1, <1>5
    <2> QED
      BY <2>1, <2>2
  <1> DEFINE f == CHOOSE f : Sums(f)
  <1>7. Sums(f)
    <2> HIDE DEF Sums
    <2> QED
      BY <1>6
  <1>8. SumOf(s, A) = f[N]
    BY DEF SumOf, add
  <1> HIDE DEF f
  <1>9. /\ f[0] = 0 /\ f = [n \in 0 .. N |-> f[n]]
        /\ \A n \in 1 .. N : f[n] = f[n - 1] + add(n)
    <2> DEFINE h == [n \in 0 .. N |-> IF n = 0 THEN 0 ELSE f[n - 1] + add(n)]
    <2>1. f = h
      BY <1>7
    <2>2. h = [n \in 0 .. N |-> h[n]]
      OBVIOUS
    <2>3. h[0] = 0 /\ \A n \in 1 .. N : h[n] = f[n - 1] + add(n)
      BY <1>1
    <2> HIDE DEF h, Sums
    <2> QED
      BY <2>1, <2>2, <2>3
  <1> HIDE DEF Sums
  <1>10. \A n \in 0 .. N : f[n] \in Nat
    <2> DEFINE T == {n \in 0 .. N : f[n] \in Nat}
    <2>1. 0 \in T
      BY <1>1, <1>9
    <2>3. ASSUME NEW n \in 1 .. N, n - 1 \in T
          PROVE  n \in T
      <3>1. f[n - 1] \in Nat /\ add(n) \in Nat /\ n \in 0 .. N
        BY <1>1, <1>2, <2>3
      <3>2. f[n] = f[n - 1] + add(n)
        BY <1>9
      <3>3. f[n] \in Nat
        BY <3>1, <3>2
      <3> QED
        BY <3>1, <3>3
    <2>2. \A n \in 0 .. N : n \in T
      <3> HIDE DEF T
      <3> QED
        BY <1>1, <2>1, <2>3, FromZero
    <2> QED
      BY <2>2
  <1>11. f \in [0 .. N -> Nat]
    BY <1>9, <1>10
  <1> QED
    BY <1>8, <1>9, <1>11 DEF add

LEMMA SumOfNone ==
    ASSUME NEW s, ScoresOfAll(s)
    PROVE  SumOf(s, {}) = 0
  <1> PICK N : N = Cardinality(DOMAIN s)
    OBVIOUS
  <1>1. N \in Nat
    BY DEF ScoresOfAll
  <1>2. PICK f \in [0 .. N -> Nat] : /\ f[0] = 0 /\ SumOf(s, {}) = f[N]
                                     /\ \A n \in 1 .. N : f[n] = f[n - 1] + 0
    BY SumSteps
  <1> DEFINE T == {n \in 0 .. N : f[n] = 0}
  <1>3. 0 \in T /\ \A n \in 1 .. N : n - 1 \in T => n \in T
    BY <1>1, <1>2
  <1>4. \A n \in 0 .. N : n \in T
    <2> HIDE DEF T
    <2> QED
      BY <1>1, <1>3, FromZero
  <1> QED
    BY <1>1, <1>2, <1>4

\* One more expert adds its score.
LEMMA SumOfOneMore ==
    ASSUME NEW s, ScoresOfAll(s), NEW A, NEW x \in A \cap DOMAIN s
    PROVE  SumOf(s, A) = s[x] + SumOf(s, A \ {x})
  <1> PICK N : N = Cardinality(DOMAIN s)
    OBVIOUS
  <1> PICK B : B = A \ {x}
    OBVIOUS
  <1>1. N \in Nat /\ x \in 0 .. N - 1 /\ s[x] \in Nat /\ \A e \in 0 .. N - 1 : s[e] \in Nat
    BY DEF ScoresOfAll
  <1>2. PICK f \in [0 .. N -> Nat] :
           /\ f[0] = 0 /\ SumOf(s, A) = f[N]
           /\ \A n \in 1 .. N : f[n] = f[n - 1] + (IF n - 1 \in A THEN s[n - 1] ELSE 0)
    BY SumSteps
  <1>3. PICK g \in [0 .. N -> Nat] :
           /\ g[0] = 0 /\ SumOf(s, B) = g[N]
           /\ \A n \in 1 .. N : g[n] = g[n - 1] + (IF n - 1 \in B THEN s[n - 1] ELSE 0)
    BY SumSteps
  <1> DEFINE T == {n \in 0 .. N : f[n] = g[n] + (IF x < n THEN s[x] ELSE 0)}
  <1>4. 0 \in T
    BY <1>1, <1>2, <1>3
  <1>5. ASSUME NEW n \in 1 .. N, n - 1 \in T
        PROVE  n \in T
    <2>1. f[n - 1] = g[n - 1] + (IF x < n - 1 THEN s[x] ELSE 0)
      BY <1>5
    <2>2. /\ f[n] = f[n - 1] + (IF n - 1 \in A THEN s[n - 1] ELSE 0)
          /\ g[n] = g[n - 1] + (IF n - 1 \in B THEN s[n - 1] ELSE 0)
          /\ f[n - 1] \in Nat /\ g[n - 1] \in Nat /\ s[n - 1] \in Nat
      <3>1. n - 1 \in 0 .. N /\ n - 1 \in 0 .. N - 1
        BY <1>1
      <3> QED
        BY <1>1, <1>2, <1>3, <3>1
    <2>3. CASE n - 1 = x
      <3>1. n - 1 \in A /\ n - 1 \notin B /\ ~(x < n - 1) /\ x < n
        BY <1>1, <2>3
      <3>2. f[n] = f[n - 1] + s[x] /\ g[n] = g[n - 1] + 0 /\ f[n - 1] = g[n - 1] + 0
        BY <2>1, <2>2, <2>3, <3>1
      <3> QED
        BY <1>1, <2>2, <3>1, <3>2
    <2>4. CASE n - 1 # x
      <3>1. (n - 1 \in A <=> n - 1 \in B) /\ (x < n - 1 <=> x < n)
        BY <1>1, <2>4
      <3> QED
        BY <1>1, <2>1, <2>2, <3>1
    <2> QED
      BY <2>3, <2>4
  <1>6. \A n \in 0 .. N : n \in T
    <2> HIDE DEF T
    <2> QED
      BY <1>1, <1>4, <1>5, FromZero
  <1>7. f[N] = g[N] + s[x] /\ g[N] \in Nat
    BY <1>1, <1>6
  <1> QED
    BY <1>1, <1>2, <1>3, <1>7

LEMMA SumOfType ==
    ASSUME NEW s, ScoresOfAll(s), NEW A
    PROVE  SumOf(s, A) \in Nat
  <1>1. Cardinality(DOMAIN s) \in Nat
    BY DEF ScoresOfAll
  <1> QED
    BY <1>1, SumSteps

\* The contributions of some experts, one each.
OneEach(D, s) ==
    /\ \A c \in D : c.expert \in DOMAIN s /\ c.weight[1] = s[c.expert]
    /\ \A c, d \in D : c.expert = d.expert => c = d

ExpertsOf(D) == {c.expert : c \in D}

\* In whatever order their weights are added, it is the sum of the experts' scores.
LEMMA WeightsAddUp ==
    ASSUME NEW s, ScoresOfAll(s), NEW D, IsFiniteSet(D), OneEach(D, s)
    PROVE  WeightOf(D) = SumOf(s, ExpertsOf(D))
  <1> DEFINE Iterates(F) ==
               F = [S \in SUBSET D |->
                      IF S = {} THEN 0
                      ELSE LET c == CHOOSE x \in S : TRUE
                           IN c.weight[1] + F[S \ {c}]]
             W == [S \in SUBSET D |-> SumOf(s, ExpertsOf(S))]
  <1>1. SumOf(s, ExpertsOf({})) = 0
    <2>1. ExpertsOf({}) = {}
      BY DEF ExpertsOf
    <2> QED
      BY <2>1, SumOfNone
  <1>2. ASSUME NEW S \in SUBSET D, NEW c \in S
        PROVE  SumOf(s, ExpertsOf(S)) = c.weight[1] + SumOf(s, ExpertsOf(S \ {c}))
    <2>1. ExpertsOf(S \ {c}) = ExpertsOf(S) \ {c.expert}
      BY DEF ExpertsOf, OneEach
    <2>2. c.expert \in ExpertsOf(S) \cap DOMAIN s /\ c.weight[1] = s[c.expert]
      BY DEF ExpertsOf, OneEach
    <2> QED
      BY <2>1, <2>2, SumOfOneMore
  <1>3. Iterates(W)
    <2>1. ASSUME NEW S \in SUBSET D
          PROVE  W[S] = IF S = {} THEN 0
                        ELSE LET c == CHOOSE x \in S : TRUE
                             IN c.weight[1] + W[S \ {c}]
      <3>1. CASE S = {}
        BY <1>1, <3>1
      <3>2. CASE S # {}
        <4> PICK c : c = CHOOSE x \in S : TRUE
          OBVIOUS
        <4>1. c \in S /\ S \ {c} \in SUBSET D
          BY <3>2
        <4>2. W[S] = SumOf(s, ExpertsOf(S)) /\ W[S \ {c}] = SumOf(s, ExpertsOf(S \ {c}))
          BY <4>1
        <4> HIDE DEF W
        <4> QED
          BY <1>2, <3>2, <4>1, <4>2
      <3> QED
        BY <3>1, <3>2
    <2>2. W = [S \in SUBSET D |-> W[S]]
      OBVIOUS
    <2> HIDE DEF W
    <2> QED
      BY <2>1, <2>2
  <1> DEFINE F == CHOOSE F : Iterates(F)
  <1>4. Iterates(F)
    <2> HIDE DEF Iterates, W
    <2> QED
      BY <1>3
  <1>5. WeightOf(D) = F[D]
    BY DEF WeightOf, MapThenSumSet, MapThenFoldSet
  <1> HIDE DEF F
  <1>6. \A S \in SUBSET D :
           F[S] = IF S = {} THEN 0
                  ELSE LET c == CHOOSE x \in S : TRUE
                       IN c.weight[1] + F[S \ {c}]
    <2> DEFINE H == [S \in SUBSET D |->
                       IF S = {} THEN 0
                       ELSE LET c == CHOOSE x \in S : TRUE
                            IN c.weight[1] + F[S \ {c}]]
    <2>1. F = H
      BY <1>4
    <2>2. \A S \in SUBSET D :
             H[S] = IF S = {} THEN 0
                    ELSE LET c == CHOOSE x \in S : TRUE
                         IN c.weight[1] + F[S \ {c}]
      OBVIOUS
    <2> HIDE DEF H, Iterates
    <2> QED
      BY <2>1, <2>2
  <1> HIDE DEF Iterates, W
  <1>7. ASSUME NEW n \in Nat, \A S \in SUBSET D : Cardinality(S) < n => F[S] = SumOf(s, ExpertsOf(S))
        PROVE  \A S \in SUBSET D : Cardinality(S) = n => F[S] = SumOf(s, ExpertsOf(S))
    <2> SUFFICES ASSUME NEW S \in SUBSET D, Cardinality(S) = n
                 PROVE  F[S] = SumOf(s, ExpertsOf(S))
      OBVIOUS
    <2>1. CASE S = {}
      BY <1>1, <1>6, <2>1
    <2>2. CASE S # {}
      <3> PICK c : c = CHOOSE x \in S : TRUE
        OBVIOUS
      <3>1. c \in S /\ S \ {c} \in SUBSET D
        BY <2>2
      <3>2. IsFiniteSet(S)
        BY FS_Subset
      <3>3. Cardinality(S \ {c}) = n - 1
        BY <3>1, <3>2, FS_RemoveElement
      <3>4. F[S \ {c}] = SumOf(s, ExpertsOf(S \ {c}))
        <4>1. n - 1 < n
          OBVIOUS
        <4> QED
          BY <1>7, <3>1, <3>3, <4>1
      <3>5. F[S] = c.weight[1] + F[S \ {c}]
        BY <1>6, <2>2
      <3> QED
        BY <1>2, <3>1, <3>4, <3>5
    <2> QED
      BY <2>1, <2>2
  <1>8. \A S \in SUBSET D : F[S] = SumOf(s, ExpertsOf(S))
    <2> DEFINE Wrong == {n \in Nat : \E S \in SUBSET D :
                           Cardinality(S) = n /\ F[S] # SumOf(s, ExpertsOf(S))}
    <2>1. \A S \in SUBSET D : Cardinality(S) \in Nat
      BY FS_Subset, FS_CardinalityType
    <2>2. Wrong = {}
      <3> SUFFICES ASSUME Wrong # {}
                   PROVE  FALSE
        OBVIOUS
      <3>1. Wrong \in SUBSET Nat
        OBVIOUS
      <3>2. PICK n \in Wrong : \A m \in Wrong : n <= m
        <4> HIDE DEF Wrong
        <4> QED
          BY <3>1, LeastNumber
      <3>3. ASSUME NEW S \in SUBSET D, Cardinality(S) < n
            PROVE  F[S] = SumOf(s, ExpertsOf(S))
        <4>1. Cardinality(S) \notin Wrong
          <5> PICK m : m = Cardinality(S)
            OBVIOUS
          <5>1. m \in Nat /\ n \in Nat /\ m < n
            BY <2>1, <3>1, <3>3
          <5>2. ~(n <= m)
            BY <5>1
          <5> HIDE DEF Wrong
          <5> QED
            BY <3>2, <5>2
        <4> QED
          BY <2>1, <4>1
      <3>4. n \in Nat
        BY <3>1
      <3> QED
        BY <1>7, <3>3, <3>4
    <2> QED
      BY <2>1, <2>2
  <1> QED
    BY <1>5, <1>8

\* An expert's list has the tokens it was chosen for.
LEMMA AssignedTo ==
    ASSUME NEW i, NEW scores, NEW n \in Nat \ {0}, DOMAIN scores = 0 .. n - 1, NEW e
    PROVE  /\ Assigned(i, scores, e) \in Seq(0 .. n - 1)
           /\ \A t \in 0 .. n - 1 :
                 (\E k \in DOMAIN Assigned(i, scores, e) : Assigned(i, scores, e)[k] = t)
                   <=> e \in DOMAIN Route(i, scores[t])
  <1> DEFINE has(t) == e \in DOMAIN Route(i, scores[t])
             X == Seq(0 .. n - 1)
             G == [p \in (1 .. n) \X X |->
                     IF has(p[1] - 1) THEN Append(p[2], p[1] - 1) ELSE p[2]]
             Lists(f) == f = [m \in 0 .. n |->
                                IF m = 0 THEN << >>
                                ELSE IF has(m - 1) THEN Append(f[m - 1], m - 1)
                                ELSE f[m - 1]]
             lists(f) == /\ f[0] = << >>
                         /\ \A m \in 1 .. n : f[m] = IF has(m - 1) THEN Append(f[m - 1], m - 1)
                                                     ELSE f[m - 1]
  <1>1. Cardinality(DOMAIN scores) = n
    <2>1. 0 \in Int /\ n - 1 \in Int /\ (IF 0 > n - 1 THEN 0 ELSE (n - 1) - 0 + 1) = n
      OBVIOUS
    <2> QED
      BY <2>1, FS_Interval
  <1> HIDE DEF has
  <1>2. G \in [(1 .. n) \X X -> X]
    <2>1. ASSUME NEW m \in 1 .. n, NEW x \in X
          PROVE  Append(x, m - 1) \in X
      <3>1. m - 1 \in 0 .. n - 1
        OBVIOUS
      <3> QED
        BY <3>1, AppendProperties
    <2> HIDE DEF X
    <2> QED
      BY <2>1
  <1>3. << >> \in X
    OBVIOUS
  <1>4. PICK g \in [0 .. n -> X] : Stepwise(g, n, << >>, G)
    <2> HIDE DEF G, X
    <2> QED
      BY <1>2, <1>3, StepsExist
  <1>5. lists(g)
    <2>1. ASSUME NEW m \in 1 .. n
          PROVE  g[m] = IF has(m - 1) THEN Append(g[m - 1], m - 1) ELSE g[m - 1]
      <3>1. g[m - 1] \in X /\ g[m] = G[<<m, g[m - 1]>>]
        <4> HIDE DEF X, G
        <4> QED
          BY <1>4 DEF Stepwise
      <3> HIDE DEF X
      <3> QED
        BY <3>1
    <2>2. g[0] = << >>
      BY <1>4 DEF Stepwise
    <2> QED
      BY <2>1, <2>2
  <1>6. Lists(g)
    <2>1. g = [m \in 0 .. n |-> g[m]]
      OBVIOUS
    <2>2. \A m \in 0 .. n : g[m] = IF m = 0 THEN << >>
                                   ELSE IF has(m - 1) THEN Append(g[m - 1], m - 1)
                                   ELSE g[m - 1]
      <3> SUFFICES ASSUME NEW m \in 0 .. n
                   PROVE  g[m] = IF m = 0 THEN << >>
                                 ELSE IF has(m - 1) THEN Append(g[m - 1], m - 1)
                                 ELSE g[m - 1]
        OBVIOUS
      <3>1. CASE m = 0
        BY <1>5, <3>1
      <3>2. CASE m \in 1 .. n
        <4>1. m # 0
          BY <3>2
        <4> QED
          BY <1>5, <3>2, <4>1
      <3> QED
        BY <3>1, <3>2
    <2> QED
      BY <2>1, <2>2
  <1> DEFINE f == CHOOSE f : Lists(f)
  <1>7. Lists(f)
    <2> HIDE DEF Lists
    <2> QED
      BY <1>6
  <1>8. Assigned(i, scores, e) = f[n]
    BY <1>1 DEF Assigned, has
  <1> HIDE DEF f
  <1>9. lists(f)
    <2> DEFINE h == [m \in 0 .. n |->
                       IF m = 0 THEN << >>
                       ELSE IF has(m - 1) THEN Append(f[m - 1], m - 1)
                       ELSE f[m - 1]]
    <2>1. f = h
      BY <1>7
    <2>2. /\ h[0] = << >>
          /\ \A m \in 1 .. n : h[m] = IF has(m - 1) THEN Append(f[m - 1], m - 1) ELSE f[m - 1]
      OBVIOUS
    <2> HIDE DEF h, Lists
    <2> QED
      BY <2>1, <2>2
  <1> HIDE DEF Lists
  <1> DEFINE Upto(m) ==
               /\ f[m] \in Seq(0 .. n - 1)
               /\ \A t \in 0 .. n - 1 : (\E k \in 1 .. Len(f[m]) : f[m][k] = t) <=> t < m /\ has(t)
             T == {m \in 0 .. n : Upto(m)}
  <1>10. Upto(0)
    <2>1. f[0] = << >> /\ Len(<< >>) = 0 /\ << >> \in Seq(0 .. n - 1)
      BY <1>9
    <2> QED
      BY <2>1
  <1>11. ASSUME NEW m \in 1 .. n, Upto(m - 1)
         PROVE  Upto(m)
    <2> PICK x : x = f[m - 1]
      OBVIOUS
    <2>1. /\ x \in Seq(0 .. n - 1) /\ Len(x) \in Nat /\ m - 1 \in 0 .. n - 1
          /\ \A t \in 0 .. n - 1 : (\E k \in 1 .. Len(x) : x[k] = t) <=> t < m - 1 /\ has(t)
      <3>1. m - 1 \in 0 .. n - 1
        OBVIOUS
      <3>2. x \in Seq(0 .. n - 1) /\ Len(x) \in Nat
        BY <1>11
      <3>3. \A t \in 0 .. n - 1 : (\E k \in 1 .. Len(x) : x[k] = t) <=> t < m - 1 /\ has(t)
        BY <1>11, Zenon
      <3> QED
        BY <3>1, <3>2, <3>3
    <2>2. CASE ~has(m - 1)
      <3>1. f[m] = x
        BY <1>9, <2>2
      <3>2. \A t \in 0 .. n - 1 : t < m /\ has(t) <=> t < m - 1 /\ has(t)
        <4>1. \A t \in 0 .. n - 1 : t < m <=> t < m - 1 \/ t = m - 1
          OBVIOUS
        <4> QED
          BY <2>2, <4>1
      <3> QED
        BY <2>1, <3>1, <3>2
    <2>3. CASE has(m - 1)
      <3> PICK y : y = Append(x, m - 1)
        OBVIOUS
      <3>1. f[m] = y
        BY <1>9, <2>3
      <3>2. /\ y \in Seq(0 .. n - 1) /\ Len(y) = Len(x) + 1
            /\ \A k \in 1 .. Len(x) : y[k] = x[k]
            /\ y[Len(x) + 1] = m - 1
        BY <2>1, AppendProperties
      <3>3. ASSUME NEW t \in 0 .. n - 1
            PROVE  (\E k \in 1 .. Len(y) : y[k] = t) <=> t < m /\ has(t)
        <4>1. (\E k \in 1 .. Len(y) : y[k] = t) <=> (\E k \in 1 .. Len(x) : x[k] = t) \/ t = m - 1
          <5>1. \A k \in 1 .. Len(y) : k \in 1 .. Len(x) \/ k = Len(x) + 1
            BY <2>1, <3>2, LastOrEarlier
          <5>2. 1 .. Len(x) \subseteq 1 .. Len(y) /\ Len(x) + 1 \in 1 .. Len(y)
            BY <2>1, <3>2
          <5> QED
            BY <3>2, <5>1, <5>2
        <4>2. t < m <=> t < m - 1 \/ t = m - 1
          OBVIOUS
        <4> QED
          BY <2>1, <2>3, <4>1, <4>2
      <3> QED
        BY <3>1, <3>2, <3>3
    <2> QED
      BY <2>2, <2>3
  <1>12. Upto(n)
    <2> HIDE DEF Upto
    <2>1. 0 \in T /\ \A m \in 1 .. n : m - 1 \in T => m \in T
      BY <1>10, <1>11
    <2>2. \A m \in 0 .. n : m \in T
      <3> HIDE DEF T
      <3> QED
        BY <2>1, FromZero
    <2>3. n \in 0 .. n
      OBVIOUS
    <2> QED
      BY <2>2, <2>3
  <1>13. /\ f[n] \in Seq(0 .. n - 1) /\ DOMAIN f[n] = 1 .. Len(f[n])
         /\ \A t \in 0 .. n - 1 : (\E k \in 1 .. Len(f[n]) : f[n][k] = t) <=> has(t)
    <2>1. \A t \in 0 .. n - 1 : t < n
      OBVIOUS
    <2> QED
      BY <1>12, <2>1
  <1> QED
    BY <1>8, <1>13 DEF has

\* What route promises of the experts of one token.
ChosenWell(i, s) ==
    LET chosen == DOMAIN Route(i, s)
        bias == Tensor(<<"exp_probs_b", i>>).bias
    IN /\ chosen \subseteq DOMAIN s /\ IsFiniteSet(chosen)
       /\ Cardinality(chosen) = Get("expert_used_count")
       /\ \A e \in chosen, o \in DOMAIN s \ chosen : s[e] + bias[e] >= s[o] + bias[o]
       /\ \A e \in chosen : Route(i, s)[e][1] = s[e] /\ Route(i, s)[e][2] > 0
       /\ Get("expert_weights_norm") =>
             \A e \in chosen : SumOf(s, chosen) <= Route(i, s)[e][2]

\* The order of route is total, so that the first ones are as many as are used.
LEMMA RouteChooses ==
    ASSUME NEW i, NEW n \in Nat \ {0}, Get("expert_used_count") \in 1 .. n,
           Tensor(<<"exp_probs_b", i>>).bias \in [0 .. n - 1 -> Int],
           NEW s, DOMAIN s = 0 .. n - 1, \A e \in 0 .. n - 1 : s[e] \in Nat
    PROVE  ChosenWell(i, s)
  <1> DEFINE bias == Tensor(<<"exp_probs_b", i>>).bias
             k == Get("expert_used_count")
             v == [a \in 0 .. n - 1 |-> s[a] + bias[a]]
             R == {p \in (0 .. n - 1) \X (0 .. n - 1) : Before(i, s, p[1], p[2])}
             chosen == {e \in 0 .. n - 1 : Cardinality(Below(0 .. n - 1, R, e)) < k}
             sum == SumOf(s, chosen)
             denominator == IF sum > MinDenominator THEN sum ELSE MinDenominator
  <1>1. v \in [0 .. n - 1 -> Int] /\ \A a \in 0 .. n - 1 : v[a] = s[a] + bias[a]
    <2>1. ASSUME NEW a \in 0 .. n - 1
          PROVE  s[a] + bias[a] \in Int
      <3>1. s[a] \in Int
        OBVIOUS
      <3>2. bias \in [0 .. n - 1 -> Int]
        OBVIOUS
      <3> HIDE DEF bias
      <3> QED
        BY <3>1, <3>2
    <2> HIDE DEF bias
    <2> QED
      BY <2>1
  <1>2. \A a, b \in 0 .. n - 1 : Before(i, s, a, b) <=> v[a] > v[b] \/ (v[a] = v[b] /\ a < b)
    <2>1. \A a, b : Before(i, s, a, b) <=> s[a] + bias[a] > s[b] + bias[b]
                                            \/ (s[a] + bias[a] = s[b] + bias[b] /\ a < b)
      BY DEF Before
    <2> HIDE DEF v, bias
    <2> QED
      BY <1>1, <2>1
  <1>3. \A a, b \in 0 .. n - 1 : <<a, b>> \in R <=> Before(i, s, a, b)
    OBVIOUS
  <1>4. \A e \in 0 .. n - 1 :
           Below(0 .. n - 1, R, e) = {o \in 0 .. n - 1 : Before(i, s, o, e)}
    <2> HIDE DEF R
    <2> QED
      BY <1>3 DEF Below
  <1> HIDE DEF R, v
  <1>5. chosen = {e \in 0 .. n - 1 :
                    Cardinality({o \in 0 .. n - 1 : Before(i, s, o, e)}) < k}
    BY <1>4
  <1>6. /\ IsFiniteSet(0 .. n - 1) /\ Cardinality(0 .. n - 1) = n
        /\ IsFiniteSet(chosen) /\ Cardinality(chosen) = k
        /\ \A e \in chosen, o \in (0 .. n - 1) \ chosen : v[e] >= v[o]
    <2>1. \A a, b \in 0 .. n - 1 : <<a, b>> \in R <=> v[a] > v[b] \/ (v[a] = v[b] /\ a < b)
      BY <1>2, <1>3
    <2>2. k \in 1 .. n /\ v \in [0 .. n - 1 -> Int]
      BY <1>1
    <2>3. \A e : e \in chosen <=> e \in 0 .. n - 1 /\ Cardinality(Below(0 .. n - 1, R, e)) < k
      OBVIOUS
    <2> HIDE DEF k, chosen
    <2> QED
      BY <2>1, <2>2, <2>3, BestOf
  <1>7. chosen \subseteq 0 .. n - 1
    OBVIOUS
  <1> HIDE DEF chosen
  <1>8. ScoresOfAll(s)
    BY <1>6 DEF ScoresOfAll
  <1>9. sum \in Nat
    BY <1>8, SumOfType
  <1>10. Route(i, s) = [e \in chosen |->
                          <<s[e], IF Get("expert_weights_norm") THEN denominator ELSE 1>>]
    BY <1>5 DEF Route
  <1> HIDE DEF sum
  <1>11. denominator \in Nat /\ denominator > 0 /\ sum <= denominator
    BY <1>9 DEF MinDenominator
  <1> HIDE DEF denominator
  <1>12. \A e \in chosen, o \in (0 .. n - 1) \ chosen : s[e] + bias[e] >= s[o] + bias[o]
    <2> HIDE DEF bias
    <2> QED
      BY <1>1, <1>6, <1>7
  <1>13. DOMAIN Route(i, s) = chosen
    BY <1>10
  <1>14. \A e \in chosen : /\ Route(i, s)[e][1] = s[e]
                           /\ Route(i, s)[e][2] > 0
                           /\ Get("expert_weights_norm") => Route(i, s)[e][2] = denominator
    BY <1>10, <1>11
  <1>15. Get("expert_weights_norm") => \A e \in chosen : SumOf(s, chosen) <= Route(i, s)[e][2]
    BY <1>11, <1>14 DEF sum
  <1> QED
    BY <1>6, <1>7, <1>12, <1>13, <1>14, <1>15 DEF ChosenWell

\* What one expert adds to the output of a token.
Contribution(e, t, weight) == [expert |-> e, input |-> t, weight |-> weight]

ChosenOf(i, s, t) == {Contribution(e, t, Route(i, s)[e]) : e \in DOMAIN Route(i, s)}

\* A token gets the results of the experts it was sent to.
LEMMA ContributionsAre ==
    ASSUME NEW i, NEW scores, NEW n \in Nat \ {0}, DOMAIN scores = 0 .. n - 1,
           NEW t \in 0 .. n - 1,
           DOMAIN Route(i, scores[t]) \subseteq 0 .. Get("expert_count") - 1
    PROVE  Contributions(i, scores)[t]
              = {Contribution(Shared, t, <<1, 1>>)} \cup ChosenOf(i, scores[t], t)
  <1> DEFINE D == DOMAIN Route(i, scores[t])
             experts == 0 .. Get("expert_count") - 1
             From(e) == LET tokens == Assigned(i, scores, e)
                        IN {[expert |-> e, input |-> tokens[k],
                             weight |-> Route(i, scores[tokens[k]])[e]] :
                               k \in {m \in DOMAIN tokens : tokens[m] = t}}
             one(e) == Contribution(e, t, Route(i, scores[t])[e])
  <1>1. Contributions(i, scores)[t]
           = {Contribution(Shared, t, <<1, 1>>)} \cup UNION {From(e) : e \in experts}
    BY DEF Contributions, Contribution
  <1>2. ASSUME NEW e \in experts
        PROVE  From(e) = {c \in {one(e)} : e \in D}
    <2> PICK tokens : tokens = Assigned(i, scores, e)
      OBVIOUS
    <2>1. (\E k \in DOMAIN tokens : tokens[k] = t) <=> e \in D
      BY AssignedTo
    <2>2. From(e) = {one(e) : k \in {m \in DOMAIN tokens : tokens[m] = t}}
      BY DEF Contribution
    <2> HIDE DEF From, D, one
    <2> QED
      BY <2>1, <2>2
  <1>3. ChosenOf(i, scores[t], t) = {one(e) : e \in D}
    BY DEF ChosenOf
  <1>4. D \subseteq experts
    OBVIOUS
  <1> HIDE DEF From, one, D, experts
  <1>5. UNION {From(e) : e \in experts} = {one(e) : e \in D}
    BY <1>2, <1>4
  <1> QED
    BY <1>1, <1>3, <1>5

\* What RoutedOnce says of one token.
TokenRouted(i, t, scores, out) ==
    LET score(e) == scores[e] + Tensor(<<"exp_probs_b", i>>).bias[e]
        special == {c \in out : c.expert # Shared}
        used == {c.expert : c \in special}
    IN /\ \A c \in out : c.input = t
       /\ Cardinality(out \ special) = 1
       /\ Cardinality(used) = Cardinality(special)
       /\ Cardinality(used) = Get("expert_used_count")
       /\ \A e \in used, o \in DOMAIN scores \ used : score(e) >= score(o)
       /\ \A c \in special : c.weight[2] > 0
       /\ Get("expert_weights_norm") =>
            \A c \in special : WeightOf(special) <= c.weight[2]

LEMMA TokenByToken ==
    RoutedOnce <=> \A i \in DOMAIN routed : \A t \in DOMAIN routed[i].out :
                      TokenRouted(i, t, routed[i].scores[t], routed[i].out[t])
  BY DEF RoutedOnce, TokenRouted

LEMMA ChosenOnce ==
    ASSUME NEW i, NEW t, NEW s, ScoresOfAll(s), ChosenWell(i, s),
           NEW out, out = {Contribution(Shared, t, <<1, 1>>)} \cup ChosenOf(i, s, t)
    PROVE  TokenRouted(i, t, s, out)
  <1> DEFINE D == DOMAIN Route(i, s)
             special == {c \in out : c.expert # Shared}
             used == {c.expert : c \in special}
             one(e) == Contribution(e, t, Route(i, s)[e])
  <1>1. D \subseteq DOMAIN s /\ IsFiniteSet(D) /\ Shared \notin DOMAIN s
    <2>1. -1 \notin 0 .. Cardinality(DOMAIN s) - 1
      BY DEF ScoresOfAll
    <2> QED
      BY <2>1 DEF ChosenWell, ScoresOfAll, Shared
  <1>2. \A e : one(e).expert = e /\ one(e).input = t /\ one(e).weight = Route(i, s)[e]
    BY DEF Contribution
  <1>3. /\ Contribution(Shared, t, <<1, 1>>).expert = Shared
        /\ Contribution(Shared, t, <<1, 1>>).input = t
    BY DEF Contribution
  <1>4. ChosenOf(i, s, t) = {one(e) : e \in D}
    BY DEF ChosenOf
  <1> PICK sh : sh = Contribution(Shared, t, <<1, 1>>)
    OBVIOUS
  <1> HIDE DEF one, D
  <1>5. special = {one(e) : e \in D} /\ out \ special = {sh}
    BY <1>1, <1>2, <1>3, <1>4
  <1>6. used = D
    BY <1>2, <1>5
  <1>7. \A c \in out : c.input = t
    BY <1>2, <1>3, <1>4
  <1> HIDE DEF special
  <1>8. IsFiniteSet(special) /\ Cardinality(special) = Cardinality(D)
    <2> DEFINE f == [e \in D |-> one(e)]
    <2>1. f \in Bijection(D, special)
      <3>1. f \in [D -> special] /\ \A a, b \in D : f[a] = f[b] => a = b
        BY <1>2, <1>5
      <3>2. \A c \in special : \E e \in D : f[e] = c
        BY <1>5
      <3> HIDE DEF f
      <3> QED
        BY <3>1, <3>2 DEF Bijection, Injection, Surjection, IsInjective
    <2>2. ExistsBijection(D, special)
      BY <2>1 DEF ExistsBijection
    <2> QED
      BY <1>1, <2>2, FS_Bijection
  <1>9. Cardinality(out \ special) = 1
    BY <1>5, FS_Singleton
  <1>10. OneEach(special, s) /\ ExpertsOf(special) = D
    <2>1. \A e \in D : e \in DOMAIN s /\ Route(i, s)[e][1] = s[e]
      BY <1>1 DEF ChosenWell, D
    <2>2. ExpertsOf(special) = D
      BY <1>6 DEF ExpertsOf
    <2> QED
      BY <1>2, <1>5, <2>1, <2>2 DEF OneEach
  <1>11. WeightOf(special) = SumOf(s, D)
    BY <1>8, <1>10, WeightsAddUp
  <1>12. \A c \in special : c.weight[2] > 0 /\ (Get("expert_weights_norm") => SumOf(s, D) <= c.weight[2])
    BY <1>2, <1>5 DEF ChosenWell, D
  <1>13. \A e \in D, o \in DOMAIN s \ D : s[e] + Tensor(<<"exp_probs_b", i>>).bias[e]
                                          >= s[o] + Tensor(<<"exp_probs_b", i>>).bias[o]
    BY DEF ChosenWell, D
  <1>14. Cardinality(D) = Get("expert_used_count")
    BY DEF ChosenWell, D
  <1> HIDE DEF used
  <1>15. /\ Cardinality(used) = Cardinality(special) /\ Cardinality(used) = Get("expert_used_count")
         /\ \A e \in used, o \in DOMAIN s \ used : s[e] + Tensor(<<"exp_probs_b", i>>).bias[e]
                                                  >= s[o] + Tensor(<<"exp_probs_b", i>>).bias[o]
    BY <1>6, <1>8, <1>13, <1>14
  <1>16. Get("expert_weights_norm") =>
            \A c \in special : WeightOf(special) <= c.weight[2]
    BY <1>11, <1>12
  <1>17. \A c \in special : c.weight[2] > 0
    BY <1>12
  <1> QED
    BY <1>7, <1>9, <1>15, <1>16, <1>17 DEF TokenRouted, special, used

\* What a file with experts may say of them.
LEMMA ExpertSizes ==
    ASSUME LoadInv, Loaded, NEW i \in MoeLayers
    PROVE  /\ Get("expert_count") \in Nat \ {0}
           /\ Get("expert_used_count") \in 1 .. Get("expert_count")
           /\ Tensor(<<"exp_probs_b", i>>).bias \in [0 .. Get("expert_count") - 1 -> Int]
  <1> DEFINE name == <<"exp_probs_b", i>>
             n == Get("expert_count")
  <1>1. file \in Files /\ Accepted /\ gguf.tensors = file.tensors
    BY DEF LoadInv, Loaded, Opened
  <1>2. i \in LayerIds /\ IsMoe(i)
    BY DEF MoeLayers
  <1>3. FeedForwardAccepted(i)
    BY <1>1, <1>2 DEF Accepted, LayerAccepted
  <1>4. ExpertsAccepted(i) /\ Norm(name, n)
    BY <1>2, <1>3 DEF FeedForwardAccepted
  <1>5. HasUsize(gguf.meta, "expert_count") /\ n > 0 /\ Get("expert_used_count") \in 1 .. n
    BY <1>4 DEF ExpertsAccepted, HasSizes
  <1>6. n \in Nat
    BY <1>5, SizesAreNumbers
  <1>7. name \in DOMAIN file.tensors /\ file.tensors[name].dims = <<n>>
    BY <1>1, <1>4 DEF Norm, Matrix, Tensor
  <1>8. name[1] = "exp_probs_b"
    OBVIOUS
  <1> HIDE DEF name, n
  <1>9. file.tensors[name].bias \in [0 .. file.tensors[name].dims[1] - 1 -> Int]
    BY <1>1, <1>7, <1>8, ModelAssumption
  <1>10. file.tensors[name].dims[1] = n
    BY <1>7
  <1>11. Tensor(name).bias \in [0 .. n - 1 -> Int]
    BY <1>1, <1>9, <1>10 DEF Tensor
  <1> QED
    BY <1>5, <1>6, <1>11 DEF name, n

\* A pass sends each token to its experts once.
LEMMA ForwardRoutes ==
    ASSUME LoadInv, Loaded, NEW m \in 1 .. Chunk, NEW scores \in RouterScores(m),
           Forward(m, scores)
    PROVE  RoutedOnce'
  <1>1. file' = file /\ gguf' = gguf
    BY DEF Forward
  <1>2. /\ \A k : Get(k)' = Get(k)
        /\ \A name : Tensor(name)' = Tensor(name)
    BY <1>1, SameFile
  <1>3. routed' = [i \in MoeLayers |->
                     [scores |-> scores[i], out |-> Contributions(i, scores[i])]]
    BY DEF Forward
  <1>4. m \in Nat \ {0}
    BY ModelAssumption
  <1>5. ASSUME NEW i \in MoeLayers, NEW t \in 0 .. m - 1
        PROVE  TokenRouted(i, t, scores[i][t], Contributions(i, scores[i])[t])
    <2> PICK n : n = Get("expert_count")
      OBVIOUS
    <2> PICK s : s = scores[i][t]
      OBVIOUS
    <2>1. /\ n \in Nat \ {0} /\ Get("expert_used_count") \in 1 .. n
          /\ Tensor(<<"exp_probs_b", i>>).bias \in [0 .. n - 1 -> Int]
      BY ExpertSizes
    <2>2. s \in Scores /\ DOMAIN s = 0 .. n - 1 /\ DOMAIN scores[i] = 0 .. m - 1
      BY DEF RouterScores
    <2>3. \A e \in 0 .. n - 1 : s[e] \in Nat
      BY <2>2, ModelAssumption
    <2>4. ChosenWell(i, s)
      BY <2>1, <2>2, <2>3, RouteChooses
    <2>5. ScoresOfAll(s)
      <3>1. 0 \in Int /\ n - 1 \in Int /\ (IF 0 > n - 1 THEN 0 ELSE (n - 1) - 0 + 1) = n
        BY <2>1
      <3>2. Cardinality(0 .. n - 1) = n
        BY <3>1, FS_Interval
      <3> QED
        BY <2>1, <2>2, <2>3, <3>2 DEF ScoresOfAll
    <2>6. DOMAIN Route(i, scores[i][t]) \subseteq 0 .. Get("expert_count") - 1
      BY <2>2, <2>4 DEF ChosenWell
    <2>7. Contributions(i, scores[i])[t]
             = {Contribution(Shared, t, <<1, 1>>)} \cup ChosenOf(i, s, t)
      <3> PICK rows : rows = scores[i]
        OBVIOUS
      <3>1. DOMAIN rows = 0 .. m - 1 /\ rows[t] = s
        BY <2>2
      <3>2. DOMAIN Route(i, rows[t]) \subseteq 0 .. Get("expert_count") - 1
        BY <2>6
      <3>3. Contributions(i, rows)[t]
               = {Contribution(Shared, t, <<1, 1>>)} \cup ChosenOf(i, rows[t], t)
        BY <1>4, <3>1, <3>2, ContributionsAre
      <3> QED
        BY <3>1, <3>3
    <2> QED
      BY <2>4, <2>5, <2>7, ChosenOnce
  <1>6. ASSUME NEW i \in DOMAIN routed', NEW t \in DOMAIN routed'[i].out
        PROVE  TokenRouted(i, t, routed[i].scores[t], routed[i].out[t])'
    <2>1. /\ i \in MoeLayers /\ routed'[i].scores = scores[i]
          /\ routed'[i].out = Contributions(i, scores[i])
      BY <1>3
    <2>2. DOMAIN Contributions(i, scores[i]) = 0 .. m - 1
      <3>1. DOMAIN scores[i] = 0 .. m - 1
        BY <2>1 DEF RouterScores
      <3> QED
        BY <3>1 DEF Contributions
    <2>3. TokenRouted(i, t, scores[i][t], Contributions(i, scores[i])[t])
      BY <1>5, <2>1, <2>2
    <2>4. TokenRouted(i, t, routed'[i].scores[t], routed'[i].out[t])
      BY <2>1, <2>3
    <2> QED
      BY <1>2, <2>4 DEF TokenRouted
  <1> QED
    BY <1>6 DEF RoutedOnce, TokenRouted

\* Only a pass sends tokens to experts, and the file does not change under it.
LEMMA RoutingStep ==
    ASSUME LoadInv, RoutedOnce, mpc \in {"file", "open"} => routed = << >>,
           [ModelNext]_modelVars
    PROVE  RoutedOnce'
  <1>1. ASSUME routed' = << >> PROVE RoutedOnce'
    BY <1>1 DEF RoutedOnce
  <1>2. ASSUME NEW requested \in Requests, Open(requested)
        PROVE  RoutedOnce'
    BY <1>1, <1>2 DEF Open
  <1>3. CASE LoadModel
    BY <1>1, <1>3 DEF LoadModel
  <1>4. ASSUME NEW context \in Contexts, NewSession(context)
        PROVE  RoutedOnce'
    BY <1>1, <1>4 DEF NewSession
  <1>5. ASSUME NEW n \in 1 .. Chunk, Panic(n)
        PROVE  RoutedOnce'
    BY <1>1, <1>5 DEF Panic
  <1>6. ASSUME NEW n \in 1 .. Chunk, NEW scores \in RouterScores(n), Forward(n, scores)
        PROVE  RoutedOnce'
    BY <1>6, ForwardRoutes DEF Forward, Loaded
  <1>7. CASE UNCHANGED modelVars
    <2>1. file' = file /\ gguf' = gguf /\ routed' = routed
      BY <1>7 DEF modelVars
    <2>2. /\ \A k : Get(k)' = Get(k)
          /\ \A name : Tensor(name)' = Tensor(name)
      BY <2>1, SameFile
    <2>3. ASSUME NEW i \in DOMAIN routed', NEW t \in DOMAIN routed'[i].out
          PROVE  TokenRouted(i, t, routed[i].scores[t], routed[i].out[t])'
      <3>1. TokenRouted(i, t, routed[i].scores[t], routed[i].out[t])
        BY <2>1, TokenByToken
      <3> QED
        BY <2>1, <2>2, <3>1 DEF TokenRouted
    <2> QED
      BY <2>3 DEF RoutedOnce, TokenRouted
  <1> QED
    BY <1>2, <1>3, <1>4, <1>5, <1>6, <1>7 DEF ModelNext

(***************************************************************************)
(* The invariant of a program that opens, loads and runs a model.          *)
(***************************************************************************)
ModelInv ==
    /\ LoadInv
    /\ mpc # "session" => seen = << >>
    /\ mpc \in {"file", "open"} => fault = "none" /\ routed = << >>
    /\ mpc = "session" => SessionSound
    /\ AttendsToItsPast
    /\ RoutedOnce
    /\ PassesRun

\* Without a pass no head has attended to anything.
LEMMA NothingSeen == seen = << >> => AttendsToItsPast
  BY DEF AttendsToItsPast

\* Which files are excused depends on nothing that a pass changes.
LEMMA ExcusedStays ==
    ASSUME file' = file, gguf' = gguf, machine' = machine
    PROVE  Excused' = Excused
  <1>1. \A name : Fast(name)' = Fast(name)
    BY SameFile DEF Fast
  <1>2. /\ Hidden' = Hidden /\ QueryWidth' = QueryWidth /\ HeadDim' = HeadDim
        /\ LayerIds' = LayerIds
    BY SameFile
  <1> QED
    BY <1>1, <1>2 DEF Excused, Sdot

\* new_session: empty caches, and buffers of the sizes in the file.
LEMMA NewSessionSound ==
    ASSUME LoadInv, Loaded, NEW context \in Contexts, NewSession(context)
    PROVE  SessionSound'
  <1>1. file' = file /\ gguf' = gguf
    BY DEF NewSession
  <1>2. /\ Hidden' = Hidden /\ KvHeads' = KvHeads /\ QueryWidth' = QueryWidth
        /\ KvWidth' = KvWidth /\ LayerIds' = LayerIds
        /\ \A name : Rows(name)' = Rows(name)
    BY <1>1, SameFile DEF Rows
  <1>3. /\ session'.position = 0
        /\ session'.q = QueryWidth /\ session'.kv = KvWidth /\ session'.q8Hidden = Hidden
        /\ session'.gate = Rows(<<"ffn_gate", 0>>) /\ session'.q8Ffn = Rows(<<"ffn_gate", 0>>)
        /\ session'.caches = [i \in LayerIds |-> [keys |-> << >>, values |-> << >>]]
        /\ {"context", "position", "caches", "hidden", "q", "kv", "gate", "q8Hidden", "q8Ffn"}
              \subseteq DOMAIN session'
    BY DEF NewSession
  <1>4. KvHeads \in Nat /\ 0 * KvHeads = 0
    BY Sizes
  <1>5. ASSUME NEW i \in LayerIds
        PROVE  CacheSound(i, session.caches[i], session.position)'
    <2>1. session'.caches[i].keys = << >> /\ session'.caches[i].values = << >>
      BY <1>3
    <2>2. << >> \in Seq(EntrySet) /\ Len(<< >>) = 0 /\ EntrySet' = EntrySet
      BY DEF EntrySet
    <2> DEFINE cache == session.caches[i]
    <2>3. Holds(cache.keys, KvHeads, session.position)'
          /\ Holds(cache.values, KvHeads, session.position)'
      BY <1>2, <1>3, <1>4, <2>1, <2>2 DEF Holds
    <2>4. session'.position = 0 /\ 0 .. 0 - 1 = {}
      BY <1>3
    <2> HIDE DEF cache
    <2>5. CacheSound(i, cache, session.position)'
      BY <2>3, <2>4 DEF CacheSound
    <2> QED
      BY <2>5 DEF cache
  <1> QED
    BY <1>2, <1>3, <1>5 DEF SessionSound

\* A pass leaves the caches of all layers sound, at the new position.
LEMMA ForwardSessionSound ==
    ASSUME LoadInv, Loaded, SessionSound, NEW n \in 1 .. Chunk,
           NEW scores \in RouterScores(n), Forward(n, scores)
    PROVE  SessionSound' /\ session'.position = session.position + n
  <1> DEFINE p == session.position + n
             caches == [i \in LayerIds |-> Appended(i, n)]
             moved == [session EXCEPT !.position = p]
  <1>1. file' = file /\ gguf' = gguf
    BY DEF Forward
  <1>2. /\ Hidden' = Hidden /\ KvHeads' = KvHeads /\ QueryWidth' = QueryWidth
        /\ KvWidth' = KvWidth /\ LayerIds' = LayerIds /\ HeadDim' = HeadDim
        /\ Dense' = Dense
        /\ \A name : Rows(name)' = Rows(name)
    BY <1>1, SameFile DEF Rows
  <1>3. session' = [session EXCEPT !.position = p, !.caches = caches]
    BY DEF Forward
  <1>4. n \in Nat \ {0}
    BY ModelAssumption
  <1>5. \A i \in LayerIds : CacheSound(i, caches[i], p)
    BY <1>4, AppendedSound
  <1>6. p \in Nat
    BY <1>4 DEF SessionSound
  <1>7. DOMAIN caches = LayerIds
    OBVIOUS
  <1> HIDE DEF p, caches
  <1>8. [session EXCEPT !.position = p, !.caches = caches] = [moved EXCEPT !.caches = caches]
    BY Zenon
  <1>9. /\ DOMAIN moved = DOMAIN session /\ moved.position = p
        /\ moved.q = session.q /\ moved.kv = session.kv /\ moved.q8Hidden = session.q8Hidden
        /\ moved.gate = session.gate /\ moved.q8Ffn = session.q8Ffn
    BY DEF SessionSound
  <1>10. session' = [moved EXCEPT !.caches = caches]
    BY <1>3, <1>8
  <1> HIDE DEF moved
  <1>11. /\ DOMAIN session' = DOMAIN session /\ session'.position = p
         /\ session'.q = session.q /\ session'.kv = session.kv
         /\ session'.q8Hidden = session.q8Hidden
         /\ session'.gate = session.gate /\ session'.q8Ffn = session.q8Ffn
         /\ session'.caches = caches
    BY <1>9, <1>10 DEF SessionSound
  <1>12. ASSUME NEW i \in LayerIds
         PROVE  CacheSound(i, session.caches[i], session.position)'
    <2>1. CacheSound(i, caches[i], p)
      BY <1>5
    <2>2. \A token, g : Expected(i, token, g)' = Expected(i, token, g)
      BY <1>2 DEF Expected, Order
    <2> QED
      BY <1>2, <1>11, <2>1, <2>2 DEF CacheSound, EntrySound, Holds
  <1>13. SessionSound'
    BY <1>2, <1>6, <1>7, <1>11, <1>12 DEF SessionSound
  <1> QED
    BY <1>11, <1>13 DEF p

\* A pass records heads that attended to their past.
LEMMA ForwardAttends ==
    ASSUME LoadInv, Loaded, SessionSound, NEW n \in 1 .. Chunk,
           NEW scores \in RouterScores(n), Forward(n, scores)
    PROVE  AttendsToItsPast'
  <1> DEFINE p == session.position
  <1>1. file' = file /\ gguf' = gguf
    BY DEF Forward
  <1>2. /\ Heads' = Heads /\ KvHeads' = KvHeads /\ HeadDim' = HeadDim /\ Dense' = Dense
    BY <1>1, SameFile
  <1>3. n \in Nat \ {0} /\ p \in Nat
    BY ModelAssumption DEF SessionSound
  <1>4. seen' = [i \in LayerIds |-> Attention(i, n)]
    BY DEF Forward
  <1>5. session'.position = p + n
    BY ForwardSessionSound
  <1>6. Heads \in Nat \ {0}
    BY Sizes
  <1>7. ASSUME NEW i \in LayerIds
        PROVE  Cardinality(DOMAIN seen'[i]) \div Heads = n
    <2>1. DOMAIN seen'[i] = 0 .. n * Heads - 1
      BY <1>4 DEF Attention
    <2>2. n * Heads \in Nat /\ n * Heads = Heads * n
      BY <1>3, <1>6
    <2> DEFINE m == n * Heads
    <2> HIDE DEF m
    <2>3. 0 \in Int /\ m - 1 \in Int /\ m \in Nat
      BY <2>2 DEF m
    <2>4. Cardinality(0 .. m - 1) = m
      BY <2>3, FS_Interval
    <2>5. Cardinality(DOMAIN seen'[i]) = Heads * n
      BY <2>1, <2>2, <2>4 DEF m
    <2> QED
      BY <1>3, <1>6, <2>5, MultipleDivides
  <1>8. ASSUME NEW i \in LayerIds, HeadDim \div 2 <= RopeBuffer,
               NEW token \in 0 .. n - 1, NEW head \in 0 .. Heads - 1
        PROVE  Attends(i, p + token, head, seen'[i][token * Heads + head])
    <2>1. Attends(i, p + token, head, Attention(i, n)[token * Heads + head])
      BY <1>3, <1>8, AttentionSound
    <2>2. seen'[i] = Attention(i, n)
      BY <1>4
    <2> QED
      BY <2>1, <2>2
  <1>9. DOMAIN seen' = LayerIds
    BY <1>4
  <1> HIDE DEF p
  <1>10. ASSUME NEW i \in DOMAIN seen', (HeadDim \div 2 <= RopeBuffer)',
                NEW m, m = (Cardinality(DOMAIN seen[i]) \div Heads)',
                NEW token \in 0 .. m - 1, NEW head \in 0 .. Heads' - 1
         PROVE  Attends(i, session.position - m + token, head, seen[i][token * Heads + head])'
    <2>1. /\ i \in LayerIds /\ HeadDim \div 2 <= RopeBuffer /\ m = n
          /\ token \in 0 .. n - 1 /\ head \in 0 .. Heads - 1
      BY <1>2, <1>7, <1>9, <1>10 DEF RopeBuffer
    <2>2. session'.position - m + token = p + token
      BY <1>3, <1>5, <2>1
    <2>3. Attends(i, p + token, head, seen'[i][token * Heads + head])
      BY <1>8, <2>1
    <2> QED
      BY <1>2, <2>2, <2>3 DEF Attends
  <1> QED
    BY <1>10 DEF AttendsToItsPast

LEMMA ModelInvInit == ModelInit => ModelInv
  BY LoadInvInit, NothingSeen DEF ModelInit, ModelInv, PassesRun, RoutedOnce

\* Each action keeps the invariant.
LEMMA ModelInvStep ==
    ASSUME ModelInv, [ModelNext]_modelVars
    PROVE  ModelInv'
  <1>1. LoadInv /\ LoadInv' /\ RoutedOnce'
    BY LoadInvStep, RoutingStep DEF ModelInv
  <1>2. PassesRun <=> (fault # "none" => Excused)
    BY DEF PassesRun, Excused
  <1>3. PassesRun' <=> (fault' # "none" => Excused')
    BY DEF PassesRun, Excused
  <1>4. ASSUME seen' = << >> PROVE AttendsToItsPast'
    BY <1>4, NothingSeen DEF AttendsToItsPast
  <1>5. ASSUME NEW requested \in Requests, Open(requested)
        PROVE  ModelInv'
    <2>1. mpc = "file" /\ mpc' \in {"open", "refused"} /\ seen' = << >> /\ fault' = "none"
          /\ routed' = << >>
      BY <1>5 DEF Open, ModelInv
    <2> QED
      BY <1>1, <1>3, <1>4, <2>1 DEF ModelInv
  <1>6. CASE LoadModel
    <2>1. mpc = "open" /\ mpc' \in {"model", "refused"} /\ seen' = << >> /\ fault' = "none"
      BY <1>6 DEF LoadModel, ModelInv
    <2> QED
      BY <1>1, <1>3, <1>4, <2>1 DEF ModelInv
  <1>7. ASSUME NEW context \in Contexts, NewSession(context)
        PROVE  ModelInv'
    <2>1. Loaded /\ mpc' = "session" /\ seen' = << >> /\ fault' = "none"
      BY <1>7 DEF NewSession, Loaded
    <2>2. SessionSound'
      BY <1>1, <1>7, <2>1, NewSessionSound
    <2> QED
      BY <1>1, <1>3, <1>4, <2>1, <2>2 DEF ModelInv
  <1>8. ASSUME NEW n \in 1 .. Chunk, Panic(n)
        PROVE  ModelInv'
    <2>1. mpc = "session" /\ Loaded /\ mpc' = "model" /\ seen' = << >>
      BY <1>8 DEF Panic, Loaded
    <2>2. Failing(n) # {}
      BY <1>8 DEF Panic, Stops
    <2>3. Excused
      BY <1>1, <2>1, <2>2, NeedsHold, ModelAssumption DEF ModelInv
    <2>4. Excused'
      BY <1>8, <2>3, ExcusedStays DEF Panic
    <2> QED
      BY <1>1, <1>3, <1>4, <2>1, <2>4 DEF ModelInv
  <1>9. ASSUME NEW n \in 1 .. Chunk, NEW scores \in RouterScores(n),
               Forward(n, scores)
        PROVE  ModelInv'
    <2>1. mpc = "session" /\ Loaded /\ mpc' = "session" /\ SessionSound
      BY <1>9 DEF Forward, Loaded, ModelInv
    <2>2. SessionSound'
      BY <1>1, <1>9, <2>1, ForwardSessionSound
    <2>3. AttendsToItsPast'
      BY <1>1, <1>9, <2>1, ForwardAttends
    <2>4. fault' # "none" => Excused'
      <3> SUFFICES ASSUME fault' # "none" PROVE Excused'
        OBVIOUS
      <3>1. Failing(n) # {}
        BY <1>9 DEF Forward
      <3>2. Excused
        BY <1>1, <2>1, <3>1, NeedsHold, ModelAssumption
      <3> QED
        BY <1>9, <3>2, ExcusedStays DEF Forward
    <2> QED
      BY <1>1, <1>3, <2>1, <2>2, <2>3, <2>4 DEF ModelInv
  <1>10. CASE UNCHANGED modelVars
    <2>1. /\ file' = file /\ gguf' = gguf /\ machine' = machine /\ mpc' = mpc
          /\ session' = session /\ fault' = fault /\ seen' = seen /\ routed' = routed
      BY <1>10 DEF modelVars
    <2>2. Excused' = Excused
      BY <2>1, ExcusedStays
    <2>3. /\ Hidden' = Hidden /\ Heads' = Heads /\ KvHeads' = KvHeads /\ HeadDim' = HeadDim
          /\ QueryWidth' = QueryWidth /\ KvWidth' = KvWidth /\ Dense' = Dense
          /\ LayerIds' = LayerIds
          /\ \A name : Rows(name)' = Rows(name)
      BY <2>1, SameFile DEF Rows
    <2>4. AttendsToItsPast' = AttendsToItsPast
      BY <2>1, <2>3 DEF AttendsToItsPast, Attends
    <2>5. SessionSound' = SessionSound
      <3>1. \A i, token, g : Expected(i, token, g)' = Expected(i, token, g)
        BY <2>3 DEF Expected, Order
      <3>2. \A i, cache, token, g :
               EntrySound(i, cache, token, g)' = EntrySound(i, cache, token, g)
        BY <2>3, <3>1 DEF EntrySound
      <3>3. \A i, cache, tokens : CacheSound(i, cache, tokens)' = CacheSound(i, cache, tokens)
        BY <2>3, <3>2 DEF CacheSound
      <3> QED
        BY <2>1, <2>3, <3>3 DEF SessionSound
    <2> QED
      BY <1>1, <1>2, <1>3, <2>1, <2>2, <2>4, <2>5 DEF ModelInv
  <1> QED
    BY <1>5, <1>6, <1>7, <1>8, <1>9, <1>10 DEF ModelNext

(***************************************************************************)
(* The theorems.                                                           *)
(***************************************************************************)
\* In every reachable state: what Open and Model::open have checked holds of the
\* file, and the caches of a session have, layer by layer, one key and one value
\* of each key head for each token so far, in the order of the tokens.
THEOREM ModelInvHolds == ModelSpec => []ModelInv
  <1>1. ModelInv /\ [ModelNext]_modelVars => ModelInv'
    BY ModelInvStep
  <1> QED
    BY ModelInvInit, <1>1, PTL DEF ModelSpec

\* TensorType::from_id, the profiles of Gguf::open: whatever ids a file has and
\* whatever profile it is opened with, 40 and 42 are read as the layouts of the
\* old exports only where all that marks such an export is there.
THEOREM IdsAreNotReinterpreted == ModelSpec => []NeverReinterpreted
  <1>1. ModelInv => NeverReinterpreted
    BY LoadedIsNeverReinterpreted DEF ModelInv
  <1> QED
    BY ModelInvHolds, <1>1, PTL

\* Tokenizer::from_gguf and Model::open: of a file that is accepted, the rows of
\* the output, the pieces, the names and the ids that end a text are those of one
\* vocabulary.
THEOREM VocabularyStaysOne == ModelSpec => []VocabularyIsOne
  <1>1. ModelInv => VocabularyIsOne
    BY LoadedHasOneVocabulary DEF ModelInv
  <1> QED
    BY ModelInvHolds, <1>1, PTL

\* KvCache::append, rope and compute_head: for every number of layers, heads and
\* key heads an accepted file may have and every cut of the tokens into passes,
\* by the path for one token and the one for several, a query is compared with
\* the keys of its group of each position up to its own.
THEOREM HeadsAttendToTheirPast == ModelSpec => []AttendsToItsPast
  <1>1. ModelInv => AttendsToItsPast
    BY DEF ModelInv
  <1> QED
    BY ModelInvHolds, <1>1, PTL

\* route and Moe::forward: for every number of experts, every score and bias and
\* every batch, a token gets the shared expert's result and once each those of its
\* best experts, as many as are used, with weights that do not exceed the scale.
THEOREM TokensAreRoutedOnce == ModelSpec => []RoutedOnce
  <1>1. ModelInv => RoutedOnce
    BY DEF ModelInv
  <1> QED
    BY ModelInvHolds, <1>1, PTL

\* Session::forward_into on a file that Model::open accepted: no assertion on
\* lengths, no index into a cache and no missing kernel stops a pass, but for
\* the mixtures of types the property names.
THEOREM AcceptedFilesRun == ModelSpec => []PassesRun
  <1>1. ModelInv => PassesRun
    BY DEF ModelInv
  <1> QED
    BY ModelInvHolds, <1>1, PTL
=============================================================================
