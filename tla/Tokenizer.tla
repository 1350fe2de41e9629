------------------------------ MODULE Tokenizer ------------------------------
(***************************************************************************)
(* The vocabulary and chat template of src/src/tokenizer.rs: what a file   *)
(* has to declare for ChatTokenizer::from_gguf to accept it, the bytes of  *)
(* each token and the lists of messages that render.  A token is a name    *)
(* with a kind and a form, which says how its name is spelled; how text is *)
(* split into tokens is the library's.                                     *)
(*                                                                         *)
(* The vocabulary part v of a file has                                     *)
(*    model, pre  the names of the tokenizer and of the pretokenizer       *)
(*    merges      TRUE if every merge is a pair of tokens                  *)
(*    template    TRUE if there is a chat template and it compiles         *)
(*    tokens      the tokens, a function from 0 .. n - 1                   *)
(*    types       how many token types are listed                         *)
(*    ids         the token ids declared, a function from some of the keys *)
(***************************************************************************)
EXTENDS Naturals, Sequences, FiniteSets

\* The forms of a name: "<0x..>" with a byte in it or without, other characters
\* that each stand for a byte, and any text with one that does not.
Forms == {"hex", "badhex", "bytes", "foreign"}

Ids(v) == DOMAIN v.tokens
VocabSize(v) == Cardinality(Ids(v))

\* The library's map from names to ids is collected from the list, where of two
\* equal names the later one stays; adding a name it knows does not renumber it.
TokenToId(v, name) ==
    CHOOSE i \in Ids(v) :
       /\ v.tokens[i].name = name
       /\ \A j \in Ids(v) : v.tokens[j].name = name => j <= i

IsSpecial(token) == token.kind \in {2, 3, 5}

\* The bytes of a token, by what they are made from: none for a special one, its
\* own text, the byte it spells, or the bytes its characters stand for.
Piece(token) ==
    CASE IsSpecial(token) -> << >>
      [] token.kind = 4 -> <<"text", token.name>>
      [] token.kind = 6 /\ token.form \in {"hex", "badhex"} -> <<"byte", token.name>>
      [] OTHER -> <<"decoded", token.name>>

HasPiece(token) ==
    \/ IsSpecial(token) \/ token.kind = 4
    \/ IF token.kind = 6 /\ token.form \in {"hex", "badhex"}
         THEN token.form = "hex"
         ELSE token.form # "foreign"

\* The keys of end tokens, of which the first is also asked for by name.
EosKeys == {"eos_token_id", "eot_token_id", "eom_token_id"}

Eos(v) == {v.ids[k] : k \in EosKeys \cap DOMAIN v.ids}

\* Mutant: names are not checked against the map.
TokenizerAcceptsRemapped(v) ==
    /\ v.model = "gpt2"
    /\ v.merges
    /\ v.pre \in {"hunyuan", "hunyuan-dense"}
    /\ v.types = VocabSize(v)
    /\ \A i \in Ids(v) : v.tokens[i].kind \in 1 .. 6
    /\ Eos(v) \subseteq Ids(v) /\ Eos(v) # {}
    /\ {"bos_token_id", "eos_token_id"} \subseteq DOMAIN v.ids
    /\ v.ids["bos_token_id"] \in Ids(v)
    /\ v.template
    /\ \A i \in Ids(v) : HasPiece(v.tokens[i])

\* ChatTokenizer::from_gguf returns a tokenizer.
TokenizerAccepts(v) ==
    /\ v.model = "gpt2"
    /\ v.merges
    /\ v.pre \in {"hunyuan", "hunyuan-dense"}
    /\ v.types = VocabSize(v)
    /\ \A i \in Ids(v) : v.tokens[i].kind \in 1 .. 6
    /\ \A i \in Ids(v) : TokenToId(v, v.tokens[i].name) = i
    /\ Eos(v) \subseteq Ids(v) /\ Eos(v) # {}
    /\ {"bos_token_id", "eos_token_id"} \subseteq DOMAIN v.ids
    /\ v.ids["bos_token_id"] \in Ids(v)
    /\ v.template
    /\ \A i \in Ids(v) : HasPiece(v.tokens[i])

\* The tokenizer: the pieces in the order of the ids, the ends, and the names the
\* template prints for the first and the last token of a prompt.
TokenizerOf(v) ==
    [pieces |-> [i \in Ids(v) |-> Piece(v.tokens[i])],
     eos |-> Eos(v),
     bosToken |-> v.tokens[v.ids["bos_token_id"]].name,
     eosToken |-> v.tokens[v.ids["eos_token_id"]].name]

\* render: the roles of a list of messages the template is tried on.
Renders(roles) ==
    /\ roles # << >>
    /\ \A i \in 2 .. Len(roles) : roles[i] # "system"
=============================================================================
