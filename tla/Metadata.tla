------------------------------ MODULE Metadata ------------------------------
(***************************************************************************)
(* The metadata of a model file and what the types of its tensors mean:    *)
(* the parts of Gguf::parse of src/src/gguf.rs before and after the tensor *)
(* directory (module Gguf), its typed getters, and DType::from_id of       *)
(* src/src/quant.rs.                                                       *)
(*                                                                         *)
(* A value is a record of its kind and                                     *)
(*    is        an integer, a name, a truth value; of a float, its sign    *)
(*    finite    of a float: as "f32", only as "f64", or "no"               *)
(*    byte      of a boolean: the byte in the file                         *)
(*    utf8, bytes   of a string                                            *)
(*    element, items  of an array                                          *)
(***************************************************************************)
EXTENDS Integers, Sequences, FiniteSets

IntegerKinds == (0 .. 5) \cup {10, 11}
FloatKinds == {6, 12}
BooleanKind == 7
StringKind == 8
ArrayKind == 9

MaxString == 64 * 1024 * 1024
MaxItems == 16000000

\* Reader::value, of a value that is not an array, and of any.
ScalarReads(v) ==
    \/ v.kind \in IntegerKinds
    \/ v.kind \in FloatKinds /\ v.finite # "no"
    \/ v.kind = BooleanKind /\ v.byte <= 1
    \/ v.kind = StringKind /\ v.utf8 /\ v.bytes <= MaxString

ValueReads(v) ==
    IF v.kind # ArrayKind THEN ScalarReads(v)
    ELSE /\ v.element \in (0 .. 12) \ {ArrayKind}
         /\ Len(v.items) <= MaxItems
         /\ \A i \in DOMAIN v.items :
               v.items[i].kind = v.element /\ ScalarReads(v.items[i])

Keys(pairs) == {pairs[i][1] : i \in DOMAIN pairs}

MetadataOf(pairs) ==
    [k \in Keys(pairs) |-> pairs[CHOOSE i \in DOMAIN pairs : pairs[i][1] = k][2]]

\* The getters find a value: as_u64, as_f64 rounded to f32, as_bool, as_str.
HasUsize(meta, key) ==
    key \in DOMAIN meta /\ meta[key].kind \in IntegerKinds /\ meta[key].is >= 0

HasFloat(meta, key) ==
    /\ key \in DOMAIN meta
    /\ \/ meta[key].kind \in IntegerKinds
       \/ meta[key].kind \in FloatKinds /\ meta[key].finite = "f32"

HasBoolean(meta, key) == key \in DOMAIN meta /\ meta[key].kind = BooleanKind
HasString(meta, key) == key \in DOMAIN meta /\ meta[key].kind = StringKind

\* The loop over the pairs and the two settings that concern the file itself.
HeaderAccepts(pairs) ==
    LET meta == MetadataOf(pairs)
    IN /\ \A i \in DOMAIN pairs : ValueReads(pairs[i][2])
       /\ Cardinality(Keys(pairs)) = Len(pairs)
       /\ "general.alignment" \in DOMAIN meta =>
             /\ HasUsize(meta, "general.alignment")
             /\ meta["general.alignment"].is \in {2 ^ n : n \in 0 .. 16}
       /\ "split.count" \in DOMAIN meta =>
             HasUsize(meta, "split.count") /\ meta["split.count"].is = 1

(***************************************************************************)
(* Profiles.                                                               *)
(***************************************************************************)
Legacy == [tencent_q2_0c |-> [id |-> 40, fileType |-> 39],
           tencent_stq1 |-> [id |-> 42, fileType |-> 41]]

\* The profile by which ids are read: the one asked for, or in "auto" the one of
\* the two known files, for any other that has the ids none.
ProfileOf(requested, digest, ids) ==
    IF requested # "auto" THEN requested
    ELSE IF ids \cap {40, 42} = {} THEN "standard"
    ELSE IF digest \in DOMAIN Legacy THEN digest ELSE "ambiguous"

\* What a file has to be to be read as a Tencent export.
LegacyFits(profile, meta, ids) ==
    /\ HasString(meta, "general.architecture")
    /\ meta["general.architecture"].is = "hunyuan-dense"
    /\ HasUsize(meta, "general.file_type")
    /\ meta["general.file_type"].is = Legacy[profile].fileType
    /\ Legacy[profile].id \in ids
    /\ ids \subseteq {0, 14, Legacy[profile].id}

ProfileAccepts(profile, meta, ids) ==
    /\ profile # "ambiguous"
    /\ profile \in DOMAIN Legacy => LegacyFits(profile, meta, ids)

\* Mutant: the ids always mean what they meant in the old exports.
TypeOfAnyProfile(id, profile) ==
    CASE id = 0 -> "F32" [] id = 1 -> "F16" [] id = 8 -> "Q8_0"
      [] id = 12 -> "Q4_K" [] id = 14 -> "Q6_K"
      [] id = 40 -> "Q2_0C" [] id = 42 -> "STQ1_0"
      [] OTHER -> "unsupported"

\* DType::from_id.
TypeOf(id, profile) ==
    CASE id = 0 -> "F32" [] id = 1 -> "F16" [] id = 8 -> "Q8_0"
      [] id = 12 -> "Q4_K" [] id = 14 -> "Q6_K"
      [] id = 40 /\ profile = "tencent_q2_0c" -> "Q2_0C"
      [] id = 42 /\ profile = "tencent_stq1" -> "STQ1_0"
      [] OTHER -> "unsupported"
=============================================================================
