------------------------------- MODULE Sampler -------------------------------
(***************************************************************************)
(* The sampler of src/src/generation.rs, one for each generation: which    *)
(* token may follow from the logits of a pass.  Logits are integers; a     *)
(* greater one than MaxFinite stands for one that is not finite.  exp      *)
(* gives integers and underflows to zero, sums are exact, and the random   *)
(* number is any, also one that rounds up to the whole sum.                *)
(***************************************************************************)
EXTENDS Integers, Sequences, FiniteSets, FiniteSetsExt, SequencesExt

CONSTANTS
    Vocab,          \* the number of tokens
    PromptTokens,   \* tokens a prompt may have
    Temperatures, TopKs, TopPs, Penalties,  \* requested; fractions are pairs
    Logits,         \* values a pass may leave in the buffer
    MaxFinite,      \* the greatest finite logit
    Underflow,      \* the distance from the greatest at which exp still is not zero
    Exp             \* what exp gives of each distance up to there

ASSUME SamplerAssumption ==
    /\ Vocab \in Nat \ {0} /\ PromptTokens \subseteq Nat
    /\ Temperatures \subseteq Nat /\ TopKs \subseteq Int /\ Logits \subseteq Int
    /\ TopPs \subseteq Nat \X (Nat \ {0}) /\ Penalties \subseteq Nat \X (Nat \ {0})
    /\ MaxFinite \in Nat /\ Underflow \in Nat
    /\ Exp \in [0 .. Underflow -> Nat \ {0}]

VARIABLES
    spc,        \* "new", "forward", "sample" or "failed"
    params,     \* Sampling
    prompt,     \* the tokens of the prompt
    seen,       \* Sampler.seen, as a set
    logits,     \* the buffer passed to sample
    result,     \* the token the last call returned, as a set
    emitted     \* all tokens returned, a history variable

request == <<params, prompt>>
samplerVars == <<spc, request, seen, logits, result, emitted>>

Tokens == 0 .. Vocab - 1

SamplerInit ==
    /\ spc = "new"
    /\ params \in [temperature : Temperatures, topK : TopKs,
                   topP : TopPs, penalty : Penalties]
    /\ prompt \in SUBSET PromptTokens
    /\ seen = {} /\ logits = << >> /\ result = {} /\ emitted = {}

\* Sampling::validate; none of the values here is infinite or negative zero.
Valid(p) ==
    /\ p.temperature <= 2
    /\ 0 < p.topP[1] /\ p.topP[1] <= p.topP[2]
    /\ p.topK >= -1
    /\ p.penalty[1] > 0

New ==
    /\ spc = "new"
    /\ \/ /\ Valid(params) /\ prompt \subseteq Tokens
          /\ seen' = prompt
          /\ spc' = "forward"
       \/ /\ ~(Valid(params) /\ prompt \subseteq Tokens)
          /\ spc' = "failed"
          /\ UNCHANGED seen
    /\ UNCHANGED <<request, logits, result, emitted>>

\* The generation's next pass overwrites the buffer.
Forward ==
    /\ spc = "forward"
    /\ logits' \in [Tokens -> Logits]
    /\ spc' = "sample"
    /\ result' = {}
    /\ UNCHANGED <<request, seen, emitted>>

Finite(l) == \A t \in DOMAIN l : l[t] \in -MaxFinite .. MaxFinite

\* What the penalty makes of the logit x: always less likely if it is above one.
Penalise(x) ==
    LET over == params.penalty[1]
        under == params.penalty[2]
    IN IF x < 0 THEN (x * over) \div under ELSE (x * under) \div over

Penalised == [t \in Tokens |-> IF t \in seen THEN Penalise(logits[t]) ELSE logits[t]]

\* Descending by logit, then ascending by token: a total order.
Outranks(l, a, b) == l[a] > l[b] \/ (l[a] = l[b] /\ a < b)

Ranked(l) ==
    LET all == [i \in 1 .. Vocab |->
                  CHOOSE t \in Tokens :
                     Cardinality({u \in Tokens : Outranks(l, u, t)}) = i - 1]
    IN IF 0 < params.topK /\ params.topK < Len(all)
         THEN SubSeq(all, 1, params.topK) ELSE all

\* exp of the distance from the greatest logit, over the temperature.
Weight(distance) ==
    LET d == distance \div params.temperature
    IN IF d > Underflow THEN 0 ELSE Exp[d]

Weights(l) ==
    LET ranked == Ranked(l)
    IN [i \in DOMAIN ranked |-> Weight(l[ranked[1]] - l[ranked[i]])]

FirstSum(w, n) == SumFunctionOnSet(w, 1 .. n)

\* Mutant: the prefix goes on until it has more than the threshold.
RetainedBeyond(w) ==
    LET enough == {n \in DOMAIN w :
           params.topP[2] * FirstSum(w, n) > params.topP[1] * FirstSum(w, Len(w))}
    IN IF enough = {} THEN Len(w) ELSE Min(enough)

\* The length of the shortest prefix with the share top_p of the sum.
Retained(w) ==
    LET enough == {n \in DOMAIN w :
           params.topP[2] * FirstSum(w, n) >= params.topP[1] * FirstSum(w, Len(w))}
    IN IF enough = {} THEN Len(w) ELSE Min(enough)

\* The tokens that some target up to the retained sum leads to.
Drawn(l) ==
    LET ranked == Ranked(l)
        w == Weights(l)
        count == Retained(w)
        at(target) == LET past == {n \in 1 .. count : FirstSum(w, n) > target}
                      IN IF past = {} THEN count ELSE Min(past)
    IN {ranked[at(target)] : target \in 0 .. FirstSum(w, count)}

\* The first of the greatest.
Greatest(l) == {t \in Tokens : \A u \in Tokens \ {t} : Outranks(l, t, u)}

Sample ==
    /\ spc = "sample"
    /\ \/ /\ ~(Finite(logits) /\ Finite(Penalised))
          /\ spc' = "failed"
          /\ UNCHANGED <<seen, result, emitted>>
       \/ /\ Finite(logits) /\ Finite(Penalised)
          /\ \E token \in IF params.temperature = 0
                             THEN Greatest(Penalised) ELSE Drawn(Penalised) :
                /\ result' = {token}
                /\ seen' = seen \cup {token}
                /\ emitted' = emitted \cup {token}
          /\ spc' = "forward"
    /\ logits' = << >>
    /\ UNCHANGED request

SamplerNext == New \/ Forward \/ Sample

SamplerSpec == SamplerInit /\ [][SamplerNext]_samplerVars

-----------------------------------------------------------------------------

\* Reference: the logits after a penalty for all of the prompt and the output.
Judged ==
    [t \in Tokens |->
        IF t \in prompt \cup emitted THEN Penalise(logits[t]) ELSE logits[t]]

\* Reference: the tokens before t, the ones top_k leaves, and what they weigh.
Better(t) == {u \in Tokens : Outranks(Judged, u, t)}
TopRanked == {t \in Tokens : params.topK <= 0 \/ Cardinality(Better(t)) < params.topK}
Mass(S) ==
    LET best == CHOOSE t \in Tokens : Better(t) = {}
    IN SumFunctionOnSet([t \in Tokens |-> Weight(Judged[best] - Judged[t])], S)

\* A token is sampled only from the logits as they are penalised for the whole
\* history, once for each token; only the best one at temperature zero, and else
\* only one of the top_k that weighs something and that the nucleus needs: the
\* tokens before it have less than top_p of the sum, whatever random() returns.
SampledFromNucleus ==
    [][\A t \in result' \ result :
          IF params.temperature = 0
            THEN Better(t) = {}
            ELSE /\ t \in TopRanked
                 /\ Mass({t}) > 0
                 /\ params.topP[2] * Mass(Better(t))
                       < params.topP[1] * Mass(TopRanked)]_samplerVars
=============================================================================
