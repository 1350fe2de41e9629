------------------------------ MODULE Generate ------------------------------
(***************************************************************************)
(* The callers of a Session (module Session): Generator::generate of       *)
(* src/src/generation.rs, one request from its validated limits to the     *)
(* usage it reports, before it ChatRequest::prepare of src/src/server.rs   *)
(* for a request that came by HTTP (the command line calls generate with   *)
(* its own options), and code that works on a session by itself, as        *)
(* src/examples/reference_dump.rs does, and may make any call.  Which      *)
(* token is sampled and what text it adds are left open (module TextOutput *)
(* has the text); the callback may wait for its reader for ever while the  *)
(* request is not cancelled, and fails when the stream behind it is        *)
(* cancelled or closed.                                                    *)
(*                                                                         *)
(* A field that may be absent is << >> or <<value>>.  Temperatures and     *)
(* shares are in tenths, penalties in hundredths, a stop string is its     *)
(* length in bytes.                                                        *)
(***************************************************************************)
EXTENDS Session, Integers, Tokenizer

CONSTANTS
    Bodies,        \* bodies of chat requests
    DefaultTokens, \* the output limit of a request that names none
    Architectures, \* of the model: "hunyuan-dense", "hy_v3"
    Samplings      \* sampling parameters a command line gives

\* The limits of a body are absent or a usize.
ASSUME GenerateAssumption ==
    /\ DefaultTokens \in Nat \ {0}
    /\ \A b \in Bodies : {b.max_tokens, b.max_completion_tokens} \subseteq Seq(Nat)

VARIABLES
    gpc,         \* where generate is; "direct" for a caller of its own
    served,      \* prepare has made the options
    prompt,      \* prompt.len()
    options,     \* options
    step,        \* the loop variable
    sampled,     \* token_ids.len()
    stopped,     \* the last token, or its text, ends the output
    reason       \* finish_reason

request == <<served, prompt, options>>
progress == <<step, sampled, stopped, reason>>
generateVars == <<sessionVars, gpc, request, progress>>

Ended == {"done", "failed"}

maxTokens == options.max_tokens

\* Sampling::for_model.
SamplingFor(arch) ==
    LET dense == arch = "hunyuan-dense"
    IN [temperature |-> 7, top_p |-> IF dense THEN 6 ELSE 10,
        top_k |-> IF dense THEN 20 ELSE -1,
        repetition_penalty |-> IF dense THEN 105 ELSE 100]

\* Sampling::validate and Options::validate.
SamplingValid(s) ==
    /\ s.temperature \in 0 .. 20
    /\ s.top_p \in 1 .. 10
    /\ s.top_k >= -1
    /\ s.repetition_penalty > 0

MaxStops == 4
MaxStopBytes == 4096

OptionsValid(o) ==
    /\ SamplingValid(o.sampling)
    /\ o.max_tokens > 0
    /\ Len(o.stop) <= MaxStops
    /\ \A i \in DOMAIN o.stop : o.stop[i] \in 1 .. MaxStopBytes

GenerateInit ==
    /\ SessionInit
    /\ gpc \in {"prepare", "begin", "direct"}
    /\ served = FALSE
    /\ \/ /\ gpc = "begin"
          /\ prompt \in 0 .. Context + 1
          /\ options \in [max_tokens : 0 .. Context + 1, sampling : Samplings,
                          stop : {<< >>}]
       \/ /\ gpc # "begin"
          /\ prompt = 0
          /\ options = [max_tokens |-> 1, sampling |-> SamplingFor("hy_v3"),
                        stop |-> << >>]
    /\ step = 0 /\ sampled = 0 /\ stopped = FALSE
    /\ reason = "length"

GoTo(pcs) == gpc' \in pcs

(***************************************************************************)
(* prepare.                                                                *)
(***************************************************************************)
Or(option, default) == IF option = << >> THEN default ELSE option[1]

\* max_completion_tokens, max_tokens, or what is left up to a default.
OutputLimit(b, tokens) ==
    Or(b.max_completion_tokens,
       Or(b.max_tokens, Least(DefaultTokens, Context - tokens)))

\* The options of a request with that many prompt tokens.
OptionsOf(b, tokens, arch) ==
    LET default == SamplingFor(arch)
    IN [max_tokens |-> OutputLimit(b, tokens),
        sampling |-> [temperature |-> Or(b.temperature, default.temperature),
                      top_p |-> Or(b.top_p, default.top_p),
                      top_k |-> Or(b.top_k, default.top_k),
                      repetition_penalty |->
                        Or(b.repetition_penalty, default.repetition_penalty)],
        stop |-> b.stop]

\* Mutant: only the named limit is compared with the context.
PreparesUnfit(b, tokens, arch) ==
    /\ Or(b.n, 1) = 1
    /\ b.max_tokens = << >> \/ b.max_completion_tokens = << >>
    /\ b.stream \/ b.stream_options = << >>
    /\ \A i \in DOMAIN b.messages : b.messages[i].parts \subseteq {"text"}
    /\ Renders([i \in DOMAIN b.messages |-> b.messages[i].role])
    /\ tokens > 0 /\ tokens < Context
    /\ OutputLimit(b, tokens) <= Context
    /\ OptionsValid(OptionsOf(b, tokens, arch))

\* What ensure! and ? of prepare let through.
Prepares(b, tokens, arch) ==
    /\ Or(b.n, 1) = 1
    /\ b.max_tokens = << >> \/ b.max_completion_tokens = << >>
    /\ b.stream \/ b.stream_options = << >>
    /\ \A i \in DOMAIN b.messages : b.messages[i].parts \subseteq {"text"}
    /\ Renders([i \in DOMAIN b.messages |-> b.messages[i].role])
    /\ tokens > 0 /\ tokens < Context
    /\ OutputLimit(b, tokens) <= Context - tokens
    /\ OptionsValid(OptionsOf(b, tokens, arch))

\* How many tokens the messages are is the tokenizer's.
Prepare(b, tokens, arch) ==
    /\ gpc = "prepare"
    /\ IF Prepares(b, tokens, arch)
         THEN /\ GoTo({"begin"})
              /\ served' = TRUE
              /\ prompt' = tokens
              /\ options' = OptionsOf(b, tokens, arch)
         ELSE /\ GoTo({"failed"})
              /\ UNCHANGED request
    /\ UNCHANGED <<sessionVars, progress>>

(***************************************************************************)
(* generate.                                                               *)
(***************************************************************************)
\* Mutant: the output limit is not compared with what the prompt leaves.
LimitsIgnorePrompt ==
    /\ OptionsValid(options)
    /\ prompt > 0 /\ prompt < Context
    /\ maxTokens <= Context

\* Options::validate and the two ensure! on the prompt and the output limit.
LimitsHold ==
    /\ OptionsValid(options)
    /\ prompt > 0 /\ prompt < Context
    /\ maxTokens <= Context - prompt

\* The limits do not hold, or new_session or the sampler refuses.
Refuse ==
    /\ gpc = "begin"
    /\ GoTo({"failed"})
    /\ UNCHANGED <<sessionVars, request, progress>>

\* A fresh session and sampler, then the whole prompt.
Prefill ==
    /\ gpc = "begin"
    /\ LimitsHold
    /\ CallPrefill(prompt)
    /\ GoTo({"prefill"})
    /\ UNCHANGED <<request, progress>>

\* The session works on the call; its arguments are in order.
SessionStep ==
    /\ gpc \in {"prefill", "forward"}
    /\ Enter(TRUE) \/ Compute
    /\ UNCHANGED <<gpc, request, progress>>

Prefilled ==
    /\ gpc = "prefill" /\ pc = "idle"
    /\ \/ outcome = "ok" /\ GoTo({"check"})
       \/ outcome = "err" /\ GoTo({"failed"})
    /\ UNCHANGED <<sessionVars, request, progress>>

\* Mutant: nobody looks at the token between the passes.
CheckNothing ==
    /\ gpc = "check"
    /\ GoTo({"sample"})
    /\ UNCHANGED <<sessionVars, request, progress>>

\* check_cancel at the head of the loop.
CheckCancel ==
    /\ gpc = "check"
    /\ GoTo(IF cancelled THEN {"failed"} ELSE {"sample"})
    /\ UNCHANGED <<sessionVars, request, progress>>

\* One token.  The sampler may refuse the logits.  An end token ends the output
\* at once; else the token's text may hold a stop string (whose text before it
\* is still delivered), be delivered, or be held back.
Sample ==
    /\ gpc = "sample"
    /\ \/ GoTo({"failed"}) /\ UNCHANGED progress
       \/ /\ sampled' = sampled + 1
          /\ stopped' \in BOOLEAN
          /\ GoTo(IF stopped' THEN {"tail", "deliver"} ELSE {"deliver", "next"})
          /\ reason' = IF stopped' THEN "stop" ELSE reason
          /\ UNCHANGED step
    /\ UNCHANGED <<sessionVars, request>>

\* Mutant: the callback waits for the stream and never looks at the token.
DeliverBlocks ==
    /\ gpc = "deliver"
    /\ ~cancelled
    /\ GoTo({"failed", IF stopped THEN "tail" ELSE "next"})
    /\ UNCHANGED <<sessionVars, request, progress>>

\* on_text(&delta): its error ends the generation.
Deliver ==
    /\ gpc = "deliver"
    /\ GoTo({"failed", IF stopped THEN "tail" ELSE "next"})
    /\ UNCHANGED <<sessionVars, request, progress>>

\* Mutant: the loop runs once more than it may.
MoreTokensInclusive == step < maxTokens

\* The last token of the limit is sampled but never forwarded.
MoreTokens == step + 1 < maxTokens

ForwardToken ==
    /\ gpc = "next"
    /\ MoreTokens
    /\ CallForward(1)
    /\ GoTo({"forward"})
    /\ UNCHANGED <<request, progress>>

LimitReached ==
    /\ gpc = "next"
    /\ ~MoreTokens
    /\ GoTo({"tail"})
    /\ UNCHANGED <<sessionVars, request, progress>>

Forwarded ==
    /\ gpc = "forward" /\ pc = "idle"
    /\ \/ outcome = "ok" /\ GoTo({"check"}) /\ step' = step + 1
       \/ outcome = "err" /\ GoTo({"failed"}) /\ UNCHANGED step
    /\ UNCHANGED <<sessionVars, request, sampled, stopped, reason>>

\* output.finish(): text that was held back goes to the callback.
FinishOutput ==
    /\ gpc = "tail"
    /\ GoTo({"done", "flush"})
    /\ UNCHANGED <<sessionVars, request, progress>>

\* on_text(&tail).
DeliverTail ==
    /\ gpc = "flush"
    /\ GoTo(Ended)
    /\ UNCHANGED <<sessionVars, request, progress>>

CancelRequest ==
    /\ Cancel
    /\ gpc \notin Ended \cup {"direct"}
    /\ UNCHANGED <<gpc, request, progress>>

\* Any call by another caller, any cancellation.
Direct ==
    /\ gpc = "direct"
    /\ SessionNext
    /\ UNCHANGED <<gpc, request, progress>>

\* The two calls that end when the callback returns.
Callback == Deliver \/ DeliverTail

\* What the blocking thread does by itself.
Running ==
    \/ /\ gpc = "prepare"
       /\ \E b \in Bodies, tokens \in 0 .. Context + 1, arch \in Architectures :
             Prepare(b, tokens, arch)
    \/ Refuse \/ Prefill \/ SessionStep \/ Prefilled \/ CheckCancel \/ Sample
    \/ ForwardToken \/ LimitReached \/ Forwarded \/ FinishOutput

GenerateNext == Running \/ Callback \/ CancelRequest \/ Direct

\* The blocking thread keeps running.  The callback waits for the stream or the
\* token, whichever comes first, and has no timeout: nothing makes it return
\* but a cancelled token.
GenerateSpec ==
    /\ GenerateInit /\ [][GenerateNext]_generateVars
    /\ WF_generateVars(Running)
    /\ WF_generateVars(cancelled /\ Callback)

-----------------------------------------------------------------------------

\* The limits checked at the start cover every later call: forward_into never
\* refuses generate a chunk or a token, unless the request was cancelled; in
\* particular no request runs into the context limit half way.
NeverRefused ==
    gpc \in {"prefill", "forward"} /\ pc = "enter" => Accepts(TRUE) \/ cancelled

\* A request that prepare accepted, and that the client was therefore promised a
\* status of 200 for if it streams, is in order for generate as well: with every
\* default and every field left out, the two never disagree.
PreparedIsInOrder == served /\ gpc = "begin" => LimitsHold

\* A token is sampled from logits computed after exactly the prompt and every
\* token sampled before, in a session that was not invalidated.
SampledInPlace ==
    gpc \in {"check", "sample"} =>
       /\ ~poisoned
       /\ sampled = step
       /\ position = prompt + sampled

\* The usage reported at the end is within the limits, the finish reason is
\* "length" only after max_tokens tokens, and the last token is never forwarded.
UsageIsExact ==
    gpc = "done" =>
       /\ sampled \in 1 .. maxTokens
       /\ prompt + sampled <= Context
       /\ reason = "length" => sampled = maxTokens
       /\ position = prompt + sampled - 1

\* A request cancelled at the start of a pass, during one, or before its logits
\* were looked at ends with an error: no result is built on it, wherever in the
\* session or the loop the cancellation is noticed.
CancelledPassFails ==
    cancelled /\ gpc \in {"prepare", "begin", "prefill", "check", "forward"}
        ~> gpc = "failed"

\* A cancelled generation ends wherever it stands, also inside a callback whose
\* reader has stalled; one that nobody cancels ends, by its limit, a stop or a
\* failure, if its callback returns each time.
GenerationEnds ==
    /\ cancelled /\ gpc # "direct" ~> gpc \in Ended
    /\ WF_generateVars(Callback) => <>(gpc \in Ended \cup {"direct"})
=============================================================================
