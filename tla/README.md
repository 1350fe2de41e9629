# A verification of hy-mt-rs

hy-mt-rs serves Tencent's Hunyuan-MT translation models from a GGUF file over
an OpenAI-style HTTP API, on CPUs only. This directory holds TLA+ modules that
model its control (who owns which permit, which call may fail where, what is
left behind when a client goes), TLC configurations that check them on small
instances, and proofs, checked by TLAPS, of the safety properties of the server, of a
session and its callers, of the download, of the tensor directory and the matrix products
over it, and of what an accepted model file is and how its passes attend, for every number
of clients, layers, heads, rows, threads and chunks and every configuration.

Paths such as `server.rs:287` are relative to `src/src/`.

## 1. The system

| Component | State it keeps | Operations | Talks to |
| --- | --- | --- | --- |
| **HTTP server** (`server.rs`) | two semaphores (`admission`, `slots`), the CPU pool, the shutdown token; per request a token with its drop guard, an event channel | `chat` (admission, tokenization on a blocking thread, slot, generation job, plain or streamed answer), disconnect, Ctrl-C (`main.rs:173`) | clients; Generator on blocking threads; tokio's semaphore, channel and blocking pool; rayon |
| **Generator** (`generation.rs:24-214`, `server.rs:171-248`) | loop counter, token ids, finish reason | `prepare`: defaults and checks of a chat request; `generate`: limits, prefill, sample / deliver / forward, tail | Session (calls), Sampler, TextOutput, the callback of the server |
| **Sampler** (`generation.rs:229-334`) | tokens seen, random generator | `sample` | - |
| **TextOutput** (`generation.rs:336-420`) | pending bytes, text, stopped | `push`, `emit`, `finish` | - |
| **Session** and **KvCache** (`model.rs:94-324, 337-673`) | position, poisoned mark, per-layer keys and values | `forward_into`, `prefill_into`, `append` | kernels, which may fail; the cancellation token |
| **Model** (`model.rs`) | immutable; the buffers and caches of a session | `from_gguf`, `new_session`, the passes: projections, RoPE, norms, attention, experts | weights, CPU pool |
| **Weights** (`quant.rs`) | immutable views of the mapped file | row and expert views, matrix products cut into chunks for the CPU pool, kernels for seven packed types | CPU pool |
| **GGUF reader** (`gguf.rs`) | metadata, profile, tensor directory | `parse`, `tensor`, metadata getters | the mapped file |
| **Tokenizer** (`tokenizer.rs`) | vocabulary, special tokens | `from_gguf`, `render`, `encode_chat`, `piece`, `is_eos` | the tokenizers library |
| **Download** (`download.rs`) | two names in a directory | `download_model_from_url` | the network, the file system, other processes |
| **Affinity** (`affinity.rs`), **CLI and bench** (`main.rs`) | - | pool construction; argument parsing | - |

How they interact. A request enters `chat` as an async task. It takes an
admission permit or gets a 429; the permit moves into a closure on a blocking
thread that tokenizes inside the CPU pool; the permit comes back with the
result; the task waits for a slot permit; both permits move into the generation
job on another blocking thread. That job computes on the CPU pool, one pass at
a time, and, if the client streams, blocks on a bounded channel between the
passes. The HTTP body reads the channel and owns the drop guard of the
request's token. Any await of the task is a point where a leaving client drops
it, with whatever it owns then.

What is hard. The permits change hands five times, and every error, every drop
point and every early return in between has to give back both, once. A blocking
job cannot be dropped: it must notice by itself that nobody listens. A wake-up
may reach a waiter that has left. Shutdown meets requests in every one of these
states. Below that, a forward pass that fails in the middle leaves the layers of
a session disagreeing; text leaves in pieces that cut through characters and stop
strings; a download can be killed, or run twice.

What makes each component correct:

- server: permits conserved, waiting FIFO and without lost wake-ups, bounded
  sessions, a stalled stream in nobody else's way, cancellation exactly of what nobody waits for,
  abandoned work ends, shutdown ends;
- Generator: the limits checked at the start cover all later calls, every token
  is sampled from the logits of its own prefix, exact usage, it ends;
- Session: every layer at the position, or the session is out of use; memory
  within the announced bound;
- Sampler: a token is drawn only from the nucleus of the logits penalised for the
  whole history;
- GGUF reader: an accepted directory is disjoint, whole and inside the file; a type id
  that two formats use is never read as the wrong one;
- Model: a file that was accepted runs, on every processor and by both paths, and a
  head looks at its own past however the prompt was cut;
- Tokenizer: the ids of the file, of the library and of the printed bytes are the same;
- Weights: however a product is cut for the threads, each cell is written once, from
  its own row; a kernel meets each packed weight with the activation of its column;
- TextOutput: the text does not depend on how the output is cut into tokens;
- Download: the final name only ever refers to a whole, verified file.

## 2. Modules

| Module | Models | Size of the idea |
| --- | --- | --- |
| `Gate` | abstract: a bounded inside, seats, a FIFO line | what the two semaphores promise together |
| `Server` | `chat`, `prepare`'s outcome, generation jobs, bodies, disconnects, Ctrl-C | eight variables, one action per step between two awaits, locks or drops |
| `MCServer` | symmetry and one property for a chosen client | |
| `ServerProofs` | the theorems about `Server` | section 5 |
| `GenerateProofs`, `SamplerProofs`, `TextOutputProofs`, `DownloadProofs` | the theorems about `Session` and `Generate`, and about `Sampler`, `TextOutput`, `Download` | section 5 |
| `WeightsProofs`, `ModelProofs` | the theorems about `Gguf` and `Weights`, and about `Model` with `Metadata` and `Tokenizer` | section 5 |
| `Arithmetic` | lemmas on division with rest, on places in rows, on least numbers and on orders, for the proofs | |
| `Session` | `forward_into`, `prefill_into`, `KvCache::append` | tokens are counted, not computed |
| `Generate`, `MCGenerate` | `ChatRequest::prepare` and `Generator::generate` calling a `Session`, and callers of their own | EXTENDS Session, runs its steps |
| `TextOutput`, `MCTextOutput` | `TextOutput::push / emit / finish` | bytes as classes |
| `Sampler`, `MCSampler` | `Sampling::validate`, `Sampler::new / sample` | integer logits, exact sums |
| `Gguf` | the tensor directory of `Gguf::parse` | entries given, sizes that wrap |
| `Weights`, `MCWeights` | views and products of `quant.rs` over what `Gguf` opened | EXTENDS Gguf; cells record where they were computed from |
| `Metadata` | header, values and getters of `gguf.rs`, profiles, `DType::from_id` | operators over given pairs of keys and values |
| `Tokenizer` | `ChatTokenizer::from_gguf`, `render` | operators over a vocabulary; also used by `Generate` |
| `Kernels` | packed layouts and lane orders of the kernels of `quant.rs` | a lane is the number of the bit it holds, at the real block sizes |
| `Model`, `MCModel` | `Model::from_gguf`, `new_session`, what a pass computes | EXTENDS the three above; a head's vector is one entry that remembers what was done to it |
| `Download` | `download_model_from_url` over a directory with two names | files as inodes |

### Server

State: `admission` and `slots` are the free permits, `slotQueue` the waiters
inside the slot semaphore, `channel` the number of buffered events, `cancelled`
the requests whose guard was dropped.
A request is two actors. `task[r]` is where the async handler or, later, the
body stands:

    idle -> prepare -> slot / granted -> join (plain) or body (stream) -> reply

`left` is a task that is gone while its job runs on, `closing` a body that has
dropped its receiver and not yet its guard. `job[r]` is where the closure on the
blocking thread stands: `tokenize`, `tokenizing`, `prepared`, `refused` or `failed` (a
panic, which the handler answers with 500); then `compute`, `computing`, one state for
each event it may be blocked on, and `returning` between its last event and the drop of
its permits: a client that has read `[DONE]` may still be counted.
`HoldsAdmission` and `HoldsSlot` say who owns a permit in which state; the
counters are changed by the actions and never derived from them, so that
`PermitsConserved` relates two independent records of the same thing.

Each action is the code between two points where something else can run: an
await, a blocking send, a wait for the pool, the end of a closure. `EndJob` for
example drops both permits, passes the slot on to the oldest waiter, parks the
result of a plain job and forgets the token when the handler is gone, because
that is one scope exit of the closure (`server.rs:298, 322`).

tokio's semaphore, channel, blocking pool and rayon's `install` are modelled from
how the code uses them: a fair semaphore that assigns a released permit to the
oldest waiter, which can still be dropped before it runs (`granted`); a channel
of bounded size whose `send` fails when the receiver is gone; as many blocking
threads as needed. A pool of one thread runs one installed closure at a time, to its
end. With more threads a closure spreads over several and a thread that waits in a join
may start another closure, so that no number of closures under way can be excluded, and
`Install` excludes none.

What a pass computes is left open: after each one the job may go on, have text,
end or fail; a panic of a streaming job drops its sender, and the body ends without a
further event. Nothing bounds the number of passes; where `max_tokens` matters, a
fairness condition (`LimitedOutput`) says so.

### Session and Generate

`Session` has one step for the checks at the entry of `forward_into`, two per
layer (up to the cache append, and the rest) and one for the output head, because
those are the places where a failure or a cancellation leaves different state
behind. The token may be cancelled between any two. The calls are unrestricted:
empty, longer than a chunk, longer than the context, after a failure.

`Generate` has three kinds of callers as its initial states. `prepare` takes any body of a
chat request of a set and any number of prompt tokens, fills in the defaults
(`OptionsOf`) and goes on to `generate` or ends. `begin` is `generate` with options
of the command line, where nothing was checked before. `direct` is code that has
a session to itself, such as `examples/reference_dump.rs`, and makes any call; the
invariants of `Session` are checked under all three. `generate` itself has one action
per step between two looks at the token. Which of `prepare`'s limits and `generate`'s
limits refuse is written twice, from the two places, so that `PreparedIsInOrder` relates
two pieces of code.

### TextOutput

A byte is an ASCII character, a lead byte of a two- or three-byte character, or a
continuation byte. The output of the model is any sequence of up to `MaxBytes`
bytes, valid UTF-8 or not, and is cut into tokens of up to `MaxPiece` bytes in
every way, empty tokens included. Four-byte characters add no further case to
`from_utf8`'s three outcomes and are left out.

`Unit` is what starts at a byte: a character, an error or a character cut off by the end,
and how many bytes of it are there (`from_utf8`'s `valid_up_to` and `error_len`). `Decode`
reads a sequence unit by unit, from the last byte back (a recursive function over the
places), and gives the text and the bytes consumed; `emit` decodes what may leave, and
`Lossy`, the reference, decodes everything at once. `Held` is the longest end of the
pending bytes that starts a stop string.

The properties compare with `output`, which the code does not have: the bytes the model
would yield. `ShownAsPushed` compares with those pushed so far, whatever the stop strings
are; `SplitIndependent` with the whole, which takes stop strings of which none lies strictly
inside another (`Apart`; TLC evaluates it for the sets of both runs).

### Download

A file is an identity with a content; the directory has the names `part` and
`final`; an open descriptor keeps its file when the name moves. That is what makes
two processes interesting: removing, re-creating and renaming act on names,
writing acts on descriptors. A process may be killed at any step and started again
over what is there.

### Sampler

A request (`params`, `prompt`) is checked by `New`; then passes (`Forward`) leave any
logits in the buffer and `Sample` returns a token. `seen` is the set of marked tokens,
`emitted` records what was returned and is only read by the properties. Logits are
small integers, one of them standing for a value that is not finite; the penalties two
and one half are exact on them; `exp` gives any positive integers (`Exp`; in the run powers of
two) and underflows to zero after `Underflow` steps, so that weights of zero occur. The target of the draw is any number
up to the retained sum itself, which is what `random::<f32>() * retained_sum` can round
to, and which takes the code to `unwrap_or_else`.

### Gguf and Weights

`Gguf` reads the entries one by one, each any of a given set: sound ones, and ones that
overlap, repeat a name, are cut off, or wrap. `pos` is the reader's position and, after
the directory, the start of the data. The sort of the extents is unstable, so every
order it may leave among equal offsets is tried. `Word` is the number of values of a
`usize`; `Elements` yields `Word` where `checked_mul` fails.

`Weights` multiplies views of an open file: matrices, or experts of a tensor of three
dimensions. `tasks` are what rayon runs in any order: chunks of one output, or, in
`gemv_qkv_fast`, ranges of the rows of three outputs one behind the other, each up to
three pieces written through raw pointers. A cell of `out` collects one entry for each
write, the byte ranges it was computed from. Types are a block length and a block size;
which types have an integer kernel, and so which of the two ways `Projections` cuts, is
left open.

### Model, Metadata, Tokenizer and Kernels

`Model` takes a file through `Open` (metadata, profile, types), `LoadModel` (`from_gguf`)
and `NewSession`, and then passes over one or several tokens. A file is given as the pairs
of its metadata, its vocabulary and its tensors with shape and type id. `Metadata` and
`Tokenizer` are the checks on the first two, in operators, because those parts of the code
keep no state; a float is its sign, since no check asks for more.

A pass is two things. `NeedsOf` lists, layer by layer and in order, what the code relies
on without checking it at load time: lengths of buffers that `quantize_into` and the slices
compare, types that `row_dot_q8_raw` has an arm for, angles and cache entries read by
index. `Forward` is a pass of which all of them hold, or not all but nothing stopped; `Panic`
is one that an assertion, an index or `unreachable!()` ends. `Forward` records for its
properties `seen`, the entries of the cache each head was compared to; `routed`, what
each token got from which expert; and `calls`, the kernels that ran with the type and
length of their rows. The two paths, one token (`OfToken`, buffers of the session) and
several (`OfBatch`, vectors), are written apart as in the code.

In `Kernels` a register is sixteen lanes, each the number of the bit that load, shift
and zip bring to its front. A kernel is a function to vector steps: where its block
begins, what its lanes read, which sixteen activations they meet and the group whose
scale is applied. The portable `decode_unchecked` is the reference: `RowDotIsExact` asks
that a step pair each activation with the fields `Element` gives its column. The
sizes are the real ones, 32 to 512 elements in 34 to 210 bytes.

The processors are `neon` and `sdot`. At this commit the crate compiles for aarch64
only: `stq_digit_lanes` (`quant.rs:1460`) uses NEON types without the
`#[cfg(target_arch = "aarch64")]` its neighbours have, and in `model.rs:403, 460, 487`
the attribute stands before an `if` with an `else`, so that elsewhere both branches
would be dropped. The repository says otherwise: `docs/validation.md:16` lists a
`cargo check` for x86-64 Linux as passed, README.md:191 and `ci.yml:13-14` build and
test there, and README.md:9-11 speaks of AVX2 and portable paths. They are there in
`quant.rs`; by the source at this commit nothing builds them.

## 3. Runs

| Run | Shows | Bounds and why they are enough |
| --- | --- | --- |
| `ServerSafety` | type correctness, `PermitsConserved`, `ResourceBounds`, `CancelledIffAbandoned`; action property `TurnedAwayOnlyWhenFull` | 4 clients, 2 slots, 1 queue place, a pool of 2 threads, channel of 2: a request can be turned away (4 > 3), two run while one waits, any number compute at once, a channel is empty, half full and full. 851,848 states. Symmetric clients. |
| `ServerFair` | `AbandonedEnds`, `ShutdownEndsJobs`, `ParkedIsServed`; refinement of `Gate` (`GateSpec`) | 3 clients, 1 slot, 2 queue places, a pool of 1 thread: two wait in line behind one, so overtaking is possible. 117,169 states. No symmetry. |
| `ServerLimited` | `PlainIsAnswered`, `StreamIsServed`, `ShutdownCompletes` | 2 clients, 2 slots, a pool of 1 thread: one streams and stalls, the other, plain or streaming, wants the only thread. 9,946 states. |
| `Generate` | `CachesAligned`, `LayersInStep`, `KvBounded`, `ConsumedAsReported`, `PoisonIsFinal`; `NeverRefused`, `PreparedIsInOrder`, `SampledInPlace`, `UsageIsExact`, `CancelledPassFails`, `GenerationEnds` | 3 layers (first, middle, last), chunks of 3, a context of 7 that is no multiple of a chunk: prompts of one to three chunks and with a short last one, every output limit up to and past the context, each field of a body absent, at its bounds and outside. 49,378 states. |
| `Download` | `HashedIsWritten`, `OkMeansWhole`, `FinalOnlyReplacedWhole` | one process at a time, any number of kills and restarts, files of two chunks and transfers of up to three. |
| `TextOutput` | `SplitIndependent`, `NothingTakenBack`, `HeldForAReason` | outputs of up to 5 bytes; stop sets with a self-overlapping stop, one with a two-byte character, two stops that overlap, one that ends another. |
| `Weights` | `DirectoryIsSound`, `EveryCellFromItsRow` | directories of up to 3 entries out of 15; file lengths at which the directory, the padding or the data just fit or do not; 3 alignments; a `usize` of 64 values, which three of the shapes exceed; 1 and 2 threads, chunks of 2 to 4 rows over up to 11, so that chunks span matrices and odd rows are left. 983,006 states. |
| `Model` | `PassesRun`, `AttendsToItsPast`, `RoutedOnce`, `RowDotIsExact`, `EveryBitOnce`, `VocabularyIsOne`, `NeverReinterpreted` | 16 files the code runs somewhere and 40 that differ from one in one place, each with all four profiles on both processors; both architectures, all seven types and mixtures of them, one to eight heads per key head, heads of 6 to 256; two layers (the first is always dense, the second may have experts); four tokens cut into passes of one to three, two of three experts with ties. 2,960 states. |
| `Sampler` | `SampledFromNucleus` | 3 tokens, 5 logits, `top_k` below, at and past the vocabulary, 3 valid `top_p` and penalties each; any number of samples. 669,920 states. |

Three runs end with a counterexample; each is a disagreement with what the
repository says of itself:

- `ModelPanics`: "HYV3 expands a 2048-wide hidden vector to a 4096-wide query vector"
  (`docs/reference.md:82`). The session's buffer for quantized activations has the
  size of the hidden state (`model.rs:318`) and is given the attention output, which is
  as wide as the query (`model.rs:468`). If `attn_output` has a type with an integer kernel
  the first pass over a single token panics in `quantize_into` (`quant.rs:905`). `PassesRun`
  names this case, and the two others: a key or value whose type has no integer kernel
  beside a query that has one (`model.rs:405`, `quant.rs:2230`), and heads above 128
  (`model.rs:379-392`). No model the repository ships is affected.
- `DownloadTwice`: two processes share one `.part` (`download.rs:109`). One finishes
  and has hashed its stream; the other re-creates the part; the first renames the
  other's unfinished file to the final path and returns Ok. The next start finds the
  damage (it checks the digest), the process that got Ok does not.
- `TextNested`: "stop strings can cross token boundaries" (`README.md:123`, and the
  test `stop_and_utf8_can_cross_any_token_boundary`). With one stop string strictly
  inside another, the stop that is complete first wins, and which one that is
  depends on the tokens. For stop sets without nesting the run `TextOutput` shows
  the independence.

Every property has a mutant: a plausible mistake in one mapped definition, kept in
the module under a `Mutant:` comment, that breaks it under the same configuration.

## 4. Fairness

`Scheduling` in `Server` is what the runtime gives: a handler that can run is
polled (weak fairness of `Handle`), a closure on its thread goes on (`Work`), a
closure that waits for the pool is started eventually (strong fairness of
`Install`: others start and end in between, and rayon serves injected jobs in order), the
shutdown sequence proceeds. Nothing is assumed about clients: they need not arrive,
read, or leave. Nothing makes a generation end.

- `AbandonedEnds` and `ShutdownEndsJobs` need no more than that.
- `LimitedOutput` (every generation has a last pass) is `max_tokens`
  (`generation.rs:167`); `PlainIsAnswered` and `StreamIsServed` need it. `StreamIsServed`
  also has the condition that the one client reads, and asks nothing of the others.
- `ClientsReact` (a streaming client reads or leaves) is a condition in
  `ParkedIsServed` and `ShutdownCompletes` and not an assumption of the
  specification: the code has no send timeout, and without it a stalled client
  keeps its slot, and after Ctrl-C the process, for as long as it likes.

In `Generate` the thread keeps running between callbacks. The callback waits for room in
the channel or for the token, whichever comes first, and has no timeout
(`server.rs:323-330`): only a cancelled token makes it return (weak fairness of
`cancelled /\ Callback`). `GenerationEnds` says what follows: a cancelled generation ends
wherever it stands; one that nobody cancels ends if its callback returns each time, which
is a condition of the property and not of the specification. `CancelledPassFails` speaks of
states outside the callback and needs neither.

## 5. What is proved

`ServerProofs` proves, for any finite set of clients and any
`MaxConcurrent`, `Threads`, `ChannelCapacity` > 0 and `QueueCapacity` >= 0 (the
assumptions `RequestsAssumption` and `ConfigAssumption`, which `router_with_shutdown`
enforces):

| Theorem | States |
| --- | --- |
| `TypeCorrect` | `Spec => []TypeOK` |
| `PermitsAreConserved` | `Spec => []PermitsConserved` |
| `ResourcesAreBounded` | `Spec => []ResourceBounds` |
| `WaitersAreServed` | `Spec => [](NoLostWakeup /\ QueueMatchesTasks)` |
| `CancellationIsExact` | `Spec => [](CancelledIffAbandoned /\ TaskMatchesJob)` |
| `ServerImplementsGate` | `Spec => GateSpec` |
| `TurnAwayIsJustified` | `Spec => TurnedAwayOnlyWhenFull` |

The argument. None of these is inductive alone. That a permit returns exactly once
depends on which task stands beside which job (a parked result owns a permit only
while somebody may join it); that a permit handed to the head of the queue has one
owner depends on the queue holding exactly the parked handlers, each once; that the
counters stay within their bounds depends on the conservation of permits, not on
any guard. So the inductive invariant `IInv` is the conjunction of the domains
(without upper bounds), `QueueMatchesTasks`, `TaskMatchesJob`,
`CancelledIffAbandoned`, `NoLostWakeup` and `PermitsConserved`; the bounds of
`TypeOK` follow from it (`IInvBounds`).

The preservation proof is organised by what a step does to the gate and not only by
action. `Flow` names the six moves a step can make (a request stays, enters, sits
down, parks, departs, withdraws), `StepFlow` shows that each action of `Next` makes
one of them, and the conservation of permits (`MovesConserve`) is proved once per
move from cardinalities. The same moves give the refinement: `Stays` is a stutter of
`Gate`, the others are its actions.

`GenerateProofs` proves in its first part, of `Session`, for any number of layers, context and chunk above zero
(`SessionAssumption`; `from_gguf` and `new_session` refuse the others):

| Theorem | States |
| --- | --- |
| `SessionTypeCorrect` | `SessionSpec => []SessionTypeOK` |
| `CachesStayAligned` | `SessionSpec => [](CachesAligned /\ LayersInStep)` |
| `CachesStayBounded` | `SessionSpec => []KvBounded` |
| `ReturnsWhatItConsumed` | `SessionSpec => []ConsumedAsReported` |
| `PoisonStays` | `SessionSpec => PoisonIsFinal` |

`CachesAligned` speaks of sessions that accept calls, and a pass clears the mark in its
last step: that all layers have appended by then needs `LayersInStep`; that they stay
within the context needs the check at the entry to be remembered (`PassFits`); that a
failed prefill has consumed whole chunks needs what is left of the call (`CallAdds`).
The arithmetic (rounding up to chunks, a multiple plus a chunk) is in three lemmas.

Its second part adds the callers, for any set of bodies, prompt lengths and defaults
(`GenerateAssumption`: a limit in a body is absent or a `usize`, the default is above
zero):

| Theorem | States |
| --- | --- |
| `CallersImplementSession` | `GenerateSpec => SessionSpec` |
| `SessionsStaySound` | the properties of the first part hold of `GenerateSpec` |
| `GenerateIsNeverRefused` | `GenerateSpec => []NeverRefused` |
| `PreparedRequestsAreInOrder` | `GenerateSpec => []PreparedIsInOrder` |
| `TokensAreSampledInPlace` | `GenerateSpec => []SampledInPlace` |
| `UsageIsReportedExactly` | `GenerateSpec => []UsageIsExact` |

`GInv` is the session's `IInv` with what the loop knows: before the prefill the session
is new (`Fresh`), `LimitsHold` is remembered (`Within`), a call under way was made from
the position the loop believes in (`Calling`), and between two calls the position is the
prompt and the tokens forwarded (`Between`). The session's half is not proved again:
`StepOfSession` shows that a step of the loop is a step of `Session` or leaves it alone,
and the lemmas of the first part apply. `NeverRefused` needs both halves: `CallAdds`
gives what is left of the call, `Within` the room for it.

`DownloadProofs` assumes one process at a time (`OneProcess`, stated with each theorem;
killed and started again at any step) and proves, for files of any number of chunks:

| Theorem | States |
| --- | --- |
| `DigestVouches` | `Spec => []HashedIsWritten` |
| `OkIsWhole` | `Spec => []OkMeansWhole` |
| `FinalIsReplacedWhole` | `Spec => FinalOnlyReplacedWhole` |

The assumption is needed: with two processes `DownloadTwice` refutes `OkMeansWhole`. The
invariant says that the two names never refer to one file, that a process that writes
has the part open, and that the part holds what the stream held; the rename is then
only reached with the whole file.

`WeightsProofs` proves, for any set of files, alignments, entries and types and any width of
a `usize` (`GgufAssumption`: an entry's dimensions and offset are numbers without a sign, a
type has blocks of at least one element and one byte, an alignment is a power of two up to
65536, as `gguf.rs:84` checks before it reads an entry), and for
any number of threads, chunk bounds and tiles above zero (`WeightsAssumption`):

| Theorem | States |
| --- | --- |
| `AcceptedFilesAreSound` | `WeightsSpec => []DirectoryIsSound` |
| `RowsComputedOnce` | `WeightsSpec => []EveryCellFromItsRow` |
| `WeightsInvHolds` | `WeightsSpec => []WeightsInv`, the inductive invariant |

Its first half, `FileInv`, is what `parse` knows at each of its states: the entries read have
one to four dimensions, tensors placed are whole, aligned and inside the file, names
differ (`Counted`, `AllPlaced`). That comparing neighbours of an unstable sort keeps all
extents apart (`NoOverlap`) needs that none is empty: only then an extent further on in the
order begins behind all before it. The product of the dimensions is a recursive function;
with four dimensions at most it is written out once (`ProductIsFinite`). Over the open file
`WeightsInv` adds, for each output of a product, that the tasks take each of its rows once
(`CutIntoRows`) and that a cell is empty until the piece of its row has run and then holds
exactly one write, from the bytes of the row in each view (`Cells`); tasks of one product
run in any order because no two share a row. The two cuts have a lemma each:
`CutCoversOnce` for chunks of one output, `FusedCoversOnce` for ranges over three outputs
one behind the other, where a task may have a piece in each.

`ModelProofs` proves, for any set of files, profiles, contexts, chunk sizes and scores
(`ModelAssumption`: tokens are numbered from zero, the value of an integer kind is an
integer, the router's bias has a number for each expert, and no score is negative, as
no sigmoid is), on both processors:

| Theorem | States |
| --- | --- |
| `IdsAreNotReinterpreted` | `ModelSpec => []NeverReinterpreted` |
| `VocabularyStaysOne` | `ModelSpec => []VocabularyIsOne` |
| `HeadsAttendToTheirPast` | `ModelSpec => []AttendsToItsPast` |
| `AcceptedFilesRun` | `ModelSpec => []PassesRun` |
| `TokensAreRoutedOnce` | `ModelSpec => []RoutedOnce` |
| `ModelInvHolds` | `ModelSpec => []ModelInv`, the inductive invariant |

`LoadInv` carries what `Open` and `LoadModel` have checked past the states in which they
did; the first two theorems follow from it. The other two need the caches: `AttendsToItsPast`
speaks of the last pass alone, and a head reads entries that earlier passes left, by one
path or the other. So `SessionSound` says of every layer that its cache has, at place
token * key heads + head + 1, the key of that token and head, rotated by the token's own
position and prepared in the order of the architecture, and the value beside it, for exactly
the tokens so far. A pass extends it (`AppendedSound`, from `NewVectorsHold` for both
paths), and with it each index `compute_head` computes lies in the cache (`HeadsInGroups`,
`CacheIsReadInBounds`) and finds what it should (`AttentionSound`). `PassesRun` then follows
from the shapes `Accepted` compared: what is left over are the cases it names
(`OneTokenNeedsHold`, `NeedsHold`).

`RoutedOnce` is about one pass; all of it is in what `route` and `Moe::forward` compute. That
the order by score and index is total makes the number of experts before another a bijection
onto 0, 1, 2 and so on, so that those with fewer than k before them are k (`FirstInOrder`).
`route` adds up scores in the order of the experts, the property in no order at all:
`WeightsAddUp` shows that a sum over a set of contributions, one for each of some experts, is
that sum, by taking the experts out one by one (`SumOfOneMore`). `AssignedTo` says that the
list of an expert has exactly the tokens it was chosen for, so that what is added to a token
is its own (`ContributionsAre`). These recursive functions are unfolded once each (`SumSteps`
and inside `AssignedTo`), from `StepsExist` in `Arithmetic`: a function that gives each value
from the one before exists.

`SamplerProofs` proves, for any vocabulary of at least one token, any integer logits and any
positive integers for `exp` down to where it underflows (`SamplerAssumption`; it need not even
be decreasing), for every request, those that `validate` refuses among them:

| Theorem | States |
| --- | --- |
| `SampledFromNucleusHolds` | `SamplerSpec => SampledFromNucleus` |
| `SamplerInvHolds` | `SamplerSpec => []SamplerInv`, the inductive invariant |

The invariant only has to carry to the draw what `new` checked of the request, and that the
marked tokens are those of the whole history. The work is in the draw: the code sorts, cuts
off and adds up from place to place, the property speaks of sets of tokens and what they weigh
together. `OrderIsRanking` (from `Ranks` in `Arithmetic`) gives every token its place and
before it exactly the better ones. `FoldIsSum` shows that the sum over a set is the same
whichever element is taken first, so that `BestSum` can take the elements in the order of the
ranking; with it `MassIs` says that the two sides of the property are prefix sums. What is
left are the two searches: `RetainedIs`, that some prefix has the share `top_p` (all of it at
the latest, as `top_p` is at most one), and `PlaceOfTarget`, that every target up to the
retained sum, and also the sum itself, for which `unwrap_or_else` takes the last, leads to a
place of the prefix that weighs something: where the target reaches the whole sum, the last
place cannot weigh nothing, or the prefix before it would have had the share.

`TextOutputProofs` proves, for any ASCII bytes, any set of non-empty stop strings and any
output and cut into tokens (`TextAssumption`; `Options::validate` refuses an empty stop
string, `generation.rs:99`):

| Theorem | States |
| --- | --- |
| `TextAlways` | `Spec => []TextInv`, the inductive invariant |
| `ShownAsPushedHolds` | `Spec => []ShownAsPushed` |
| `SplitIndependentHolds` | `Spec => []SplitIndependent`, if `StopsApart` |
| `NothingTakenBackHolds` | `Spec => []NothingTakenBack` |
| `HeldForAReasonHolds` | `Spec => []HeldForAReason` |

`StopsApart` is needed: with a stop string strictly inside another `TextNested` refutes
`SplitIndependent`, and `ShownAsPushedHolds` says what is left without it.

The text of the bytes decoded so far says nothing of the bytes to come: the invariant has
to know that a character is never torn. So `Running` says, for every place the output may
end at, that its text is the text so far and that of the bytes from `Done` on; and that no
stop string, whole or begun, lies before `Done` (`Clean`). A piece keeps the first because
a decoder that stopped at a cut-off character reads the same from there whatever follows
(`DecodeResumes`, from `UnitIsLocal`: a unit that is not cut off does not depend on what
comes after it, and `DecodeShifts`: nor on what was before it); it keeps the second because
`Held` covers every beginning (`HeldCovers`), and a stop string that turns up must then lie
after `Done` (`FoundAfter`).

`Decode` is a recursive function and its lemmas need induction on the bytes that are left.
The library's induction theorems take a predicate; `FromTheEnd` says the same of a set, from
the least element of what is missing (`LeastNumber` in `Arithmetic`), and serves for all of
them.

Only model-checked:

- every liveness property: `AbandonedEnds`, `ShutdownEndsJobs`, `ParkedIsServed`,
  `PlainIsAnswered`, `ShutdownCompletes`, `GenerationEnds`, `CancelledPassFails` (fairness is
  out of the prover's reach);
- `RowDotIsExact` and `EveryBitOnce`: they have no parameter but the length of a row and the
  rest is a finite table, bit by bit, which TLC computes and a proof would only repeat.

## 6. Not modelled

- Floating-point values (dequantization, rounding of activations, softmax, norms): the
  repository's tests compare them with reference vectors. `Model` and `Kernels` say which
  numbers meet, not what they give.
- The kernels for x86-64 and the portable row products, which the crate does not compile
  at this commit, `stq_dot` and `q6_dot` among them.
- What f32 rounding does to the sampler's sums, beyond the target that reaches the sum.
- The contents of messages, prompts and JSON; `/healthz` and `/v1/models`.
- The merges and the splitting of text, which are in an external crate; the text of the
  chat template, of which only the roles it is tried on are modelled.
- SHA-256 and mmap: a file has a digest, and does not change while it is mapped.
- `affinity.rs`: system calls that choose the CPUs of the pool's threads. Argument parsing
  and reporting of `main.rs`; its `run` and `bench` are callers of `generate`.
- tokio's blocking pool limit of 512 threads: far above the default of ten admitted
  requests.
- A client that stalls while it sends the body of its request: the arrival of a request
  is one step. Such a connection owns no permit, but `serve` waits for it after Ctrl-C
  just as for a streaming client that does not read; `ShutdownCompletes` does not speak of
  it.
- A panic inside a send or between two passes (building an event, sampling): a job
  panics in a pass or in `prepare`.
- A prefill that fails between two chunks leaves a session that still accepts calls
  (`model.rs:643`), although `model.rs:94` says that a failed forward invalidates it:
  each chunk is a forward of its own, and the failed one was refused before it began.
  `ConsumedAsReported` is checked for that case.

## 7. Plan

Done: `Gate`, `Server`, `Session`, `Generate` with `prepare`, `TextOutput`, `Download`,
`Sampler`, `Gguf`, `Weights` and `Model` over `Metadata` and `Tokenizer`, with their proofs;
`Kernels`, which is only model-checked.

Next:

1. The choice of CPUs in `affinity.rs`, from the topology a machine reports to the
   number of threads of the pool.
