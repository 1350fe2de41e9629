------------------------------- MODULE Session -------------------------------
(***************************************************************************)
(* A Session of src/src/model.rs: the position and the per-layer KV caches *)
(* through `forward_into` and `prefill_into`, with a caller that may make  *)
(* any call, a cancellation token that may fire between any two steps, and *)
(* allocations and kernels that may fail in any layer.  Keys and values    *)
(* are counted in tokens; what they contain is left out.                   *)
(***************************************************************************)
EXTENDS Naturals

CONSTANTS
    Layers,    \* Config.layers
    Context,   \* Session.context
    Chunk      \* PREFILL_CHUNK

ASSUME SessionAssumption ==
    /\ Layers \in Nat \ {0}
    /\ Context \in Nat \ {0}
    /\ Chunk \in Nat \ {0}

VARIABLES
    position,    \* Session.position
    poisoned,    \* Session.poisoned
    keys,        \* tokens in KvCache.keys, per layer
    values,      \* tokens in KvCache.values, per layer
    keyRoom,     \* tokens KvCache.keys has memory for, per layer
    valueRoom,   \* tokens KvCache.values has memory for, per layer
    cancelled,   \* the request's CancellationToken
    pc,          \* where the current call is
    layer,       \* the layer forward_into works on
    batch,       \* tokens of the current forward_into
    todo,        \* tokens of the current prefill after this chunk
    start,       \* position when the last call was made
    asked,       \* tokens the last call was given
    outcome      \* what the last call returned

caches == <<keys, values, keyRoom, valueRoom>>
call == <<layer, batch, todo, start, asked>>
sessionVars == <<position, poisoned, caches, cancelled, pc, call, outcome>>

LayerIds == 1 .. Layers
Steps == {"idle", "enter", "attention", "ffn", "head"}
Outcomes == {"none", "ok", "err"}

Least(a, b) == IF a < b THEN a ELSE b

SessionInit ==
    /\ position = 0
    /\ poisoned = FALSE
    /\ keys = [l \in LayerIds |-> 0]
    /\ values = [l \in LayerIds |-> 0]
    /\ keyRoom = [l \in LayerIds |-> 0]
    /\ valueRoom = [l \in LayerIds |-> 0]
    /\ cancelled = FALSE
    /\ pc = "idle"
    /\ layer = 1 /\ batch = 0 /\ todo = 0 /\ start = 0 /\ asked = 0
    /\ outcome = "none"

\* Somebody else drops the guard, at any time.
Cancel ==
    /\ ~cancelled
    /\ cancelled' = TRUE
    /\ UNCHANGED <<position, poisoned, caches, pc, call, outcome>>

(***************************************************************************)
(* Calls.  prefill_into runs forward_into on one chunk after the other.    *)
(***************************************************************************)
CallForward(n) ==
    /\ pc = "idle"
    /\ pc' = "enter"
    /\ batch' = n /\ todo' = 0
    /\ start' = position /\ asked' = n
    /\ outcome' = "none"
    /\ UNCHANGED <<position, poisoned, caches, cancelled, layer>>

CallPrefill(n) ==
    /\ pc = "idle"
    /\ start' = position /\ asked' = n
    /\ \/ /\ n = 0 \/ n > Context - position
          /\ outcome' = "err"
          /\ UNCHANGED <<pc, batch, todo>>
       \/ /\ n > 0 /\ n <= Context - position
          /\ pc' = "enter"
          /\ batch' = Least(n, Chunk)
          /\ todo' = n - Least(n, Chunk)
          /\ outcome' = "none"
    /\ UNCHANGED <<position, poisoned, caches, cancelled, layer>>

\* `?` and ensure! leave the call, and the prefill around it, with an error.
Fail ==
    /\ pc' = "idle"
    /\ outcome' = "err"
    /\ UNCHANGED <<position, caches, cancelled, call>>

(***************************************************************************)
(* forward_into.  valid stands for the checks of the arguments: the output *)
(* buffer's length, the session's model and the token ids.                 *)
(***************************************************************************)

\* Mutant: an invalidated session is used again.
AcceptsPoisoned(valid) ==
    /\ valid
    /\ batch > 0 /\ batch <= Chunk
    /\ position + batch <= Context
    /\ ~cancelled

Accepts(valid) ==
    /\ valid /\ ~poisoned
    /\ batch > 0 /\ batch <= Chunk
    /\ position + batch <= Context
    /\ ~cancelled

Enter(valid) ==
    /\ pc = "enter"
    /\ \/ ~Accepts(valid) /\ Fail /\ UNCHANGED poisoned
       \/ /\ Accepts(valid)
          /\ poisoned' = TRUE
          /\ pc' = "attention"
          /\ layer' = 1
          /\ UNCHANGED <<position, caches, cancelled, batch, todo, start,
                         asked, outcome>>

\* Mutant: room is rounded up past the context.
RoomPastContext(n) == ((n + Chunk - 1) \div Chunk) * Chunk

\* KvCache::append: room for whole chunks, at most for the context; either
\* reservation may fail, and nothing is written unless both succeed.
Room(n) == Least(((n + Chunk - 1) \div Chunk) * Chunk, Context)

Grown(room) == IF Room(keys[layer] + batch) > room
                 THEN Room(keys[layer] + batch) ELSE room

\* Mutant: the keys are written before the values' room is known.
AppendFailsHalfway ==
    /\ valueRoom[layer] < Grown(valueRoom[layer])
    /\ keyRoom' = [keyRoom EXCEPT ![layer] = Grown(@)]
    /\ keys' = [keys EXCEPT ![layer] = @ + batch]
    /\ UNCHANGED <<values, valueRoom>>

AppendFails ==
    /\ UNCHANGED <<keys, values, valueRoom>>
    /\ \/ keyRoom[layer] < Grown(keyRoom[layer]) /\ UNCHANGED keyRoom
       \/ /\ valueRoom[layer] < Grown(valueRoom[layer])
          /\ keyRoom' = [keyRoom EXCEPT ![layer] = Grown(@)]

AppendBoth ==
    /\ keyRoom' = [keyRoom EXCEPT ![layer] = Grown(@)]
    /\ valueRoom' = [valueRoom EXCEPT ![layer] = Grown(@)]
    /\ keys' = [keys EXCEPT ![layer] = @ + batch]
    /\ values' = [values EXCEPT ![layer] = @ + batch]

\* One layer up to its attention.  A kernel may fail; a cancelled call does.
Attend ==
    /\ pc = "attention"
    /\ \/ Fail
       \/ /\ ~cancelled
          /\ AppendFails
          /\ pc' = "idle" /\ outcome' = "err"
          /\ UNCHANGED <<position, cancelled, call>>
       \/ /\ ~cancelled
          /\ AppendBoth
          /\ pc' = "ffn"
          /\ UNCHANGED <<position, cancelled, call, outcome>>
    /\ UNCHANGED poisoned

\* The rest of the layer; the experts of a Moe check the token once more.
FeedForward ==
    /\ pc = "ffn"
    /\ \/ Fail
       \/ /\ layer < Layers
          /\ pc' = "attention" /\ layer' = layer + 1
          /\ UNCHANGED <<position, caches, cancelled, batch, todo, start,
                         asked, outcome>>
       \/ /\ layer = Layers
          /\ pc' = "head"
          /\ UNCHANGED <<position, caches, cancelled, call, outcome>>
    /\ UNCHANGED poisoned

\* Mutant: a failed head clears the mark as a finished one does.
HeadClearsMark ==
    /\ pc = "head"
    /\ poisoned' = FALSE
    /\ \/ Fail
       \/ /\ ~cancelled /\ todo = 0
          /\ position' = position + batch
          /\ pc' = "idle" /\ outcome' = "ok"
          /\ UNCHANGED <<caches, cancelled, call>>
       \/ /\ ~cancelled /\ todo > 0
          /\ position' = position + batch
          /\ pc' = "enter"
          /\ batch' = Least(todo, Chunk)
          /\ todo' = todo - Least(todo, Chunk)
          /\ UNCHANGED <<caches, cancelled, layer, start, asked, outcome>>

\* Mutant: a prefill returns after its first chunk.
HeadEndsPrefill ==
    /\ pc = "head"
    /\ \/ Fail /\ UNCHANGED poisoned
       \/ /\ ~cancelled
          /\ position' = position + batch
          /\ poisoned' = FALSE
          /\ pc' = "idle" /\ outcome' = "ok"
          /\ UNCHANGED <<caches, cancelled, call>>

\* Mutant: the position advances by one token, whatever the batch.
HeadCountsOne ==
    /\ pc = "head" /\ ~cancelled
    /\ position' = position + 1
    /\ poisoned' = FALSE
    /\ UNCHANGED <<caches, cancelled, layer, start, asked>>
    /\ \/ /\ todo = 0
          /\ pc' = "idle" /\ outcome' = "ok"
          /\ UNCHANGED <<batch, todo>>
       \/ /\ todo > 0
          /\ pc' = "enter"
          /\ batch' = Least(todo, Chunk)
          /\ todo' = todo - Least(todo, Chunk)
          /\ UNCHANGED outcome

\* The logits are finite: the tokens count, and the mark is taken back.
\* A prefill goes on with its next chunk.
OutputHead ==
    /\ pc = "head"
    /\ \/ Fail /\ UNCHANGED poisoned
       \/ /\ ~cancelled
          /\ position' = position + batch
          /\ poisoned' = FALSE
          /\ UNCHANGED <<caches, cancelled, layer, start, asked>>
          /\ \/ /\ todo = 0
                /\ pc' = "idle" /\ outcome' = "ok"
                /\ UNCHANGED <<batch, todo>>
             \/ /\ todo > 0
                /\ pc' = "enter"
                /\ batch' = Least(todo, Chunk)
                /\ todo' = todo - Least(todo, Chunk)
                /\ UNCHANGED outcome

Compute == Attend \/ FeedForward \/ OutputHead

\* Calls of every length, also empty, longer than a chunk and than the context.
Lengths == 0 .. Context + 1

SessionNext ==
    \/ Cancel
    \/ \E n \in Lengths : CallForward(n) \/ CallPrefill(n)
    \/ \E valid \in BOOLEAN : Enter(valid)
    \/ Compute

SessionSpec == SessionInit /\ [][SessionNext]_sessionVars

-----------------------------------------------------------------------------

\* Every variable stays in its domain.
SessionTypeOK ==
    /\ position \in 0 .. Context
    /\ poisoned \in BOOLEAN
    /\ keys \in [LayerIds -> 0 .. Context]
    /\ values \in [LayerIds -> 0 .. Context]
    /\ keyRoom \in [LayerIds -> Nat]
    /\ valueRoom \in [LayerIds -> Nat]
    /\ cancelled \in BOOLEAN
    /\ pc \in Steps
    /\ layer \in LayerIds
    /\ batch \in Nat /\ todo \in Nat /\ start \in Nat /\ asked \in Nat
    /\ outcome \in Outcomes

\* A session that accepts calls has all its layers at the same place: whatever
\* failed or was cancelled before, in whichever layer, every layer holds the
\* keys and the values of exactly `position` tokens.
CachesAligned ==
    ~poisoned => \A l \in LayerIds : keys[l] = position /\ values[l] = position

\* While forward_into runs, the layers it has passed hold this call's tokens and
\* the others do not; after it failed, no layer is ahead by more than one chunk
\* and none is behind; keys are never ahead of values.
LayersInStep ==
    \A l \in LayerIds :
       /\ keys[l] = values[l]
       /\ position <= keys[l] /\ keys[l] <= position + Chunk
       /\ pc = "attention" =>
             keys[l] = IF l < layer THEN position + batch ELSE position
       /\ pc = "ffn" =>
             keys[l] = IF l <= layer THEN position + batch ELSE position
       /\ pc = "head" => keys[l] = position + batch

\* The caches stay within the memory announced at startup: no layer reserves
\* room for more tokens than the context, nor holds more than it reserved.
KvBounded ==
    \A l \in LayerIds :
       /\ keys[l] <= keyRoom[l] /\ keyRoom[l] <= Context
       /\ values[l] <= valueRoom[l] /\ valueRoom[l] <= Context

\* A call that returned Ok consumed exactly its tokens; one that failed
\* consumed whole chunks of a prefill, never all of them, and nothing of a
\* chunk that failed.
ConsumedAsReported ==
    /\ outcome = "ok" => ~poisoned /\ position = start + asked
    /\ outcome = "err" =>
          /\ position >= start /\ (asked > 0 => position < start + asked)
          /\ (position - start) % Chunk = 0

\* A session whose last pass failed stays invalidated: no later call gets past
\* its checks, moves the position or touches a cache.
PoisonIsFinal ==
    [][poisoned /\ pc \in {"idle", "enter"} =>
          /\ poisoned' /\ pc' \in {"idle", "enter"}
          /\ UNCHANGED <<position, caches>>]_sessionVars

=============================================================================
