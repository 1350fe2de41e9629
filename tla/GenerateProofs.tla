---------------------------- MODULE GenerateProofs ----------------------------
(***************************************************************************)
(* Proofs about Session and Generate.  A session, for every number of      *)
(* layers, context and chunk: one that accepts calls has all its caches at *)
(* its position, they stay within the announced memory, what a call        *)
(* returns is what it consumed, and an invalidated session is never used   *)
(* again.  Its callers, for every model and set of requests: what they do  *)
(* to a session are steps of Session, so that the first part holds under   *)
(* each of them; the limits checked before the first pass cover all        *)
(* passes; every token is sampled in its place and the usage is exact.     *)
(***************************************************************************)
EXTENDS Generate, TLAPS

Busy == pc \in {"attention", "ffn", "head"}

(***************************************************************************)
(* The inductive invariant.  Alignment alone is not inductive: a pass may  *)
(* take the mark back only because every layer has appended by then, which *)
(* needs the place of each layer during the pass; and the bounds of the    *)
(* caches need the check at the entry to be remembered until the append.   *)
(***************************************************************************)

\* Within a pass the session is marked, and its tokens fit chunk and context.
PassFits ==
    Busy => /\ poisoned
            /\ 0 < batch /\ batch <= Chunk
            /\ position + batch <= Context

\* What is left of a call: a prefill stands between two whole chunks.
CallAdds ==
    /\ pc # "idle" =>
          /\ outcome = "none"
          /\ position + batch + todo = start + asked
          /\ start <= position /\ (position - start) % Chunk = 0
          /\ todo > 0 => batch = Chunk
          /\ batch = 0 => todo = 0 /\ asked = 0

IInv ==
    /\ SessionTypeOK /\ CachesAligned /\ LayersInStep /\ KvBounded
    /\ ConsumedAsReported /\ PassFits /\ CallAdds

LEMMA RoundUp ==
    ASSUME NEW n \in Nat, NEW c \in Nat \ {0}
    PROVE  /\ ((n + c - 1) \div c) * c \in Nat
           /\ n <= ((n + c - 1) \div c) * c
  <1> DEFINE m == n + c - 1
  <1>1. m \in Nat
    OBVIOUS
  <1>2. m \div c \in Nat /\ m % c \in 0 .. c - 1 /\ m = (c * (m \div c)) + (m % c)
    BY <1>1
  <1>3. (m \div c) * c = c * (m \div c) /\ c * (m \div c) \in Nat
    BY <1>2
  <1> QED
    BY <1>2, <1>3

LEMMA NextChunk ==
    ASSUME NEW x \in Nat, NEW c \in Nat \ {0}, x % c = 0
    PROVE  (x + c) % c = 0
  <1> DEFINE k == x \div c
             q == (x + c) \div c
             r == (x + c) % c
  <1>1. k \in Nat /\ x = c * k
    OBVIOUS
  <1>2. q \in Nat /\ r \in 0 .. c - 1 /\ x + c = (c * q) + r
    OBVIOUS
  <1> HIDE DEF k, q, r
  <1>3. c * ((k + 1) - q) = r
    BY <1>1, <1>2
  <1>4. CASE (k + 1) - q = 0
    BY <1>3, <1>4 DEF r
  <1>5. CASE (k + 1) - q >= 1
    BY <1>1, <1>2, <1>3, <1>5
  <1>6. CASE (k + 1) - q <= -1
    BY <1>1, <1>2, <1>3, <1>6
  <1> QED
    BY <1>1, <1>2, <1>4, <1>5, <1>6

LEMMA NoChunk ==
    ASSUME NEW x \in Nat, NEW c \in Nat \ {0}
    PROVE  (x - x) % c = 0
  <1>1. x - x = 0
    OBVIOUS
  <1>2. 0 % c = 0
    OBVIOUS
  <1> QED
    BY <1>1, <1>2

LEMMA RoomFits ==
    ASSUME NEW n \in 0 .. Context
    PROVE  Room(n) \in Nat /\ n <= Room(n) /\ Room(n) <= Context
  BY RoundUp, SessionAssumption DEF Room, Least

LEMMA IInvInit == SessionInit => IInv
  <1> SUFFICES ASSUME SessionInit PROVE IInv
    OBVIOUS
  <1> USE SessionAssumption DEF SessionInit, LayerIds
  <1>1. SessionTypeOK
    <2>1. 0 \in 0 .. Context /\ 1 \in LayerIds
      OBVIOUS
    <2>2. /\ keys \in [LayerIds -> 0 .. Context]
          /\ values \in [LayerIds -> 0 .. Context]
      BY <2>1
    <2>3. /\ keyRoom \in [LayerIds -> Nat]
          /\ valueRoom \in [LayerIds -> Nat]
      OBVIOUS
    <2> QED
      BY <2>1, <2>2, <2>3 DEF SessionTypeOK, Steps, Outcomes
  <1>2. CachesAligned /\ LayersInStep /\ KvBounded
    BY DEF CachesAligned, LayersInStep, KvBounded
  <1>3. ConsumedAsReported /\ PassFits /\ CallAdds
    BY DEF ConsumedAsReported, PassFits, CallAdds, Busy
  <1> QED
    BY <1>1, <1>2, <1>3 DEF IInv

(***************************************************************************)
(* Each action preserves the invariant.                                    *)
(***************************************************************************)

LEMMA FailKeeps ==
    ASSUME IInv, Fail, UNCHANGED poisoned, pc # "idle"
    PROVE  IInv'
  <1> USE SessionAssumption DEF Fail, caches, call, LayerIds
  <1>1. SessionTypeOK'
    BY DEF IInv, SessionTypeOK, Steps, Outcomes
  <1>2. CachesAligned' /\ KvBounded'
    BY DEF IInv, CachesAligned, KvBounded
  <1>3. LayersInStep'
    BY DEF IInv, LayersInStep
  <1>4. ConsumedAsReported'
    BY DEF IInv, ConsumedAsReported, CallAdds, SessionTypeOK
  <1>5. PassFits' /\ CallAdds'
    BY DEF PassFits, CallAdds, Busy
  <1> QED
    BY <1>1, <1>2, <1>3, <1>4, <1>5 DEF IInv

LEMMA CancelKeeps ==
    ASSUME IInv, Cancel
    PROVE  IInv'
  <1> USE DEF Cancel, caches, call
  <1>1. SessionTypeOK'
    BY DEF IInv, SessionTypeOK
  <1>2. CachesAligned' /\ LayersInStep' /\ KvBounded'
    BY DEF IInv, CachesAligned, LayersInStep, KvBounded
  <1>3. ConsumedAsReported' /\ PassFits' /\ CallAdds'
    BY DEF IInv, ConsumedAsReported, PassFits, CallAdds, Busy
  <1> QED
    BY <1>1, <1>2, <1>3 DEF IInv

\* A call that has only started, or was refused at once.
LEMMA CallKeeps ==
    ASSUME IInv, NEW n \in Lengths, CallForward(n) \/ CallPrefill(n)
    PROVE  IInv'
  <1> USE SessionAssumption
  <1>0. /\ n \in Nat /\ pc = "idle" /\ pc' \in {"idle", "enter"}
        /\ UNCHANGED <<position, poisoned, keys, values, keyRoom, valueRoom,
                       cancelled, layer>>
        /\ start' = position /\ asked' = n
    BY DEF CallForward, CallPrefill, Lengths, caches
  <1>1. CASE pc' = "idle"
    <2>1. /\ n = 0 \/ n > Context - position
          /\ outcome' = "err" /\ UNCHANGED <<batch, todo>>
      BY <1>0, <1>1 DEF CallForward, CallPrefill
    <2>2. SessionTypeOK'
      <3>1. /\ pc' \in Steps /\ outcome' \in Outcomes
            /\ start' \in Nat /\ asked' \in Nat
        BY <1>0, <1>1, <2>1 DEF IInv, SessionTypeOK, Steps, Outcomes
      <3> QED
        BY <1>0, <2>1, <3>1 DEF IInv, SessionTypeOK
    <2>3. ConsumedAsReported'
      BY <1>0, <2>1 DEF IInv, SessionTypeOK, ConsumedAsReported
    <2>4. CachesAligned' /\ LayersInStep' /\ KvBounded'
      BY <1>0, <1>1 DEF IInv, CachesAligned, LayersInStep, KvBounded
    <2>5. PassFits' /\ CallAdds'
      BY <1>1 DEF PassFits, CallAdds, Busy
    <2> QED
      BY <2>2, <2>3, <2>4, <2>5 DEF IInv
  <1>2. CASE pc' = "enter"
    <2>1. /\ outcome' = "none" /\ batch' \in Nat /\ todo' \in Nat
          /\ batch' + todo' = n
          /\ todo' > 0 => batch' = Chunk
          /\ batch' = 0 => todo' = 0 /\ n = 0
      BY <1>0, <1>2 DEF CallForward, CallPrefill, Least, IInv, SessionTypeOK
    <2>2. SessionTypeOK'
      <3>1. /\ pc' \in Steps /\ outcome' \in Outcomes
            /\ start' \in Nat /\ asked' \in Nat
        BY <1>0, <1>2, <2>1 DEF IInv, SessionTypeOK, Steps, Outcomes
      <3> QED
        BY <1>0, <2>1, <3>1 DEF IInv, SessionTypeOK
    <2>3. ConsumedAsReported'
      BY <2>1 DEF ConsumedAsReported
    <2>4. CachesAligned' /\ LayersInStep' /\ KvBounded'
      BY <1>0, <1>2 DEF IInv, CachesAligned, LayersInStep, KvBounded
    <2>5. PassFits'
      BY <1>2 DEF PassFits, Busy
    <2>6. CallAdds'
      <3>1. position \in Nat
        BY DEF IInv, SessionTypeOK
      <3>2. (position' - start') % Chunk = 0
        BY <1>0, <3>1, NoChunk
      <3>3. position' + batch' + todo' = start' + asked' /\ start' <= position'
        <4>1. position' + batch' + todo' = position' + (batch' + todo')
          BY <1>0, <2>1, <3>1
        <4>2. batch' + todo' = asked' /\ position' = start'
          BY <1>0, <2>1
        <4> QED
          BY <1>0, <3>1, <4>1, <4>2
      <3> QED
        BY <1>0, <1>2, <2>1, <3>2, <3>3 DEF CallAdds
    <2> QED
      BY <2>2, <2>3, <2>4, <2>5, <2>6 DEF IInv
  <1> QED
    BY <1>0, <1>1, <1>2

LEMMA EnterKeeps ==
    ASSUME IInv, NEW valid \in BOOLEAN, Enter(valid)
    PROVE  IInv'
  <1> USE SessionAssumption
  <1>1. CASE ~Accepts(valid)
    BY <1>1, FailKeeps DEF Enter
  <1>2. CASE Accepts(valid)
    <2>1. /\ ~poisoned /\ batch > 0 /\ batch <= Chunk
          /\ position + batch <= Context
          /\ pc = "enter" /\ pc' = "attention" /\ poisoned' = TRUE /\ layer' = 1
          /\ UNCHANGED <<position, keys, values, keyRoom, valueRoom, cancelled,
                         batch, todo, start, asked, outcome>>
      BY <1>2 DEF Enter, Accepts, caches
    <2>2. SessionTypeOK'
      <3>1. pc' \in Steps /\ layer' \in LayerIds /\ poisoned' \in BOOLEAN
        BY <2>1 DEF Steps, LayerIds
      <3> QED
        BY <2>1, <3>1 DEF IInv, SessionTypeOK
    <2>3. CachesAligned' /\ KvBounded'
      BY <2>1 DEF IInv, CachesAligned, KvBounded
    <2>4. LayersInStep'
      BY <2>1 DEF IInv, CachesAligned, LayersInStep, SessionTypeOK, LayerIds
    <2>5. ConsumedAsReported' /\ PassFits' /\ CallAdds'
      BY <2>1 DEF IInv, ConsumedAsReported, PassFits, CallAdds
    <2> QED
      BY <2>2, <2>3, <2>4, <2>5 DEF IInv
  <1> QED
    BY <1>1, <1>2

\* One layer up to its attention: a chunk fits into the room made for it.
LEMMA AttendKeeps ==
    ASSUME IInv, Attend
    PROVE  IInv'
  <1> USE SessionAssumption
  <1>1. CASE Fail
    BY <1>1, FailKeeps DEF Attend
  <1>2. ASSUME ~Fail
        PROVE  IInv'
    <2>1. /\ pc = "attention" /\ layer \in LayerIds
          /\ UNCHANGED <<position, poisoned, cancelled, layer, batch, todo, start,
                         asked>>
          /\ batch \in Nat \ {0} /\ batch <= Chunk /\ position \in Nat
          /\ position + batch <= Context /\ poisoned
          /\ keys[layer] = position /\ values[layer] = position
      BY <1>2 DEF Attend, IInv, SessionTypeOK, LayersInStep, PassFits, Busy,
                  LayerIds, call
    <2>2. /\ Room(keys[layer] + batch) \in Nat
          /\ position + batch <= Room(keys[layer] + batch)
          /\ Room(keys[layer] + batch) <= Context
      BY <2>1, RoomFits
    <2>3. ASSUME NEW room \in 0 .. Context
          PROVE  /\ Grown(room) \in 0 .. Context
                 /\ room <= Grown(room) /\ position + batch <= Grown(room)
      BY <2>1, <2>2 DEF Grown
    <2>4. /\ keys \in [LayerIds -> 0 .. Context]
          /\ values \in [LayerIds -> 0 .. Context]
          /\ keyRoom \in [LayerIds -> 0 .. Context]
          /\ valueRoom \in [LayerIds -> 0 .. Context]
      BY DEF IInv, SessionTypeOK, KvBounded
    <2>5. CASE AppendFails /\ pc' = "idle" /\ outcome' = "err"
      <3>1. UNCHANGED <<keys, values, valueRoom>>
        BY <2>5 DEF AppendFails
      <3>2. /\ keyRoom' \in [LayerIds -> 0 .. Context]
            /\ \A l \in LayerIds : keyRoom[l] <= keyRoom'[l]
        BY <2>1, <2>3, <2>4, <2>5 DEF AppendFails
      <3>3. SessionTypeOK'
        BY <2>1, <2>5, <3>1, <3>2 DEF IInv, SessionTypeOK, Steps, Outcomes
      <3>4. CachesAligned' /\ LayersInStep'
        BY <2>1, <2>5, <3>1 DEF IInv, CachesAligned, LayersInStep
      <3>5. KvBounded'
        BY <2>4, <3>1, <3>2 DEF IInv, KvBounded
      <3>6. ConsumedAsReported'
        BY <2>1, <2>5 DEF IInv, CallAdds, SessionTypeOK, ConsumedAsReported
      <3>7. PassFits' /\ CallAdds'
        BY <2>5 DEF PassFits, CallAdds, Busy
      <3> QED
        BY <3>3, <3>4, <3>5, <3>6, <3>7 DEF IInv
    <2>6. CASE AppendBoth /\ pc' = "ffn" /\ UNCHANGED outcome
      <3>1. /\ keys' = [keys EXCEPT ![layer] = position + batch]
            /\ values' = [values EXCEPT ![layer] = position + batch]
        BY <2>1, <2>6 DEF AppendBoth
      <3>2. /\ keys' \in [LayerIds -> 0 .. Context]
            /\ values' \in [LayerIds -> 0 .. Context]
            /\ keyRoom' \in [LayerIds -> 0 .. Context]
            /\ valueRoom' \in [LayerIds -> 0 .. Context]
        BY <2>1, <2>3, <2>4, <2>6, <3>1 DEF AppendBoth
      <3>3. SessionTypeOK'
        BY <2>1, <2>6, <3>2 DEF IInv, SessionTypeOK, Steps
      <3>4. CachesAligned' /\ PassFits'
        BY <2>1 DEF CachesAligned, PassFits
      <3>5. LayersInStep'
        BY <2>1, <2>4, <2>6, <3>1 DEF IInv, LayersInStep, LayerIds
      <3>6. KvBounded'
        BY <2>1, <2>3, <2>4, <2>6, <3>1, <3>2 DEF IInv, KvBounded, AppendBoth
      <3>7. ConsumedAsReported' /\ CallAdds'
        BY <2>1, <2>6 DEF IInv, ConsumedAsReported, CallAdds
      <3> QED
        BY <3>3, <3>4, <3>5, <3>6, <3>7 DEF IInv
    <2> QED
      BY <1>2, <2>5, <2>6 DEF Attend
  <1> QED
    BY <1>1, <1>2

LEMMA FeedForwardKeeps ==
    ASSUME IInv, FeedForward
    PROVE  IInv'
  <1> USE SessionAssumption
  <1>1. CASE Fail
    BY <1>1, FailKeeps DEF FeedForward
  <1>2. ASSUME ~Fail
        PROVE  IInv'
    <2>1. /\ pc = "ffn"
          /\ UNCHANGED <<position, poisoned, keys, values, keyRoom, valueRoom,
                         cancelled, batch, todo, start, asked, outcome>>
          /\ \/ pc' = "attention" /\ layer < Layers /\ layer' = layer + 1
             \/ pc' = "head" /\ layer = Layers /\ layer' = layer
      BY <1>2 DEF FeedForward, call, caches
    <2>2. SessionTypeOK'
      <3>1. pc' \in Steps /\ layer' \in LayerIds
        BY <2>1 DEF IInv, SessionTypeOK, Steps, LayerIds
      <3> QED
        BY <2>1, <3>1 DEF IInv, SessionTypeOK
    <2>3. CachesAligned' /\ KvBounded' /\ PassFits'
      BY <2>1 DEF IInv, CachesAligned, KvBounded, PassFits, Busy
    <2>4. LayersInStep'
      BY <2>1 DEF IInv, LayersInStep, SessionTypeOK, LayerIds
    <2>5. ConsumedAsReported' /\ CallAdds'
      BY <2>1 DEF IInv, ConsumedAsReported, CallAdds
    <2> QED
      BY <2>2, <2>3, <2>4, <2>5 DEF IInv
  <1> QED
    BY <1>1, <1>2

LEMMA HeadKeeps ==
    ASSUME IInv, OutputHead
    PROVE  IInv'
  <1> USE SessionAssumption
  <1>1. CASE Fail /\ UNCHANGED poisoned
    BY <1>1, FailKeeps DEF OutputHead
  <1>2. ASSUME ~(Fail /\ UNCHANGED poisoned)
        PROVE  IInv'
    <2>1. /\ pc = "head" /\ position' = position + batch /\ poisoned' = FALSE
          /\ UNCHANGED <<keys, values, keyRoom, valueRoom, cancelled, layer, start,
                         asked>>
      BY <1>2 DEF OutputHead, caches
    <2>2. /\ position \in Nat /\ start \in Nat /\ asked \in Nat /\ batch \in Nat /\ todo \in Nat
          /\ 0 < batch /\ position' \in 0 .. Context
          /\ position + batch + todo = start + asked
          /\ start <= position /\ (position - start) % Chunk = 0
          /\ todo > 0 => batch = Chunk
          /\ outcome = "none"
      BY <2>1 DEF IInv, SessionTypeOK, PassFits, CallAdds, Busy
    <2>3. \A l \in LayerIds : keys[l] = position' /\ values[l] = position'
      BY <2>1 DEF IInv, LayersInStep
    <2>4. CachesAligned' /\ KvBounded'
      BY <2>1, <2>3 DEF IInv, CachesAligned, KvBounded
    <2>5. pc' \in {"idle", "enter"} => LayersInStep'
      BY <2>1, <2>2, <2>3 DEF LayersInStep
    <2>6. CASE todo = 0
      <3>1. pc' = "idle" /\ outcome' = "ok" /\ UNCHANGED <<batch, todo>>
        BY <1>2, <2>2, <2>6 DEF OutputHead
      <3>2. SessionTypeOK'
        <4>1. pc' \in Steps /\ outcome' \in Outcomes /\ poisoned' \in BOOLEAN
          BY <2>1, <3>1 DEF Steps, Outcomes
        <4> QED
          BY <2>1, <2>2, <3>1, <4>1 DEF IInv, SessionTypeOK
      <3>3. ConsumedAsReported'
        BY <2>1, <2>2, <2>6, <3>1 DEF ConsumedAsReported
      <3>4. PassFits' /\ CallAdds'
        BY <3>1 DEF PassFits, CallAdds, Busy
      <3> QED
        BY <2>4, <2>5, <3>1, <3>2, <3>3, <3>4 DEF IInv
    <2>7. CASE todo > 0
      <3>1. /\ pc' = "enter" /\ outcome' = "none"
            /\ batch' = Least(todo, Chunk) /\ todo' = todo - Least(todo, Chunk)
        BY <1>2, <2>2, <2>7 DEF OutputHead
      <3>2. /\ batch' \in Nat \ {0} /\ todo' \in Nat
            /\ batch' + todo' = todo
            /\ todo' > 0 => batch' = Chunk
        BY <2>2, <2>7, <3>1 DEF Least
      <3>3. SessionTypeOK'
        <4>1. pc' \in Steps /\ outcome' \in Outcomes /\ poisoned' \in BOOLEAN
          BY <2>1, <3>1 DEF Steps, Outcomes
        <4> QED
          BY <2>1, <2>2, <3>2, <4>1 DEF IInv, SessionTypeOK
      <3>4. ConsumedAsReported' /\ PassFits'
        BY <3>1 DEF ConsumedAsReported, PassFits, Busy
      <3>5. (position' - start') % Chunk = 0
        <4>1. position - start \in Nat
          BY <2>2
        <4>2. position' - start' = (position - start) + Chunk
          BY <2>1, <2>2, <2>7
        <4> QED
          BY <2>2, <4>1, <4>2, NextChunk
      <3>6. position' + batch' + todo' = start' + asked' /\ start' <= position'
        <4>1. /\ position' = position + batch /\ start' = start /\ asked' = asked
              /\ position + batch + todo = start + asked /\ start <= position
          BY <2>1, <2>2
        <4>2. /\ position \in Nat /\ start \in Nat /\ asked \in Nat
              /\ batch \in Nat /\ todo \in Nat
          BY <2>2
        <4>3. /\ batch' \in Nat /\ todo' \in Nat /\ batch' + todo' = todo
          BY <3>2
        <4>4. start' <= position'
          BY <4>1, <4>2
        <4>5. position' + batch' + todo' = position' + (batch' + todo')
          BY <4>1, <4>2, <4>3
        <4>6. position' + todo = start' + asked'
          BY <4>1, <4>2
        <4> QED
          BY <4>3, <4>4, <4>5, <4>6
      <3>7. CallAdds'
        BY <3>1, <3>2, <3>5, <3>6 DEF CallAdds
      <3> QED
        BY <2>4, <2>5, <3>1, <3>3, <3>4, <3>7 DEF IInv
    <2> QED
      BY <2>2, <2>6, <2>7
  <1> QED
    BY <1>1, <1>2

(***************************************************************************)
(* The theorems.                                                           *)
(***************************************************************************)

LEMMA IInvStep == IInv /\ [SessionNext]_sessionVars => IInv'
  <1> SUFFICES ASSUME IInv, [SessionNext]_sessionVars PROVE IInv'
    OBVIOUS
  <1>1. CASE Cancel
    BY <1>1, CancelKeeps
  <1>2. ASSUME NEW n \in Lengths, CallForward(n) \/ CallPrefill(n)
        PROVE  IInv'
    BY <1>2, CallKeeps
  <1>3. ASSUME NEW valid \in BOOLEAN, Enter(valid)
        PROVE  IInv'
    BY <1>3, EnterKeeps
  <1>4. CASE Attend
    BY <1>4, AttendKeeps
  <1>5. CASE FeedForward
    BY <1>5, FeedForwardKeeps
  <1>6. CASE OutputHead
    BY <1>6, HeadKeeps
  <1>7. CASE UNCHANGED sessionVars
    <2> USE <1>7 DEF sessionVars, caches, call
    <2>1. SessionTypeOK' /\ CachesAligned' /\ LayersInStep' /\ KvBounded'
      BY DEF IInv, SessionTypeOK, CachesAligned, LayersInStep, KvBounded
    <2>2. ConsumedAsReported' /\ PassFits' /\ CallAdds'
      BY DEF IInv, ConsumedAsReported, PassFits, CallAdds, Busy
    <2> QED
      BY <2>1, <2>2 DEF IInv
  <1> QED
    BY <1>1, <1>2, <1>3, <1>4, <1>5, <1>6, <1>7 DEF SessionNext, Compute

\* The invariant holds in every state the session can be in, whatever calls are
\* made and wherever they fail or are cancelled.
THEOREM SessionInvariance == SessionSpec => []IInv
  BY IInvInit, IInvStep, PTL DEF SessionSpec

\* Every variable of the session stays in its domain: in particular the position
\* never passes the context, so that `context - position` does not wrap.
THEOREM SessionTypeCorrect == SessionSpec => []SessionTypeOK
  <1>1. IInv => SessionTypeOK
    BY DEF IInv
  <1> QED
    BY <1>1, SessionInvariance, PTL

\* A session that still accepts calls has every layer's keys and values at its
\* position, and during a pass the layers are where the pass is.
THEOREM CachesStayAligned == SessionSpec => [](CachesAligned /\ LayersInStep)
  <1>1. IInv => CachesAligned /\ LayersInStep
    BY DEF IInv
  <1> QED
    BY <1>1, SessionInvariance, PTL

\* No layer reserves memory for more tokens than the context, although room is
\* made in whole chunks and the context need not be a multiple of one.
THEOREM CachesStayBounded == SessionSpec => []KvBounded
  <1>1. IInv => KvBounded
    BY DEF IInv
  <1> QED
    BY <1>1, SessionInvariance, PTL

\* What a call returns is what it consumed: all of its tokens if it succeeded,
\* whole chunks and not all of them if it failed.
THEOREM ReturnsWhatItConsumed == SessionSpec => []ConsumedAsReported
  <1>1. IInv => ConsumedAsReported
    BY DEF IInv
  <1> QED
    BY <1>1, SessionInvariance, PTL

\* A session that a failed pass left invalidated is never used again: no call
\* gets past its checks, moves the position or touches a cache.
THEOREM PoisonStays == SessionSpec => PoisonIsFinal
  <1> DEFINE Kept == poisoned /\ pc \in {"idle", "enter"} =>
                        /\ poisoned' /\ pc' \in {"idle", "enter"}
                        /\ UNCHANGED <<position, caches>>
  <1>1. ASSUME [SessionNext]_sessionVars
        PROVE  [Kept]_sessionVars
    <2> SUFFICES ASSUME SessionNext, poisoned, pc \in {"idle", "enter"}
                 PROVE  /\ poisoned' /\ pc' \in {"idle", "enter"}
                        /\ UNCHANGED <<position, caches>>
      BY <1>1
    <2>1. CASE Cancel
      BY <2>1 DEF Cancel
    <2>2. ASSUME NEW n \in Lengths, CallForward(n) \/ CallPrefill(n)
          PROVE  /\ poisoned' /\ pc' \in {"idle", "enter"}
                 /\ UNCHANGED <<position, caches>>
      BY <2>2 DEF CallForward, CallPrefill
    <2>3. ASSUME NEW valid \in BOOLEAN, Enter(valid)
          PROVE  /\ poisoned' /\ pc' \in {"idle", "enter"}
                 /\ UNCHANGED <<position, caches>>
      BY <2>3 DEF Enter, Accepts, Fail
    <2>4. ~Compute
      BY DEF Compute, Attend, FeedForward, OutputHead
    <2> QED
      BY <2>1, <2>2, <2>3, <2>4 DEF SessionNext
  <1>2. SessionSpec => [][SessionNext]_sessionVars
    BY PTL DEF SessionSpec
  <1> QED
    BY <1>1, <1>2, PTL DEF PoisonIsFinal


-----------------------------------------------------------------------------

(***************************************************************************)
(* The callers.                                                            *)
(***************************************************************************)

InFlight == {"prefill", "check", "sample", "deliver", "next", "forward", "tail",
             "flush"}

(***************************************************************************)
(* The inductive invariant.                                                *)
(***************************************************************************)
Numbers ==
    /\ prompt \in 0 .. Context + 1 /\ maxTokens \in Nat
    /\ step \in Nat /\ sampled \in Nat

\* Before the prefill the session is new.
Fresh ==
    gpc \in {"prepare", "begin"} =>
       pc = "idle" /\ position = 0 /\ ~poisoned /\ step = 0 /\ sampled = 0

\* After LimitsHold there is room for the prompt and the whole output.
Within ==
    gpc \in InFlight =>
       prompt > 0 /\ prompt + maxTokens <= Context /\ step < maxTokens

\* The finish reason is that of the last token, which ends the loop at once.
Decided ==
    /\ stopped \in BOOLEAN
    /\ reason = IF stopped THEN "stop" ELSE "length"
    /\ stopped => gpc \in {"deliver", "tail", "flush"} \cup Ended
    /\ gpc \in {"tail", "flush"} /\ ~stopped => step + 1 = maxTokens

\* The session works on the prompt, or on the token sampled last.
Calling ==
    /\ gpc = "prefill" => start = 0 /\ asked = prompt /\ step = 0 /\ sampled = 0
    /\ gpc = "forward" =>
          /\ start = prompt + step /\ asked = 1 /\ sampled = step + 1
          /\ step + 1 < maxTokens
    /\ gpc \in {"prefill", "forward"} /\ pc = "enter" =>
          ~poisoned /\ batch > 0 /\ batch <= Chunk

\* Between two calls the session is at the prompt and the tokens forwarded.
Between ==
    gpc \in InFlight \ {"prefill", "forward"} =>
       /\ pc = "idle" /\ ~poisoned /\ position = prompt + step
       /\ sampled = IF gpc \in {"check", "sample"} THEN step ELSE step + 1

\* The part about the caller.
GenInv ==
    /\ Numbers /\ Fresh /\ PreparedIsInOrder /\ Within /\ Decided
    /\ Calling /\ Between /\ UsageIsExact

GInv == IInv /\ GenInv

LEMMA GInvInit == GenerateInit => GInv
  <1> SUFFICES ASSUME GenerateInit PROVE GInv
    OBVIOUS
  <1> USE SessionAssumption DEF GenerateInit, maxTokens
  <1>1. IInv
    BY IInvInit
  <1>2. Numbers
    BY DEF Numbers
  <1>3. Fresh /\ Within /\ Calling /\ Between
    BY DEF Fresh, Within, Calling, Between, InFlight, SessionInit
  <1>4. PreparedIsInOrder /\ UsageIsExact /\ Decided
    BY DEF PreparedIsInOrder, UsageIsExact, Decided
  <1> QED
    BY <1>1, <1>2, <1>3, <1>4 DEF GInv, GenInv

\* A named limit is a number, and so is a default.
LEMMA LimitIsNumber ==
    ASSUME NEW b \in Bodies, NEW tokens \in 0 .. Context
    PROVE  OutputLimit(b, tokens) \in Nat
  <1>1. ASSUME NEW s \in Seq(Nat), s # << >>
        PROVE  s[1] \in Nat
    BY <1>1
  <1>2. b.max_tokens \in Seq(Nat) /\ b.max_completion_tokens \in Seq(Nat)
    BY GenerateAssumption
  <1>3. Least(DefaultTokens, Context - tokens) \in Nat
    BY GenerateAssumption, SessionAssumption DEF Least
  <1> QED
    BY <1>1, <1>2, <1>3 DEF OutputLimit, Or

(***************************************************************************)
(* What a step of Generate does to its session is a step of Session.       *)
(***************************************************************************)
LEMMA StepOfSession ==
    ASSUME Numbers, [GenerateNext]_generateVars
    PROVE  [SessionNext]_sessionVars
  <1> USE SessionAssumption
  <1>1. ASSUME NEW n \in Lengths, CallForward(n) \/ CallPrefill(n)
        PROVE  SessionNext
    BY <1>1 DEF SessionNext
  <1>2. CASE Prefill
    <2>1. prompt \in Lengths /\ CallPrefill(prompt)
      BY <1>2 DEF Prefill, Numbers, Lengths
    <2> QED
      BY <1>1, <2>1
  <1>3. CASE ForwardToken
    <2>1. 1 \in Lengths /\ CallForward(1)
      BY <1>3 DEF ForwardToken, Lengths
    <2> QED
      BY <1>1, <2>1
  <1>4. CASE SessionStep
    BY <1>4 DEF SessionStep, SessionNext
  <1>5. CASE CancelRequest \/ Direct
    BY <1>5 DEF CancelRequest, Direct, SessionNext
  <1>6. CASE UNCHANGED generateVars
    BY <1>6 DEF generateVars
  <1>7. ASSUME NEW b \in Bodies, NEW tokens \in 0 .. Context + 1,
               NEW arch \in Architectures, Prepare(b, tokens, arch)
        PROVE  UNCHANGED sessionVars
    BY <1>7 DEF Prepare
  <1>8. CASE Refuse \/ Prefilled \/ CheckCancel \/ Sample \/ Deliver
               \/ LimitReached \/ Forwarded \/ FinishOutput \/ DeliverTail
    BY <1>8 DEF Refuse, Prefilled, CheckCancel, Sample, Deliver, LimitReached,
                Forwarded, FinishOutput, DeliverTail
  <1> QED
    BY <1>2, <1>3, <1>4, <1>5, <1>6, <1>7, <1>8 DEF GenerateNext, Running,
       Callback

(***************************************************************************)
(* Each action preserves the invariant; of the session, that is IInvStep.  *)
(***************************************************************************)
\* A request and its progress as they were, or a state that says nothing of them.
LEMMA FailedKeeps ==
    ASSUME GInv, GoTo({"failed"}), UNCHANGED <<request, progress>>
    PROVE  GenInv'
  <1> USE DEF GInv, GenInv, GoTo, request, progress, Ended, InFlight
  <1>1. Numbers' /\ Decided'
    BY DEF Numbers, Decided, maxTokens
  <1>2. Fresh' /\ PreparedIsInOrder' /\ Within' /\ Calling' /\ Between' /\ UsageIsExact'
    BY DEF Fresh, PreparedIsInOrder, Within, Calling, Between, UsageIsExact
  <1> QED
    BY <1>1, <1>2 DEF GenInv

LEMMA PrepareKeeps ==
    ASSUME GInv, NEW b \in Bodies, NEW tokens \in 0 .. Context + 1,
           NEW arch \in Architectures, Prepare(b, tokens, arch)
    PROVE  GenInv'
  <1> USE SessionAssumption
  <1>1. CASE ~Prepares(b, tokens, arch)
    BY <1>1, FailedKeeps DEF Prepare, request
  <1>2. CASE Prepares(b, tokens, arch)
    <2>1. /\ gpc = "prepare" /\ gpc' = "begin"
          /\ prompt' = tokens /\ options' = OptionsOf(b, tokens, arch)
          /\ UNCHANGED <<sessionVars, progress>>
      BY <1>2 DEF Prepare, GoTo
    <2>2. maxTokens' = OutputLimit(b, tokens)
      BY <2>1 DEF maxTokens, OptionsOf
    <2>3. /\ tokens > 0 /\ tokens < Context
          /\ OutputLimit(b, tokens) <= Context - tokens
          /\ OptionsValid(options')
      BY <1>2, <2>1 DEF Prepares
    <2>4. OutputLimit(b, tokens) \in Nat
      BY <2>3, LimitIsNumber
    <2>5. Numbers'
      BY <2>1, <2>2, <2>4 DEF GInv, GenInv, Numbers, progress
    <2>6. LimitsHold'
      BY <2>1, <2>2, <2>3 DEF LimitsHold, OptionsValid, SamplingValid
    <2>7. Fresh' /\ Decided'
      BY <2>1 DEF GInv, GenInv, Fresh, Decided, Ended, progress, sessionVars
    <2>8. PreparedIsInOrder' /\ Within' /\ Calling' /\ Between' /\ UsageIsExact'
      BY <2>1, <2>6 DEF PreparedIsInOrder, Within, Calling, Between, UsageIsExact,
                        InFlight
    <2> QED
      BY <2>5, <2>7, <2>8 DEF GenInv
  <1> QED
    BY <1>1, <1>2

LEMMA PrefillKeeps ==
    ASSUME GInv, Prefill
    PROVE  GenInv'
  <1> USE SessionAssumption
  <1>1. /\ gpc = "begin" /\ gpc' = "prefill" /\ position = 0 /\ pc = "idle"
        /\ ~poisoned /\ step = 0 /\ sampled = 0
        /\ prompt \in Nat /\ maxTokens \in Nat
        /\ UNCHANGED <<prompt, options, served, step, sampled, stopped, reason>>
    BY DEF GInv, GenInv, Prefill, GoTo, Fresh, Numbers, request, progress
  <1>2. prompt > 0 /\ prompt < Context /\ maxTokens > 0 /\ maxTokens <= Context - prompt
    BY DEF Prefill, LimitsHold, OptionsValid, maxTokens
  <1>3. /\ start' = 0 /\ asked' = prompt /\ poisoned' = poisoned
        /\ pc' = "enter" => batch' = Least(prompt, Chunk)
    BY <1>1 DEF Prefill, CallPrefill
  <1>4. maxTokens' = maxTokens
    BY <1>1 DEF maxTokens
  <1>5. Numbers' /\ Decided'
    BY <1>1, <1>4 DEF GInv, GenInv, Numbers, Decided, Ended
  <1>6. Within'
    BY <1>1, <1>2, <1>4 DEF Within
  <1>7. Calling'
    BY <1>1, <1>2, <1>3 DEF Calling, Least
  <1>8. Fresh' /\ PreparedIsInOrder' /\ Between' /\ UsageIsExact'
    BY <1>1 DEF Fresh, PreparedIsInOrder, Between, UsageIsExact, InFlight
  <1> QED
    BY <1>5, <1>6, <1>7, <1>8 DEF GenInv

\* A pass keeps what was asked for; the mark is taken back before the next chunk.
LEMMA SessionStepKeeps ==
    ASSUME GInv, SessionStep
    PROVE  GenInv'
  <1> USE SessionAssumption
  <1>1. /\ gpc \in {"prefill", "forward"}
        /\ UNCHANGED <<gpc, prompt, options, served, step, sampled, stopped, reason>>
        /\ maxTokens' = maxTokens
    BY DEF SessionStep, request, progress, maxTokens
  <1>2. UNCHANGED <<start, asked>>
    BY DEF SessionStep, Enter, Compute, Attend, FeedForward, OutputHead, Fail, call
  <1>3. ASSUME pc' = "enter"
        PROVE  ~poisoned' /\ batch' > 0 /\ batch' <= Chunk
    <2>1. /\ pc = "head" /\ poisoned' = FALSE /\ todo > 0
          /\ batch' = Least(todo, Chunk)
      BY <1>3 DEF SessionStep, Enter, Compute, Attend, FeedForward, OutputHead, Fail
    <2>2. todo \in Nat
      BY DEF GInv, GenInv, IInv, SessionTypeOK
    <2> QED
      BY <2>1, <2>2 DEF Least
  <1>4. Numbers' /\ Decided' /\ Within'
    BY <1>1 DEF GInv, GenInv, Numbers, Decided, Within
  <1>5. Calling'
    BY <1>1, <1>2, <1>3 DEF GInv, GenInv, Calling
  <1>6. Fresh' /\ PreparedIsInOrder' /\ Between' /\ UsageIsExact'
    BY <1>1 DEF Fresh, PreparedIsInOrder, Between, UsageIsExact
  <1> QED
    BY <1>4, <1>5, <1>6 DEF GenInv

\* A call that returned Ok has consumed its tokens, and left the session valid.
LEMMA ReturnKeeps ==
    ASSUME GInv, Prefilled \/ Forwarded
    PROVE  GenInv'
  <1> USE SessionAssumption
  <1>1. /\ gpc \in {"prefill", "forward"} /\ pc = "idle"
        /\ UNCHANGED <<sessionVars, request, sampled, stopped, reason>>
        /\ \/ /\ outcome = "ok" /\ gpc' = "check"
              /\ step' = IF gpc = "forward" THEN step + 1 ELSE step
           \/ gpc' = "failed" /\ step' = step
    BY DEF Prefilled, Forwarded, GoTo, progress
  <1>2. CASE gpc' = "failed"
    BY <1>1, <1>2, FailedKeeps DEF GoTo, progress
  <1>3. CASE outcome = "ok" /\ gpc' = "check"
    <2>1. ~poisoned /\ position = start + asked
      BY <1>3 DEF GInv, GenInv, IInv, ConsumedAsReported
    <2>2. /\ prompt \in Nat /\ maxTokens \in Nat /\ step \in Nat /\ sampled \in Nat
          /\ prompt > 0 /\ prompt + maxTokens <= Context /\ step < maxTokens
      BY <1>1 DEF GInv, GenInv, Numbers, Within, InFlight
    <2>3. /\ sampled = step' /\ position = prompt + step' /\ step' < maxTokens
          /\ step' \in Nat
      BY <1>1, <1>3, <2>1, <2>2 DEF GInv, GenInv, Calling
    <2>4. /\ UNCHANGED <<prompt, options, served, maxTokens, pc, poisoned, position>>
      BY <1>1 DEF request, maxTokens, sessionVars
    <2>5. Numbers' /\ Within' /\ Between'
      <3>1. Numbers'
        BY <1>1, <2>3, <2>4 DEF GInv, GenInv, Numbers
      <3>2. Within'
        BY <2>2, <2>3, <2>4 DEF Within
      <3>3. Between'
        BY <1>1, <1>3, <2>1, <2>3, <2>4 DEF Between
      <3> QED
        BY <3>1, <3>2, <3>3
    <2>6. Decided'
      BY <1>1, <1>3 DEF GInv, GenInv, Decided, Ended
    <2>7. Fresh' /\ PreparedIsInOrder' /\ Calling' /\ UsageIsExact'
      BY <1>3 DEF Fresh, PreparedIsInOrder, Calling, UsageIsExact
    <2> QED
      BY <2>5, <2>6, <2>7 DEF GenInv
  <1> QED
    BY <1>1, <1>2, <1>3

LEMMA SampleKeeps ==
    ASSUME GInv, Sample
    PROVE  GenInv'
  <1> USE SessionAssumption
  <1>1. CASE GoTo({"failed"}) /\ UNCHANGED progress
    BY <1>1, FailedKeeps DEF Sample
  <1>2. CASE sampled' = sampled + 1
    <2>1. /\ gpc = "sample" /\ sampled' = sampled + 1 /\ stopped' \in BOOLEAN
          /\ gpc' \in IF stopped' THEN {"tail", "deliver"} ELSE {"deliver", "next"}
          /\ reason' = IF stopped' THEN "stop" ELSE reason
          /\ UNCHANGED <<step, prompt, options, served, pc, poisoned, position>>
          /\ maxTokens' = maxTokens
      <3>1. sampled \in Nat
        BY DEF GInv, GenInv, Numbers
      <3> QED
        BY <1>2, <3>1 DEF Sample, GoTo, request, progress, sessionVars, maxTokens
    <2>2. /\ ~stopped /\ reason = "length" /\ sampled = step /\ sampled \in Nat
          /\ pc = "idle" /\ ~poisoned /\ position = prompt + step
      BY <2>1 DEF GInv, GenInv, Decided, Ended, Between, InFlight, Numbers
    <2>3. Numbers' /\ Within'
      BY <2>1, <2>2 DEF GInv, GenInv, Numbers, Within, InFlight
    <2>4. Decided'
      BY <2>1, <2>2 DEF Decided
    <2>5. Between'
      BY <2>1, <2>2 DEF Between
    <2>6. Fresh' /\ PreparedIsInOrder' /\ Calling' /\ UsageIsExact'
      BY <2>1 DEF Fresh, PreparedIsInOrder, Calling, UsageIsExact
    <2> QED
      BY <2>3, <2>4, <2>5, <2>6 DEF GenInv
  <1> QED
    BY <1>1, <1>2 DEF Sample

LEMMA ForwardTokenKeeps ==
    ASSUME GInv, ForwardToken
    PROVE  GenInv'
  <1> USE SessionAssumption
  <1>1. /\ gpc = "next" /\ gpc' = "forward" /\ step + 1 < maxTokens
        /\ start' = position /\ asked' = 1 /\ batch' = 1 /\ poisoned' = poisoned
        /\ UNCHANGED <<prompt, options, served, step, sampled, stopped, reason>>
        /\ maxTokens' = maxTokens
    BY DEF ForwardToken, GoTo, MoreTokens, CallForward, request, progress, maxTokens
  <1>2. ~poisoned /\ position = prompt + step /\ sampled = step + 1
    BY <1>1 DEF GInv, GenInv, Between, InFlight
  <1>3. Numbers' /\ Decided' /\ Within'
    BY <1>1 DEF GInv, GenInv, Numbers, Decided, Ended, Within, InFlight
  <1>4. Calling'
    BY <1>1, <1>2 DEF Calling
  <1>5. Fresh' /\ PreparedIsInOrder' /\ Between' /\ UsageIsExact'
    BY <1>1 DEF Fresh, PreparedIsInOrder, Between, UsageIsExact
  <1> QED
    BY <1>3, <1>4, <1>5 DEF GenInv

\* Steps between the calls that only go on.
LEMMA MoveKeeps ==
    ASSUME GInv,
           CheckCancel \/ Deliver \/ LimitReached \/ FinishOutput \/ DeliverTail
    PROVE  GenInv'
  <1> USE SessionAssumption
  <1>0. UNCHANGED <<sessionVars, request, progress>>
    BY DEF CheckCancel, Deliver, LimitReached, FinishOutput, DeliverTail
  <1>1. CASE gpc' = "failed"
    BY <1>0, <1>1, FailedKeeps DEF GoTo
  <1>2. CASE gpc' # "failed"
    <2>1. \/ gpc = "check" /\ gpc' = "sample"
          \/ gpc = "deliver" /\ gpc' = IF stopped THEN "tail" ELSE "next"
          \/ gpc = "next" /\ gpc' = "tail" /\ ~(step + 1 < maxTokens)
          \/ gpc = "tail" /\ gpc' \in {"done", "flush"}
          \/ gpc = "flush" /\ gpc' = "done"
      BY <1>2 DEF CheckCancel, Deliver, LimitReached, FinishOutput, DeliverTail,
         GoTo, Ended, MoreTokens
    <2>2. UNCHANGED <<prompt, options, served, step, sampled, stopped, reason,
                      pc, poisoned, position, maxTokens>>
      BY <1>0 DEF request, progress, sessionVars, maxTokens
    <2>3. /\ prompt \in Nat /\ maxTokens \in Nat /\ step \in Nat /\ sampled \in Nat
          /\ prompt > 0 /\ prompt + maxTokens <= Context /\ step < maxTokens
          /\ pc = "idle" /\ ~poisoned /\ position = prompt + step
          /\ sampled = IF gpc \in {"check", "sample"} THEN step ELSE step + 1
      BY <2>1 DEF GInv, GenInv, Numbers, Within, Between, InFlight
    <2>4. Numbers' /\ Within' /\ Between'
      BY <2>1, <2>2, <2>3 DEF GInv, GenInv, Numbers, Within, Between, InFlight
    <2>5. Decided'
      BY <2>1, <2>2, <2>3 DEF GInv, GenInv, Decided, Ended
    <2>6. UsageIsExact'
      <3>1. CASE gpc' # "done"
        BY <3>1 DEF UsageIsExact
      <3>2. CASE gpc' = "done"
        <4>1. gpc \in {"tail", "flush"} /\ sampled = step + 1
          BY <2>1, <2>3, <3>2
        <4>2. reason = "length" => step + 1 = maxTokens
          BY <4>1 DEF GInv, GenInv, Decided
        <4> QED
          BY <2>2, <2>3, <4>1, <4>2 DEF UsageIsExact
      <3> QED
        BY <3>1, <3>2
    <2>7. Fresh' /\ PreparedIsInOrder' /\ Calling'
      BY <2>1 DEF Fresh, PreparedIsInOrder, Calling
    <2> QED
      BY <2>4, <2>5, <2>6, <2>7 DEF GenInv
  <1> QED
    BY <1>1, <1>2

\* The cancellation and the steps of other callers touch nothing of these.
LEMMA OthersKeep ==
    ASSUME GInv, CancelRequest \/ Direct \/ UNCHANGED generateVars
    PROVE  GenInv'
  <1>1. UNCHANGED <<gpc, prompt, options, served, step, sampled, stopped, reason, maxTokens>>
    BY DEF CancelRequest, Direct, generateVars, request, progress, maxTokens
  <1>2. gpc # "direct" =>
           UNCHANGED <<pc, position, poisoned, start, asked, batch>>
    BY DEF CancelRequest, Cancel, Direct, generateVars, sessionVars, call
  <1>3. Numbers' /\ Decided' /\ Within'
    BY <1>1 DEF GInv, GenInv, Numbers, Decided, Within
  <1>4. Fresh' /\ Calling' /\ Between'
    BY <1>1, <1>2 DEF GInv, GenInv, Fresh, Calling, Between, InFlight
  <1>5. PreparedIsInOrder'
    BY <1>1 DEF GInv, GenInv, PreparedIsInOrder, LimitsHold, OptionsValid, SamplingValid
  <1>6. UsageIsExact'
    BY <1>1, <1>2 DEF GInv, GenInv, UsageIsExact
  <1> QED
    BY <1>3, <1>4, <1>5, <1>6 DEF GenInv

LEMMA GInvStep == GInv /\ [GenerateNext]_generateVars => GInv'
  <1> SUFFICES ASSUME GInv, [GenerateNext]_generateVars PROVE GInv'
    OBVIOUS
  <1>1. IInv'
    BY StepOfSession, IInvStep DEF GInv, GenInv
  <1>2. GenInv'
    <2>1. ASSUME NEW b \in Bodies, NEW tokens \in 0 .. Context + 1,
                 NEW arch \in Architectures, Prepare(b, tokens, arch)
          PROVE  GenInv'
      BY <2>1, PrepareKeeps
    <2>2. CASE Refuse
      BY <2>2, FailedKeeps DEF Refuse
    <2>3. CASE Prefill \/ SessionStep \/ Prefilled \/ Forwarded
      BY <2>3, PrefillKeeps, SessionStepKeeps, ReturnKeeps
    <2>4. CASE Sample \/ ForwardToken
      BY <2>4, SampleKeeps, ForwardTokenKeeps
    <2>5. CASE CheckCancel \/ Deliver \/ LimitReached \/ FinishOutput
                 \/ DeliverTail
      BY <2>5, MoveKeeps
    <2>6. CASE CancelRequest \/ Direct \/ UNCHANGED generateVars
      BY <2>6, OthersKeep
    <2> QED
      BY <2>1, <2>2, <2>3, <2>4, <2>5, <2>6 DEF GenerateNext, Running,
       Callback
  <1> QED
    BY <1>1, <1>2 DEF GInv, GenInv

(***************************************************************************)
(* The theorems.                                                           *)
(***************************************************************************)

\* The invariant holds in every state of every caller.
THEOREM GenerateInvariance == GenerateSpec => []GInv
  <1>1. GenerateSpec => GenerateInit /\ [][GenerateNext]_generateVars
    BY PTL DEF GenerateSpec
  <1> QED
    BY <1>1, GInvInit, GInvStep, PTL

\* generate and the other callers use a session only as Session allows: all that
\* is proved of a session holds of theirs.
THEOREM CallersImplementSession == GenerateSpec => SessionSpec
  <1>1. GenerateInit => SessionInit
    BY DEF GenerateInit
  <1>2. GInv /\ [GenerateNext]_generateVars => [SessionNext]_sessionVars
    BY StepOfSession DEF GInv, GenInv
  <1>3. GenerateSpec => GenerateInit /\ [][GenerateNext]_generateVars
    BY PTL DEF GenerateSpec
  <1> QED
    BY <1>1, <1>2, <1>3, GenerateInvariance, PTL DEF SessionSpec

\* Under each caller: the layers are at the position or where the pass is, memory
\* stays within the context, what a call returns is what it consumed, and an
\* invalidated session is not used again.
THEOREM SessionsStaySound ==
    GenerateSpec => /\ [](CachesAligned /\ LayersInStep /\ KvBounded /\ ConsumedAsReported)
                    /\ PoisonIsFinal
  BY CallersImplementSession, CachesStayAligned, CachesStayBounded,
     ReturnsWhatItConsumed, PoisonStays, PTL

\* No pass of generate is refused unless the request was cancelled: the limits
\* checked at the start cover every later call, for every context and chunk.
THEOREM GenerateIsNeverRefused == GenerateSpec => []NeverRefused
  <1>1. GInv => NeverRefused
    <2> SUFFICES ASSUME GInv, gpc \in {"prefill", "forward"}, pc = "enter", ~cancelled
                 PROVE  Accepts(TRUE)
      BY DEF NeverRefused
    <2>1. /\ position \in Nat /\ batch \in Nat /\ todo \in Nat
          /\ prompt \in Nat /\ step \in Nat /\ maxTokens \in Nat
          /\ prompt + maxTokens <= Context /\ step < maxTokens
      BY DEF GInv, GenInv, IInv, SessionTypeOK, Numbers, Within, InFlight
    <2>2. position + batch + todo = start + asked
      BY DEF GInv, GenInv, IInv, CallAdds
    <2>3. start + asked <= Context
      <3>1. CASE gpc = "prefill"
        BY <2>1, <3>1, SessionAssumption DEF GInv, GenInv, Calling
      <3>2. CASE gpc = "forward"
        BY <2>1, <3>2, SessionAssumption DEF GInv, GenInv, Calling
      <3> QED
        BY <3>1, <3>2
    <2>4. position + batch <= Context
      <3>1. start + asked \in Nat
        BY DEF GInv, GenInv, IInv, SessionTypeOK
      <3> QED
        BY <2>1, <2>2, <2>3, <3>1, SessionAssumption
    <2> QED
      BY <2>4 DEF GInv, GenInv, Calling, Accepts
  <1> QED
    BY <1>1, GenerateInvariance, PTL

\* What prepare accepts, with any defaults and any fields, generate accepts.
THEOREM PreparedRequestsAreInOrder == GenerateSpec => []PreparedIsInOrder
  <1>1. GInv => PreparedIsInOrder
    BY DEF GInv, GenInv
  <1> QED
    BY <1>1, GenerateInvariance, PTL

\* Every token is sampled after a pass over exactly the tokens before it.
THEOREM TokensAreSampledInPlace == GenerateSpec => []SampledInPlace
  <1>1. GInv => SampledInPlace
    BY DEF GInv, GenInv, SampledInPlace, Between, InFlight
  <1> QED
    BY <1>1, GenerateInvariance, PTL

\* The usage and the finish reason that are reported are exact.
THEOREM UsageIsReportedExactly == GenerateSpec => []UsageIsExact
  <1>1. GInv => UsageIsExact
    BY DEF GInv, GenInv
  <1> QED
    BY <1>1, GenerateInvariance, PTL
=============================================================================
