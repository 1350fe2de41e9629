------------------------------- MODULE Kernels -------------------------------
(***************************************************************************)
(* The packed layouts and the vector kernels of src/src/quant.rs, at their *)
(* real sizes: which bits of a row each lane of each vector step reads,    *)
(* with which scale, and which activation it multiplies.  The values that  *)
(* are computed are left out; a kernel is right when it pairs every        *)
(* activation of a row once with the bits decode gives its element.        *)
(*                                                                         *)
(* Bits are numbered through a row, bit b of byte n as 8 * n + b.          *)
(***************************************************************************)
EXTENDS Integers, Sequences, FiniteSets

BlockLen == [F32 |-> 1, F16 |-> 1, Q8_0 |-> 32, Q2_0C |-> 512,
             Q4_K |-> 256, Q6_K |-> 256, STQ1_0 |-> 256]

BlockBytes == [F32 |-> 4, F16 |-> 2, Q8_0 |-> 34, Q2_0C |-> 130,
               Q4_K |-> 144, Q6_K |-> 210, STQ1_0 |-> 42]

Bit(byte, shift) == 8 * byte + shift
Field(byte, shift, width) == <<Bit(byte, shift), width>>

(***************************************************************************)
(* decode_unchecked: the fields of a block that element i is computed      *)
(* from, in order.  A field of no bits says which digit of a codebook      *)
(* entry the element is.                                                   *)
(***************************************************************************)
PlainElement(type, i) == <<Field(0, 0, 8 * BlockBytes[type])>>

Q8Element(i) == <<Field(2 + i, 0, 8), Field(0, 0, 16)>>

Q2Element(i) == <<Field(2 + i \div 4, 2 * (i % 4), 2), Field(0, 0, 16)>>

\* Mutant: the sign bits of the second half of a chunk are those of the first.
StqElementSharedSign(i) ==
    LET g == 16 * (i \div 64) + (i % 16)
    IN <<Field(g \div 2, 4 * (g % 2), 4), Field(32 + 2 * (g \div 16), g % 8, 1),
         <<(i % 64) \div 16, 0>>, Field(40, 0, 16)>>

\* Group g holds the digits of four elements, sixteen apart: a nibble and a
\* sign bit index the codebook, the entry has a digit for each of the four.
StqElement(i) ==
    LET g == 16 * (i \div 64) + (i % 16)
    IN <<Field(g \div 2, 4 * (g % 2), 4), Field(32 + g \div 8, g % 8, 1),
         <<(i % 64) \div 16, 0>>, Field(40, 0, 16)>>

Q6Element(i) ==
    LET c == i \div 128  p == (i % 128) \div 32  l == i % 32
    IN <<Field(64 * c + 32 * (p % 2) + l, 4 * (p \div 2), 4),
         Field(128 + 32 * c + l, 2 * p, 2),
         Field(192 + 8 * c + 2 * p + l \div 16, 0, 8),
         Field(208, 0, 16)>>

\* scale_min: six bits of scale and six of minimum, the later four pairs in two
\* pieces each.
ScaleMin(j) ==
    LET scales == 4
    IN IF j < 4
         THEN <<Field(scales + j, 0, 6), Field(scales + j + 4, 0, 6)>>
         ELSE <<Field(scales + j + 4, 0, 4), Field(scales + j - 4, 6, 2),
                Field(scales + j + 4, 4, 4), Field(scales + j, 6, 2)>>

Q4Element(i) ==
    LET group == i \div 64  high == (i % 64) \div 32
    IN <<Field(16 + 32 * group + (i % 32), 4 * high, 4)>>
          \o ScaleMin(2 * group + high) \o <<Field(0, 0, 16), Field(2, 0, 16)>>

Element(type, i) ==
    CASE type \in {"F32", "F16"} -> PlainElement(type, i)
      [] type = "Q8_0" -> Q8Element(i)
      [] type = "Q2_0C" -> Q2Element(i)
      [] type = "STQ1_0" -> StqElement(i)
      [] type = "Q6_K" -> Q6Element(i)
      [] type = "Q4_K" -> Q4Element(i)

(***************************************************************************)
(* Vector registers of sixteen lanes: a lane stands for the number of the  *)
(* bit its load and shift bring to the front; a mask gives it its width.   *)
(***************************************************************************)
Lanes == 0 .. 15

\* vld1q_u8 and a shift to the right.
Load(byte, shift) == [l \in Lanes |-> Bit(byte + l, shift)]

\* vzip1q_s8 and vzip2q_s8: the bytes of the lower (half = 0) or upper half in turn.
Zip8(a, b, half) ==
    [l \in Lanes |-> (IF l % 2 = 0 THEN a ELSE b)[8 * half + l \div 2]]

\* vzip1q_s16 and vzip2q_s16: the same with pairs of bytes.
Zip16(a, b, half) ==
    [l \in Lanes |->
        (IF (l \div 2) % 2 = 0 THEN a ELSE b)[8 * half + 2 * (l \div 4) + (l % 2)]]

\* A vector step on the block at byte base of the row: the fields each lane
\* reads, the place of the sixteen activations, the group whose scale is applied.
Step(base, lanes, x, group) ==
    [base |-> base, lanes |-> lanes, x |-> x, group |-> group]

(***************************************************************************)
(* STQ1_0.                                                                 *)
(***************************************************************************)
\* Low and high nibbles of eight bytes, zipped.
NibbleCodes(byte) == [l \in Lanes |-> Bit(byte + l \div 2, 4 * (l % 2))]

\* Two bytes in eight lanes each, shifted left by 4 - l % 8 and masked with 16:
\* what stands at bit 4 stood at bit 4 - shift.
SignBits(byte) ==
    [l \in Lanes |->
        LET shift == 4 - (l % 8) IN Bit(byte + l \div 8, 4 - shift)]

\* The p-th digits of the sixteen groups of chunk c.
StqDigitLanes(c, p) ==
    LET codes == NibbleCodes(8 * c)  signs == SignBits(32 + 2 * c)
    IN [l \in Lanes |-> << <<codes[l], 4>>, <<signs[l], 1>>, <<p, 0>>, Field(40, 0, 16)>>]

\* stq_digits_neon writes its lanes to a decoded block, stq_row_dot_neon
\* multiplies them by the activations of the row.
StqDigitsNeon(blocks) ==
    [b \in 0 .. blocks - 1, c \in 0 .. 3, p \in 0 .. 3 |->
        Step(42 * b, StqDigitLanes(c, p), 256 * b + 64 * c + 16 * p, b)]

StqRowDotNeon(blocks) ==
    [b \in 0 .. blocks - 1, c \in 0 .. 3, p \in 0 .. 3 |->
        Step(42 * b, StqDigitLanes(c, p), 256 * b + 64 * c + 16 * p, b)]

\* One scale of the activations for each block.
StqRowDotSdot(blocks) ==
    [b \in 0 .. blocks - 1, c \in 0 .. 3, p \in 0 .. 3 |->
        Step(42 * b, StqDigitLanes(c, p), 256 * b + 64 * c + 16 * p, b)]

(***************************************************************************)
(* Q6_K.                                                                   *)
(***************************************************************************)
Q6Lanes(low, high, scale) ==
    [l \in Lanes |-> << <<low[l], 4>>, <<high[l], 2>>, Field(scale, 0, 8),
                       Field(208, 0, 16)>>]

Q6RowDotNeon(blocks) ==
    [b \in 0 .. blocks - 1, c \in 0 .. 1, p \in 0 .. 3, h \in 0 .. 1 |->
        Step(210 * b,
             Q6Lanes(Load(64 * c + 32 * (p % 2) + 16 * h, IF p \in {2, 3} THEN 4 ELSE 0),
                     Load(128 + 32 * c + 16 * h, 2 * p),
                     192 + 8 * c + 2 * p + h),
             256 * b + 128 * c + 32 * p + 16 * h, b)]

\* Mutant: the second half of the high bits is not loaded apart.
Q6RowDotSdotOneHigh(blocks) ==
    [b \in 0 .. blocks - 1, c \in 0 .. 1, n \in 0 .. 7 |->
        Step(210 * b,
             Q6Lanes(Load(64 * c + 16 * (n % 4), IF n >= 4 THEN 4 ELSE 0),
                     Load(128 + 32 * c, 2 * (n \div 2)), 192 + 8 * c + n),
             256 * b + 128 * c + 16 * n, b)]

\* The eight planes of a chunk one after the other: four registers of low bits,
\* used for both nibbles, and two of high bits.
Q6RowDotSdot(blocks) ==
    [b \in 0 .. blocks - 1, c \in 0 .. 1, n \in 0 .. 7 |->
        Step(210 * b,
             Q6Lanes(Load(64 * c + 16 * (n % 4), IF n >= 4 THEN 4 ELSE 0),
                     Load(128 + 32 * c + 16 * (n % 2), 2 * (n \div 2)),
                     192 + 8 * c + n),
             256 * b + 128 * c + 16 * n, b)]

(***************************************************************************)
(* Q2_0C.                                                                  *)
(***************************************************************************)
Q2Lanes(reg) == [l \in Lanes |-> << <<reg[l], 2>>, Field(0, 0, 16)>>]

\* Sixteen bytes into sixty-four codes in the order of the row.
Q2Unpack64(byte) ==
    LET p == [s \in 0 .. 3 |-> Load(byte, 2 * s)]
    IN [k \in 0 .. 3 |->
          Zip16(Zip8(p[0], p[1], k \div 2), Zip8(p[2], p[3], k \div 2), k % 2)]

Q2RowDotNeon(blocks) ==
    [b \in 0 .. blocks - 1, chunk \in 0 .. 7, k \in 0 .. 3 |->
        Step(130 * b, Q2Lanes(Q2Unpack64(2 + 16 * chunk)[k]),
             512 * b + 64 * chunk + 16 * k, b)]

Q2DecodeBlockNeon(blocks) ==
    [b \in 0 .. blocks - 1, chunk \in 0 .. 7, k \in 0 .. 3 |->
        Step(130 * b, Q2Lanes(Q2Unpack64(2 + 16 * chunk)[k]),
             512 * b + 64 * chunk + 16 * k, b)]

\* Against activations in another order nothing is zipped; two groups, each with
\* its own scale, to a block.
Q2RowDotSdot(blocks) ==
    [b \in 0 .. blocks - 1, g \in 0 .. 1, c \in 0 .. 3, s \in 0 .. 3 |->
        Step(130 * b, Q2Lanes(Load(2 + 64 * g + 16 * c, 2 * s)),
             512 * b + 256 * g + 64 * c + 16 * s, 2 * b + g)]

\* Two rows at a time: row r's codes meet the same registers of activations.
Q2TwoRowsDotSdot(blocks) ==
    [r \in 0 .. 1 |->
        [b \in 0 .. blocks - 1, g \in 0 .. 1, c \in 0 .. 3, s \in 0 .. 3 |->
            Step(130 * b, Q2Lanes(Load(2 + 64 * g + 16 * c, 2 * s)),
                 512 * b + 256 * g + 64 * c + 16 * s, 2 * b + g)]]

(***************************************************************************)
(* Activations.                                                            *)
(***************************************************************************)
\* Q8::quantize_into: one scale for every 256 values.
Q8Group == 256

GroupOf(len) == [i \in 0 .. len - 1 |-> i \div Q8Group]

\* deinterleave_q2c: each sixty-four in four columns, what is left as it is; the
\* result maps a place of values_q2c to the place of values it was taken from.
DeinterleaveQ2c(len) ==
    LET whole == 64 * (len \div 64)
    IN [t \in 0 .. len - 1 |->
          IF t < whole
            THEN 64 * (t \div 64) + 4 * (t % 16) + (t % 64) \div 16
            ELSE t]

\* dot_neon: sixteen terms at a time, then four, then one; how often each term
\* is added, and one past the end.
DotTerms(len, wide) ==
    LET simdEnd == 16 * (len \div 16)  vecEnd == wide * (len \div wide)
    IN [i \in 0 .. len |->
          Cardinality({k \in 0 .. len \div 16 - 1 : i \in 16 * k .. 16 * k + 15})
            + Cardinality({v \in simdEnd .. vecEnd - 1 :
                             (v - simdEnd) % wide = 0 /\ i \in v .. v + wide - 1})
            + (IF i \in vecEnd .. len - 1 THEN 1 ELSE 0)]

\* What has one loop of sixteen and a scalar rest: the maximum and the rounding
\* of a group, and in src/src/model.rs the norms and the sum of two vectors.
LoopTerms(len) ==
    [i \in 0 .. len |->
        Cardinality({k \in 0 .. len \div 16 - 1 : i \in 16 * k .. 16 * k + 15})
          + (IF i \in 16 * (len \div 16) .. len - 1 THEN 1 ELSE 0)]

(***************************************************************************)
(* Exactness.                                                              *)
(***************************************************************************)
\* Every activation of a row of that many blocks is met once, by the fields of
\* its own element in its own block; order gives the activation at a place.
Pairs(type, blocks, steps, order) ==
    LET len == BlockLen[type]
        cols == blocks * len
        own(s, l) ==
          LET i == order[s.x + l]
          IN /\ s.base = BlockBytes[type] * (i \div len)
             /\ s.lanes[l] = Element(type, i % len)
    IN /\ 16 * Cardinality(DOMAIN steps) = cols
       /\ {steps[k].x + l : k \in DOMAIN steps, l \in Lanes} = 0 .. cols - 1
       /\ {order[i] : i \in 0 .. cols - 1} = 0 .. cols - 1
       /\ \A k \in DOMAIN steps : \A l \in Lanes : own(steps[k], l)

\* Every step of an integer kernel takes the scale of the group of its activations.
Scaled(steps, cols, order) ==
    \A k \in DOMAIN steps : \A l \in Lanes :
       steps[k].group = GroupOf(cols)[order[steps[k].x + l]]

InOrder(cols) == [i \in 0 .. cols - 1 |-> i]

\* A kernel on rows of that many blocks; "decode" is a block decoded and the
\* floating-point dot product of the result, "vector" the loops over
\* floating-point vectors.
Exact(kernel, type, blocks) ==
    LET cols == blocks * BlockLen[type]
        plain(steps) == Pairs(type, blocks, steps, InOrder(cols))
        integer(steps, order) ==
          Pairs(type, blocks, steps, order) /\ Scaled(steps, cols, order)
    IN CASE kernel = "stq_row_dot" -> type = "STQ1_0" /\ plain(StqRowDotNeon(blocks))
         [] kernel = "q6_row_dot" -> type = "Q6_K" /\ plain(Q6RowDotNeon(blocks))
         [] kernel = "q2c_row_dot" -> type = "Q2_0C" /\ plain(Q2RowDotNeon(blocks))
         [] kernel = "stq_row_dot_sdot" ->
              type = "STQ1_0" /\ integer(StqRowDotSdot(blocks), InOrder(cols))
         [] kernel = "q6_row_dot_sdot" ->
              type = "Q6_K" /\ integer(Q6RowDotSdot(blocks), InOrder(cols))
         [] kernel = "q2c_row_dot_sdot" ->
              type = "Q2_0C" /\ integer(Q2RowDotSdot(blocks), DeinterleaveQ2c(cols))
         [] kernel = "q2c_2rows_dot_sdot" ->
              /\ type = "Q2_0C"
              /\ \A r \in 0 .. 1 :
                    integer(Q2TwoRowsDotSdot(blocks)[r], DeinterleaveQ2c(cols))
         [] kernel = "vector" ->
              /\ type = "F32"
              /\ \A i \in 0 .. cols :
                    DotTerms(cols, 4)[i] = (IF i < cols THEN 1 ELSE 0)
                      /\ LoopTerms(cols)[i] = (IF i < cols THEN 1 ELSE 0)
         [] kernel = "decode" ->
              /\ type = "STQ1_0" => plain(StqDigitsNeon(blocks))
              /\ type = "Q2_0C" => plain(Q2DecodeBlockNeon(blocks))
              /\ \A i \in 0 .. cols : DotTerms(cols, 4)[i] = (IF i < cols THEN 1 ELSE 0)

Kernels ==
    {"stq_row_dot", "q6_row_dot", "q2c_row_dot", "stq_row_dot_sdot",
     "q6_row_dot_sdot", "q2c_row_dot_sdot", "q2c_2rows_dot_sdot", "vector", "decode"}

\* The fields of a block.
Fields(type) ==
    UNION {{Element(type, i)[f] : f \in DOMAIN Element(type, i)} :
              i \in 0 .. BlockLen[type] - 1}
=============================================================================
