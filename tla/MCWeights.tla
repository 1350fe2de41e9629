------------------------------ MODULE MCWeights ------------------------------
(* Small model files for TLC: a plain type and one in blocks of two. *)
EXTENDS Weights

TypeLen == [f |-> 1, q |-> 2]
TypeBytes == [f |-> 1, q |-> 1]

Entry(n, d, t, o) == [name |-> n, dims |-> d, type |-> t, offset |-> o]

Sound ==
    {Entry("q", <<2, 5>>, "q", 0), Entry("k", <<2, 3>>, "q", 6),
     Entry("v", <<2, 3>>, "f", 10), Entry("x", <<2, 2, 3>>, "q", 0),
     Entry("y", <<2, 3>>, "f", 16), Entry("z", <<2, 3>>, "q", 10)}

\* Overlaps, a repeated name, a file that is too short, a partial block, an
\* unknown type, a zero, an odd offset, and shapes whose size wraps.
Unsound ==
    {Entry("k", <<2, 5>>, "q", 4), Entry("q", <<2, 1>>, "f", 12),
     Entry("l", <<2, 9>>, "f", 20), Entry("p", <<3, 2>>, "q", 8),
     Entry("u", <<2>>, "w", 8), Entry("n", <<2, 0>>, "f", 8),
     Entry("o", <<2>>, "f", 7), Entry("m", <<8, 4, 2>>, "f", 8),
     Entry("w", <<2, 8, 9>>, "q", 8)}

SmallEntries == Sound \cup Unsound
=============================================================================
