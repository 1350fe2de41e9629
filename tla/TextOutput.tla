----------------------------- MODULE TextOutput -----------------------------
(***************************************************************************)
(* TextOutput of src/src/generation.rs: token pieces arrive as bytes, text *)
(* leaves as soon as it cannot become part of a stop string or of a        *)
(* character that is still incomplete.  Bytes are classes: every ASCII     *)
(* byte stands for itself, Lead2 and Lead3 start characters of two and     *)
(* three bytes, Tail continues one.                                        *)
(***************************************************************************)
EXTENDS Naturals, Sequences, SequencesExt, FiniteSetsExt

CONSTANTS
    Ascii,      \* bytes that are characters of their own
    StopSets,   \* the sets of stop strings a request may come with
    MaxBytes,   \* bound: bytes a generation yields
    MaxPiece    \* bound: bytes of one token

Lead2 == "L2"
Lead3 == "L3"
Cont == "C"
Bytes == Ascii \cup {Lead2, Lead3, Cont}

\* Options::validate refuses an empty stop string.
ASSUME TextAssumption ==
    /\ Ascii \cap {Lead2, Lead3, Cont} = {}
    /\ \A S \in StopSets : \A s \in S : s \in Seq(Bytes) /\ s # << >>
    /\ MaxBytes \in Nat /\ MaxPiece \in Nat

VARIABLES
    stops,      \* TextOutput.stops
    pending,    \* TextOutput.pending
    text,       \* TextOutput.text
    stopped,    \* TextOutput.stopped
    output,     \* the bytes the model would yield, had it no stop strings
    used,       \* how many of them were pushed
    finished    \* finish() was called

vars == <<stops, pending, text, stopped, output, used, finished>>

(***************************************************************************)
(* UTF-8.  What starts at byte i of bytes: how many bytes, and whether     *)
(* they are a character, an error or cut off by the end.                   *)
(***************************************************************************)
Size(byte) == CASE byte = Lead3 -> 3 [] byte = Lead2 -> 2 [] OTHER -> 1

\* How many of the bytes that should continue byte i do.
Tails(bytes, i) ==
    Max({k \in 0 .. Size(bytes[i]) - 1 :
            i + k <= Len(bytes) /\ \A j \in 1 .. k : bytes[i + j] = Cont})

Unit(bytes, i) ==
    LET tails == Tails(bytes, i)
    IN [bytes |-> 1 + tails,
        kind |-> IF bytes[i] # Cont /\ 1 + tails = Size(bytes[i]) THEN "char"
                 ELSE IF bytes[i] # Cont /\ i + tails = Len(bytes) THEN "cut"
                 ELSE "error"]

Replacement == <<"U+FFFD">>

Shown(bytes, i) ==
    LET u == Unit(bytes, i)
    IN IF u.kind = "char" THEN SubSeq(bytes, i, i + u.bytes - 1) ELSE Replacement

\* from_utf8 in a loop, from byte i on and with what follows: the text and the
\* bytes consumed; a cut-off character stays unless flush replaces it.
DecodeAt(bytes, flush, following, i) ==
    IF i > Len(bytes) \/ (Unit(bytes, i).kind = "cut" /\ ~flush)
      THEN [text |-> << >>, consumed |-> i - 1]
      ELSE LET rest == following[i + Unit(bytes, i).bytes]
           IN [text |-> <<Shown(bytes, i)>> \o rest.text, consumed |-> rest.consumed]

DecodeFrom(bytes, flush) ==
    LET from[i \in 1 .. Len(bytes) + 1] == DecodeAt(bytes, flush, from, i)
    IN from

Decode(bytes, flush) == DecodeFrom(bytes, flush)[1]

\* String::from_utf8_lossy, what the text should be.
Lossy(bytes) == Decode(bytes, TRUE).text

(***************************************************************************)
(* Stop strings.                                                           *)
(***************************************************************************)
Occurrences(stop, bytes) ==
    {i \in 1 .. Len(bytes) - Len(stop) + 1 :
        SubSeq(bytes, i, i + Len(stop) - 1) = stop}

\* Where the leftmost occurrence of any stop string starts.
Found(bytes) == UNION {Occurrences(s, bytes) : s \in stops}

StartsStop(bytes) ==
    \E s \in stops : Len(bytes) < Len(s) /\ IsPrefix(bytes, s)

\* The last n bytes.
Ending(bytes, n) == SubSeq(bytes, Len(bytes) - n + 1, Len(bytes))

\* Mutant: at most the first byte of a stop string is held.
HeldOneByte(bytes) ==
    IF \E s \in stops : bytes # << >> /\ Last(bytes) = s[1] THEN 1 ELSE 0

\* Mutant: holds back as much as the longest stop string could need.
HeldAtLength(bytes) ==
    Max({0} \cup {Min({Len(s) - 1, Len(bytes)}) : s \in stops})

\* The longest end of bytes that starts some stop string without being one.
Held(bytes) == Max({0} \cup {n \in 1 .. Len(bytes) : StartsStop(Ending(bytes, n))})

\* emit(end, flush) on what is pending.
Emit(bytes, end, flush) ==
    LET decoded == Decode(SubSeq(bytes, 1, end), flush)
    IN /\ text' = text \o decoded.text
       /\ pending' = SubSeq(bytes, decoded.consumed + 1, Len(bytes))

Init ==
    /\ stops \in StopSets
    /\ output \in UNION {[1 .. n -> Bytes] : n \in 0 .. MaxBytes}
    /\ pending = << >> /\ text = << >> /\ used = 0
    /\ stopped = FALSE /\ finished = FALSE

\* The text before the stop string goes out, the rest is dropped.
StopAt(bytes) ==
    /\ Found(bytes) # {}
    /\ text' = text \o Lossy(SubSeq(bytes, 1, Min(Found(bytes)) - 1))
    /\ pending' = << >>
    /\ stopped' = TRUE

\* Mutant: an incomplete character is replaced at the end of every token.
GoOnFlushed(bytes) ==
    /\ Found(bytes) = {}
    /\ Emit(bytes, Len(bytes) - Held(bytes), TRUE)
    /\ UNCHANGED stopped

GoOn(bytes) ==
    /\ Found(bytes) = {}
    /\ Emit(bytes, Len(bytes) - Held(bytes), FALSE)
    /\ UNCHANGED stopped

\* push(): the next n bytes are one token.
Push(n) ==
    /\ ~stopped /\ ~finished
    /\ used + n <= Len(output)
    /\ used' = used + n
    /\ LET bytes == pending \o SubSeq(output, used + 1, used + n)
       IN StopAt(bytes) \/ GoOn(bytes)
    /\ UNCHANGED <<stops, output, finished>>

\* finish(): an end token, a stop string or the output limit.
Finish ==
    /\ ~finished
    /\ Emit(pending, Len(pending), TRUE)
    /\ finished' = TRUE
    /\ UNCHANGED <<stops, stopped, output, used>>

Next == (\E n \in 0 .. MaxPiece : Push(n)) \/ Finish

Spec == Init /\ [][Next]_vars

-----------------------------------------------------------------------------

\* The reference: the bytes before the first stop string, decoded at once.
BeforeStop(bytes) ==
    LET hits == Found(bytes)
    IN IF hits = {} THEN bytes ELSE SubSeq(bytes, 1, Min(hits) - 1)

Pushed == SubSeq(output, 1, used)

\* Whatever the stop strings are: a stop is noticed with the piece that completes
\* it, and the text is then, and after finish(), the bytes before it decoded.
ShownAsPushed ==
    /\ stopped <=> Found(Pushed) # {}
    /\ stopped \/ finished => text = Lossy(BeforeStop(Pushed))

\* No stop string lies strictly inside another one.
Apart(S) ==
    \A s, t \in S : \A i \in Occurrences(s, t) : i = 1 \/ i + Len(s) - 1 = Len(t)

StopsApart == \A S \in StopSets : Apart(S)

\* However the output is split into tokens, the text and the decision to stop
\* are the same: no byte is lost, repeated, decoded twice or torn, no stop
\* string slips through between two tokens, and none that begins further left
\* in the whole output was still to come.
SplitIndependent ==
    /\ ShownAsPushed
    /\ stopped => text = Lossy(BeforeStop(output))

\* What a client has read is never taken back: the text so far is a prefix of
\* the text the output would have if it ended here.
NothingTakenBack == IsPrefix(text, Lossy(BeforeStop(Pushed)))

\* Text is not delayed: what is held back is the start of a stop string, the
\* start of a character, or a cut-off character before the start of a stop.
HeldForAReason ==
    ~stopped /\ pending # << >> =>
       \E n \in 0 .. Len(pending) :
          /\ n > 0 => StartsStop(Ending(pending, n))
          /\ Decode(SubSeq(pending, 1, Len(pending) - n), FALSE).consumed = 0
=============================================================================
