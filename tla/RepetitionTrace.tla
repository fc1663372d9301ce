-------------------------- MODULE RepetitionTrace --------------------------
(* The detector fed with every text, cut into chunks in every way, and a    *)
(* definition of runaway repetition by the whole text so far.               *)
EXTENDS RepetitionDetector

CONSTANTS
    Texts,       \* chunks the stream may bring
    MaxFed       \* bound on the characters fed

VARIABLES
    det,         \* the detector
    fed,         \* all characters fed (history)
    fresh,       \* how many of them the latest chunk brought
    verdict      \* what the latest feed returned

traceVars == <<det, fed, fresh, verdict>>

TraceInit ==
    /\ det = NewDetector
    /\ fed = <<>>
    /\ fresh = 0
    /\ verdict = "none"

\* The sanitizer feeds no more after a verdict.
FeedChunk(text) ==
    /\ verdict = "none"
    /\ Len(fed) + Len(text) <= MaxFed
    /\ det' = Feed(det, text).det
    /\ verdict' = Feed(det, text).verdict
    /\ fed' = fed \o text
    /\ fresh' = Len(text)

TraceNext == \E text \in Texts : FeedChunk(text)

TraceSpec == TraceInit /\ [][TraceNext]_traceVars

-----------------------------------------------------------------------------

\* The character at i ends a run as long as its limit.
RunEnds(i) ==
    LET n == LimitFor[fed[i]]
    IN i >= n /\ \A j \in i - n + 1..i : fed[j] = fed[i]

\* A run is reported exactly in the chunk that completes it, however the
\* stream cuts it into chunks.
RunExact ==
    verdict = "character" <=> \E i \in Len(fed) - fresh + 1..Len(fed) : RunEnds(i)

\* The text so far ends in Repeat copies of u bytes that are not pure.
EndsInUnit(u) ==
    LET bytes == Encode(fed)
    IN /\ Len(bytes) >= u * Repeat
       /\ \A k \in 0..u * (Repeat - 1) - 1 :
              bytes[Len(bytes) - k] = bytes[Len(bytes) - k - u]
       /\ ~IsPure(Segment(bytes, u, 0))

\* A pattern that is reported is there: the stream is never cut off for text
\* that does not repeat.
PatternSound == verdict = "pattern" => \E u \in Units : EndsInUnit(u)

\* Text of single-byte characters that ends in a repeated unit is reported.
PatternFound ==
    (\A i \in DOMAIN fed : Width[fed[i]] = 1) /\ (\E u \in Units : EndsInUnit(u))
        => verdict \in {"character", "pattern"}
=============================================================================
