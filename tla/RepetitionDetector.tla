------------------------- MODULE RepetitionDetector -------------------------
(***************************************************************************)
(* The runaway-repetition detector of the stream proxy                     *)
(* (RepetitionDetector in proxy/sanitize.rs): a run of one character, and  *)
(* a unit of a few bytes that repeats at the end of a rolling window.      *)
(* Text is a sequence of characters; the window holds their UTF-8 bytes,   *)
(* as the code slices it by byte offsets.  The limits are parameters.      *)
(***************************************************************************)
EXTENDS Naturals, Sequences, FiniteSetsExt, SequencesExt

CONSTANTS
    Chars,       \* characters of the streamed text
    Width,       \* bytes of each character in UTF-8
    Pure,        \* code and divider characters
    LimitFor,    \* the run of each character that counts as runaway
    Units,       \* unit lengths in bytes, 4..32
    Repeat,      \* PATTERN_REPEAT_COUNT
    Window       \* ROLLING_WINDOW

DetectorAssumption ==
    /\ Width \in [Chars -> Nat \ {0}]
    /\ LimitFor \in [Chars -> Nat \ {0, 1}]
    /\ Pure \subseteq Chars
    /\ Units \subseteq Nat \ {0}
    /\ Repeat \in Nat \ {0} /\ Window \in Nat
    /\ \A u \in Units : u * Repeat <= Window

\* The bytes of a text: each is a character and the place within it.
Encode(text) ==
    FlattenSeq([i \in DOMAIN text |->
        [k \in 1..Width[text[i]] |-> [char |-> text[i], at |-> k]]])

\* No character, an empty run, an empty window.
NewDetector == [last |-> "nul", run |-> 0, rolling |-> <<>>]

\* One more of the last character, or the first of another.
Counted(d, ch) ==
    [d EXCEPT !.last = ch, !.run = IF ch = d.last THEN d.run + 1 ELSE 1]

\* The limit is looked at only where a run goes on.
Tripped(d) == d.run > 1 /\ d.run >= LimitFor[d.last]

\* The run is counted through the chunk, and no further than where it trips.
Scan(d, text) ==
    FoldLeft(LAMBDA acc, ch : IF Tripped(acc) THEN acc ELSE Counted(acc, ch), d, text)

\* A byte offset at which a character starts, or the end.
Boundary(bytes, offset) ==
    offset = Len(bytes) \/ bytes[offset + 1].at = 1

\* The byte offsets of the characters.
Starts(bytes) ==
    FlattenSeq([i \in DOMAIN bytes |-> IF bytes[i].at = 1 THEN <<i - 1>> ELSE <<>>])

\* The excess is in bytes, but as many characters are dropped; if there are
\* fewer, none is.
Cut(bytes) ==
    LET starts == Starts(bytes)
        excess == Len(bytes) - Window
    IN IF Len(bytes) <= Window \/ excess >= Len(starts)
       THEN bytes
       ELSE SubSeq(bytes, starts[excess + 1] + 1, Len(bytes))

\* The r-th unit of u bytes before the last one.
Segment(bytes, u, r) ==
    SubSeq(bytes, Len(bytes) - (r + 1) * u + 1, Len(bytes) - r * u)

IsPure(bytes) == \A i \in DOMAIN bytes : bytes[i].char \in Pure

\* A slice that does not start at a character is a panic; the segments are
\* sliced and compared from the end until one differs.
UnitVerdict(bytes, u) ==
    LET Cuts(r) == ~Boundary(bytes, Len(bytes) - (r + 1) * u)
        Differs(r) == Segment(bytes, u, r) # Segment(bytes, u, 0)
        stop == {r \in 1..Repeat - 1 : Cuts(r) \/ Differs(r)}
    IN CASE Len(bytes) < u * Repeat -> "none"
         [] Len(bytes) >= u * Repeat /\ Cuts(0) -> "panic"
         [] OTHER -> IF IsPure(Segment(bytes, u, 0)) THEN "none"
                     ELSE IF stop = {} THEN "pattern"
                     ELSE IF Cuts(Min(stop)) THEN "panic" ELSE "none"

\* The units are tried from the shortest until one decides.
PatternVerdict(bytes) ==
    LET deciding == {u \in Units : UnitVerdict(bytes, u) # "none"}
    IN IF deciding = {} THEN "none" ELSE UnitVerdict(bytes, Min(deciding))

\* feed: what the detector becomes and what it returns.
Feed(d, text) ==
    LET scanned == Scan(d, text)
        rolling == Cut(d.rolling \o Encode(text))
    IN IF text = <<>> THEN [det |-> d, verdict |-> "none"]
       ELSE IF Tripped(scanned) THEN [det |-> scanned, verdict |-> "character"]
       ELSE [det |-> [scanned EXCEPT !.rolling = rolling],
             verdict |-> PatternVerdict(rolling)]
=============================================================================
