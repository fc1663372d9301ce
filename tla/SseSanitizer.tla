---------------------------- MODULE SseSanitizer ----------------------------
(***************************************************************************)
(* The proxy's response pipeline (sse_stream in proxy/mod.rs, SseSanitizer *)
(* and Utf8Reassembler in proxy/sanitize.rs): the upstream's bytes arrive  *)
(* in chunks cut anywhere, within a character too.  In the bytes, "lead"   *)
(* and "trail" are the two bytes of the character "e2"; every other piece  *)
(* is whole.                                                               *)
(***************************************************************************)
EXTENDS RepetitionDetector

CONSTANT Streams     \* byte streams the upstream may send

VARIABLES
    up,          \* bytes the upstream has not sent yet
    held,        \* bytes of a character the decoder holds back
    lineBuf,     \* line_buf
    det,         \* the detector
    done,        \* the sanitizer's done
    out,         \* pieces sent to the client
    finished     \* the stream to the client has ended

sseVars == <<up, held, lineBuf, det, done, out, finished>>

\* The second byte of a character; a lead byte that no trail byte follows.
Second(bytes, i) == bytes[i] = "trail" /\ i > 1 /\ bytes[i - 1] = "lead"
Unpaired(bytes, i) == bytes[i] = "lead" /\ (i = Len(bytes) \/ bytes[i + 1] # "trail")

\* The last byte begins a character that later bytes may complete.
Incomplete(bytes, end) == ~end /\ bytes # <<>> /\ Last(bytes) = "lead"

\* A byte that belongs to no character becomes U+FFFD.
PieceOf(bytes, i) ==
    CASE Second(bytes, i) -> <<>>
      [] Unpaired(bytes, i) \/ (bytes[i] = "trail" /\ ~Second(bytes, i)) -> <<"bad">>
      [] bytes[i] = "lead" /\ ~Unpaired(bytes, i) -> <<"e2">>
      [] OTHER -> <<bytes[i]>>

\* Mutant of Decode: an incomplete character is replaced at once.
DecodeEager(bytes, end) ==
    [text |-> FlattenSeq([i \in DOMAIN bytes |-> PieceOf(bytes, i)]), held |-> <<>>]

\* decode_to_string: a lead byte at the end is held back unless the stream ends.
Decode(bytes, end) ==
    LET now == IF Incomplete(bytes, end) THEN Front(bytes) ELSE bytes
    IN [text |-> FlattenSeq([i \in DOMAIN now |-> PieceOf(now, i)]),
        held |-> IF Incomplete(bytes, end) THEN <<"lead">> ELSE <<>>]

\* The abstract stream: the text to come is what is buffered, and all that the
\* upstream has still to send, decoded as a whole.
Lines == INSTANCE LineStream WITH
    rest <- lineBuf \o Decode(held \o up, TRUE).text,
    open <- ~done,
    ended <- finished

\* Types; and between two chunks no whole line waits in the buffer.
TypeOK ==
    /\ held \in {<<>>, <<"lead">>}
    /\ done \in BOOLEAN /\ finished \in BOOLEAN
    /\ Lines!NewlineAt(lineBuf) = 0 \/ done

Init ==
    /\ up \in Streams
    /\ held = <<>>
    /\ lineBuf = <<>>
    /\ det = NewDetector
    /\ done = FALSE
    /\ out = <<>>
    /\ finished = FALSE

\* One line of the buffer, if there is a whole one and the stream goes on.
TakeLine(s) ==
    LET at == Lines!NewlineAt(s.buf)
        p == Lines!ProcessLine(s.det, SubSeq(s.buf, 1, at - 1))
    IN IF at = 0 \/ s.done THEN s
       ELSE [buf |-> SubSeq(s.buf, at + 1, Len(s.buf)), det |-> p.det,
             out |-> s.out \o p.text, done |-> p.ends]

\* feed. After a terminal line the chunks are still read, and answered by nothing.
FeedChunk(n) ==
    /\ ~finished /\ n \in 1..Len(up)
    /\ up' = SubSeq(up, n + 1, Len(up))
    /\ LET d == Decode(held \o SubSeq(up, 1, n), FALSE)
           s == FoldLeft(LAMBDA acc, x : TakeLine(acc),
                         [buf |-> lineBuf \o d.text, det |-> det, out |-> out, done |-> done],
                         lineBuf \o d.text)
       IN IF done THEN UNCHANGED <<held, lineBuf, det, out, done>>
          ELSE /\ held' = d.held
               /\ lineBuf' = s.buf /\ det' = s.det /\ out' = s.out /\ done' = s.done
    /\ UNCHANGED finished

\* finish, at the end of the upstream.
Finish ==
    /\ ~finished /\ up = <<>>
    /\ finished' = TRUE
    /\ held' = <<>>
    /\ LET line == lineBuf \o Decode(held, TRUE).text
           p == Lines!ProcessLine(det, line)
       IN IF done THEN UNCHANGED <<lineBuf, det, out, done>>
          ELSE /\ lineBuf' = <<>>
               /\ IF line = <<>> THEN UNCHANGED <<det, out, done>>
                  ELSE det' = p.det /\ out' = out \o p.text /\ done' = p.ends
    /\ UNCHANGED up

\* chunk() is an error: what is held back is dropped, done is not asked.
UpstreamLost ==
    /\ ~finished
    /\ finished' = TRUE
    /\ out' = out \o Lines!ErrorEvent
    /\ UNCHANGED <<up, held, lineBuf, det, done>>

Next == (\E n \in 1..Len(up) : FeedChunk(n)) \/ Finish \/ UpstreamLost

Spec == Init /\ [][Next]_sseVars

-----------------------------------------------------------------------------

\* However the bytes are cut into chunks, within lines and characters too, the
\* client gets the lines of the whole text: each once, in order, none after
\* the line that ends the stream, and no half character.
LinewiseStream == Lines!LineSpec
=============================================================================
