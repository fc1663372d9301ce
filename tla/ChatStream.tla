----------------------------- MODULE ChatStream -----------------------------
(***************************************************************************)
(* The engine's streaming client (consume_stream in engine/provider.rs)    *)
(* behind the proxy: it reads what the proxy sends, in chunks of its own,  *)
(* and makes a completion of it.  "c1x" stands for a frame with a fragment *)
(* "x" of tool call 1, "guard" for the frame of the circuit breaker,       *)
(* "junk" for a data line that is not JSON.                                *)
(***************************************************************************)
EXTENDS SseSanitizer

VARIABLES
    at,          \* how much of the proxy's stream the client has read
    buf,         \* buf: a line that is not complete
    got,         \* content and tool_calls so far
    answer       \* what consume_stream has returned, "none" before

chatVars == <<sseVars, at, buf, got, answer>>

\* Fragments of tool calls: the index and the piece of the arguments.
Fragments == [c1x |-> <<1, "x">>, c1y |-> <<1, "y">>, c2x |-> <<2, "x">>]

Nothing == [content |-> <<>>, calls |-> [i \in 1..2 |-> <<>>], answer |-> "none"]

IsFragment(line) == Len(line) = 1 /\ line[1] \in DOMAIN Fragments

\* A data line: the client expects a frame in it.
IsData(line) ==
    /\ line # <<>>
    /\ Head(line) \in {"tok", "do", "er", "guard", "junk"} \cup DOMAIN Fragments

IsFrame(line) ==
    Lines!IsDelta(line) \/ IsFragment(line) \/ line \in {Lines!ErrorLine, <<"guard">>}

\* Mutant of ReadLine: a fragment replaces the arguments before it.
ReadLineReplaces(g, line) ==
    LET f == Fragments[line[1]]
    IN IF g.answer # "none" THEN g
       ELSE CASE line = Lines!ErrorLine -> g
              [] line = Lines!DoneLine -> [g EXCEPT !.answer = "ok"]
              [] Lines!IsDelta(line) -> [g EXCEPT !.content = @ \o Lines!DeltaText(line)]
              [] line = <<"guard">> -> [g EXCEPT !.content = @ \o line]
              [] IsFragment(line) -> [g EXCEPT !.calls[f[1]] = <<f[2]>>]
              [] OTHER -> IF IsData(line) THEN [g EXCEPT !.answer = "sse"] ELSE g

\* One line of the stream. Lines that are not data, blank ones, and frames
\* without choices (an error frame is one) change nothing; a data line that
\* does not parse is an error.
ReadLine(g, line) ==
    LET f == Fragments[line[1]]
    IN IF g.answer # "none" THEN g
       ELSE CASE line = Lines!ErrorLine -> g
              [] line = Lines!DoneLine -> [g EXCEPT !.answer = "ok"]
              [] Lines!IsDelta(line) -> [g EXCEPT !.content = @ \o Lines!DeltaText(line)]
              [] line = <<"guard">> -> [g EXCEPT !.content = @ \o line]
              [] IsFragment(line) -> [g EXCEPT !.calls[f[1]] = Append(@, f[2])]
              [] OTHER -> IF IsData(line) THEN [g EXCEPT !.answer = "sse"] ELSE g

ChatInit ==
    /\ Init
    /\ at = 0
    /\ buf = <<>>
    /\ got = Nothing
    /\ answer = "none"

\* A chunk: the lines it completes are read, until one decides.
Receive(n) ==
    /\ answer = "none" /\ n \in 1..Len(out) - at
    /\ at' = at + n
    /\ LET s == FoldLeft(LAMBDA acc, x :
                   IF x = "nl" THEN [buf |-> <<>>, got |-> ReadLine(acc.got, acc.buf)]
                               ELSE [acc EXCEPT !.buf = Append(@, x)],
                   [buf |-> buf, got |-> got], SubSeq(out, at + 1, at + n))
       IN buf' = s.buf /\ got' = s.got /\ answer' = s.got.answer
    /\ UNCHANGED sseVars

\* The stream ends without [DONE]: a line without its newline is dropped, and
\* what there is makes a completion.
EndOfStream ==
    /\ answer = "none" /\ finished /\ at = Len(out)
    /\ answer' = "ok"
    /\ UNCHANGED <<sseVars, at, buf, got>>

\* The connection to the proxy breaks: an error of the stream.
BrokenStream ==
    /\ answer = "none"
    /\ answer' = "sse"
    /\ got' = [got EXCEPT !.answer = "sse"]
    /\ UNCHANGED <<sseVars, at, buf>>

ChatNext ==
    \/ Next /\ UNCHANGED <<at, buf, got, answer>>
    \/ \E n \in 1..Len(out) - at : Receive(n)
    \/ EndOfStream
    \/ BrokenStream

ChatSpec == ChatInit /\ [][ChatNext]_chatVars

-----------------------------------------------------------------------------

\* The line that the newline at i ends.
LineAt(text, i) ==
    LET before == {0} \cup {j \in 1..i - 1 : text[j] = "nl"}
    IN SubSeq(text, Max(before) + 1, i - 1)

\* Where the lines of the proxy's stream end that come before [DONE], or all.
LinesRead ==
    LET last == {j \in DOMAIN out : out[j] = "nl" /\ LineAt(out, j) = Lines!DoneLine}
    IN {i \in DOMAIN out : out[i] = "nl" /\ \A j \in last : i < j}

\* What these lines say one after the other.
Said(Of(_)) ==
    LET read == LinesRead
    IN FlattenSeq([i \in DOMAIN out |-> IF i \in read THEN Of(LineAt(out, i)) ELSE <<>>])

TextOf(line) ==
    IF Lines!IsDelta(line) THEN Lines!DeltaText(line)
    ELSE IF line = <<"guard">> THEN line ELSE <<>>

FragmentOf(line, call) ==
    IF IsFragment(line) /\ Fragments[line[1]][1] = call
    THEN <<Fragments[line[1]][2]>> ELSE <<>>

\* A completion has all of the proxy's stream up to [DONE], each piece once and
\* in order, wherever the chunks were cut: the text of the deltas, and of each
\* tool call the fragments of its own index; no line of it was unreadable.
CompletionExact ==
    answer = "ok" =>
        /\ got.content = Said(TextOf)
        /\ \A call \in 1..2 : got.calls[call] = Said(LAMBDA line : FragmentOf(line, call))
        /\ \A i \in LinesRead : IsData(LineAt(out, i)) => IsFrame(LineAt(out, i))
=============================================================================
