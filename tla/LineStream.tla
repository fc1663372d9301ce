----------------------------- MODULE LineStream -----------------------------
(***************************************************************************)
(* What the stream proxy promises its client (proxy/sanitize.rs): the      *)
(* decoded stream goes through line by line, unchanged, up to the first    *)
(* line that ends it, whose replacement is the last thing sent, but for    *)
(* one error event if the upstream is lost afterwards.  Nothing here knows *)
(* of chunks: SseSanitizer is shown to implement this.                     *)
(*                                                                         *)
(* A line is a sequence of pieces: "do" "ne" is the [DONE] line, "er"      *)
(* "ror" an error frame without choices, "tok", characters and "}" a frame *)
(* with a delta of these characters, anything else a line passed through.  *)
(***************************************************************************)
EXTENDS RepetitionDetector

VARIABLES
    rest,        \* decoded text that has not been passed on
    det,         \* the repetition detector
    out,         \* pieces sent to the client
    open,        \* whether no line has ended the stream
    ended        \* whether the client has been told the end

lineVars == <<rest, det, out, open, ended>>

DoneLine == <<"do", "ne">>
ErrorLine == <<"er", "ror">>
IsDelta(line) ==
    /\ Len(line) > 1 /\ line[1] = "tok" /\ line[Len(line)] = "}"
    /\ \A i \in 2..Len(line) - 1 : line[i] \in Chars

\* What the terminal lines are replaced by; and the frame of a lost upstream.
DoneEvent == <<"do", "ne", "nl", "nl">>
ErrorEvent == <<"ev", "nl", "er", "ror", "nl", "nl">>
Breaker == <<"guard", "nl", "nl", "do", "ne", "nl", "nl">>

\* The text of a delta.
DeltaText(line) == SubSeq(line, 2, Len(line) - 1)

\* process_line and what its caller sends for the line.
ProcessLine(d, line) ==
    LET fed == IF IsDelta(line) THEN Feed(d, DeltaText(line))
               ELSE [det |-> d, verdict |-> "none"]
    IN CASE line = DoneLine -> [det |-> d, text |-> DoneEvent, ends |-> TRUE]
         [] line = ErrorLine -> [det |-> d, text |-> ErrorEvent, ends |-> TRUE]
         [] OTHER -> IF fed.verdict = "none"
                     THEN [det |-> fed.det, text |-> line \o <<"nl">>, ends |-> FALSE]
                     ELSE [det |-> fed.det, text |-> Breaker, ends |-> TRUE]

\* Place of the first newline of a text, 0 if there is none.
NewlineAt(text) ==
    LET ends == {i \in DOMAIN text : text[i] = "nl"}
    IN IF ends = {} THEN 0 ELSE Min(ends)

LineInit ==
    /\ det = NewDetector
    /\ out = <<>>
    /\ open = TRUE
    /\ ended = FALSE

\* What there is after n more lines, or those up to the first that ends all.
AfterLines(n) ==
    LET Passed(s) ==
            LET at == NewlineAt(s.rest)
                p == ProcessLine(s.det, SubSeq(s.rest, 1, at - 1))
            IN [rest |-> SubSeq(s.rest, at + 1, Len(s.rest)), det |-> p.det,
                out |-> s.out \o p.text, open |-> ~p.ends]
    IN FoldLeft(LAMBDA s, i : IF s.open /\ NewlineAt(s.rest) # 0 THEN Passed(s) ELSE s,
                [rest |-> rest, det |-> det, out |-> out, open |-> TRUE],
                [i \in 1..n |-> i])

\* Whole lines go through.
Pass ==
    /\ open /\ ~ended
    /\ \E n \in 1..Len(rest) :
          LET s == AfterLines(n)
          IN /\ out' = s.out /\ det' = s.det /\ open' = s.open
             /\ s.open => rest' = s.rest
    /\ UNCHANGED ended

\* What follows a line that ended the stream is of no interest.
Ignore ==
    /\ ~open
    /\ UNCHANGED <<det, out, open, ended>>

\* The upstream has ended: the last line needs no newline.
Flush ==
    /\ ~ended
    /\ ended' = TRUE
    /\ \/ /\ open /\ NewlineAt(rest) = 0 /\ rest # <<>>
          /\ LET p == ProcessLine(det, rest)
             IN det' = p.det /\ out' = out \o p.text /\ open' = ~p.ends
       \/ /\ ~open \/ rest = <<>>
          /\ UNCHANGED <<det, out, open>>

\* The upstream is lost: the client gets an error event after whole lines.
Lose ==
    /\ ~ended
    /\ ended' = TRUE
    /\ out' = out \o ErrorEvent
    /\ UNCHANGED <<det, open>>

LineNext == Pass \/ Ignore \/ Flush \/ Lose

LineSpec == LineInit /\ [][LineNext]_lineVars
=============================================================================
