------------------------------ MODULE Streams ------------------------------
(***************************************************************************)
(* The machines of the streams and the detectors, which share nothing,     *)
(* side by side: the loop detector beside the list of all actions, the     *)
(* engine's client behind the proxy, and the repetition detector beside    *)
(* the whole text.  `stream` is the machine that runs; the others stay     *)
(* where they start, and "none" is the machines of other modules.          *)
(***************************************************************************)
EXTENDS LoopDetector

-----------------------------------------------------------------------------
(* LoopDetector beside the list of all the actions a session recorded: what *)
(* the detector says, with its window only, is compared with what the list  *)
(* says.                                                                    *)

CONSTANT MaxActions   \* bound: the number of actions recorded

ASSUME TraceAssumption == MaxActions \in Nat

VARIABLE trace        \* every action recorded, oldest first

traceVars == <<history, advised, verdict, trace>>

TraceInit == Init /\ trace = <<>>

TraceNext == \E x \in Actions :
    /\ Len(trace) < MaxActions
    /\ Record(x)
    /\ trace' = Append(trace, x)

TraceSpec == TraceInit /\ [][TraceNext]_traceVars

\* The session ends in a run of at least Threshold equal actions.
Looping(t) ==
    /\ Len(t) >= Threshold
    /\ \E x \in Actions : \A i \in (Len(t) - Threshold + 1)..Len(t) : t[i] = x

\* The detector reports something exactly when the last Threshold actions of
\* the session are the same one, although it remembers only Window of them; with
\* a window below the threshold it never does.  "Injected once": the first loop of
\* the session, and no other, is advised about; every later one stops the session.
TripsExactly ==
    /\ verdict # "ok" <=> (Threshold <= Window /\ Looping(trace))
    /\ verdict = "loop" <=>
          /\ Threshold <= Window /\ Looping(trace)
          /\ \E n \in 1..(Len(trace) - 1) : Looping(SubSeq(trace, 1, n))

-----------------------------------------------------------------------------
(* The other machines                                                      *)

\* The constants of RepetitionDetector, of SseSanitizer and of RepetitionTrace.
CONSTANTS
    Chars, Width, Pure, LimitFor, Units, Repeat, Rolling,
    ByteStreams,
    TextChunks, MaxFed

VARIABLES
    stream,
    up, held, lineBuf, det, done, out, finished, at, buf, got, answer,   \* ChatStream
    spotDet, fed, fresh, spotVerdict                                     \* RepetitionTrace

Chat == INSTANCE ChatStream WITH Window <- Rolling, Streams <- ByteStreams

Spot == INSTANCE RepetitionTrace
    WITH Window <- Rolling, Texts <- TextChunks, det <- spotDet, verdict <- spotVerdict

\* What the upstream sends, and what the proxy makes of it: bytes, characters,
\* and the parts of lines.
Pieces ==
    Chars \cup
    {"lead", "trail", "e2", "bad", "tok", "}", "nl", "do", "ne", "er", "ror", "ev", "guard", "junk",
     "c1x", "c1y", "c2x", "x", "y"}

ASSUME StreamsAssumption ==
    /\ Spot!DetectorAssumption
    /\ TextChunks \subseteq Seq(Chars)
    /\ ByteStreams \subseteq Seq(Pieces)
    /\ MaxFed \in Nat

chatVars == <<up, held, lineBuf, det, done, out, finished, at, buf, got, answer>>
spotVars == <<spotDet, fed, fresh, spotVerdict>>
streamVars == <<stream, traceVars, chatVars, spotVars>>

-----------------------------------------------------------------------------
(* One of them runs                                                        *)

StreamsInit ==
    /\ stream \in {"loop", "chat", "spot", "none"}
    /\ TraceInit /\ Chat!ChatInit /\ Spot!TraceInit

LoopStep ==
    /\ stream = "loop" /\ TraceNext
    /\ UNCHANGED <<stream, chatVars, spotVars>>
ChatStep ==
    /\ stream = "chat" /\ Chat!ChatNext
    /\ UNCHANGED <<stream, traceVars, spotVars>>
SpotStep ==
    /\ stream = "spot" /\ Spot!TraceNext
    /\ UNCHANGED <<stream, traceVars, chatVars>>

StreamsNext == LoopStep \/ ChatStep \/ SpotStep

StreamsSpec == StreamsInit /\ [][StreamsNext]_streamVars

-----------------------------------------------------------------------------
(* The properties of each                                                  *)

\* However the network cuts the stream: the completion has every piece once and
\* in order; a run of one character is reported in the chunk that completes it,
\* a repeated unit where there is one, and nowhere else.
StreamExact ==
    /\ TypeOK /\ Chat!TypeOK
    /\ Chat!CompletionExact
    /\ Spot!RunExact
    /\ Spot!PatternSound
    /\ Spot!PatternFound

\* The proxy's stream implements the abstract one, which is line by line.
LinewiseStream == Chat!LinewiseStream
=============================================================================
