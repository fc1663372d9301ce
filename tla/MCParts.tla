------------------------------ MODULE MCParts ------------------------------
(***************************************************************************)
(* The smaller machines side by side, those of Parts and those of Streams. *)
(* One of them runs: their questions are independent of each other, and    *)
(* one run asks them all.                                                  *)
(***************************************************************************)
EXTENDS Streams, Parts

-----------------------------------------------------------------------------
(* The instances                                                           *)

\* Two servers whose commands have the same base name, and a third.
MCCommands == <<"x", "y", "z">>
MCNameOf == [x |-> "a", y |-> "a", z |-> "b"]
MCToolsOf == [x |-> {"t"}, y |-> {"t", "u"}, z |-> {"t"}]

\* "e2" has two bytes, U+FFFD three; "p" is a divider, of which one more is
\* tolerated.
MCWidth == [a |-> 1, b |-> 1, p |-> 1, e2 |-> 2, bad |-> 3]
MCLimitFor == [a |-> 3, b |-> 3, p |-> 4, e2 |-> 3, bad |-> 3]

\* Short texts for the repetition detector alone.
MCTexts == UNION {[1..n -> {"a", "p", "e2"}] : n \in 1..2}

\* Streams with a character of two bytes, a broken one, text that runs on,
\* tool calls in fragments, each terminal line, and ends in mid-line.
Tok(text) == <<"tok">> \o text \o <<"}", "nl">>
MCStreams ==
    { Tok(<<"a">>) \o <<"lead", "trail", "nl">> \o Tok(<<"a", "b">>) \o <<"do", "ne", "nl", "x">>,
      Tok(<<"a", "a">>) \o <<"nl">> \o Tok(<<"a">>) \o Tok(<<"b">>),
      <<"lead", "x", "nl", "c1x", "nl", "c2x", "nl", "c1y", "nl", "do">>,
      Tok(<<"b", "lead", "trail">>) \o <<"er", "ror", "nl">> \o Tok(<<"a">>),
      <<"trail", "lead">>,
      <<"c1x", "nl", "junk", "nl", "do", "ne", "nl">>,
      <<"tok", "a", "}">> }

-----------------------------------------------------------------------------
(* One of them runs                                                        *)

allVars == <<streamVars, partVars>>

AllInit ==
    /\ StreamsInit /\ PartsInit
    /\ which = "other" <=> stream # "none"
    /\ stream # "chat" => up = <<"trail", "lead">>
    /\ which # "writes" => link = Original /\ tool = [c \in Calls |-> "edit_file"]

Beside(A) == A /\ UNCHANGED streamVars

AllNext == (StreamsNext /\ UNCHANGED partVars) \/ Beside(PartsNext)

\* The fairness is that of the two machines that state some.
AllSpec ==
    /\ AllInit /\ [][AllNext]_allVars
    /\ WF_allVars(Beside(ShellStep(Shell!Executor)))
    /\ WF_allVars(Beside(ShellStep(Shell!Reader("stdout"))))
    /\ WF_allVars(Beside(ShellStep(Shell!Reader("stderr"))))
    /\ WF_allVars(Beside(ShellStep(Shell!Deadline)))
    /\ WF_allVars(Beside(BridgeStep(Bridge!Bridge)))
=============================================================================
