--------------------------- MODULE CommandPolicy ---------------------------
(***************************************************************************)
(* The policy of the shell tool (tools/shell.rs: validate and what it      *)
(* calls), as operators: how a text is split into segments and tokens, how *)
(* an operand becomes a path, and which commands are refused.              *)
(*                                                                         *)
(* A text is a sequence of characters of the kinds the code tells apart.   *)
(* A command is what splitting leaves: a sequence of segments, each a      *)
(* sequence of tokens; a token that is a quoted command holds that command *)
(* (inner).  An operand is a root, its components, and its wildcard.       *)
(***************************************************************************)
EXTENDS Naturals, Sequences, SequencesExt

CONSTANT MaxUnwrap      \* MAX_UNWRAP_DEPTH

-----------------------------------------------------------------------------
(* Segments and tokens                                                     *)

Quotes == {"dq", "sq"}
Blank == "_"
NoQuote == "none"
Breaks == {";", "|"}

\* trim: the text between its first and its last character that is no blank.
Trim(t) ==
    LET ink == {i \in DOMAIN t : t[i] # Blank}
    IN IF ink = {} THEN <<>>
       ELSE SubSeq(t, CHOOSE i \in ink : \A j \in ink : i <= j,
                      CHOOSE i \in ink : \A j \in ink : j <= i)

\* flush_seg: only a segment with some text counts.
FlushSegment(s) ==
    [s EXCEPT !.out = IF Trim(s.cur) = <<>> THEN @ ELSE Append(@, Trim(s.cur)),
              !.cur = <<>>]

\* One round of split_segments; skip is set on the second character of "&&".
SplitChar(t, s, i) ==
    CASE s.skip -> [s EXCEPT !.skip = FALSE]
      [] ~s.skip /\ s.quote # NoQuote ->
            [s EXCEPT !.quote = IF t[i] = @ THEN NoQuote ELSE @, !.cur = Append(@, t[i])]
      [] ~s.skip /\ s.quote = NoQuote /\ t[i] \in Quotes ->
            [s EXCEPT !.quote = t[i], !.cur = Append(@, t[i])]
      [] ~s.skip /\ s.quote = NoQuote /\ t[i] \in Breaks -> FlushSegment(s)
      [] ~s.skip /\ s.quote = NoQuote /\ t[i] = "&" /\ i < Len(t) /\ t[i + 1] = "&" ->
            [FlushSegment(s) EXCEPT !.skip = TRUE]
      [] OTHER -> [s EXCEPT !.cur = Append(@, t[i])]

SplitSegments(t) ==
    LET start == [out |-> <<>>, cur |-> <<>>, quote |-> NoQuote, skip |-> FALSE]
    IN FlushSegment(FoldLeftDomain(LAMBDA s, i : SplitChar(t, s, i), start, t)).out

\* One character of tokenize: quotes group and are dropped.
TokenChar(s, ch) ==
    CASE s.quote = ch -> [s EXCEPT !.quote = NoQuote]
      [] s.quote \notin {ch, NoQuote} -> [s EXCEPT !.cur = Append(@, ch)]
      [] s.quote = NoQuote /\ ch \in Quotes -> [s EXCEPT !.quote = ch]
      [] s.quote = NoQuote /\ ch = Blank ->
            [s EXCEPT !.out = IF s.cur = <<>> THEN @ ELSE Append(@, s.cur), !.cur = <<>>]
      [] OTHER -> [s EXCEPT !.cur = Append(@, ch)]

Tokenize(t) ==
    LET last == FoldLeft(TokenChar, [out |-> <<>>, cur |-> <<>>, quote |-> NoQuote], t)
    IN IF last.cur = <<>> THEN last.out ELSE Append(last.out, last.cur)

-----------------------------------------------------------------------------
(* Operands                                                                *)

Home == <<"home", "user">>
Cwd == <<"workspace">>
Drives == {"c", "d"}
Disks == {"sda", "nvme0n1"}

\* expand_tilde: a whole "~root" is the superuser's, outside the Windows commands.
Expanded(o, isWin) ==
    CASE o.root = "tilde" -> [o EXCEPT !.root = "abs", !.comps = Home \o @]
      [] o.root = "user" /\ isWin ->
            [o EXCEPT !.root = "abs", !.comps = <<"mnt", "c", "users">> \o @]
      [] o.root = "user" /\ ~isWin ->
            [o EXCEPT !.root = "abs",
                      !.comps = IF @ = <<"root">> /\ o.star = "" THEN @ ELSE <<"home">> \o @]
      [] OTHER -> o

\* to_posix: "C:\x" and "/c/x" are below /mnt/c; a wsl share is the root itself.
ToPosix(o) ==
    CASE o.root = "drive" -> [o EXCEPT !.root = "abs", !.comps = <<"mnt">> \o @]
      [] o.root = "wsl" -> [o EXCEPT !.root = "abs"]
      [] /\ o.root = "abs"
         /\ o.comps # <<>>
         /\ Head(o.comps) \in Drives
         /\ (Len(o.comps) > 1 \/ o.star = "/*") -> [o EXCEPT !.comps = <<"mnt">> \o @]
      [] OTHER -> o

PosixNormalize(comps) ==
    FoldLeft(LAMBDA kept, c :
                 CASE c = "." -> kept
                   [] c = ".." -> IF kept = <<>> THEN kept ELSE Front(kept)
                   [] OTHER -> Append(kept, c), <<>>, comps)

\* normalize_operand; a bare "*" is left empty, which means the root.
NormalizeOperand(o, isWin) ==
    LET p == ToPosix(Expanded(o, isWin))
        base == IF p.root = "rel" /\ p.comps # <<>> THEN Cwd ELSE <<>>
    IN [comps |-> PosixNormalize(base \o p.comps), star |-> p.star]

ProtectedRoots ==
    {<<>>, <<"root">>, <<"home">>} \cup {<<"mnt", d>> : d \in Drives}
    \cup {<<"mnt", "c", d>> : d \in {"windows", "users", "program files"}}

IsHomeUser(p) == Len(p.comps) = 2 /\ p.comps[1] = "home" /\ p.star # "/*"

IsDevTarget(p) ==
    /\ Len(p.comps) = 2
    /\ p.comps[1] = "dev"
    /\ p.comps[2] \in Disks
    /\ p.star # "*"

IsProtectedRoot(p) ==
    \/ IsDevTarget(p)
    \/ p.comps \in ProtectedRoots /\ p.star # "*"
    \/ IsHomeUser(p)

-----------------------------------------------------------------------------
(* Verdicts                                                                *)

\* What a word is, to the analysis: one of the words below, a "flag", an "assign"ment,
\* "arg" and "value" with an operand, a "ref" to a job, "quoted" with the command
\* inside the quotes, or "plain".
Transparent == {"env", "sudo"}
Destructive == {"rm", "del"}
Wrapper == [bash |-> "-c", cmd |-> "/c"]

RECURSIVE HasWord(_, _)
HasWord(cmd, words) ==
    \E seg \in ToSet(cmd) : \E tok \in ToSet(seg) :
        \/ tok.word \in words
        \/ tok.word = "quoted" /\ HasWord(tok.inner, words)

\* The first token that is neither transparent nor an assignment of env.
FirstWord(seg) ==
    LET Skipped(i) ==
            \/ seg[i].word \in Transparent
            \/ /\ seg[i].word = "assign"
               /\ \E j \in 1..i - 1 : /\ seg[j].word = "env"
                                      /\ \A k \in j + 1..i - 1 : seg[k].word = "assign"
        kept == {i \in DOMAIN seg : ~Skipped(i)}
    IN IF kept = {} THEN 0 ELSE CHOOSE i \in kept : \A j \in kept : i <= j

\* tokens.join(" "): the text of quoted tokens is split again.
Joined(seg) ==
    FoldLeft(LAMBDA cmd, tok :
                 LET more == IF tok.word = "quoted" THEN tok.inner ELSE <<<<tok>>>>
                 IN Front(cmd) \o <<Last(cmd) \o Head(more)>> \o Tail(more),
             <<<<>>>>, seg)

\* The command a wrapper would run, or nothing: an unknown flag hides it.
InnerCommand(seg, i) ==
    LET name == seg[i].word
    IN IF i + 1 \in DOMAIN seg /\ i + 2 \in DOMAIN seg /\ seg[i + 1].word = Wrapper[name]
       THEN IF name = "bash" THEN Joined(<<seg[i + 2]>>)
            ELSE Joined(SubSeq(seg, i + 2, Len(seg)))
       ELSE <<>>

Operands(seg, i) == SelectSeq(SubSeq(seg, i + 1, Len(seg)),
    LAMBDA tok : tok.word \notin {"flag", "-c", "/c"})

OperandVerdict(tok, isWin) ==
    CASE HasWord(<<<<tok>>>>, {"ref"}) -> "UnexpandedReference"
      [] tok.word \in {"arg", "value"}
         /\ IsProtectedRoot(NormalizeOperand(tok.operand, isWin)) -> "ProtectedRoot"
      [] OTHER -> "ok"

\* The first verdict of a sequence that refuses, as the operator ? returns it.
FirstRefusal(verdicts) ==
    LET bad == SelectSeq(verdicts, LAMBDA v : v # "ok")
    IN IF bad = <<>> THEN "ok" ELSE Head(bad)

RECURSIVE AnalyzeCommand(_, _)

AnalyzeSegment(seg, depth) ==
    LET i == FirstWord(seg)
    IN CASE i = 0 -> "ok"
         [] i # 0 /\ seg[i].word \in DOMAIN Wrapper ->
               IF depth < MaxUnwrap
               THEN AnalyzeCommand(InnerCommand(seg, i), depth + 1)
               ELSE "ok"
         [] i # 0 /\ seg[i].word \in Destructive ->
               LET ops == Operands(seg, i)
               IN FirstRefusal([k \in DOMAIN ops |->
                      OperandVerdict(ops[k], seg[i].word # "rm")])
         [] OTHER -> "ok"

AnalyzeCommand(cmd, depth) ==
    IF HasWord(cmd, {"mkfs"}) THEN "ProhibitedPattern"
    ELSE FirstRefusal([k \in DOMAIN cmd |-> AnalyzeSegment(cmd[k], depth)])

\* validate; a text of separators alone is not blank, and is no command either.
Validate(blank, cmd) ==
    IF blank THEN "InvalidCommand"
    ELSE IF HasWord(cmd, {"fuse"}) THEN "DeadManFuse"
    ELSE AnalyzeCommand(cmd, 0)

-----------------------------------------------------------------------------
(* Reference definitions                                                   *)

\* A text ends outside quotes: its quotes are the ends of spans that do not
\* overlap, and the quotes inside a span are of the other kind.
Closed(t) ==
    LET spans == {p \in (DOMAIN t) \X (DOMAIN t) :
                    /\ p[1] < p[2] /\ t[p[1]] \in Quotes /\ t[p[2]] = t[p[1]]
                    /\ \A k \in p[1] + 1..p[2] - 1 : t[k] # t[p[1]]}
    IN \E S \in SUBSET spans :
          /\ \A p \in S, q \in S : p = q \/ p[2] < q[1] \/ q[2] < p[1]
          /\ \A k \in DOMAIN t : t[k] \in Quotes => \E p \in S : p[1] <= k /\ k <= p[2]

\* A separator or a blank divides a text exactly when it is outside quotes.
DividesOutsideQuotes(t) ==
    \A i \in DOMAIN t :
        LET before == SubSeq(t, 1, i - 1)
            after == SubSeq(t, i + 1, Len(t))
            plain == [t EXCEPT ![i] = "a"]
        IN /\ t[i] \in Breaks =>
                 IF Closed(before)
                 THEN SplitSegments(t) = SplitSegments(before) \o SplitSegments(after)
                 ELSE Len(SplitSegments(t)) = Len(SplitSegments(plain))
           /\ t[i] = Blank =>
                 IF Closed(before) THEN Tokenize(t) = Tokenize(before) \o Tokenize(after)
                 ELSE Len(Tokenize(t)) = Len(Tokenize(plain))

\* A name of a path stays unless the parent steps after it outnumber the names
\* between, at some point.
Resolved(comps) ==
    LET Count(i, j, Test(_)) == Len(SelectSeq(SubSeq(comps, i, j), Test))
        Name(c) == c \notin {".", ".."}
        Stays(i) == Name(comps[i]) /\ \A j \in i + 1..Len(comps) :
            Count(i + 1, j, LAMBDA c : c = "..") <= Count(i + 1, j, Name)
        stay == SelectSeq([i \in DOMAIN comps |-> i], Stays)
    IN [k \in DOMAIN stay |-> comps[stay[k]]]

\* The segments that run, with how many wrappers they are inside.
Reached(cmd) ==
    LET up[n \in 0..MaxUnwrap] ==
            IF n = 0 THEN {<<s, 0>> : s \in ToSet(cmd)}
            ELSE up[n - 1] \cup UNION {
                     {<<s, n>> : s \in ToSet(InnerCommand(p[1], FirstWord(p[1])))} :
                        p \in {q \in up[n - 1] : /\ q[2] = n - 1
                                                 /\ FirstWord(q[1]) # 0
                                                 /\ q[1][FirstWord(q[1])].word
                                                      \in DOMAIN Wrapper}}
    IN {p[1] : p \in up[MaxUnwrap]}

\* A command is refused exactly when a segment that runs, inside up to MaxUnwrap
\* wrappers, removes something it should not, or a forbidden word is anywhere.
RefusedExactly(cmd) ==
    Validate(FALSE, cmd) # "ok" <=>
        \/ HasWord(cmd, {"mkfs", "fuse"})
        \/ \E seg \in Reached(cmd) :
              LET i == FirstWord(seg)
              IN /\ i # 0
                 /\ seg[i].word \in Destructive
                 /\ \E k \in i + 1..Len(seg) :
                       \/ HasWord(<<<<seg[k]>>>>, {"ref"})
                       \/ /\ seg[k].word \in {"arg", "value"}
                          /\ IsProtectedRoot(NormalizeOperand(seg[k].operand, seg[i].word # "rm"))
=============================================================================
