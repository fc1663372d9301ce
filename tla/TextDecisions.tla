--------------------------- MODULE TextDecisions ---------------------------
(***************************************************************************)
(* The decisions of the tools and of the proxy on texts, paths and trees:  *)
(* one question is asked and answered, as in Decisions.  The inputs are    *)
(* enumerated, up to a bound on their length or depth.                     *)
(***************************************************************************)
EXTENDS Decisions

CONSTANT MaxText     \* bound on the characters of a command text

Policy == INSTANCE CommandPolicy WITH MaxUnwrap <- 1
Sandbox == INSTANCE PathSandbox WITH MaxLinks <- 2, Missing <- <<"missing">>
Request == INSTANCE ProxyRequest

-----------------------------------------------------------------------------
(* The command policy                                                      *)

Characters == Policy!Quotes \cup Policy!Breaks \cup {Policy!Blank, "&", "a"}

AskSplit ==
    \E t \in BoundedSeq(Characters, MaxText) : Ask("split", t, Policy!SplitSegments(t))

Operand(root, comps, star) == [root |-> root, comps |-> comps, star |-> star]

AskOperand ==
    \E comps \in BoundedSeq({".", "..", "home", "root", "c"}, 3),
       root \in {"rel", "abs", "tilde", "user", "drive"}, star \in {"", "*", "/*"} :
          Ask("operand", Operand(root, comps, star),
              Policy!NormalizeOperand(Operand(root, comps, star), FALSE))

Tok(w) == [word |-> w, operand |-> Operand("rel", <<"x">>, ""), inner |-> <<>>]
Arg(w, comps) == [Tok(w) EXCEPT !.operand = Operand("abs", comps, "")]
Quoted(cmd) == [Tok("quoted") EXCEPT !.inner = cmd]

Removal == {<<Tok("rm"), Tok("flag"), a>> :
               a \in {Arg("arg", <<>>), Arg("value", <<>>), Arg("arg", <<"x">>), Tok("ref")}}
Plain == {<<Tok("plain"), Arg("arg", <<>>)>>, <<Tok("mkfs")>>, <<Tok("env")>>,
          <<Tok("env"), Tok("assign"), Tok("sudo"), Tok("assign"), Tok("rm"), Arg("arg", <<>>)>>}
Simple == Removal \cup Plain \cup
    {<<Tok("env"), Tok("assign"), Tok("sudo")>> \o r : r \in Removal}
Wrapped(segs) ==
    {<<Tok("bash"), Tok(f), Quoted(<<s>>)>> : f \in {"-c", "flag"}, s \in segs}
    \cup {<<Tok("cmd"), Tok("/c"), Tok("plain"), Quoted(<<s, t>>)>> : s \in Plain, t \in segs}
    \cup {<<Tok("cmd"), Tok("/c"), Quoted(<<s>>)>> : s \in segs}

AskCommand ==
    \E s \in Simple \cup Wrapped(Simple) \cup Wrapped(Wrapped(Simple)), t \in Plain \cup Removal :
        \E cmd \in {<<s>>, <<t, s>>} : Ask("command", cmd, Policy!Validate(FALSE, cmd))

-----------------------------------------------------------------------------
(* The path sandbox                                                        *)

\* The workspace /w, or a directory in it that may be a link,
\* with its neighbour /o, with a few entries of any kind.
Nodes == {Sandbox!Dir, Sandbox!File, Sandbox!Link(<<"w">>), Sandbox!Link(<<"o">>),
          Sandbox!Link(<<"o", "x">>), Sandbox!Link(<<"w", "b">>)}
EntryPaths == {<<"w", "a">>, <<"w", "b">>, <<"w", "a", "b">>, <<"o", "b">>}
Fixed == {<<>>, <<"w">>, <<"o">>}
FileSystems ==
    {[p \in Fixed \cup DOMAIN f |-> IF p \in Fixed THEN Sandbox!Dir ELSE f[p]] :
        f \in {g \in UNION {[some -> Nodes] : some \in SUBSET EntryPaths} :
                  <<"w", "a", "b">> \in DOMAIN g =>
                      <<"w", "a">> \in DOMAIN g /\ g[<<"w", "a">>] = Sandbox!Dir}}

AskPath ==
    \E fs \in FileSystems, comps \in BoundedSeq({"a", "b", ".."}, 3), abs \in BOOLEAN,
       workspace \in {<<"w">>, <<"w", "b">>} :
        LET i == [comps |-> IF abs THEN <<"w">> \o comps ELSE comps,
                  abs |-> abs, drive |-> FALSE, nul |-> FALSE]
        IN Ask("path", [fs |-> fs, workspace |-> workspace, path |-> i],
               Sandbox!Resolve(fs, workspace, i))

-----------------------------------------------------------------------------
(* Edits of a text                                                         *)

Texts(n) == BoundedSeq({"a", "r", "n"}, n)

AskEdit ==
    \E text \in Texts(5), target \in Texts(2) \cup {<<"r", "n", "a">>, <<"n", "a">>}, new \in {<<"b">>, <<"n">>, <<"r", "n", "b">>},
       all \in BOOLEAN :
          Ask("edit", <<text, target>>, Files!EditFile(text, target, new, all))

AskSplice ==
    \E a \in 0..3, b \in 0..3, la \in 0..2, lb \in 0..2, na \in Texts(1), nb \in {<<>>, <<"x", "y">>} :
        LET text == <<"p", "q", "s", "t", "u", "v">>
            edits == <<[at |-> a, len |-> la, new |-> na], [at |-> b, len |-> lb, new |-> nb]>>
        IN /\ a + la <= b /\ a < b /\ b + lb <= Len(text)
           /\ Ask("splice", <<text, edits>>, Files!Splice(text, edits))

-----------------------------------------------------------------------------
(* The proxy                                                               *)

Image == Request!Object(TRUE, <<Request!Leaf("url")>>)
JsonTrees(n) ==
    LET leaves == {Request!Leaf("text"), Image}
        wrap(ts) == leaves \cup {Request!Array(s) : s \in BoundedSeq(ts, 2)}
                           \cup {Request!Object(FALSE, s) : s \in BoundedSeq(ts, 1)}
    IN IF n = 1 THEN wrap(leaves) ELSE wrap(wrap(leaves))

AskProxy ==
    \E tree \in JsonTrees(2), prompt \in {Request!Leaf("text"), Image}, method \in {"POST", "GET"},
       path \in {"chat", "models"}, json \in BOOLEAN :
        LET request == [method |-> method, path |-> path, json |-> json, acceptStream |-> FALSE,
                        large |-> FALSE, body |-> [messages |-> <<tree>>, prompt |-> prompt]]
        IN Ask("proxy", request, Request!Forwarded(request))

AskReply ==
    \E method \in {"POST", "GET"}, path \in {"chat", "models"}, accept, large \in BOOLEAN,
       status \in {0, 200, 204, 400, 503}, labelled \in BOOLEAN :
        LET request == [method |-> method, path |-> path, json |-> TRUE, acceptStream |-> accept,
                        large |-> large, body |-> <<>>]
            upstream == [status |-> status, eventStream |-> labelled]
        IN Ask("reply", [request |-> request, upstream |-> upstream],
               Request!Reply(request, upstream))

TextNext ==
    \/ AskSplit \/ AskOperand \/ AskCommand
    \/ AskPath
    \/ AskEdit \/ AskSplice
    \/ AskProxy \/ AskReply

-----------------------------------------------------------------------------
(* Properties                                                              *)

\* What counts of a text, a path or a tree is what it means, not how it is spelled.
\* A command of its own, or a word of its own, is what the quotes leave
\* outside; the path an operand is compared by is the one a walk along it ends at;
\* the verdict on a command is the verdict on what it would run; and a path the
\* sandbox lets through names something inside the workspace, or to be made inside
\* it, wherever its links lead, while without links no path to a place inside is
\* refused.  An edit over several lines leaves the line endings as they were, and the
\* matches of a pattern are replaced each where it was.  No image reaches the engine,
\* at whatever depth it is, and an error of the engine reaches the client as it is.
TextsExact ==
    /\ topic = "split" => Policy!DividesOutsideQuotes(input)
    /\ topic = "operand" /\ input.root = "abs" /\ Policy!ToPosix(input) = input =>
          answer.comps = Policy!Resolved(input.comps)
    /\ topic = "command" => Policy!RefusedExactly(input)
    /\ topic = "path" =>
          /\ Sandbox!Contained(input.fs, input.workspace, answer)
          /\ Sandbox!RefusedWithReason(input.fs, input.workspace, input.path, answer)
    /\ topic = "edit" => Files!StyleKept(input[1], input[2], answer)
    /\ topic = "splice" => answer = Files!Spliced(input[1], input[2])
    /\ topic = "proxy" => Request!TextOnly(input, answer)
    /\ topic = "reply" => Request!NeverFaked(input.request, input.upstream, answer)
=============================================================================
