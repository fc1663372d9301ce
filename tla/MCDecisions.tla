---------------------------- MODULE MCDecisions ----------------------------
(* Instances of Decisions and TextDecisions for TLC: small inputs of each  *)
(* type.                                                                   *)
EXTENDS TextDecisions

-----------------------------------------------------------------------------
(* The tools                                                               *)

TreeEntry(path, kind, readable) == [path |-> path, kind |-> kind, readable |-> readable]

MCTrees ==
    {{TreeEntry(<<a>>, "dir", ra), TreeEntry(<<a, b>>, "dir", rb),
      TreeEntry(<<a, "g">>, "file", TRUE), TreeEntry(<<a, b, c>>, "file", TRUE),
      TreeEntry(<<"h">>, "file", TRUE)} :
        a \in {"d", ".git"}, b \in {"d", "target"}, c \in {"f", ".git"},
        ra \in BOOLEAN, rb \in BOOLEAN}

SearchFile(name, lines) ==
    [path |-> <<name>>, kind |-> "file", small |-> TRUE, binary |-> name = "b.bin",
     readable |-> TRUE, lines |-> lines]

MCSearchedFiles ==
    BoundedSeq({SearchFile(n, l) : n \in {"f", ".env", "b.bin"},
                   l \in {<<TRUE>>, <<FALSE, TRUE, TRUE>>}}, 3)

MCRewriteBatches ==
    {[i \in DOMAIN outcomes |-> [name |-> i, lang |-> i # 3, readable |-> TRUE,
                                 matches |-> outcomes[i][2], rewrite |-> outcomes[i][1]]] :
        outcomes \in BoundedSeq({"same", "invalid", "writeFails", "written"} \X {0, 2}, 4)}

MCHitLists == BoundedSeq([url : {"", "u", "v"}, title : BOOLEAN], 2)

MCFetchedTexts == BoundedSeq({"x", "nl", "fence", "rest"}, MaxFetch + 2)

MCHostPaths ==
    [drive : BOOLEAN, root : {"c"}, comps : BoundedSeq({"a", "b"}, 2), lead : BoundedSeq({"sep"}, 2)]

-----------------------------------------------------------------------------
(* Configuration and installation                                          *)

MCEnvironments ==
    {[f \in Config!Fields |->
         CASE f = "model" -> model [] f = "api_key" -> key
           [] f = "max_context" -> ctx [] f = "boot_timeout_secs" -> secs
           [] OTHER -> "absent"] :
        model \in {"absent", "empty", "good"}, key \in {"absent", "good"},
        ctx \in Config!EnvValues, secs \in Config!EnvValues}

MCConfigFiles ==
    {[state |-> "present", fields |-> present] : present \in SUBSET {"model", "api_key", "max_context"}}
    \cup [state : {"missing", "corrupt", "unreadable"}, fields : {{}}]

MCClientFiles ==
    {file \in [state : {"object", "oddServers", "list", "corrupt", "missing"},
               keys : SUBSET {"theme"}, servers : SUBSET {"castor", "other"}] :
        file \in Config!InstallFiles}

SkillLine(kind, key, value) == [kind |-> kind, key |-> key, value |-> value]
SkillLines ==
    {SkillLine("blank", "", ""), SkillLine("rule", "", ""), SkillLine("field", "name", "k"),
     SkillLine("field", "description", "text"), SkillLine("field", "description", ""),
     SkillLine("text", "", "")}
\* One file in full variety, and two folders with which it may share a name.
Good(name) == [name |-> name, lines |-> <<SkillLine("rule", "", ""), SkillLine("field", "name", "k"),
                 SkillLine("field", "description", "text"), SkillLine("rule", "", "")>>]

MCSkillDirs ==
    {<<before, <<[name |-> "z", lines |-> lines], Good("w")>>>> :
        lines \in BoundedSeq(SkillLines, 4), before \in BoundedSeq({Good("x"), Good("y")}, 1)}

-----------------------------------------------------------------------------
(* The MCP server and the engine's client                                  *)

Mentions ==
    {m \in [tail : {"a", "b"}, alias : 0..1, test : {FALSE}, subsystem : {"mcp"},
             before : {{}, {"build"}, {"read"}}, colon : {FALSE}, sep : {"list", "word", "other"}] :
        m.alias = 1 => m.before = {}}
Mention(tail, sub, before) ==
    [tail |-> tail, alias |-> 0, test |-> FALSE, subsystem |-> sub, before |-> before,
     colon |-> FALSE, sep |-> "list"]
Others == {Mention("c", "task", {}), Mention("c", "js/ha/loop", {"read"}),
           [Mention("c", "root", {}) EXCEPT !.colon = TRUE],
           [Mention("c", "evo", {"state"}) EXCEPT !.test = TRUE],
           [Mention("c", "mcp", {"build", "read"}) EXCEPT !.sep = "other"]}
Prompt(ms, n, vbl) ==
    [mentions |-> ms, nchars |-> n, vbl |-> vbl, dverb |-> 1, readonly |-> FALSE,
     gate |-> TRUE, families |-> 1]

MCPrompts ==
    {Prompt(Append(head, m), size[1], size[2]) :
        head \in BoundedSeq(Mentions, 2), m \in Others \cup Mentions,
        size \in {<<100, 0>>, <<2001, 100>>, <<2501, 0>>}}

MCReplies ==
    [shape : {"choices", "other"}, content : {"absent", "null", "", "t"},
     calls : BoundedSeq([id : {"1", "absent"}, name : {"n", "absent"}, args : {"a", "null"}], 2)]

-----------------------------------------------------------------------------
(* The readers of ledgers and folders                                      *)

LedgerLine(type, name, n, err, time) ==
    [type |-> type, name |-> name, tokens |-> IF n > 0 THEN n ELSE 0, is_error |-> err,
     duration |-> n, time |-> time]
LedgerLines ==
    {LedgerLine("bad", "none", 0, FALSE, 0), LedgerLine("dispatch", "none", 2, FALSE, 1),
     LedgerLine("dispatch", "none", 0, FALSE, 2), LedgerLine("tool_result", "bash", 0, TRUE, 0),
     LedgerLine("tool_result", "read", 0, FALSE, 3), LedgerLine("final", "none", 3, FALSE, 4),
     LedgerLine("final", "none", 0, FALSE, 0), LedgerLine("final", "none", -1, FALSE, 1),
     LedgerLine("torn", "none", 0, FALSE, 0)}

MCLedgerFolders == BoundedSeq(BoundedSeq(LedgerLines, 2), 2)

ToolCall(tool, args, id) == [type |-> "tool_call", tool |-> tool, args |-> args, id |-> id]
Result(id, err) == [type |-> "tool_result", id |-> id, is_error |-> err]
TraceSteps ==
    {ToolCall("read_file", "in", 1), ToolCall("edit_file", "in", 2), ToolCall("bash", "in", 3),
     ToolCall("bash", "in", 4), ToolCall("write_file", "dotted", 5), Result(3, TRUE),
     Result(4, TRUE), Result(4, FALSE), [type |-> "spilled"],
     [type |-> "message", content |-> "text", calls |-> <<[id |-> 3, args |-> "old"]>>]}

MCTraces == BoundedSeq(TraceSteps, 4)

Checks ==
    {[kind |-> "exec", cmd |-> c, found |-> f, expect |-> "0"] :
        c \in {"none", "cmd"}, f \in {"0", "1", "not run"}}
    \cup {[kind |-> "file", path |-> "p", found |-> f, expect |-> e] :
             f \in {"unreadable", "x"}, e \in {"nothing", "x", "y"}}
    \cup {[kind |-> "trace", assert |-> a] : a \in Harness!Assertions \cup {"unknown"}}
    \cup {[kind |-> "other"]}

MCEvalTasks ==
    {[toml |-> "good", golden |-> golden, known |-> known, fixture |-> fixture,
      setup |-> setup, steps |-> steps, knownSteps |-> steps, checks |-> checks] :
        golden \in {"good", "missing", "malformed"}, known \in {"good", "missing"},
        fixture \in BOOLEAN, setup \in {"none", "fails"}, checks \in BoundedSeq(Checks, 2),
        steps \in {<<>>, <<[type |-> "message", content |-> "text", calls |-> <<>>]>>}}

\* The turns of February and of the year, in years of every kind, and of eras.
MCDays ==
    0..800 \cup {365 * n + (n + 1) \div 4 + k : n \in {30, 129, 130, 229, 330, 429, 430}, k \in -5..65}

MCBreakages == {b \in SUBSET (AllCommands \cup {"config"}) : Cardinality(b) <= 2}

-----------------------------------------------------------------------------
(* One question is asked, of either kind                                   *)

AllNext == Next \/ (topic = "none" /\ TextNext)

AllSpec == Init /\ [][AllNext]_vars
=============================================================================
