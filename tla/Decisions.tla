----------------------------- MODULE Decisions -----------------------------
(***************************************************************************)
(* The decisions of the system that depend on their input alone: one       *)
(* question is asked, of a tool, of a command, of the MCP server or of a   *)
(* reader of files, and answered.  The inputs that have no bound in the    *)
(* program are constants, sets of any inputs of their type; the others are *)
(* enumerated.                                                             *)
(***************************************************************************)
EXTENDS Integers, Sequences, FiniteSets, SequencesExt

CONSTANTS
    Limits,                      \* the numbers of lines, of matches, of levels
    Trees, SearchedFiles, RewriteBatches,                          \* FileTools
    HitLists, MaxFetch, FetchWindow, FetchedTexts,                 \* WebTools
    ToolNames, Extensions, HostPaths,                              \* ToolDispatch
    Environments, ConfigFiles, ClientFiles, SkillDirs,             \* Configuration
    Prompts,                                                       \* Delegation
    TaskIds, Pids,                                                 \* McpGateway
    Replies,                                                       \* EngineClient
    LedgerFolders, Days,                                           \* Telemetry
    Traces, EvalTasks,                                             \* Evals
    Breakages, EvalDirs                                            \* CommandLine

VARIABLES topic, input, answer

vars == <<topic, input, answer>>

Files == INSTANCE FileTools
Web == INSTANCE WebTools WITH MaxOutput <- MaxFetch, Window <- FetchWindow
Dispatch == INSTANCE ToolDispatch
Config == INSTANCE Configuration
Gate == INSTANCE Delegation
Gateway == INSTANCE McpGateway WITH NoPid <- 0, NoId <- 0
Client == INSTANCE EngineClient
Ledgers == INSTANCE Telemetry
Harness == INSTANCE Evals
Commands == INSTANCE CommandLine

AllCommands == Commands!Configured \cup {"install", "__sem_child"}

\* The types of the inputs of the tools.
ASSUME ToolInputs ==
    /\ Limits \subseteq Nat
    /\ \A tree \in Trees : Files!IsTree(tree)
    /\ SearchedFiles \subseteq Seq(Files!TextFiles)
    /\ \A batch \in RewriteBatches : Files!IsBatch(batch)
    /\ HitLists \subseteq Seq([url : STRING, title : BOOLEAN])
    /\ MaxFetch \in Nat /\ FetchWindow \in Nat /\ FetchWindow < MaxFetch
    /\ FetchedTexts \subseteq Seq(STRING)
    /\ HostPaths \subseteq
          [drive : BOOLEAN, root : STRING, comps : Seq(STRING), lead : Seq({"sep"})]

\* The types of the inputs of requests, and of what is read from files.
ASSUME RecordInputs ==
    /\ Environments \subseteq [Config!Fields -> Config!EnvValues]
    /\ ConfigFiles \subseteq Config!ConfigurationFiles
    /\ ClientFiles \subseteq Config!InstallFiles
    /\ SkillDirs \subseteq Seq(Seq(Config!Folders))
    /\ \A p \in Prompts : p \in Gate!PromptFacts
    /\ TaskIds \subseteq Nat \ {0} /\ Pids \subseteq Nat
    /\ Replies \subseteq Client!ReplyBodies
    /\ LedgerFolders \subseteq Seq(Seq(Ledgers!LedgerLines))
    /\ Days \subseteq Nat
    /\ \A steps \in Traces : steps \in Seq(Range(steps))
    /\ \A task \in EvalTasks : task.checks \in Seq(Range(task.checks))
    /\ \A dir \in EvalDirs : dir \notin {"none", "error"}

-----------------------------------------------------------------------------

Init == topic = "none" /\ input = <<>> /\ answer = <<>>

Ask(t, i, a) ==
    /\ topic' = t
    /\ input' = i
    /\ answer' = a

-----------------------------------------------------------------------------
(* The file tools                                                          *)

AskRead ==
    \E total, first \in Limits, last \in Limits \cup {Files!NoLine} :
        Ask("read", <<total, first, last>>, Files!ReadFile("text", total, first, last))

AskList ==
    \E tree \in Trees, depth \in Limits :
        LET items == Files!ListDir(tree, depth)
        IN Ask("list", <<tree, depth>>,
               [items |-> items, partial |-> Files!Partial(tree, items, depth)])

AskSearch ==
    \E files \in SearchedFiles, limit \in Limits :
        Ask("search", <<files, limit>>, Files!FallbackSearch(files, limit))

AskGrep ==
    \E inRepo \in BOOLEAN, exitCode, lines, limit \in Limits, files \in SearchedFiles :
        LET git == [exitCode |-> exitCode, lines |-> lines]
        IN Ask("grep", [inRepo |-> inRepo, git |-> git, limit |-> limit],
               Files!SearchCode(inRepo, git, files, limit))

AskMatches ==
    \E batch \in RewriteBatches, limit \in Limits :
        Ask("matches", <<batch, limit>>, Files!AstSearch(batch, limit))

AskRewrite ==
    \E batch \in RewriteBatches : Ask("rewrite", batch, Files!AstReplace(batch))

-----------------------------------------------------------------------------
(* The web tools, the executor, and paths of another system                *)

AskWeb ==
    \E blank \in BOOLEAN, searxng \in {"not set", "down", "status", "garbled", "hits"},
       brave \in {"no key", "down", "hits"}, ddg \in {"down", "hits"}, hits \in HitLists :
        LET net == [searxng |-> searxng, brave |-> brave, ddg |-> ddg, hits |-> hits]
        IN Ask("web", net, Web!WebSearch(blank, net))

AskFetch ==
    \E text \in FetchedTexts : Ask("fetch", text, Web!CapOutput(text))

AskDocs ==
    \E scheme \in {"http", "https", "file"}, how \in {"ok", "down", "status"},
       type \in {"text/html", "text/plain", "x+json", "image/png", "none"},
       hasNul, json \in BOOLEAN :
        LET url == [scheme |-> scheme]
            reply == [how |-> how, type |-> type, hasNul |-> hasNul, json |-> json, text |-> <<"x">>]
        IN Ask("docs", [url |-> url, reply |-> reply], Web!FetchDocs(url, reply))

AskTool ==
    \E name \in Dispatch!BuiltIn \cup ToolNames, args \in {"good", "bad"}, works \in BOOLEAN,
       up \in SUBSET Extensions, content \in {"text", "page"}, exit \in {0, 1} :
        LET env == [asked |-> Extensions, up |-> up, content |-> content, exit |-> exit]
        IN Ask("tool", [name |-> <<name>>, args |-> args, works |-> works, env |-> env],
               Dispatch!Execute(name, args, works, env))

AskHostPath == \E p \in HostPaths : Ask("host", p, Dispatch!ToHostPath(p))

-----------------------------------------------------------------------------
(* Configuration and installation                                          *)

AskConfig ==
    \E env \in Environments, file \in ConfigFiles :
        Ask("config", [env |-> env, file |-> file], Config!Load(env, file))

AskInstall ==
    \E client \in {"claude", "antigravity", "all", "vim"},
       files \in [{"claude", "antigravity"} -> ClientFiles],
       broken \in SUBSET {"claude", "antigravity"} :
        Ask("install", [client |-> client, files |-> files],
            Config!Install(client, files, broken))

-----------------------------------------------------------------------------
(* The MCP server and the engine's client                                  *)

AskDelegate == \E p \in Prompts : Ask("delegate", p, Gate!Evaluate(p))

Broken == {"config", "state", "record", "spec", "spawn", "rewrite"}

AskDispatch ==
    \E args \in {"good", "bad", "none"}, blank \in BOOLEAN, verdict \in {"Admit", "Review", "Reject"},
       broken \in SUBSET Broken :
        LET call == [args |-> args, blank |-> blank, verdict |-> verdict]
            env == [broken |-> broken]
        IN Ask("dispatch", [call |-> call, env |-> env], Gateway!Coworker(call, env))

Records == [status : Gateway!Live \cup Gateway!Terminals, pid : Pids]

AskTask ==
    \E ids \in SUBSET TaskIds : \E disk \in [ids -> Records],
       action \in {"list", "stats", "cancel_all", "status", "cancel", "kill", "extend_lease", "x"},
       id \in TaskIds \cup {0}, args \in {"good", "bad"}, config \in BOOLEAN,
       stuck \in SUBSET ids :
        LET call == [args |-> args, action |-> action, id |-> id]
            env == [config |-> config, stuck |-> stuck]
        IN Ask("task", [call |-> call, env |-> env, disk |-> disk],
               Gateway!TaskTool(call, env, disk))

AskChat ==
    \E url, model \in BOOLEAN, net \in {"down", "status", "ok"}, reply \in Replies :
        Ask("chat", reply, Client!Chat([url |-> url, model |-> model], net, reply))

-----------------------------------------------------------------------------
(* The readers of ledgers and folders                                      *)

AskStats ==
    \E ledgers \in LedgerFolders, status \in {"completed", "executing"} :
        Ask("stats", ledgers, Ledgers!DeriveStats(ledgers, <<status, "failed">>))

AskSkills == \E dirs \in SkillDirs : Ask("skills", dirs, Config!LoadSkills(dirs))

AskTrace == \E steps \in Traces : Ask("trace", steps, <<>>)

AskEval ==
    \E task \in EvalTasks, variant \in {"golden", "known-fail"} :
        Ask("eval", <<>>, Harness!RunTask(task, variant))

AskDay == \E z \in Days : Ask("day", z, Ledgers!CivilFromDays(z))

-----------------------------------------------------------------------------
(* The commands                                                            *)

AskRun ==
    \E cmd \in AllCommands, broken \in Breakages, locked, yes \in BOOLEAN :
        LET env == [broken |-> broken, locked |-> locked, yes |-> yes]
        IN Ask("run", [cmd |-> cmd, env |-> env], Commands!RunCommand(cmd, env))

AskEvo ==
    \E override \in EvalDirs \cup {"none"}, dirs \in SUBSET EvalDirs,
       broken \in SUBSET {"score", "load", "commit", "save"} :
        Ask("evo", <<override, dirs>>, Commands!EvoRun(override, dirs, broken))

Next ==
    /\ topic = "none"
    /\ \/ AskRead \/ AskList \/ AskSearch \/ AskGrep \/ AskMatches \/ AskRewrite
       \/ AskWeb \/ AskFetch \/ AskDocs \/ AskTool \/ AskHostPath
       \/ AskConfig \/ AskInstall
       \/ AskDelegate \/ AskDispatch \/ AskTask \/ AskChat
       \/ AskStats \/ AskSkills \/ AskTrace \/ AskEval \/ AskDay
       \/ AskRun \/ AskEvo

Spec == Init /\ [][Next]_vars

-----------------------------------------------------------------------------
(* Properties                                                              *)

\* What a tool shows is what there is, and what it changes is what it was asked to.
\* A page has the lines asked for; a listing what is within reach and nothing else,
\* or says that it is partial; a search the first of all matches, whichever file holds
\* them, and a count of those it leaves out; the summary of a rewrite counts what was
\* written; a search provider that is configured answers or fails, no other answers
\* for it; a document that is cut is cut at a line, with its fences closed; the ledger
\* shows as an error what was not carried out; and a path of the other system means
\* one place, however often it is translated.
ToolsExact ==
    /\ topic = "read" => Files!LinesExact(input[1], input[2], input[3], answer)
    /\ topic = "list" => /\ answer.items = Files!Listed(input[1], input[2])
                         /\ Files!PartialTold(input[1], input[2], answer.partial)
    /\ topic = "search" => answer = Files!FirstMatches(input[1], input[2])
    /\ topic = "grep" => Files!CountsAdd(input.inRepo, input.git, input.limit, answer)
    /\ topic = "matches" => answer = Files!Least(input[2], Files!AllMatches(input[1]))
    /\ topic = "rewrite" => Files!SummaryExact(input, answer)
    /\ topic = "web" => Web!ChainStrict(input, answer)
    /\ topic = "fetch" => Web!CutClean(input, answer)
    /\ topic = "docs" => Web!DocsShown(input.url, input.reply, answer)
    /\ topic = "tool" =>
          Dispatch!ErrorsShown(input.name[1], input.args, input.works, input.env, answer)
    /\ topic = "host" => Dispatch!HostPathStable(input)

\* What a request asks for is what happens to it, and what is reported.  The gate
\* finds the files a prompt wants written, and naming one more does not make it
\* milder; a dispatch that is refused leaves nothing behind and one that is promised
\* runs; the task tool changes the records it was asked to change, no others, and a
\* cancellation misses only those that cannot be written; and the answer that goes
\* back into the conversation is the one the engine gave.
RequestsExact ==
    /\ topic = "delegate" =>
          /\ Gate!TargetsExact(input.mentions)
          /\ input.mentions # <<>> =>
                Gate!NotLighter([input EXCEPT !.mentions = Front(@)], Last(input.mentions))
    /\ topic = "dispatch" => Gateway!DispatchAccounted(input.call, input.env, answer)
    /\ topic = "task" => Gateway!TaskToolExact(input.call, input.env, input.disk, answer)
    /\ topic = "chat" => Client!ReplySentBack(input, answer)

\* What is read from files and reported of them is what is there.  Each field of the
\* configuration comes from the highest layer that has it; install keeps what a
\* client's file has, unless the file is no object, which it replaces, or its servers
\* are none, which it discards; the statistics count every line of every ledger that
\* can be read once, in whatever order the directory lists them, and a ledger that
\* cannot be read throughout not at all; the index has each skill once; the assertions on
\* a trace mean what they say of every call, and a report of an evaluation is an
\* error exactly where something could not be evaluated; dates are those of the
\* calendar and are read back; the exit code tells whether a command did what was
\* asked, and what evo run reports as committed is in the lineage.
RecordsExact ==
    /\ topic = "config" => Config!LayersExact(input.env, input.file, answer)
    /\ topic = "install" => Config!MergeKeeps(input.client, input.files, answer)
    /\ topic = "stats" => /\ Ledgers!StatsExact(input, answer)
                          /\ Ledgers!OrderFree(input, <<"completed">>)
    /\ topic = "skills" => Config!IndexSound(input, answer)
    /\ topic = "trace" => Harness!AssertionsExact(input)
    /\ topic = "eval" => Harness!OutcomeExact(answer)
    /\ topic = "day" => Ledgers!CalendarExact(input, answer)
    /\ topic = "run" => Commands!ExitHonest(input.cmd, input.env, answer)
    /\ topic = "evo" => Commands!CommitReported(input[1], input[2], answer)
=============================================================================
