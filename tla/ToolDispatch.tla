---------------------------- MODULE ToolDispatch ----------------------------
(***************************************************************************)
(* The tools of a worker: what it sets up for its session (mcp/worker.rs), *)
(* the schemas it offers the model, and the executor that routes the calls *)
(* (tools/mod.rs, and execute in tools/fs.rs).                             *)
(*                                                                         *)
(* A tool works, refuses, or is not run at all; the text of its outcome is *)
(* known by what it begins with: "error", "exit" (a failing command),      *)
(* "page" (a page that itself begins with "Error:") or "text".             *)
(***************************************************************************)
EXTENDS Naturals, Sequences, FiniteSets

FileTool == {"read_file", "write_file", "edit_file", "list_dir", "search_code"}
OtherTool == {"bash", "ast_search", "ast_replace", "web_search", "web_fetch"}
BuiltIn == FileTool \cup OtherTool

\* spawn(..).ok(): without extensions, or where none came up, there is no bridge.
Bridge(env) == IF env.asked = {} \/ env.up = {} THEN {} ELSE env.up

\* tool_schemas: the built-in tools, then those of the extensions.
ToolSchemas(env) == BuiltIn \cup {e \o "_tool" : e \in Bridge(env)}

\* The outcome or the error of a call; "Err" becomes an outcome in the session.
Outcome(begins) == [kind |-> "Ok", begins |-> begins]
Err == [kind |-> "Err", begins |-> "text"]

\* execute: a file tool's error is an Err, any other tool's an outcome that
\* begins with "Error:"; a command that runs and fails is an outcome.
Execute(name, args, works, env) ==
    CASE args = "bad" -> Err
      [] args # "bad" /\ name \in FileTool ->
            IF works THEN Outcome(env.content) ELSE Err
      [] args # "bad" /\ name = "bash" ->
            Outcome(IF ~works THEN "error" ELSE IF env.exit # 0 THEN "exit" ELSE env.content)
      [] args # "bad" /\ name \in OtherTool \ {"bash"} ->
            Outcome(IF works THEN env.content ELSE "error")
      [] OTHER ->
            IF Bridge(env) = {} THEN Err
            ELSE Outcome(IF works /\ name \in ToolSchemas(env) THEN env.content ELSE "error")

\* run_session: an Err is told the model with "Error:" before it, and the event
\* of the result is an error where its text begins with that.
IsError(outcome) == outcome.kind = "Err" \/ outcome.begins \in {"error", "page"}

\* A tool that is offered is found, and a call that was not carried out is
\* an error in the ledger; a call that was is one only if its own text begins
\* with the word.
ErrorsShown(name, args, works, env, outcome) ==
    /\ name \notin ToolSchemas(env) => IsError(outcome)
    /\ (args = "bad" \/ ~works) => IsError(outcome)
    /\ (name \in ToolSchemas(env) /\ args # "bad" /\ works /\ env.content # "page") =>
          ~IsError(outcome)

-----------------------------------------------------------------------------
(* Paths of another system (platform.rs)                                   *)

\* to_host_path: a path with a drive letter is one below /mnt; the separators
\* after the letter do not count.  Any other path stays as it is.
ToHostPath(p) ==
    IF p.drive THEN [drive |-> FALSE, root |-> "mnt", comps |-> p.comps, lead |-> <<>>] ELSE p

\* Translating twice is translating once, and two spellings of one place on a
\* drive are translated alike.
HostPathStable(p) ==
    /\ ToHostPath(ToHostPath(p)) = ToHostPath(p)
    /\ p.drive => ToHostPath(p) = ToHostPath([p EXCEPT !.lead = <<"sep">>])
=============================================================================
