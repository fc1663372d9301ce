---------------------------- MODULE CommandLine ----------------------------
(***************************************************************************)
(* The subcommands (main.rs): what each of them needs, what it leaves      *)
(* behind, what it prints and how it exits.                                *)
(*                                                                         *)
(* "broken" is what would fail: the configuration, an operation.  "does"   *)
(* names what a command has changed or started.                            *)
(***************************************************************************)
EXTENDS Naturals, Sequences, FiniteSets

Exit(code, does) == [code |-> code, does |-> does]

Configured == {"mcp", "proxy", "status", "server", "config", "clean", "evo", "__worker"}

\* main: a command that needs the configuration stops where there is none.  mcp
\* brings up the two servers first, at best effort; a server whose lock is held
\* exits with success.
RunCommand(cmd, env) ==
    CASE cmd \in Configured /\ "config" \in env.broken -> Exit(1, {})
      [] cmd \in {"proxy", "status"} /\ "config" \notin env.broken ->
            IF env.locked THEN Exit(0, {})
            ELSE IF cmd \in env.broken THEN Exit(1, {}) ELSE Exit(0, {cmd})
      [] cmd = "mcp" /\ "config" \notin env.broken ->
            Exit(IF cmd \in env.broken THEN 1 ELSE 0,
                 ({"status", "proxy"} \ env.broken) \cup ({cmd} \ env.broken))
      [] cmd = "clean" /\ "config" \notin env.broken ->
            IF ~env.yes THEN Exit(0, {})
            ELSE IF cmd \in env.broken THEN Exit(1, {}) ELSE Exit(0, {cmd})
      [] cmd \in {"server", "config", "evo", "__worker"} /\ "config" \notin env.broken ->
            IF cmd \in env.broken THEN Exit(1, {}) ELSE Exit(0, {cmd})
      [] cmd \in {"install", "__sem_child"} ->
            IF cmd \in env.broken THEN Exit(1, {}) ELSE Exit(0, {cmd})

\* A script can go by the exit code: success means that what was asked for is
\* done, or was there already, or was only to be shown; a failure leaves
\* nothing of the command itself.
ExitHonest(cmd, env, exit) ==
    /\ exit.code = 0 =>
          cmd \in exit.does \/ (cmd \in {"proxy", "status"} /\ env.locked)
                            \/ (cmd = "clean" /\ ~env.yes)
    /\ exit.code # 0 => cmd \notin exit.does /\ (cmd \in env.broken \/ "config" \in env.broken)
    /\ (cmd \in {"proxy", "status"} /\ env.locked) => exit.does = {}

-----------------------------------------------------------------------------
(* evo                                                                     *)

\* resolve_evals_dir: the override, else ./evals, else ../evals.
ResolveEvals(override, dirs) ==
    CASE override # "none" -> IF override \in dirs THEN override ELSE "error"
      [] override = "none" /\ "evals" \in dirs -> "evals"
      [] override = "none" /\ "evals" \notin dirs /\ "../evals" \in dirs -> "../evals"
      [] OTHER -> "error"

\* run_evo: each stage that fails ends it, before the report.
EvoRun(override, dirs, broken) ==
    LET dir == ResolveEvals(override, dirs)
    IN IF dir = "error" \/ broken \cap {"score", "load", "commit", "save"} # {}
       THEN [report |-> "error", saved |-> FALSE] ELSE [report |-> dir, saved |-> TRUE]

\* What is reported as committed is in the file, and was scored over a
\* directory there is; an override is never replaced by another directory.
CommitReported(override, dirs, result) ==
    /\ result.report # "error" <=> result.saved
    /\ result.report # "error" => result.report \in dirs
    /\ override # "none" /\ result.report # "error" => result.report = override
=============================================================================
