------------------------------- MODULE Evals -------------------------------
(***************************************************************************)
(* The evaluation harness (evals/): loading a task and a recorded trace,   *)
(* replaying its answers through the session loop, scoring, and the        *)
(* outcome.                                                                *)
(*                                                                         *)
(* A step of a trace is a record of its type and, by type, the content of  *)
(* a message ("", "text" or "workspace") and the ids it calls, the id,     *)
(* tool and arguments of a call, the id and error flag of a result.  Files *)
(* are known by their state, and a check by what it asks and what it would *)
(* find.  The hash of a file check is not modelled, only its comparison.   *)
(***************************************************************************)
EXTENDS Naturals, Sequences, FiniteSets, SequencesExt

OfType(steps, type) ==
    FoldLeft(LAMBDA kept, s : IF s.type = type THEN Append(kept, s) ELSE kept, <<>>, steps)

-----------------------------------------------------------------------------
(* fixture.rs and replay.rs                                                *)

\* Task::load and the trace of the variant asked for: what goes wrong, if
\* anything.  A known-fail variant needs the golden trace too.
LoadError(task, variant) ==
    CASE task.toml # "good" -> "load task"
      [] task.toml = "good" /\ task.golden = "missing" -> "load task"
      [] task.toml = "good" /\ task.golden # "missing" ->
            IF variant = "known-fail" /\ task.known = "missing" THEN "no trace"
            ELSE IF (IF variant = "golden" THEN task.golden ELSE task.known) = "malformed"
                 THEN "load trace" ELSE "none"

\* The arguments of a call: those of its tool_call step (the last of that id),
\* else those of the message.
ArgumentsOf(steps, ref) ==
    LET own == {i \in DOMAIN steps : steps[i].type = "tool_call" /\ steps[i].id = ref.id}
    IN IF own = {} THEN ref.args ELSE steps[CHOOSE i \in own : \A j \in own : j <= i].args

Final == [content |-> "", calls |-> <<>>]

\* ReplayEngine::new
Responses(steps) ==
    LET messages == OfType(steps, "message")
    IN [i \in DOMAIN messages |->
          [content |-> messages[i].content,
           calls |-> [k \in DOMAIN messages[i].calls |->
                        [messages[i].calls[k] EXCEPT
                            !.args = ArgumentsOf(steps, messages[i].calls[k])]]]]

\* The nth call of chat: the nth recorded answer, then the default final, but
\* an error where nothing is recorded.
Chat(steps, n) ==
    LET recorded == Responses(steps)
    IN CASE n <= Len(recorded) -> <<recorded[n]>>
         [] n > Len(recorded) /\ Len(recorded) > 0 -> <<Final>>
         [] OTHER -> <<>>

-----------------------------------------------------------------------------
(* The assertions on a trace                                               *)

Calls(steps) == OfType(steps, "tool_call")
Results(steps) == OfType(steps, "tool_result")

First(calls, tool) ==
    LET at == {i \in DOMAIN calls : calls[i].tool = tool}
    IN IF at = {} THEN 0 ELSE CHOOSE i \in at : \A j \in at : i <= j

\* Mutant of Ordered: a first call of the one is enough.
OrderedLoosely(steps, before, after) ==
    LET calls == Calls(steps) IN First(calls, after) = 0 \/ First(calls, before) # 0

Ordered(steps, before, after) ==
    LET calls == Calls(steps)
    IN First(calls, after) = 0
       \/ (First(calls, before) # 0 /\ First(calls, before) < First(calls, after))

LastMessage(steps) ==
    LET m == OfType(steps, "message") IN IF m = <<>> THEN "none" ELSE Last(m).content

\* Whether the call of an id failed: by its last result.
Failed(steps, id) ==
    LET of == {i \in DOMAIN Results(steps) : Results(steps)[i].id = id}
    IN of # {} /\ Results(steps)[CHOOSE i \in of : \A j \in of : j <= i].is_error

OutsideKinds == {"absolute", "drive", "dotted"}

Consecutive(steps) ==
    LET calls == Calls(steps)
    IN \E i \in 1..Len(calls) - 1 :
          /\ calls[i].tool = calls[i + 1].tool /\ calls[i].args = calls[i + 1].args
          /\ Failed(steps, calls[i].id) /\ Failed(steps, calls[i + 1].id)

Assertions ==
    {"call_has_result", "final_nonempty", "not_spilled", "no_write_outside", "mentions_workspace",
     "read_before_edit", "edit_before_bash", "bash_present", "one_edit", "no_repeated_failure"}

\* score_trace
Holds(assertion, steps) ==
    CASE assertion = "call_has_result" ->
            \A c \in Range(Calls(steps)) : \E r \in Range(Results(steps)) : r.id = c.id
      [] assertion = "final_nonempty" -> LastMessage(steps) \notin {"none", ""}
      [] assertion = "not_spilled" -> OfType(steps, "spilled") = <<>>
      [] assertion = "no_write_outside" ->
            \A c \in Range(Calls(steps)) :
                c.tool \in {"write_file", "edit_file"} => c.args \notin OutsideKinds
      [] assertion = "mentions_workspace" -> LastMessage(steps) = "workspace"
      [] assertion = "read_before_edit" -> Ordered(steps, "read_file", "edit_file")
      [] assertion = "edit_before_bash" -> Ordered(steps, "edit_file", "bash")
      [] assertion = "bash_present" -> First(Calls(steps), "bash") # 0
      [] assertion = "one_edit" ->
            Cardinality({i \in DOMAIN Calls(steps) : Calls(steps)[i].tool = "edit_file"}) = 1
      [] assertion = "no_repeated_failure" -> ~Consecutive(steps)

-----------------------------------------------------------------------------
(* run_task                                                                *)

\* The status of one check: score_exec, score_file or score_trace.
ScoreCheck(check, steps) ==
    CASE check.kind = "exec" ->
            IF check.cmd = "none" \/ check.found = "not run" THEN "Error"
            ELSE IF check.found = check.expect THEN "Pass" ELSE "Fail"
      [] check.kind = "file" ->
            IF check.path = "none" THEN "Error"
            ELSE IF check.found = "unreadable" THEN "Fail"
            ELSE IF check.expect = "nothing" THEN "Error"
            ELSE IF check.found = check.expect THEN "Pass" ELSE "Fail"
      [] check.kind = "trace" ->
            IF check.assert \notin Assertions THEN "Error"
            ELSE IF Holds(check.assert, steps) THEN "Pass" ELSE "Fail"
      [] OTHER -> "Error"

DetermineOutcome(statuses) ==
    CASE "Error" \in Range(statuses) -> "Error"
      [] "Error" \notin Range(statuses) /\ "Fail" \in Range(statuses) -> "Fail"
      [] OTHER -> "Pass"

\* run_task: every stage that fails ends in an error report without checks.  The
\* session fails on its first turn where the trace has no answer at all.
RunTask(task, variant) ==
    LET error == [outcome |-> "Error", checks |-> <<>>]
        steps == IF variant = "golden" THEN task.steps ELSE task.knownSteps
    IN CASE LoadError(task, variant) # "none" -> error
         [] LoadError(task, variant) = "none" /\ ~task.fixture -> error
         [] LoadError(task, variant) = "none" /\ task.fixture /\ task.setup = "fails" -> error
         [] LoadError(task, variant) = "none" /\ task.fixture /\ task.setup # "fails" ->
               IF Chat(steps, 1) = <<>> THEN error
               ELSE LET statuses == [i \in DOMAIN task.checks |-> ScoreCheck(task.checks[i], steps)]
                    IN [outcome |-> DetermineOutcome(statuses), checks |-> statuses]

-----------------------------------------------------------------------------
(* What the harness promises                                               *)

\* EVALS.md: Error is for what the harness could not do or evaluate; a Pass or
\* a Fail means every check was evaluated.
OutcomeExact(report) ==
    /\ report.outcome \in {"Pass", "Fail"} => "Error" \notin Range(report.checks)
    /\ report.outcome = "Pass" => Range(report.checks) \subseteq {"Pass"}
    /\ report.outcome = "Fail" => "Fail" \in Range(report.checks)
    /\ report.checks # <<>> /\ report.outcome = "Error" => "Error" \in Range(report.checks)

\* Two failures in a row of one call: with no other call between them, whatever
\* else the trace recorded there.
RepeatsFailure(steps) ==
    \E i, j \in DOMAIN steps :
        /\ i < j /\ steps[i].type = "tool_call" /\ steps[j].type = "tool_call"
        /\ \A k \in i + 1..j - 1 : steps[k].type # "tool_call"
        /\ steps[i].tool = steps[j].tool /\ steps[i].args = steps[j].args
        /\ Failed(steps, steps[i].id) /\ Failed(steps, steps[j].id)

\* Every edit has a read before it, every bash an edit.
Precedes(steps, before, after) ==
    \A j \in DOMAIN steps :
        steps[j].type = "tool_call" /\ steps[j].tool = after =>
            \E i \in 1..j - 1 : steps[i].type = "tool_call" /\ steps[i].tool = before

AssertionsExact(steps) ==
    /\ Holds("read_before_edit", steps) = Precedes(steps, "read_file", "edit_file")
    /\ Holds("edit_before_bash", steps) = Precedes(steps, "edit_file", "bash")
    /\ Holds("no_repeated_failure", steps) = ~RepeatsFailure(steps)
=============================================================================
