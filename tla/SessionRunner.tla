--------------------------- MODULE SessionRunner ---------------------------
(***************************************************************************)
(* One session of the agent loop (runner::run_session) and the end of the  *)
(* worker that runs it (mcp/worker.rs): the turn budget, the landing       *)
(* notice, tool calls, the loop detector, the salvage passes, the event    *)
(* ledger and the terminal status.                                         *)
(*                                                                         *)
(* The engine answers any completion a model may produce, or an error.     *)
(* What a tool returns, an error too, becomes the text of a message and    *)
(* decides nothing, so it is left out; of a text only whether it is blank  *)
(* counts.  The salvage report's file is written by nobody else and read   *)
(* by nothing, and is left out.                                            *)
(***************************************************************************)
EXTENDS Naturals, Sequences, FiniteSets

CONSTANTS
    Actions, Window, Threshold,   \* as in LoopDetector
    Requests,                     \* lists of tool calls a model may make at once
    TurnsBudgets,                 \* budgets a task may be given
    DefaultBudget,                \* DEFAULT_TURNS_BUDGET
    LandingWindow,                \* LANDING_WINDOW
    LedgerFails                   \* whether appending to the ledger may fail

ASSUME RunnerAssumption ==
    /\ Window \in Nat \ {0} /\ Threshold \in Nat \ {0}
    /\ Requests \subseteq Seq(Actions)
    /\ TurnsBudgets \subseteq Nat
    /\ DefaultBudget \in Nat \ {0}
    /\ LandingWindow \in Nat
    /\ LedgerFails \in BOOLEAN

\* Every list of at most two calls: the requests of a small instance.
ShortRequests == UNION {[1..n -> Actions] : n \in 0..2}

VARIABLES
    budget,      \* the effective turn budget
    pc,          \* where the session is; "close" is the end of a session that
                 \* has a final text, "ended" that of the worker
    turns,       \* turns begun
    messages,    \* the kinds of the messages so far, oldest first
    noticed,     \* landing_injected
    calls,       \* tool calls of the latest completion still to execute
    acted,       \* tool_activity
    text,        \* the final text, or what is to become it
    status,      \* the session's status
    error,       \* the error run_session returns, or "none"
    ledger,      \* the events in events.jsonl, oldest first
    task,        \* the task's status in the registry
    history, advised, verdict     \* the loop detector

Detector == INSTANCE LoopDetector

sessionVars == <<budget, pc, turns, messages, noticed, calls, acted, text, status,
                 error, ledger, task>>
detectorVars == <<history, advised, verdict>>
vars == <<sessionVars, detectorVars>>

Labels == {"loop", "chat", "tools", "retry", "salvage", "salvageTools", "followUp",
           "final", "close", "return", "ended"}

Kinds == {"system", "prompt", "notice", "assistant", "tool", "advisory", "salvage", "final"}

Texts == {"blank", "text"}

Statuses == {"completed", "completed_budget_exhausted", "reasoning_budget_exhausted",
             "failed"}

Errors == {"none", "engine", "io", "loop"}

Completion == [calls : Requests, content : Texts, length : BOOLEAN]

\* length: the finish reason was "length".  Only a dispatch has calls or length,
\* only a tool_result has an action (here a list of one).
Event == [type : {"dispatch", "tool_result", "salvage", "final"},
          turn : Nat, calls : Seq(Actions), length : BOOLEAN]

Dispatched(t, c) == [type |-> "dispatch", turn |-> t, calls |-> c.calls, length |-> c.length]
Returned(t, a) == [type |-> "tool_result", turn |-> t, calls |-> <<a>>, length |-> FALSE]
Salvaged(t) == [type |-> "salvage", turn |-> t, calls |-> <<>>, length |-> FALSE]
Final(t) == [type |-> "final", turn |-> t, calls |-> <<>>, length |-> FALSE]

TypeOK ==
    /\ budget \in Nat \ {0} /\ turns \in 0..budget
    /\ pc \in Labels
    /\ messages \in Seq(Kinds)
    /\ noticed \in BOOLEAN /\ acted \in BOOLEAN
    /\ calls \in Seq(Actions)
    /\ text \in Texts /\ status \in Statuses /\ error \in Errors
    /\ ledger \in Seq(Event)
    /\ task \in {"executing", "completed", "failed"}
    /\ Detector!TypeOK

Init ==
    /\ \E b \in TurnsBudgets : budget = IF b = 0 THEN DefaultBudget ELSE b
    /\ pc = "loop" /\ turns = 0
    /\ messages = <<"system", "prompt">>
    /\ noticed = FALSE /\ calls = <<>> /\ acted = FALSE
    /\ text = "blank" /\ status = "completed" /\ error = "none"
    /\ ledger = <<>> /\ task = "executing"
    /\ Detector!Init

Says(kinds) == messages' = messages \o kinds

\* The append and its error, which ends the session where the code maps it.
Logs(event, next) ==
    \/ ledger' = Append(ledger, event) /\ pc' = next /\ error' = error
    \/ LedgerFails /\ ledger' = ledger /\ pc' = "return" /\ error' = "io"

\* The append whose error is ignored.
LogsIfItCan(event) ==
    \/ ledger' = Append(ledger, event)
    \/ LedgerFails /\ ledger' = ledger

EngineFails ==
    /\ pc' = "return" /\ error' = "engine"
    /\ UNCHANGED <<budget, turns, messages, noticed, calls, acted, text, status, ledger,
                   task, detectorVars>>

-----------------------------------------------------------------------------
(* The loop over turns.                                                    *)

\* Mutant of Landing: the notice comes a turn late.
LandingLate == budget - turns < LandingWindow /\ ~noticed

Landing == budget - turns <= LandingWindow /\ ~noticed

\* Mutant of BeginTurn: the loop runs while turns <= budget.
BeginTurnInclusive ==
    /\ pc = "loop" /\ turns <= budget
    /\ Says(IF Landing THEN <<"notice">> ELSE <<>>)
    /\ noticed' = (noticed \/ Landing)
    /\ turns' = turns + 1
    /\ pc' = "chat"
    /\ UNCHANGED <<budget, calls, acted, text, status, error, ledger, task, detectorVars>>

BeginTurn ==
    /\ pc = "loop" /\ turns < budget
    /\ Says(IF Landing THEN <<"notice">> ELSE <<>>)
    /\ noticed' = (noticed \/ Landing)
    /\ turns' = turns + 1
    /\ pc' = "chat"
    /\ UNCHANGED <<budget, calls, acted, text, status, error, ledger, task, detectorVars>>

IsReasoningCeiling(c) == c.calls = <<>> /\ c.length

\* Mutant of Degenerate: a blank final is as good as any.
DegenerateIgnored(c) == FALSE

Degenerate(c) == c.content = "blank" /\ acted

\* Where a completion without tool calls leads.
AfterAnswer(c) ==
    IF IsReasoningCeiling(c) THEN "salvage" ELSE IF Degenerate(c) THEN "retry" ELSE "close"

Answer(c) ==
    /\ c.calls = <<>>
    /\ Logs(Dispatched(turns, c), AfterAnswer(c))
    /\ IF error' # "none"
       THEN UNCHANGED <<messages, text, status>>
       ELSE /\ Says(IF AfterAnswer(c) = "close" THEN <<"assistant">>
                    ELSE <<"assistant", "salvage">>)
            /\ text' = c.content
            /\ status' = IF IsReasoningCeiling(c) THEN "reasoning_budget_exhausted"
                         ELSE status
    /\ UNCHANGED calls

CallTools(c) ==
    /\ c.calls # <<>>
    /\ Logs(Dispatched(turns, c), "tools")
    /\ IF error' # "none"
       THEN UNCHANGED <<messages, calls>>
       ELSE Says(<<"assistant">>) /\ calls' = c.calls
    /\ UNCHANGED <<text, status>>

Chat ==
    /\ pc = "chat"
    /\ \/ EngineFails
       \/ /\ \E c \in Completion : Answer(c) \/ CallTools(c)
          /\ UNCHANGED <<budget, turns, noticed, acted, task, detectorVars>>

\* One call is executed and logged, and only then shown to the detector.
Result(a, next) ==
    \/ /\ ledger' = Append(ledger, Returned(turns, a))
       /\ Detector!Record(a)
       /\ Says(IF verdict' = "advisory" THEN <<"tool", "advisory">> ELSE <<"tool">>)
       /\ error' = IF verdict' = "loop" THEN "loop" ELSE error
       /\ pc' = IF verdict' = "loop" THEN "return" ELSE next
    \/ /\ LedgerFails
       /\ Says(<<"tool">>)
       /\ error' = "io" /\ pc' = "return"
       /\ UNCHANGED <<ledger, detectorVars>>

\* Mutant of Execute: the calls are taken from the end.
ExecuteLastFirst ==
    /\ pc = "tools"
    /\ Result(calls[Len(calls)], IF Len(calls) = 1 THEN "loop" ELSE "tools")
    /\ calls' = SubSeq(calls, 1, Len(calls) - 1)
    /\ acted' = TRUE
    /\ UNCHANGED <<budget, turns, noticed, text, status, task>>

Execute ==
    /\ pc = "tools"
    /\ Result(Head(calls), IF Len(calls) = 1 THEN "loop" ELSE "tools")
    /\ calls' = Tail(calls)
    /\ acted' = TRUE
    /\ UNCHANGED <<budget, turns, noticed, text, status, task>>

-----------------------------------------------------------------------------
(* The salvage passes.                                                     *)

\* A blank final after tool activity is asked for again, once.
Retry ==
    /\ pc = "retry"
    /\ \/ EngineFails
       \/ /\ \E c \in Completion :
                /\ Logs(Salvaged(turns), "close")
                /\ status' = IF error' = "none" /\ c.content = "blank" THEN "failed" ELSE status
          /\ text' = IF error' = "none" THEN "text" ELSE text
          /\ UNCHANGED <<budget, turns, messages, noticed, calls, acted, task, detectorVars>>

\* The salvage turn is over, whatever it gave: the final text is never blank.
SalvageEnds ==
    /\ LogsIfItCan(Salvaged(turns + 1))
    /\ text' = "text"
    /\ pc' = "close"

\* After the reasoning ceiling the model is asked for a report, with its tools.
Salvage ==
    /\ pc = "salvage"
    /\ \/ SalvageEnds /\ UNCHANGED <<messages, calls>>     \* a report, or an error
       \/ \E c \in Completion :
            /\ c.calls # <<>>
            /\ Says(<<"assistant">>) /\ calls' = c.calls
            /\ pc' = "salvageTools"
            /\ UNCHANGED <<ledger, text>>
    /\ UNCHANGED <<budget, turns, noticed, acted, status, error, task, detectorVars>>

SalvageExecute ==
    /\ pc = "salvageTools"
    /\ LogsIfItCan(Returned(turns + 1, Head(calls)))
    /\ Says(<<"tool">>)
    /\ calls' = Tail(calls)
    /\ pc' = IF Len(calls) = 1 THEN "followUp" ELSE "salvageTools"
    /\ UNCHANGED <<budget, turns, noticed, acted, text, status, error, task, detectorVars>>

\* One more completion without tools; its error leaves the report as it was.
FollowUp ==
    /\ pc = "followUp"
    /\ SalvageEnds
    /\ UNCHANGED <<budget, turns, messages, noticed, calls, acted, status, error, task,
                   detectorVars>>

-----------------------------------------------------------------------------
(* The end of the session and of its worker.                               *)

\* Mutant of BudgetExhausted: it waits for one turn more than there are.
BudgetExhaustedLate ==
    /\ pc = "loop" /\ turns > budget
    /\ Says(<<"final">>)
    /\ pc' = "final"
    /\ UNCHANGED <<budget, turns, noticed, calls, acted, text, status, error, ledger, task,
                   detectorVars>>

BudgetExhausted ==
    /\ pc = "loop" /\ turns >= budget
    /\ Says(<<"final">>)
    /\ pc' = "final"
    /\ UNCHANGED <<budget, turns, noticed, calls, acted, text, status, error, ledger, task,
                   detectorVars>>

\* The best-effort synthesis; the tool calls of its completion are dropped.
Synthesize ==
    /\ pc = "final"
    /\ \/ EngineFails
       \/ \E c \in Completion :
            /\ Logs(Dispatched(turns + 1, [c EXCEPT !.calls = <<>>]), "close")
            /\ IF error' # "none"
               THEN UNCHANGED <<text, status>>
               ELSE text' = c.content /\ status' = "completed_budget_exhausted"
            /\ UNCHANGED <<budget, turns, messages, noticed, calls, acted, task,
                           detectorVars>>

\* Mutant of ClosingStatus: the last turn of the budget decides alone.
ClosingStatusAny ==
    IF turns >= budget THEN "completed_budget_exhausted" ELSE status

\* Only a plain "completed" is reclassified when the last turn was used.
ClosingStatus ==
    IF status = "completed" /\ turns >= budget THEN "completed_budget_exhausted" ELSE status

Close ==
    /\ pc = "close"
    /\ Logs(Final(turns), "return")
    /\ status' = ClosingStatus
    /\ UNCHANGED <<budget, turns, messages, noticed, calls, acted, text, task, detectorVars>>

\* The worker's transition to a terminal status (the race for it: TaskLifecycle).
Terminal == IF error = "none" /\ status # "failed" THEN "completed" ELSE "failed"

WorkerEnds ==
    /\ pc = "return"
    /\ task' = Terminal
    /\ pc' = "ended"
    /\ UNCHANGED <<budget, turns, messages, noticed, calls, acted, text, status, error,
                   ledger, detectorVars>>

Next ==
    \/ BeginTurn \/ Chat \/ Execute \/ Retry \/ Salvage \/ SalvageExecute \/ FollowUp
    \/ BudgetExhausted \/ Synthesize \/ Close \/ WorkerEnds

Spec == Init /\ [][Next]_vars

\* The worker runs on, and the engine and the tools answer in the end (the
\* engine's HTTP client has no timeout: it is the engine that must).
FairSpec == Spec /\ WF_vars(Next)

-----------------------------------------------------------------------------
(* Properties.                                                             *)

Events(type) == {i \in 1..Len(ledger) : ledger[i].type = type}

\* A turn of the loop stopped at the reasoning ceiling.
CeilingTurn(i) ==
    /\ ledger[i].type = "dispatch" /\ ledger[i].turn <= budget
    /\ ledger[i].calls = <<>> /\ ledger[i].length

\* A session a turn of which stopped at the reasoning ceiling keeps that status
\* to its end, on the last turn of the budget and with a failing salvage too.
CeilingKept ==
    (\E i \in 1..Len(ledger) : CeilingTurn(i)) => status = "reasoning_budget_exhausted"

\* "completed" is a session that stopped by itself before its budget was used,
\* with a text if it used tools; "failed" is no completed task.
CompletedIsDone ==
    pc = "ended" /\ error = "none" =>
        /\ status = "completed" => turns < budget /\ (acted => text # "blank")
        /\ status = "completed_budget_exhausted" => turns = budget
        /\ status = "failed" => task = "failed"

\* The ledger can be replayed: a dispatch is followed by the results of its tool
\* calls, in their order, before anything else is logged.
ResultsFollow ==
    \A i \in Events("dispatch") : \A k \in 1..Len(ledger[i].calls) :
        i + k <= Len(ledger) => ledger[i + k] = Returned(ledger[i].turn, ledger[i].calls[k])

Notices == {i \in 1..Len(messages) : messages[i] = "notice"}

\* The model is told before its session ends.  In every turn of the landing window
\* it has been told, in one notice of the whole session, that its budget ends, and
\* before the window it has not; a session is stopped as a loop only after an
\* advisory, and only when the ledger's last Threshold tool results are those of
\* the same action.
NoticesDue ==
    /\ pc = "chat" => IF budget - turns < LandingWindow
                      THEN \E i \in 1..Len(messages) : Notices = {i}
                      ELSE Notices = {}
    /\ error = "loop" =>
        /\ \E i \in 1..Len(messages) : messages[i] = "advisory"
        /\ \E run \in SUBSET Events("tool_result"), a \in Actions :
              /\ Cardinality(run) = Threshold
              /\ \A i \in run : ledger[i].calls = <<a>>
              /\ \A i \in Events("tool_result") \ run : \A j \in run : i < j

\* Every session ends, whatever the model answers.
SessionEnds == <>(pc = "ended")

=============================================================================
