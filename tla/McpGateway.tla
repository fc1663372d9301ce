----------------------------- MODULE McpGateway -----------------------------
(***************************************************************************)
(* One call of a tool of the MCP server (mcp/mod.rs): which handler takes  *)
(* it, what the handler checks first, and what it leaves behind.  The      *)
(* interleaving of calls is TaskLifecycle's; here one call runs alone.     *)
(*                                                                         *)
(* The registry of a call is new: its memory holds what the call itself    *)
(* has read.  A record is known by its status and its pid.                 *)
(***************************************************************************)
EXTENDS Naturals, Sequences, FiniteSets

CONSTANTS NoPid, NoId

Terminals == {"completed", "failed", "cancelled"}
Live == {"queued", "executing"}

Refused(reason) == [error |-> reason, record |-> "none", spec |-> FALSE, worker |-> FALSE]

\* Mutant of Coworker: the gate is asked once the task is registered.
CoworkerGateLate(call, env) ==
    CASE call.args # "good" -> Refused("arguments")
      [] call.args = "good" /\ call.blank -> Refused("empty")
      [] call.args = "good" /\ ~call.blank /\ "config" \in env.broken -> Refused("config")
      [] OTHER ->
            IF "record" \in env.broken THEN Refused("register")
            ELSE IF call.verdict = "Reject"
            THEN [error |-> "gate", record |-> "queued", spec |-> FALSE, worker |-> FALSE]
            ELSE [error |-> "none", record |-> "stamped", spec |-> TRUE, worker |-> TRUE]

\* handle_coworker: the checks in their order, then the record, the spec and
\* the worker.  The stamp and the failed record are written at best effort.
Coworker(call, env) ==
    CASE call.args # "good" -> Refused("arguments")
      [] call.args = "good" /\ call.blank -> Refused("empty")
      [] call.args = "good" /\ ~call.blank /\ call.verdict = "Reject" -> Refused("gate")
      [] OTHER ->
            IF "config" \in env.broken THEN Refused("config")
            ELSE IF "state" \in env.broken THEN Refused("state")
            ELSE IF "record" \in env.broken THEN Refused("register")
            ELSE IF "spec" \in env.broken
            THEN [error |-> "spec", record |-> "queued", spec |-> FALSE, worker |-> FALSE]
            ELSE IF "spawn" \in env.broken
            THEN [error |-> "spawn", spec |-> TRUE, worker |-> FALSE,
                  record |-> IF "rewrite" \in env.broken THEN "queued" ELSE "failed"]
            ELSE [error |-> "none", spec |-> TRUE, worker |-> TRUE,
                  record |-> IF "rewrite" \in env.broken THEN "queued" ELSE "stamped"]

\* A call that is refused has done nothing; one that fails later leaves a
\* record no worker will take up, which says so unless the disk failed; an
\* answer that promises a task has a worker and its spec.
DispatchAccounted(call, env, result) ==
    /\ result.worker <=> result.error = "none"
    /\ result.worker => result.spec
    /\ result.error \in {"arguments", "empty", "gate", "config", "state", "register"} =>
          result.record = "none" /\ ~result.spec
    /\ result.record = "queued" => env.broken \cap {"spec", "rewrite"} # {}
    /\ (call.args = "good" /\ ~call.blank /\ call.verdict = "Reject") => result.error = "gate"

-----------------------------------------------------------------------------
(* The task tool                                                           *)

Answer(error, disk, killed) == [error |-> error, disk |-> disk, killed |-> killed]

PidsOf(disk, ids) == {disk[i].pid : i \in ids} \ {NoPid}

\* The transition to cancelled, refused for a record that is terminal.
Cancelled(disk, ids) ==
    [i \in DOMAIN disk |->
        IF i \in ids /\ disk[i].status \in Live THEN [disk[i] EXCEPT !.status = "cancelled"]
        ELSE disk[i]]

\* A record that cannot be written stays as it is, and the answer does not say so.
CancelAll(env, disk) ==
    LET live == {i \in DOMAIN disk : disk[i].status \in Live}
    IN Answer("none", Cancelled(disk, live \ env.stuck), PidsOf(disk, live))

\* cancel and kill: the pid of the record is killed whatever its status, and a
\* transition that is refused or cannot be written is not reported.
CancelOne(env, disk, id) ==
    IF id \notin DOMAIN disk THEN Answer("not found", disk, {})
    ELSE Answer("none", Cancelled(disk, {id} \ env.stuck), PidsOf(disk, {id}))

\* extend_lease: the budget is looked for in the memory of the registry, which is
\* new; the records are on the disk.
ExtendLease(disk, id, memory) ==
    IF id \notin memory THEN Answer("not found", disk, {})
    ELSE IF disk[id].status \in Terminals THEN Answer("terminal", disk, {})
    ELSE Answer("none", disk, {})

\* The actions of handle_task.
TaskAction(call, env, disk) ==
    CASE call.action \in {"list", "stats"} -> Answer("none", disk, {})
      [] call.action = "cancel_all" -> CancelAll(env, disk)
      [] call.action \in {"status", "cancel", "kill", "extend_lease"} ->
            IF call.id = NoId THEN Answer("id required", disk, {})
            ELSE CASE call.action = "status" ->
                        Answer(IF call.id \in DOMAIN disk THEN "none" ELSE "not found", disk, {})
                   [] call.action \in {"cancel", "kill"} -> CancelOne(env, disk, call.id)
                   [] OTHER -> ExtendLease(disk, call.id, {})
      [] OTHER -> Answer("unknown action", disk, {})

\* handle_task; env.config tells whether the configuration loads, env.stuck which
\* records cannot be written.
TaskTool(call, env, disk) ==
    CASE call.args # "good" -> Answer("arguments", disk, {})
      [] call.args = "good" /\ ~env.config -> Answer("config", disk, {})
      [] OTHER -> TaskAction(call, env, disk)

\* A call changes the records it names and no others, never one that is
\* terminal; an error has changed nothing; nothing that cancel_all kills belongs to
\* a task that had ended, and it leaves nothing live but the records that cannot be
\* written, which stay live in the registry with their process killed.
TaskToolExact(call, env, disk, result) ==
    LET named == IF call.action = "cancel_all" THEN DOMAIN disk ELSE {call.id}
    IN /\ DOMAIN result.disk = DOMAIN disk
       /\ \A i \in DOMAIN disk :
             result.disk[i] # disk[i] =>
                i \in named /\ disk[i].status \in Live /\ result.error = "none"
       /\ result.error # "none" => result.killed = {}
       /\ call.args = "good" /\ env.config /\ call.action = "cancel_all" =>
             /\ \A i \in DOMAIN disk :
                   result.disk[i].status \in Live => i \in env.stuck /\ result.disk[i] = disk[i]
             /\ result.killed = {disk[i].pid : i \in {j \in DOMAIN disk :
                                    disk[j].status \in Live}} \ {NoPid}

=============================================================================
