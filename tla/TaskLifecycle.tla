---------------------------- MODULE TaskLifecycle ----------------------------
(***************************************************************************)
(* The life of a background task: the coworker tool that dispatches it     *)
(* (mcp/mod.rs), the detached worker that runs it (mcp/worker.rs), the     *)
(* task tool that cancels it (mcp/mod.rs) and the status server that       *)
(* answers waits and reaps orphans (task/wait.rs), all of them acting on   *)
(* one disk record through registry operations (task/registry.rs).         *)
(*                                                                         *)
(* A registry operation reads the record from disk, changes the copy and   *)
(* renames the new file into place after it has dropped its lock; the lock *)
(* is private to one process anyway.  So the load and the save are two     *)
(* steps, and the copy in between is kept in the actor's "rec" field.      *)
(*                                                                         *)
(* Every tool call builds a fresh registry whose sequence starts at 0, so  *)
(* every dispatch names its task task_1 and its spec job_task_1.json:      *)
(* there is one record and one spec file, however many dispatches.         *)
(*                                                                         *)
(* Left out: the slot semaphore the worker waits on (SlotSemaphore), the   *)
(* session itself (its outcome is a choice), timestamps, and the pruner    *)
(* that removes old records.  A pid is never reused.                       *)
(***************************************************************************)
EXTENDS Naturals

CONSTANTS
    Dispatches,  \* calls of the coworker tool; each spawns at most one worker
    Cancels,     \* calls of the task tool with cancel, kill or cancel_all
    Requests,    \* connections of the status server: waits, asked repeatedly
    DiskFails,   \* whether a write of the record or of the spec may fail
    None         \* no dispatch, no pid

ASSUME LifecycleAssumption ==
    /\ None \notin Dispatches
    /\ DiskFails \in BOOLEAN

Terminals == {"completed", "failed", "cancelled"}
Statuses == {"queued", "executing"} \cup Terminals

\* "of" is the dispatch whose prompt and session the record holds.  A worker's
\* pid is the dispatch that spawned it.
Record == [of : Dispatches, status : Statuses, pid : Dispatches \cup {None}]
NoRec == [of |-> None, status |-> "absent", pid |-> None]
RecordOrNone == Record \cup {NoRec}

IsTerminal(r) == r.status \in Terminals

VARIABLES
    rec,         \* the disk mirror task_1.json
    job,         \* the dispatch whose spec is in job_task_1.json, or None
    mcp,         \* each dispatch's handler: where it is, the record it holds
    worker,      \* each worker: where it is, the spec it runs, its record
    cancel,      \* each cancel call: where it is, the record it holds
    request,     \* each status-server connection, likewise
    mem,         \* the status server's in-memory record of the task
    succeeded,   \* history: dispatches whose session ran to its end
    lost         \* history: whether an update of the record was not written

vars == <<rec, job, mcp, worker, cancel, request, mem, succeeded, lost>>

McpAt == {"idle", "spec", "spawn", "stamp", "stampSave", "fail", "failSave", "done"}
WorkerAt == {"none", "start", "slot", "exec", "execSave", "run", "endSave",
             "release", "exited"}
CancelAt == {"idle", "kill", "load", "save", "done"}
RequestAt == {"idle", "probe", "reap", "reapSave", "get", "poll"}

TypeOK ==
    /\ rec \in RecordOrNone
    /\ job \in Dispatches \cup {None}
    /\ mcp \in [Dispatches -> [at : McpAt, rec : RecordOrNone]]
    /\ worker \in [Dispatches -> [at : WorkerAt, spec : Dispatches \cup {None},
                                  rec : RecordOrNone]]
    /\ cancel \in [Cancels -> [at : CancelAt, rec : RecordOrNone]]
    /\ request \in [Requests -> [at : RequestAt, rec : RecordOrNone]]
    /\ mem \in RecordOrNone
    /\ succeeded \in SUBSET Dispatches
    /\ lost \in BOOLEAN

Init ==
    /\ rec = NoRec
    /\ job = None
    /\ mcp = [d \in Dispatches |-> [at |-> "idle", rec |-> NoRec]]
    /\ worker = [d \in Dispatches |-> [at |-> "none", spec |-> None, rec |-> NoRec]]
    /\ cancel = [k \in Cancels |-> [at |-> "idle", rec |-> NoRec]]
    /\ request = [r \in Requests |-> [at |-> "idle", rec |-> NoRec]]
    /\ mem = NoRec
    /\ succeeded = {}
    /\ lost = FALSE

-----------------------------------------------------------------------------
(* The registry's operations, as the actions below use them.               *)

\* save_to_disk: write-temp-then-rename, so the whole record or nothing.
Save(r) ==
    \/ rec' = r /\ UNCHANGED lost
    \/ DiskFails /\ lost' = TRUE /\ UNCHANGED rec

\* transition's copy of the record, once it found it not to be terminal.
Transitioned(s) == [of |-> rec.of, status |-> s, pid |-> rec.pid]

\* update's copies: the dispatcher stamps the pid, the worker claims the task.
Stamped(d) == [of |-> rec.of, status |-> rec.status, pid |-> d]

\* Mutant of Claimed: the worker leaves the pid to the dispatcher.
ClaimedUnstamped(d) == [of |-> rec.of, status |-> "executing", pid |-> rec.pid]

Claimed(d) == [of |-> rec.of, status |-> "executing", pid |-> d]

Running(d) == worker[d].at \notin {"none", "exited"}

\* pid_alive is false of the pid in r.
DeadPid(r) == r.pid # None /\ ~Running(r.pid)

\* What reap_orphans is there to find.
Orphan(r) == r.status = "executing" /\ DeadPid(r)

-----------------------------------------------------------------------------
(* handle_coworker: create the record, write the spec, spawn the worker and *)
(* stamp its pid; a spawn that fails ends the task.                         *)

McpTakes(d, l, r) == mcp' = [mcp EXCEPT ![d] = [at |-> l, rec |-> r]]
McpGoes(d, l) == McpTakes(d, l, NoRec)

\* A record that cannot be written is reported to the caller, nothing more.
Create(d) ==
    /\ mcp[d].at = "idle"
    /\ \/ /\ rec' = [of |-> d, status |-> "queued", pid |-> None]
          /\ McpGoes(d, "spec")
       \/ /\ DiskFails
          /\ McpGoes(d, "done")
          /\ UNCHANGED rec
    /\ UNCHANGED <<job, worker, cancel, request, mem, succeeded, lost>>

\* A spec that cannot be written ends the call and leaves the record queued.
WriteSpec(d) ==
    /\ mcp[d].at = "spec"
    /\ \/ job' = d /\ McpGoes(d, "spawn")
       \/ DiskFails /\ McpGoes(d, "done") /\ UNCHANGED job
    /\ UNCHANGED <<rec, worker, cancel, request, mem, succeeded, lost>>

WorkerStarts(d) ==
    worker' = [worker EXCEPT ![d] = [at |-> "start", spec |-> None, rec |-> NoRec]]

Spawn(d) ==
    /\ mcp[d].at = "spawn"
    /\ \/ WorkerStarts(d) /\ McpGoes(d, "stamp")
       \/ McpGoes(d, "fail") /\ UNCHANGED worker
    /\ UNCHANGED <<rec, job, cancel, request, mem, succeeded, lost>>

StampLoad(d) ==
    /\ mcp[d].at = "stamp"
    /\ McpTakes(d, "stampSave", Stamped(d))
    /\ UNCHANGED <<rec, job, worker, cancel, request, mem, succeeded, lost>>

FailLoad(d) ==
    /\ mcp[d].at = "fail"
    /\ \/ IsTerminal(rec) /\ McpGoes(d, "done")
       \/ ~IsTerminal(rec) /\ McpTakes(d, "failSave", Transitioned("failed"))
    /\ UNCHANGED <<rec, job, worker, cancel, request, mem, succeeded, lost>>

McpSave(d) ==
    /\ mcp[d].at \in {"stampSave", "failSave"}
    /\ Save(mcp[d].rec)
    /\ McpGoes(d, "done")
    /\ UNCHANGED <<job, worker, cancel, request, mem, succeeded>>

\* The MCP server is killed by its client; its workers have their own group.
McpDies(d) ==
    /\ mcp[d].at \notin {"idle", "done"}
    /\ McpGoes(d, "done")
    /\ UNCHANGED <<rec, job, worker, cancel, request, mem, succeeded, lost>>

-----------------------------------------------------------------------------
(* run_job_with_engine: read the spec, wait for a slot, claim the task, run *)
(* the session, record its outcome, release the slot, exit.                 *)

WorkerTakes(d, l, r) ==
    worker' = [worker EXCEPT ![d] = [at |-> l, spec |-> @.spec, rec |-> r]]
WorkerGoes(d, l) == WorkerTakes(d, l, NoRec)

ReadSpec(d) ==
    /\ worker[d].at = "start"
    /\ worker' = [worker EXCEPT ![d] = [at |-> "slot", spec |-> job, rec |-> NoRec]]
    /\ UNCHANGED <<rec, job, mcp, cancel, request, mem, succeeded, lost>>

GetSlot(d) ==
    /\ worker[d].at = "slot"
    /\ WorkerGoes(d, "exec")
    /\ UNCHANGED <<rec, job, mcp, cancel, request, mem, succeeded, lost>>

\* update, not transition: no look at the status the record has.
ExecLoad(d) ==
    /\ worker[d].at = "exec"
    /\ WorkerTakes(d, "execSave", Claimed(d))
    /\ UNCHANGED <<rec, job, mcp, cancel, request, mem, succeeded, lost>>

\* The result is ignored: the session runs whether or not the save succeeded.
ExecSave(d) ==
    /\ worker[d].at = "execSave"
    /\ Save(worker[d].rec)
    /\ WorkerGoes(d, "run")
    /\ UNCHANGED <<job, mcp, cancel, request, mem, succeeded>>

\* The session (or the set-up before it) ends; the outcome is loaded into the
\* record unless that is terminal by now.
Finish(d) ==
    /\ worker[d].at = "run"
    /\ \E s \in {"completed", "failed"} :
        /\ succeeded' = IF s = "completed" THEN succeeded \cup {worker[d].spec}
                                           ELSE succeeded
        /\ \/ IsTerminal(rec) /\ WorkerGoes(d, "release")
           \/ ~IsTerminal(rec) /\ WorkerTakes(d, "endSave", Transitioned(s))
    /\ UNCHANGED <<rec, job, mcp, cancel, request, mem, lost>>

EndSave(d) ==
    /\ worker[d].at = "endSave"
    /\ Save(worker[d].rec)
    /\ WorkerGoes(d, "release")
    /\ UNCHANGED <<job, mcp, cancel, request, mem, succeeded>>

Release(d) ==
    /\ worker[d].at = "release"
    /\ WorkerGoes(d, "exited")
    /\ UNCHANGED <<rec, job, mcp, cancel, request, mem, succeeded, lost>>

\* Out of memory, a panic, a spec it cannot parse, a kill from outside.
WorkerDies(d) ==
    /\ Running(d)
    /\ WorkerGoes(d, "exited")
    /\ UNCHANGED <<rec, job, mcp, cancel, request, mem, succeeded, lost>>

-----------------------------------------------------------------------------
(* handle_task, cancel or kill: get the record, kill the pid in it even if  *)
(* it is terminal, transition; cancel_all skips a terminal record.          *)

CancelTakes(k, l, r) == cancel' = [cancel EXCEPT ![k] = [at |-> l, rec |-> r]]
CancelGoes(k, l) == CancelTakes(k, l, NoRec)

\* Mutant of CancelGet: no check that the task exists.
CancelGetUnchecked(k) ==
    /\ cancel[k].at = "idle"
    /\ CancelTakes(k, "kill", rec)
    /\ UNCHANGED <<rec, job, mcp, worker, request, mem, succeeded, lost>>

CancelGet(k) ==
    /\ cancel[k].at = "idle"
    /\ \/ rec = NoRec /\ CancelGoes(k, "done")
       \/ rec # NoRec /\ CancelTakes(k, "kill", rec)
    /\ UNCHANGED <<rec, job, mcp, worker, request, mem, succeeded, lost>>

CancelAllList(k) ==
    /\ cancel[k].at = "idle"
    /\ \/ /\ rec = NoRec \/ IsTerminal(rec)
          /\ CancelGoes(k, "done")
       \/ /\ rec # NoRec /\ ~IsTerminal(rec)
          /\ CancelTakes(k, "kill", rec)
    /\ UNCHANGED <<rec, job, mcp, worker, request, mem, succeeded, lost>>

CancelKill(k) ==
    /\ cancel[k].at = "kill"
    /\ \/ cancel[k].rec.pid = None /\ UNCHANGED worker
       \/ cancel[k].rec.pid # None /\ WorkerGoes(cancel[k].rec.pid, "exited")
    /\ CancelGoes(k, "load")
    /\ UNCHANGED <<rec, job, mcp, request, mem, succeeded, lost>>

CancelLoad(k) ==
    /\ cancel[k].at = "load"
    /\ \/ IsTerminal(rec) /\ CancelGoes(k, "done")
       \/ ~IsTerminal(rec) /\ CancelTakes(k, "save", Transitioned("cancelled"))
    /\ UNCHANGED <<rec, job, mcp, worker, request, mem, succeeded, lost>>

CancelSave(k) ==
    /\ cancel[k].at = "save"
    /\ Save(cancel[k].rec)
    /\ CancelGoes(k, "done")
    /\ UNCHANGED <<job, mcp, worker, request, mem, succeeded>>

-----------------------------------------------------------------------------
(* wait_handler: reap the orphans known in memory, read the record, answer  *)
(* if it is terminal, else poll the disk until it is or the wait times out. *)

RequestTakes(r, l, c) == request' = [request EXCEPT ![r] = [at |-> l, rec |-> c]]
RequestGoes(r, l) == RequestTakes(r, l, NoRec)

\* Mutant of Wait: the reaper filters for the wrong status.
WaitQueued(r) ==
    /\ request[r].at = "idle"
    /\ RequestGoes(r, IF mem.status = "queued" THEN "probe" ELSE "get")
    /\ UNCHANGED <<rec, job, mcp, worker, cancel, mem, succeeded, lost>>

\* The candidates of reap_orphans come from the server's memory alone.
Wait(r) ==
    /\ request[r].at = "idle"
    /\ RequestGoes(r, IF mem.status = "executing" THEN "probe" ELSE "get")
    /\ UNCHANGED <<rec, job, mcp, worker, cancel, mem, succeeded, lost>>

\* get refreshes the memory from disk; then the pid is probed.
Probe(r) ==
    /\ request[r].at = "probe"
    /\ mem' = rec
    /\ RequestGoes(r, IF DeadPid(rec) THEN "reap" ELSE "get")
    /\ UNCHANGED <<rec, job, mcp, worker, cancel, succeeded, lost>>

\* Mutant of ReapLoad: a terminal record is overwritten.
ReapLoadUnchecked(r) ==
    /\ request[r].at = "reap"
    /\ mem' = Transitioned("failed")
    /\ RequestTakes(r, "reapSave", Transitioned("failed"))
    /\ UNCHANGED <<rec, job, mcp, worker, cancel, succeeded, lost>>

ReapLoad(r) ==
    /\ request[r].at = "reap"
    /\ \/ /\ IsTerminal(rec)
          /\ mem' = rec
          /\ RequestGoes(r, "get")
       \/ /\ ~IsTerminal(rec)
          /\ mem' = Transitioned("failed")
          /\ RequestTakes(r, "reapSave", Transitioned("failed"))
    /\ UNCHANGED <<rec, job, mcp, worker, cancel, succeeded, lost>>

ReapSave(r) ==
    /\ request[r].at = "reapSave"
    /\ Save(request[r].rec)
    /\ RequestGoes(r, "get")
    /\ UNCHANGED <<job, mcp, worker, cancel, mem, succeeded>>

\* Not found or terminal: answer at once.
Get(r) ==
    /\ request[r].at = "get"
    /\ mem' = IF rec = NoRec THEN mem ELSE rec
    /\ RequestGoes(r, IF rec = NoRec \/ IsTerminal(rec) THEN "idle" ELSE "poll")
    /\ UNCHANGED <<rec, job, mcp, worker, cancel, succeeded, lost>>

\* The poll, the broadcast or the final re-read sees a terminal record.
AnswerTerminal(r) ==
    /\ request[r].at = "poll"
    /\ IsTerminal(rec)
    /\ mem' = rec
    /\ RequestGoes(r, "idle")
    /\ UNCHANGED <<rec, job, mcp, worker, cancel, succeeded, lost>>

\* The final re-read does not: {status: "executing", timed_out: true}.
AnswerTimedOut(r) ==
    /\ request[r].at = "poll"
    /\ ~IsTerminal(rec)
    /\ mem' = rec
    /\ RequestGoes(r, "idle")
    /\ UNCHANGED <<rec, job, mcp, worker, cancel, succeeded, lost>>

-----------------------------------------------------------------------------

McpStep(d) ==
    \/ WriteSpec(d) \/ Spawn(d) \/ StampLoad(d) \/ FailLoad(d) \/ McpSave(d)

WorkerStep(d) ==
    \/ ReadSpec(d) \/ GetSlot(d) \/ ExecLoad(d) \/ ExecSave(d)
    \/ Finish(d) \/ EndSave(d) \/ Release(d)

CancelStep(k) == CancelKill(k) \/ CancelLoad(k) \/ CancelSave(k)

RequestStep(r) ==
    \/ Probe(r) \/ ReapLoad(r) \/ ReapSave(r)
    \/ Get(r) \/ AnswerTerminal(r) \/ AnswerTimedOut(r)

Next ==
    \/ \E d \in Dispatches :
        Create(d) \/ McpStep(d) \/ McpDies(d) \/ WorkerStep(d) \/ WorkerDies(d)
    \/ \E k \in Cancels : CancelGet(k) \/ CancelAllList(k) \/ CancelStep(k)
    \/ \E r \in Requests : Wait(r) \/ RequestStep(r)

Spec == Init /\ [][Next]_vars

\* The processes run on, a slot is granted (SlotSemaphore), a session has a
\* turn budget, a wait times out, and somebody keeps asking for the task.
\* Dispatches, cancels and deaths are the environment's.
Fairness ==
    /\ \A d \in Dispatches : WF_vars(McpStep(d)) /\ WF_vars(WorkerStep(d))
    /\ \A k \in Cancels : WF_vars(CancelStep(k))
    /\ \A r \in Requests : WF_vars(Wait(r)) /\ WF_vars(RequestStep(r))

FairSpec == Spec /\ Fairness

-----------------------------------------------------------------------------
(* Properties.                                                             *)

\* The task is terminal and nobody can still act on an older record: no
\* dispatch is to come or under way, no copy waits to be saved, and no worker
\* has yet to claim the task.
Final ==
    /\ IsTerminal(rec)
    /\ \A d \in Dispatches :
        /\ mcp[d].at \in {"fail", "done"}
        /\ worker[d].at \in {"none", "run", "release", "exited"}
    /\ \A k \in Cancels : cancel[k].at # "save"
    /\ \A r \in Requests : request[r].at # "reapSave"

\* What remains of "exactly one terminal transition": once a task is final,
\* no finishing worker, cancel, reaper or poll changes its record again.
FinalKept == [][Final => Final' /\ rec' = rec]_vars

\* A session that runs can be stopped: the record names its worker's pid, so
\* that a cancel kills it, unless a cancel that raced with the dispatch has
\* recorded the end of a task whose worker it could not see, or the claim
\* could not be written.
RunningReachable ==
    \A d \in Dispatches : worker[d].at = "run" =>
        rec.pid = d \/ rec.status = "cancelled" \/ lost

\* An executing task whose worker died does not stay executing, if somebody
\* keeps asking for it and the record can be written.
OrphansReaped == Orphan(rec) ~> (~Orphan(rec) \/ lost)

-----------------------------------------------------------------------------
(* Promises of the source's comments that the code does not keep.          *)

\* registry.rs:8-10: a task reaches a terminal state once, and for good.
TerminalOnce ==
    [][IsTerminal(rec) /\ rec'.of = rec.of => rec'.status = rec.status]_vars

\* worker.rs:13: the terminal status in the record mirrors the session of the
\* task it records.
ResultIsOwn == rec.status = "completed" => rec.of \in succeeded

=============================================================================
