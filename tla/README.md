# A verification project for Anser

Anser (the `castor` binary, crate at `src/src`) lets a cloud model delegate work to a
local one. An MCP client calls the `coworker` tool; the program starts a detached worker
process, which waits for a task slot, runs a session of the agent loop against a local
inference engine, and mirrors the outcome into a record on disk. Another process, the
status server, answers waits for that record; a third, the proxy, stands between the
session and the engine. The processes share nothing but the state directory
`~/.castor/`, and most of what is hard about the program happens there.

This directory holds TLA+ models of the program's parts, the TLC instances that check
them, and theorems with proofs that TLAPS checks. Paths below are relative to `src/src`.

## 1 Inventory

| part | state | operations | talks to |
|---|---|---|---|
| Task-slot semaphore, `task/semaphore.rs` | lease files `tasks/slots/slot_N.json`; a wait-queue per process | `acquire`, `release`, `clear_reclaimable` | other processes through the files, callers of its process through the queue |
| Task registry, `task/registry.rs` | `tasks/task_N.json`; a cache per process | `create`, `update`, `transition`, `get`, `reap_orphans`, `extend_budget` | every process that touches the record |
| MCP server, `mcp/mod.rs` | none (each call builds a registry) | `coworker`; `task`: list, status, cancel, cancel_all, extend; `server` | registry, spawned worker, engine lifecycle |
| Worker, `mcp/worker.rs` | job specification, slot handle, extension bridge | `run_job_with_engine` | semaphore, registry, session |
| Status server, `task/wait.rs` | registry with its cache and broadcast | wait, status; being brought up | registry, lockfile |
| Lockfiles, `state/mod.rs` | `locks/*.lock` | `Locks::acquire`, `release` | boot, heal, status server, proxy |
| Engine lifecycle, `engine/lifecycle.rs` | child handle, wedge counter | boot, stop, check_wedge, heal | lockfiles, engine process |
| Engine client, `engine/provider.rs` | a partial stream | `chat`, `consume_stream` | proxy, engine |
| Proxy and sanitizer, `proxy/` | buffers of one stream | forward, sanitize | engine, client |
| Session runner, `runner/` | messages, turn count, event ledger | `run_session` | engine, tools, loop detector |
| Loop detector, `runner/loop_detector.rs` | window of action hashes | `record` | session runner |
| Tools, `tools/` | child processes, files | shell, file, syntax-tree, web, extensions; the policy and the path sandbox before them | operating system |
| Delegation gate, `mcp/dgi.rs` | none | the verdict on a prompt | MCP server |
| Pruner, `pruner.rs` | a plan | `plan`, `apply` | deletes what the others keep on disk |
| Evolution, `evo/` | `lineage.json`, the artifact | `load`, `add_node`, `save`, `commit_artifact`, watchdog | file system |
| Evaluation harness, `evals/` | tasks and recorded traces | load, replay, score, outcome | session runner |
| Telemetry, configuration, skills, command line | none of their own | statistics, layers of configuration, index of skills, the subcommands | everything they read |
| npm launcher, scripts, data | | | outside the program |

What makes each part correct, in a line: a slot of a live process is never taken away,
and a slot of a dead one comes back; a task ends once and for good, and its record tells
of its own session; a lock has one holder, as far as its steps allow; a failed boot leaves no engine and no lock
behind, and a heal is not advised before the threshold; a session ends, within its
budget, with an honest status and a ledger that can be replayed; a loop is stopped where
there is one; what a stream is taken to say does not depend on where its chunks end; a
tool call returns, and reports what it did; a file several calls edit stays whole; the
pruner takes the oldest and nothing in use; the lineage loses no commit; a verdict or a
report follows from its input and from nothing else.

What is hard about them: all locks inside the program are private to a process, so every
read-modify-write of a file races with other processes; any process may be killed
between two file-system calls; wake-ups cross no process boundary; leases, locks and
records outlive their writers; many results of file-system calls are ignored; ids restart at 1 with every call; a new EngineLifecycle
is built for every call; a stream may be cut within a character; a child process may
leave its pipes to another. `PROJECT.json` lists the hazards at their lines.

## 2 Modules

State machines:

| module | models | proofs |
|---|---|---|
| `SlotSemaphore` | the semaphore, one step per file-system call or queue operation | `SessionRunner_proofs` |
| `TaskLifecycle` | one task id: dispatcher, workers, cancels and status-server requests around one record | `Parts_proofs` |
| `LockFile` | a lockfile with its time-to-live, one step per file-system call | `SingletonServer_proofs` |
| `SingletonServer` | the bring-up of a status server or proxy, over `LockFile` | `SingletonServer_proofs` |
| `EngineLifecycle` | boot, canary, wedge counter, heal and stop by several processes, and the engine processes | `EngineLifecycle_proofs` |
| `SessionRunner` | `run_session` and the end of the worker, with `LoopDetector` inside | `SessionRunner_proofs` |
| `LoopDetector` | the sliding window | `Streams_proofs` |
| `LineStream` | what the proxy's stream promises: line by line, up to a line that ends it | `Streams_proofs` |
| `SseSanitizer` | the stream as it is done: chunks of bytes, reassembly, buffering | `Streams_proofs` |
| `ChatStream` | the engine client's reader behind the sanitizer | `Streams_proofs` |
| `RepetitionDetector`, `RepetitionTrace` | the circuit breaker of the stream; it beside the whole text | `Streams_proofs` |
| `Streams` | the loop detector beside the whole list of actions, the client and the repetition detector, side by side | `Streams_proofs` |
| `ShellExec` | one shell call: processes, pipes, readers, deadline, kill, join | `Parts_proofs` |
| `FileWrites` | calls that change one file, with deaths | `Parts_proofs` |
| `Extensions` | the extension servers of one session | `Parts_proofs` |
| `Lineage` | overlapping runs that load, append and save the lineage | `Parts_proofs` |
| `Parts` | the four above side by side | `Parts_proofs` |
| `Pruner` | a clean beside the dispatcher and the workers | `Pruner_proofs` |

Functions of one input:

| module | models | proofs |
|---|---|---|
| `CommandPolicy`, `PathSandbox` | the shell policy; the workspace root and the containment of a path | |
| `FileTools`, `WebTools`, `ToolDispatch` | what the tools compute; the search chain and the fetch; schemas and routing of calls | `Decisions_proofs` |
| `Delegation`, `McpGateway` | the gate on a prompt; the handlers of the MCP tools, one call alone | `Decisions_proofs` |
| `EngineClient` | the wire form of a conversation and its replies | `Decisions_proofs` |
| `ProxyRequest` | one request through the proxy | |
| `Configuration`, `Telemetry`, `Evals`, `CommandLine` | layers, install and skills; statistics and dates; the harness; the subcommands | `Records_proofs` |
| `Decisions` | one question, asked of one of these for an input without a bound of its own | both |
| `TextDecisions` | the questions on texts, paths and trees, whose answers are computed by recursion | |

`MCSlotSemaphore`, `MCPruner`, `MCParts` and `MCDecisions` give constants their values; the other
configurations need no module for that. `Parts` puts four small machines side by side for any
values of their constants, of which one runs in a behaviour, and `Streams` does so with the three
of the streams and the detectors; `MCParts` puts the two together: their questions are
independent, and one run asks them all. `Decisions` is a machine that asks one part one question:
the inputs that have no bound in the program are constants, sets of any inputs of their type
(`ToolInputs`, `RecordInputs`), the others are enumerated, the answer is a variable, and the
property relates the two. `TextDecisions` extends it with the policy, the sandbox, edits and the
proxy, and `MCDecisions` asks the questions of both. `SessionRunner_proofs` and `Parts_proofs`
each hold the proofs of two machines that do not meet: the session and the slot it runs in, the
task's record and the parts.

How they compose. `SessionRunner` takes the loop detector as an instance, `ChatStream`
takes the sanitizer and the sanitizer takes the repetition detector, so the engine's
bytes go through the whole path to a completion. `SingletonServer` is built from the
actions of `LockFile`, so every step of the composition is a step of the lock or leaves
it alone, and what is proved of the lock holds in it. `SseSanitizer` is shown to
implement `LineStream` (`LinewiseStream`), under the mapping that gives the abstract
stream the decoded characters of the whole lines handled so far. `TaskLifecycle` has the
semaphore as a step that grants a slot in the end (what `EveryAcquireReturns` checks)
and the session as a choice of its outcome (the statuses `SessionRunner` checks).
`Pruner` sees of a task what the pruner reads: record, job specification, lease, ledger.

How state and actions correspond to the code, where it is not one to one:

**SlotSemaphore.** `file[i]` and `written` are the lease file of a slot: who created it,
and whether it has content yet. `at[c]` is a caller's place in `acquire` (scan for
aliens, claim, inspect, reclaim, recreate, write; enqueue, wait), `release` and the
sweep. `Crash` kills a process anywhere. A create, a write, a rename or a removal may fail
(`Fault`): the code ignores the error or takes it for an occupied slot, and `torn` and
`stuck` record the callers whose lease was not written, or not removed. Reading a lease and probing its owner are one
step, for the reason the module's header gives.

**TaskLifecycle.** A registry operation loads the record, changes the copy, and renames
the new file into place after it has dropped its (private) lock: load and save are two
steps, and the copy between them is part of the actor's state. `lost` is a history
variable: a write of the record has failed.

**LockFile, SingletonServer.** Time is reduced to "this acquisition is older than the
TTL". Any file-system call may fail; `left` records that the lockfile's creator gave up on
it when one did, `shaky` the holders that took the lock while another running process was
past its last look at an earlier one and about to move or remove what is there. A
launcher takes the lock, probes, spawns, releases; the spawned server takes the same lock
for itself and binds the port. A port that is served may fail to answer the probe in its
half second (`blind`). A new session may begin in place of an old one.

**EngineLifecycle.** A caller is a process with one EngineLifecycle at a time; `child`
is the handle it keeps, `launched` the local of `boot_inner`. The boot lock is taken and
given back as in the code: exclusive create, two looks, rename, second create, and at the
end a look and a removal; an absent lock counts as stale. `contested` has the callers
that took it while another was between its look and its rename or removal. The two looks
are one step, which only the second of them decides. The heal lock, on which nothing but
refusals depends, is taken and given back in one step each, with everything the separate
calls could make of it allowed. `Left` is a lock nobody will give back: its holder died,
or its write or removal failed. `incr` is a read and a store. Engines load, hang, recover
and end at any time, and one that finds the port bound ends. The poll loop is its last
canary: either it succeeds or the deadline has come, whatever the engine does before the
kill.

**SessionRunner.** One action per stage of `run_session`; the completion is any
combination of tool calls, blank or real text and finish reason, or an error. The
ledger's append may fail wherever the code appends.

**Streams.** A character of two bytes can be cut in two; everything else is a whole
piece. A frame with a delta, a tool-call fragment, the terminal line, an error frame and
a line that is not JSON are the kinds the code tells apart.

**ShellExec.** Bytes are counted; the end of a pipe is seen when it is empty and no
process that may write to it is left. Jobs die with the process group, daemons do not.

**FileWrites.** Inodes, a name that links to one, temporary files; a text is the set of
edits it shows and whether it is whole.

**Pruner.** A clean is six steps: the scan of the sessions, the records with the three
gates, records and leases again, the fingerprint, the comparison, and the deletions one
by one. `late` records the tasks dispatched when the clean can no longer notice.

## 3 What is checked

### Runs without an error

* **slots** (`SlotSemaphore_shared.cfg`): two callers of one process and an alien that
  may sweep, two slots, crashes, a handle that may be released twice, and one file-system
  call that fails. A lease of a live process is its caller's, and readable from the return
  of `acquire`, but for a write or a removal that failed (`LeaseOwned`); a settled lease
  stays until it is given up (`SettledLeaseKept`); whoever has not scanned a slot with a
  live alien's lease does not get past it (`AlienBlocks`); no stale queue entry swallows a
  wake-up (`QueueSound`); every acquire of a surviving process returns, unless a lease is
  left whose removal failed (`EveryAcquireReturns`).
  Two callers in one process are the least that compete in a queue, two slots the least
  in which a scan and a claim look at different slots; one failing call is enough for
  each of the exceptions.
* **tasks** (`TaskLifecycle_safe.cfg`): one dispatch, two cancels, one request, writes
  that fail, processes that die. Once a task is terminal and nobody holds an older copy,
  its record never changes (`FinalKept`); a running session can be killed through its
  record (`RunningReachable`); a dead worker's task does not stay `executing` while
  somebody asks (`OrphansReaped`).
* **installation** (`SingletonServer_safe.cfg`): two launchers and one server, all of
  which may die, and one file-system call that fails: the least in which a dead server's
  lock is taken over while another session starts. A lock is left behind by a live process
  only where a call failed (`LockOwned`); two hold it at once only if one is past its TTL
  or took it under an earlier look of another (`HeldOnce`); a session that begins while
  the server serves starts another only if the server has lost its lock in one of these
  ways and the probe of its port got no answer (`LateSpawnsNothing`); a settled lock stays
  with its holder (`SettledLockKept`); launchers finish, and a dead server's lock goes
  (`InstallationLive`). One server is enough to see a second one wanted, which is what
  `LateSpawnsNothing` is about; it may die and be spawned again, but a second beside it is
  not in this run, as with it the liveness takes too long. The safety properties are
  proved for any number of servers.
* **engine** (`EngineLifecycle_safe.cfg`): two processes, two engine processes, two
  configurations (a launch command and no stop command; an engine started by hand and a
  stop command that works, fails or hangs), a threshold of 2, and two failed canaries of
  the wedge check or one lock left behind. A process that boots has the boot lock, but
  where another was reaching for it (`BootSerial`); a timed-out boot leaves none of its
  engines behind, and no wedge is reported before its canaries failed (`ReportsTrue`); no
  lock outlives its call, unless a call failed or a process died (`LocksReturned`); every
  call returns, unless it waits for a stop command (`CallReturns`). With a threshold of 2
  two processes can each hold a read of the counter while the other stores.
* **session** (`SessionRunner_safe.cfg`): budgets of 1 and (for 0, the default) 4, which is
  above, at and below the landing window of 2 and leaves room for an advised loop; up to two
  calls in a completion; engine and ledger errors. A ceiling is never relabelled
  (`CeilingKept`), "completed" means done (`CompletedIsDone`), results follow their calls
  in the ledger (`ResultsFollow`), the landing notice and the advisory are there when due
  and not otherwise (`NoticesDue`), and the session ends (`SessionEnds`).
* **pruner** (`Pruner_safe.cfg`): three sessions, one twice as large, at most two of them
  and three bytes kept, ages 0 to 2 against a limit of 1, one task that comes, runs, goes
  and comes again at every point of the clean. The choice is oldest first, meets the
  limits or takes every candidate (`RetentionPolicy`); what is in use stays
  (`ActiveImmunity`). What that property excepts is real: a task dispatched on an old
  session after the clean has read the records and before its fingerprint, or after the
  comparison, can lose the session's directory.
* **parts** (`MCParts.cfg`): every list of nine of three actions against a window of six
  and a threshold of three (`TripsExactly`); seven streams, cut anywhere on their way into
  the proxy and again on their way out of it, and every cut of short texts through the
  repetition detector (`StreamExact`, `LinewiseStream`); a command with one job and one
  daemon, pipes of two bytes, output past the cap; three calls that edit one file and die;
  three extension servers, two of one name (`ToolsSound`, `ToolsReturn`); two evolution
  runs, three commits, a crash while saving (`LineageSound`). Excepted, and real: a file a
  rewrite in place is at or was cut short in, and what others made of what they read of it
  then; an extension that hung in its handshake, of which a shutdown knows nothing; a
  lineage that a crash has cut in the middle of a line, which is refused; a commit lost to a
  run that overlapped.
* **decisions** (`MCDecisions.cfg`): every small input of each function, against what it
  is for: what the tools read, find, edit and report (`ToolsExact`), what becomes of a prompt, a
  call and a request (`RequestsExact`), what is read back from files and how commands exit
  (`RecordsExact`), and what the policy, the sandbox and the proxy make of a text, a path or a
  tree (`TextsExact`). Inputs are complete up to their bounds: texts of three characters,
  directories of three entries, commands wrapped once, messages and ledgers of a few lines. Records that cannot
  be written, ledgers that cannot be read and client files that cannot be merged are among them.

### Runs with a violation

Here TLC finds a behaviour that contradicts what the source says of itself:

* **slots_tenants** `SingleTenant`: scan and claim are separate, so two processes can both pass.
* **task_once** `TerminalOnce`: the dispatcher's stamp of the pid, loaded before, overwrites
  the terminal status of a fast worker.
* **task_own** `ResultIsOwn`: a second dispatch is task_1 again, and its record gets the
  outcome of the first one's session.
* **engine_stop** `StopStops`: `castor server stop` in a new process has no child, reports
  success, and the engine runs on.

### Met while modelling

Visible in the models' steps, and without a run of their own:

* Locks: an `acquire` that finds no lockfile twice renames away the lock somebody has taken
  since (`state/mod.rs:211`), so that two boot at once with nobody dead; a lockfile left
  empty by a crash or by a write that failed (`state/mod.rs:191`, 215) is never reclaimed
  (`state/mod.rs:202`), also when its process lives on; a serving port that does not answer
  within half a second counts as dark (`task/wait.rs:386`); the status lock's 30 s are never renewed, and a spawned server can
  be refused by its own launcher's lock (`task/wait.rs:349`).
* Semaphore: a claimer that saw the empty file of a claim in progress renames away the lease
  written since (`task/semaphore.rs:268`); a write of the lease that fails is ignored, and
  the handle stands for a slot that others take (`task/semaphore.rs:245`), as is a removal
  that fails, which blocks everybody until the process ends (`task/semaphore.rs:376`); a
  create that fails for any reason counts as an occupied slot; a second release of a handle removes the lease of
  another caller of the process (`task/semaphore.rs:367`). A `max_concurrent_tasks` of 0 is
  accepted.
* Tasks: the first wait for an orphan does not reap it (`task/registry.rs:364`); a cancel of
  a terminal task still kills the pid it recorded; extending a lease or budget always ends
  in "not found", as the handler's registry is fresh, and a worker never reads it back
  (`task/registry.rs:398`); the job's test command, timeout and effort are never used.
* Engine: the stop command is awaited without a limit (`engine/lifecycle.rs:222`); `heal` and `check_wedge` are reached from tests only; the `force` of the server
  tool is not read.
* Session: the advisory is never withdrawn, so a later loop of another action stops the
  session unadvised; the closing synthesis is taken blank or at the ceiling as it is
  (`runner/mod.rs:570`), and a loop stop leaves a ledger without a `final` event; the worker
  maps the reasoning ceiling to `completed` (`mcp/worker.rs:178`).
* Streams: a stream that ends without its terminal line or with an error frame is a
  successful partial completion; an unterminated last line is dropped; the reader of the
  engine's client has no timeout; an upstream error after the terminal line still emits an
  error event. The proxy's test for a streaming body compares 15 bytes with literals of 13
  and 14, so it is never true. Text sliced at byte offsets (`proxy/sanitize.rs`, and the cap
  on a tool's output) panics inside a character of several bytes.
* Tools: after a timeout the readers of the shell's pipes are joined without a limit
  (`tools/shell.rs:679`), so a daemon of the command holds the call; overlapping syntax-tree
  matches corrupt the spliced text, and a write of several files that fails midway reports
  a rollback that leaves the torn file; an edit whose replacement has newlines gives a CRLF
  file mixed endings; a tool result that begins with "Error:" is ledgered as an error; the
  extensions' `shutdown_all` is reached from tests only, so a hung server outlives its
  worker; an extension that hangs in its handshake is not killed; two extensions of one name offer one name twice; the links of one search provider
  have no scheme and are not decoded.
* Pruner: a session is closed by events this program does not write, so its sessions are
  never retired (`pruner.rs:328`); a job specification keeps its session busy for as long as
  it is there (`pruner.rs:359`); the size gate counts what the other gates have chosen.
* Records: two runs of `evo run` that overlap lose a commit (`evo/lineage.rs:6`), and a file
  cut by a crash in the save is refused until somebody repairs it (`evo/lineage.rs:95`); a
  ledger with a byte that is no text is dropped whole, where `telemetry.rs:175` speaks of
  lines that are skipped; `install` starts from nothing where a client's file or its
  `mcpServers` is no object, and reports success (`main.rs:387`, 404); cancelling all tasks
  counts those whose record could not be written (`mcp/mod.rs:356`); two
  installs share the name of a temporary file; the statistics read metrics the runner does
  not write; an evaluation task without checks passes.

### Bounds

Deadlock is not checked where the system may come to rest: callers released or dead, the
task over, the calls made, the list at its bound, the session ended. The bounds that cap a
counter are in the guards and are named: `MaxFaults` (file-system calls that fail), `MaxFails`
(canaries that fail in the wedge check), `MaxActions`, `MaxClock`, `MaxCalls`, `MaxCommits`,
`MaxTime`, `MaxBytes`, `MaxFed`, and one lock of the engine left behind (`Mishap`). Sets of processes, callers, slots and sessions do not grow. A handle is
released at most twice, a cancel is given once.

### Fairness

Weak fairness of the steps of processes that are alive: the operating system runs them, and
none of the modelled calls blocks for ever but those that are modelled as blocking (a full
pipe, a hung server).

* A waiter of the semaphore polls on a timer, so its next attempt comes without a wake-up; a
  holder ends its work because a session has a budget.
* A client asks again (`Wait`), which is what makes the reaper look; assumed only for
  `OrphansReaped`.
* The lock's TTL passes (`Age`), and a launcher that was refused is followed by another
  session (`Again`).
* An engine call is a sequence of file-system calls, canaries with timeouts and one wait for
  the stop command, which nothing limits. `CallReturns` assumes the caller's steps, nothing of
  the engines, and nothing of the stop command: a call that waits for it is its exception.
* A shell call's deadline comes (`Deadline`) and its readers run; nothing is assumed of the
  command, its jobs or its daemons. Extension servers owe nothing; the bridge has timeouts.
* The engine and the tools of a session answer in the end. The engine's HTTP client has no
  timeout, so this is an assumption on the engine, and `SessionEnds` is worth as much.

Dispatches, cancels, crashes, deaths of servers and failing writes are never assumed to happen.

## 4 What is proved

For every value of the constants that meets the modules' assumptions (any number of
processes, callers, slots, dispatches, engines, sessions; any budget, window and threshold):

* `SessionRunner_proofs`, of the semaphore: `SlotsTypeOK`, `LeaseOwned`, `QueueSound`,
  `SettledLeaseKept`, `AlienBlocks`. `LeaseOwned` alone is not inductive: a fresh lease must be
  known not to be marked as written already, which is `WrittenExists`, and a caller whose write
  failed to be past it (`TornHeld`). A step either leaves the files alone, removes the file of a
  caller's slot, or creates one; one lemma for each. Any number of calls may fail.
  `QueueSound` rests on a lemma about leaving a queue in the middle.
* `Parts_proofs`, of the background task: `TypeOK`, `FinalKept` and, with one dispatch (`Sole`),
  `RunningReachable`. Every loaded or stamped copy is a whole record, which needs `Created`:
  no actor is past its load while there is no record. `FinalKept` then goes action by action:
  in a final state an actor has nothing left to save. `RunningReachable` needs
  `Copies`: the copies that the dispatcher and the worker are about to save name the worker, a
  cancel's says that it is cancelled, and only a worker that is gone is reaped. With a second
  dispatch of the same id it is false, as the record then is another session's: **task_own**.
* `SingletonServer_proofs`: of the lockfile the type, `LockOwned`, `HeldOnce`, `SettledLockKept`,
  with any number of failing calls. Exclusion rests on `Secure`: a holder within its TTL that
  took the lock with nobody about to move or remove an earlier one has it still, and still
  nobody is, since the only way to a rename is a second look that would find the lock fresh.
  Every step of the composition with the servers is a step of the lockfile or leaves it alone
  (`ServerUsesLock`), so that all of this holds there too. `ServerTypeOK`, and
  `LateSpawnsNothing`: the server has the lock from before its bind for as long as it serves
  (`ServersHold`), so by `HeldOnce` a late launcher has it as well only if the server no longer
  has it to itself (`LateInv`).
* `EngineLifecycle_proofs`: `TypeOK`, `BootSerial`, `LocksReturned`, `ReportsTrue`. The type
  needs `Placed` (a launched engine is known from the poll to the release only, and a heal is
  never between calls). The locks need `Held` (who holds the boot lock is booting, who holds
  the heal lock heals), `Accounted`, and `Alone`: who boots and was not contested has the lock,
  and nobody is reaching for it. What a boot reports needs
  `Own`: the child is the engine launched until it is killed, and what is gone stays gone.
  What a check reports needs `Counted`: the number in the file, and every number that was read
  and not yet stored, plus the increments still to come, is at most the canaries that failed.
  Every other step is `Quiet` about the counter.
* `Streams_proofs`: of the loop detector the type and `TripsExactly`; the invariant is
  `WindowIsEnd`: the window is the end of the list, for any window and threshold. And
  `StreamExact`, for any bytes and texts, cut into any chunks. It is two invariants.
  `SpotIInv`, of the repetition detector: its last character and run are those the text ends in
  (`EndsAt`), and its window is the end of the text's bytes, all of them or at least `Window`
  (`WindowHolds`), so that what the window says of a unit is what the text says (`PeriodOfEnd`).
  `ChatIInv`, of the client: its buffer is the line that is not complete, and what it has made of
  the stream is what the lines say that it has heard, line by line (`Reads`); the stream only
  grows (`Begins`), so that what was read stays right. Both need the folds and flattened sequences
  of the models step by step: `IterSteps` for the folds, `FlattenAppend` and `FlattenCat`.
  And `LinewiseStream`, that the proxy's stream implements `LineStream`: every step is a step of
  the abstract stream or a stutter. What is decoded of a chunk is the beginning of what is
  decoded of all that is to come, since no character is cut where the decoder stops
  (`DecodedOnce`); a line taken from the buffer is the first line of all (`FirstLine`), so that a
  chunk does what some number of lines do, perhaps none (`ChunkPasses`); at the end the buffer
  has no newline left and is the last line (`FinishFlushes`).
* `SessionRunner_proofs`, of the session: `TypeOK`, `CeilingKept`, `CompletedIsDone`, `ResultsFollow`,
  `NoticesDue`. For the first three the invariant says for each label what status and error are
  possible there (`StatusAt`), and that a ceiling event in the ledger means its status has been
  set. For `ResultsFollow` it is `Following`: outside of the tool calls every dispatch has its
  results, and during them the last one lacks exactly those of the calls that are left. For
  `NoticesDue` it is two: `Told` (the notices against the turns left) and `Seen` (the
  detector's window is the end of the tool results in the ledger, and a session stopped as a
  loop has the run of results that made it one).
* `Pruner_proofs`: `TypeOK`, `RetentionPolicy` and `ActiveImmunity`, for any number of cleans
  at once. `RetentionPolicy` says what the three gates choose together, and needs that the bytes
  of a set of sessions add up, whatever order the fold takes them in (`BytesAny`, `BytesAdd`).
  For `ActiveImmunity` the invariant says of every stage of a clean that a planned session has
  no incomplete task and a planned record is not in use, except for tasks the fingerprint will
  show or that came too late (`Sparing`), and that the plan is empty until it is made (`Staged`).
* `Parts_proofs`, of the parts: `ToolsSound` and `LineageSound`, for the four machines of `Parts` side by
  side. A step of the composition is a step or a stutter of each, so each has an invariant of
  its own. The shell's (`ShellInv`) says that a reader has kept what it took from its pipe up to
  the cap, and that one that has seen the end leaves no writer. The file's (`TextInv`, beside
  `PlaceInv` for where each call is) follows a text from the plan to the temporary file to the
  path, and says that once a text was reported as written, a whole file is one that was (`Told`). The
  extensions' (`BridgeInv`) says which servers came up, that the one called is the first that
  lists the name, and how far a shutdown has come. The lineage's (`LineageInv`) says of the file
  and of what every run has in memory that it is a lineage in which each commit's parent is the
  one before it, if that was scored, and none otherwise (`Descent`), and what a run alone has beside the file (`Alone`).
* `Decisions_proofs`: `ToolsExact` and `RequestsExact`, for any inputs of their types. Each machine
  of `Decisions` asks once, so the invariant is the property and the work is in the operators. A
  loop of the code is a fold of the model, and a fold is a recursive function on sets of places of
  which the provers see the equation only: it is first turned into a row of steps, one per place
  (`Walks`, and a lemma ...`Walks` for each fold), and each function then has an invariant along its
  row, by `Induction`. A search keeps the first matches of the files passed and no more than the
  limit, a rewrite's summary counts the files written so far, a cut page ends where its last fence
  is closed; of the gate, `WalkStands` says which file of a list the backward walk has reached and
  what verb governs it (`TargetsAreExact`), and `MoreIsNotLighter` that the files, the targets and
  their subsystems only grow with one mention more, so that no part of the score falls.
* `Records_proofs`: `RecordsExact`, for any files, folders and days. The calendar (its lemmas close
  `Decisions_proofs`) goes by the four quotients of the day in its era (`CenturyOf`,
  `YearInCentury`, `DaysOfEra`): a day has one place among years and months, the next day is
  `DayAfter` (`NextDate`), and a date is read back as the day it came from (`ReadBack`). The index
  of skills grows folder by folder (`IndexGrows`); the assertion on repeated failures is about the
  calls kept of a trace, so `ChoiceGrows` says which steps those are. Of the statistics, a row of
  sums along the lines of a ledger and one along the ledgers give every figure as a sum over a set
  of lines (`CountUp` along one row, `CountAll` along rows of rows), which is what the property
  counts. The tools' tallies are functions on names, and joining them is associative and commutative
  (`JoinedLaws`); so is `Plus` of two statistics, and hence the sum from the first ledger on and the
  sum from the last on meet (`RowsMeet`, `OrderIsFree`).

Where a proof is about all sets, sequences or numbers of a kind, as for the bytes of a set,
the steps of a fold or the first server that lists a name, it is by contradiction from the
least number that fails (`LeastNat`, of the library's well-founded order; `Induction` and
`SeqInduction` say it of the set of the numbers, or the sequences, of which something holds):
the library's induction theorems take an operator as a parameter, which the provers cannot
instantiate.

The constants' assumptions are those the code gives: sizes and limits are numbers, a directory
has finitely many sessions, and processes, files and servers are told apart (two extensions
with the same command line are two members of `Commands`, of one name and the same tools).
That a repeated unit fits into the window as often as it must repeat (`Window` of at least
`u * Repeat`) is what the code's numbers give (32 * 40 against 1500), and without it no repetition
of that unit could be reported; `ByteStreams` and `TextChunks` are sequences of what the machines tell
apart (`Pieces`, `Chars`).
`RunningIsReachable` is stated under `Sole`, as said above.
Of the inputs of `Decisions` the constants are sets of inputs of their types: trees of entries
whose parents are entries (`IsTree`), batches of the outcomes the code tells apart (`IsBatch`), a
fetch limit above its window, evaluation directories not named like the two answers `none` and
`error` of the resolution. Days are natural numbers, as no day before 1970 is written.

Only model-checked are: liveness (`EveryAcquireReturns`, `OrphansReaped`, `InstallationLive`,
`CallReturns`, `SessionEnds`, `ToolsReturn`), for which the prover has no rules; and `TextsExact`.
Most of its functions (`CommandPolicy`, `PathSandbox`, `ProxyRequest`) go down commands, paths and
trees by recursive operators, which the provers cannot read; its edits are folds, and the
replacements they make in a text have no proof yet.

## 5 What is not modelled

Pids are never reused, and a process that is alive is one the probe finds alive. Clocks do
not go back. The contents of prompts, texts and tool results are left out; regular
expressions, parsing of syntax trees, HTTP, HTML and JSON are given by what they find.
Headers and error bodies of the proxy, metrics, money and means are left out, as are the
instance record (nothing writes it), stores of the wedge counter that fail, the formatting of what is printed, and the parsing of
arguments by its library. The synchronous coworker call runs the same session in-process and
has no interleaving of its own. Several task ids in one interleaving are not modelled: ids
collide, which is what `ResultIsOwn` shows for one.

What no property catches, although the models have the step, because it is what the code does: an
extension of a lease that is lost, a reasoning ceiling that becomes a completed task, an engine
that never answers a session, two events glued into one line, a reset of the wedge counter that is
overwritten, a worker that dies while it is queued. The race between the alien scan and the claim
is caught by `SingleTenant` alone; `AlienBlocks` says what one scan does.

The npm launcher and the scripts find, build and start the program from outside; evaluation
tasks and benchmark records are data.

## 6 Where it can go

In this order: an abstract task (queued, executing, ended, once) that `TaskLifecycle` implements for
one dispatch and no racing stamp; of `TextsExact` the edits and splices, whose folds go like those
of `Decisions_proofs`, and then the policy and the sandbox over recursive functions on lengths; two
installations' worth of callers in **engine**, which needs symmetry that liveness forbids.
