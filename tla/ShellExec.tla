----------------------------- MODULE ShellExec -----------------------------
(***************************************************************************)
(* One call of the shell tool (tools/shell.rs: execute, capture_capped):   *)
(* the command and the jobs it starts, the two pipes with their readers,   *)
(* the deadline, and the kill of the process group.                        *)
(*                                                                         *)
(* Bytes are counted: what a reader keeps is always a prefix of what was   *)
(* written.  The end of a pipe is read when it is empty and no process     *)
(* that may write to it is left.                                           *)
(***************************************************************************)
EXTENDS Naturals

CONSTANTS
    Main,        \* the process of bash -c
    Jobs,        \* background jobs it may start in its own process group
    Detached,    \* jobs it may start in another process group
    Cap,         \* MAX_CAPTURE_BYTES
    PipeSize,    \* bytes a pipe holds
    MaxBytes     \* bound on the bytes written to one pipe

ShellAssumption ==
    /\ Cap \in Nat \ {0}
    /\ PipeSize \in Nat \ {0}
    /\ MaxBytes \in Nat
    /\ Main \notin Jobs \cup Detached
    /\ Jobs \cap Detached = {}

Procs == {Main} \cup Jobs \cup Detached
Group == {Main} \cup Jobs
Streams == {"stdout", "stderr"}

VARIABLES
    pc,          \* the executor: polls, kills, joins its readers, answers
    proc,        \* the state of each process of the command
    late,        \* the deadline has passed
    pipe,        \* bytes in each pipe
    written,     \* bytes written to each pipe so far (history)
    kept,        \* bytes each reader has kept
    cut,         \* whether each reader has dropped bytes
    reading,     \* streams whose reader has not seen the end
    code         \* the exit code of the answer

vars == <<pc, proc, late, pipe, written, kept, cut, reading, code>>

procVars == <<proc, pipe, written>>
readVars == <<kept, cut, reading>>

\* Types, and no reader keeps more than the cap.
TypeOK ==
    /\ pc \in {"poll", "kill", "join", "done", "error"}
    /\ proc \in [Procs -> {"unborn", "running", "exited", "failed", "killed"}]
    /\ late \in BOOLEAN
    /\ pipe \in [Streams -> 0..PipeSize]
    /\ written \in [Streams -> 0..MaxBytes]
    /\ kept \in [Streams -> 0..Cap]
    /\ cut \in [Streams -> BOOLEAN]
    /\ reading \subseteq Streams
    /\ code \in {"none", "zero", "own", "one", "timeout"}

\* The spawn has succeeded; a refusal or a failed spawn runs nothing.
Init ==
    /\ pc = "poll"
    /\ proc = [p \in Procs |-> IF p = Main THEN "running" ELSE "unborn"]
    /\ late = FALSE
    /\ pipe = [s \in Streams |-> 0]
    /\ written = [s \in Streams |-> 0]
    /\ kept = [s \in Streams |-> 0]
    /\ cut = [s \in Streams |-> FALSE]
    /\ reading = Streams
    /\ code = "none"

Running(p) == proc[p] = "running"

-----------------------------------------------------------------------------
(* The command                                                             *)

Fork(p) ==
    /\ \E q \in Group : Running(q)
    /\ proc[p] = "unborn"
    /\ proc' = [proc EXCEPT ![p] = "running"]
    /\ UNCHANGED <<pc, late, pipe, written, readVars, code>>

\* A full pipe blocks the writer.
Write(p, s, n) ==
    /\ Running(p)
    /\ written[s] + n <= MaxBytes
    /\ pipe[s] + n <= PipeSize
    /\ pipe' = [pipe EXCEPT ![s] = @ + n]
    /\ written' = [written EXCEPT ![s] = @ + n]
    /\ UNCHANGED <<pc, proc, late, readVars, code>>

\* Code 0, another code, or a signal.
Exit(p) ==
    /\ Running(p)
    /\ \E end \in IF p = Main THEN {"exited", "failed", "killed"} ELSE {"exited"} :
          proc' = [proc EXCEPT ![p] = end]
    /\ UNCHANGED <<pc, late, pipe, written, readVars, code>>

-----------------------------------------------------------------------------
(* The readers                                                             *)

\* What fits is kept; the rest is discarded and marks the stream.
Take(s, n) ==
    /\ kept' = [kept EXCEPT ![s] = IF @ + n > Cap THEN Cap ELSE @ + n]
    /\ cut' = [cut EXCEPT ![s] = @ \/ kept[s] + n > Cap]

Drain(s) ==
    /\ s \in reading
    /\ \E n \in 1..pipe[s] :
          /\ pipe' = [pipe EXCEPT ![s] = @ - n]
          /\ Take(s, n)
    /\ UNCHANGED <<pc, proc, late, written, reading, code>>

\* A process holds its ends of both pipes for as long as it runs.
ReadEnd(s) ==
    /\ s \in reading
    /\ pipe[s] = 0
    /\ ~\E p \in Procs : Running(p)
    /\ reading' = reading \ {s}
    /\ UNCHANGED <<pc, procVars, late, kept, cut, code>>

-----------------------------------------------------------------------------
(* The executor                                                            *)

Deadline ==
    /\ ~late
    /\ late' = TRUE
    /\ UNCHANGED <<pc, procVars, readVars, code>>

\* Mutant of Poll: the deadline is not looked at.
PollPatient ==
    /\ pc = "poll"
    /\ ~Running(Main)
    /\ code' = "own"
    /\ pc' = "join"
    /\ UNCHANGED <<procVars, late, readVars>>

\* try_wait: the command has ended, or its deadline has passed.
Poll ==
    /\ pc = "poll"
    /\ \/ /\ ~Running(Main)
          /\ code' = CASE proc[Main] = "exited" -> "zero"
                       [] proc[Main] = "failed" -> "own"
                       [] proc[Main] = "killed" -> "one"
          /\ pc' = "join"
       \/ /\ Running(Main)
          /\ late
          /\ pc' = "kill"
          /\ UNCHANGED code
    /\ UNCHANGED <<procVars, late, readVars>>

\* An error of try_wait is returned at once: the command goes on.
PollFails ==
    /\ pc = "poll"
    /\ pc' = "error"
    /\ UNCHANGED <<procVars, late, readVars, code>>

\* killpg and waitpid, also when the command ended after the last poll.
KillGroup ==
    /\ pc = "kill"
    /\ proc' = [p \in Procs |-> IF p \in Group /\ Running(p) THEN "killed" ELSE proc[p]]
    /\ code' = "timeout"
    /\ pc' = "join"
    /\ UNCHANGED <<pipe, written, late, readVars>>

\* Both readers are joined, for as long as they take.
Join ==
    /\ pc = "join"
    /\ reading = {}
    /\ pc' = "done"
    /\ UNCHANGED <<procVars, late, readVars, code>>

Executor == Poll \/ KillGroup \/ Join

Command ==
    \/ \E p \in Procs : Fork(p) \/ Exit(p)
    \/ \E p \in Procs, s \in Streams, n \in 1..PipeSize : Write(p, s, n)

Reader(s) == Drain(s) \/ ReadEnd(s)

\* An answered call may rest.
Answered ==
    /\ pc \in {"done", "error"}
    /\ UNCHANGED vars

Next ==
    \/ Command
    \/ \E s \in Streams : Reader(s)
    \/ Deadline
    \/ Executor
    \/ PollFails
    \/ Answered

\* The runtime polls the executor and its readers; time passes.  The command
\* owes nothing: a job may run for ever.
Spec ==
    /\ Init
    /\ [][Next]_vars
    /\ WF_vars(Executor)
    /\ \A s \in Streams : WF_vars(Reader(s))
    /\ WF_vars(Deadline)

-----------------------------------------------------------------------------
(* Properties                                                              *)

Least(a, b) == IF a < b THEN a ELSE b

\* The answer holds all that was written up to the cap, and says that it was
\* cut exactly when a byte of either stream is missing.
OutputExact ==
    pc = "done" =>
        \A s \in Streams :
            /\ kept[s] = Least(Cap, written[s])
            /\ cut[s] <=> kept[s] < written[s]

\* From the kill of a timeout on nothing of the command's process group runs, and
\* nothing can be started by it.
GroupGone == code = "timeout" => ~\E p \in Group : Running(p)

\* A command that starts no job of its own is answered, by its end or by its
\* deadline, however much it writes.
LoneReturns == (\A p \in Jobs \cup Detached : proc[p] = "unborn")
    ~> (pc \in {"done", "error"} \/ \E p \in Jobs \cup Detached : proc[p] # "unborn")

\* No writer is blocked for ever by its own output: room returns to a full pipe.
RoomReturns ==
    \A s \in Streams : pipe[s] = PipeSize /\ s \in reading ~> pipe[s] < PipeSize
=============================================================================
