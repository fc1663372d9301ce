------------------------------ MODULE LockFile ------------------------------
(***************************************************************************)
(* An exclusive lockfile with a time-to-live (Locks in state/mod.rs), at   *)
(* the granularity of its file-system calls.  The engine's boot and heal   *)
(* locks and the singleton locks of the status server and the proxy are    *)
(* lockfiles of this kind.                                                 *)
(*                                                                         *)
(* Time is abstracted to one fact per process: whether its latest          *)
(* acquisition is older than the TTL.  One attempt to acquire is assumed   *)
(* to take less than the TTL, and the clock not to go back.  The tombstone *)
(* a stale lock is renamed to is read by no operation and is left out.     *)
(*                                                                         *)
(* Every file-system call may fail: at most MaxFaults calls do.  A process *)
(* whose write fails returns the error and leaves its empty lockfile, for  *)
(* good: whoever reads it gets an error, and neither acquires nor removes. *)
(***************************************************************************)
EXTENDS Naturals

CONSTANTS
    Procs,       \* processes that acquire and release the lock, repeatedly
    CanExpire,   \* whether a lock may get older than its TTL
    MaxFaults,   \* bound: how many file-system calls fail
    None         \* no lockfile

ASSUME LockAssumption ==
    /\ None \notin Procs
    /\ MaxFaults \in Nat
    /\ CanExpire \in BOOLEAN

VARIABLES
    file,        \* the process that created the lockfile, or None
    full,        \* whether the lockfile's content has been written
    expired,     \* processes whose latest acquisition is older than the TTL
    alive,       \* processes that are running
    pc,          \* where each process is in the code
    faults,      \* how many file-system calls have failed
    left,        \* history: the lockfile's creator gave up on it when a call failed
    shaky        \* history: holders that created the lockfile when another running
                 \* process was about to move or remove an earlier one

errorVars == <<faults, left>>
vars == <<file, full, expired, alive, pc, faults, left, shaky>>

Labels == {"idle", "create", "write", "check", "recheck", "rename", "recreate",
           "held", "release", "remove"}

\* The process is past its O_EXCL create, and has not given the lock up.
Acquired == {"write", "held", "release", "remove"}

\* Types; and only a lockfile that exists has content, however its creator,
\* its remover and a process that took it over interleave.
TypeOK ==
    /\ file \in Procs \cup {None}
    /\ full \in BOOLEAN
    /\ full => file # None
    /\ expired \in SUBSET Procs
    /\ alive \in SUBSET Procs
    /\ pc \in [Procs -> Labels]
    /\ faults \in 0 .. MaxFaults
    /\ left \in BOOLEAN
    /\ shaky \in SUBSET Procs

Init ==
    /\ file = None
    /\ full = FALSE
    /\ expired = {}
    /\ alive = Procs
    /\ pc = [p \in Procs |-> "idle"]
    /\ faults = 0
    /\ left = FALSE
    /\ shaky = {}

At(p, l) == pc[p] = l /\ p \in alive

Goto(p, l) == pc' = [pc EXCEPT ![p] = l]

\* The attempt, or the possession, of p is over.
Idle(p) == Goto(p, "idle") /\ shaky' = shaky \ {p}

\* There is no lockfile any more.
Gone == file' = None /\ full' = FALSE /\ left' = FALSE

\* p leaves its lockfile behind, if it is still there.
Leave(p) == left' = (left \/ file = p)

\* One more file-system call fails.
Fault == faults < MaxFaults /\ faults' = faults + 1

\* A call fails, and its error ends the attempt of p.
GivesUp(p) ==
    /\ Fault
    /\ Idle(p)
    /\ UNCHANGED <<file, full, left>>

\* read_lock is an error: the file is there but does not parse.
Unreadable == file # None /\ ~full

\* read_lock gives a lock younger than the TTL.
Fresh == file # None /\ full /\ file \notin expired

\* read_lock gives no lock, or one older than the TTL.
Stale == ~Unreadable /\ ~Fresh

-----------------------------------------------------------------------------
(* acquire                                                                 *)

Start(p) ==
    /\ At(p, "idle")
    /\ Goto(p, "create")
    /\ UNCHANGED <<file, full, expired, alive, errorVars, shaky>>

\* A process other than p is past its last look at the lockfile.
Moving(p) == \E q \in alive \ {p} : pc[q] \in {"rename", "remove"}

\* O_EXCL: succeeds only if there is no file, and leaves an empty one, whose
\* time is the beginning of this attempt.
CreateNew(p) ==
    /\ file = None
    /\ file' = p
    /\ full' = FALSE
    /\ expired' = expired \ {p}
    /\ shaky' = IF Moving(p) THEN shaky \cup {p} ELSE shaky \ {p}
    /\ Goto(p, "write")
    /\ UNCHANGED errorVars

\* Any error of the create is taken for a file that exists.
Create(p) ==
    /\ At(p, "create")
    /\ \/ CreateNew(p)
       \/ /\ \/ file # None /\ UNCHANGED faults
             \/ Fault
          /\ Goto(p, "check")
          /\ UNCHANGED <<file, full, expired, left, shaky>>
       \/ GivesUp(p) /\ UNCHANGED expired
    /\ UNCHANGED alive

\* Through the handle: nothing at the path if the file was renamed meanwhile.
Write(p) ==
    /\ At(p, "write")
    /\ \/ /\ full' = (full \/ file = p)
          /\ Goto(p, "held")
          /\ UNCHANGED <<errorVars, shaky>>
       \/ /\ Fault
          /\ Idle(p)
          /\ Leave(p)
          /\ UNCHANGED full
    /\ UNCHANGED <<file, expired, alive>>

\* HeldBy and a read error both end the attempt.
Check(p) ==
    /\ At(p, "check")
    /\ \/ ~Stale /\ Idle(p) /\ UNCHANGED <<file, full, errorVars>>
       \/ Stale /\ Goto(p, "recheck") /\ UNCHANGED <<file, full, errorVars, shaky>>
       \/ GivesUp(p)
    /\ UNCHANGED <<expired, alive>>

\* Mutant of Recheck: the file is renamed whatever the second read says.
RecheckSkipped(p) ==
    /\ At(p, "recheck")
    /\ Goto(p, "rename")
    /\ UNCHANGED <<file, full, expired, alive, errorVars, shaky>>

Recheck(p) ==
    /\ At(p, "recheck")
    /\ \/ ~Stale /\ Idle(p) /\ UNCHANGED <<file, full, errorVars>>
       \/ Stale /\ Goto(p, "rename") /\ UNCHANGED <<file, full, errorVars, shaky>>
       \/ GivesUp(p)
    /\ UNCHANGED <<expired, alive>>

\* Moves whatever is at the path by now; an error is ignored.
Rename(p) ==
    /\ At(p, "rename")
    /\ \/ Gone /\ UNCHANGED faults
       \/ Fault /\ UNCHANGED <<file, full, left>>
    /\ Goto(p, "recreate")
    /\ UNCHANGED <<expired, alive, shaky>>

Recreate(p) ==
    /\ At(p, "recreate")
    /\ \/ CreateNew(p)
       \/ /\ file # None /\ Idle(p)
          /\ UNCHANGED <<file, full, expired, errorVars>>
       \/ GivesUp(p) /\ UNCHANGED expired
    /\ UNCHANGED alive

-----------------------------------------------------------------------------
(* release: read, compare the pid, remove.                                 *)

StartRelease(p) ==
    /\ At(p, "held")
    /\ Goto(p, "release")
    /\ UNCHANGED <<file, full, expired, alive, errorVars, shaky>>

\* Foreign, NotHeld and a read error leave the file alone; the callers ignore
\* them, as they ignore a failed removal: the lock stays until its TTL is over.
CheckOwner(p) ==
    /\ At(p, "release")
    /\ \/ file = p /\ full /\ Goto(p, "remove") /\ UNCHANGED <<errorVars, shaky>>
       \/ (file # p \/ ~full) /\ Idle(p) /\ UNCHANGED errorVars
       \/ Fault /\ Idle(p) /\ Leave(p)
    /\ UNCHANGED <<file, full, expired, alive>>

\* Mutant of Remove: the file stays where it is.
RemoveNothing(p) ==
    /\ At(p, "remove")
    /\ Idle(p)
    /\ UNCHANGED <<file, full, expired, alive, errorVars>>

Remove(p) ==
    /\ At(p, "remove")
    /\ \/ Gone /\ UNCHANGED faults
       \/ Fault /\ Leave(p) /\ UNCHANGED <<file, full>>
    /\ Idle(p)
    /\ UNCHANGED <<expired, alive>>

-----------------------------------------------------------------------------

\* The TTL passes since p began the attempt that acquired the lock.
Expire(p) ==
    /\ CanExpire
    /\ pc[p] \in Acquired \/ file = p
    /\ p \notin expired
    /\ expired' = expired \cup {p}
    /\ UNCHANGED <<file, full, alive, pc, errorVars, shaky>>

\* The process exits or is killed, wherever it is; nobody removes its lockfile.
Crash(p) ==
    /\ p \in alive
    /\ alive' = alive \ {p}
    /\ Idle(p)
    /\ UNCHANGED <<file, full, expired, errorVars>>

AcquireStep(p) ==
    \/ Create(p) \/ Write(p) \/ Check(p) \/ Recheck(p) \/ Rename(p) \/ Recreate(p)

ReleaseStep(p) == StartRelease(p) \/ CheckOwner(p) \/ Remove(p)

Step(p) == Start(p) \/ AcquireStep(p) \/ ReleaseStep(p)

Next == \E p \in Procs : Step(p) \/ Expire(p) \/ Crash(p)

Spec == Init /\ [][Next]_vars

-----------------------------------------------------------------------------
(* Properties.                                                             *)

\* The lockfile of a live process belongs to an acquisition that is not over:
\* no release, however it raced, leaves a live process's lock behind.  Only a
\* failed call does: an empty lockfile, whose write failed, or a full one, whose
\* release failed.
LockOwned ==
    file # None /\ file \in alive =>
        \/ pc[file] \in Acquired /\ (full <=> pc[file] # "write")
        \/ pc[file] \notin Acquired /\ left

\* Running processes that hold the lock, as far as they can tell.
Holders == {p \in alive : pc[p] \in Acquired}

\* Exclusion, as far as the code has it: of two processes that hold the lock at
\* once, one is past its TTL, or took the lock when another process had already
\* decided, on an older look at the path, to move or remove what is there.
HeldOnce ==
    \A p, q \in Holders : p = q \/ {p, q} \cap (expired \cup shaky) # {}

\* The lock at the path is readable, within its TTL, its holder runs, and no
\* other process is about to move or remove the file.
Settled ==
    /\ Fresh /\ file \in alive
    /\ \A q \in Procs \ {file} : q \in alive => pc[q] \notin {"rename", "remove"}

\* What remains of exclusion: a settled lock stays settled until its holder
\* removes it, dies, or outlives the TTL.
SettledLockKept ==
    [][Settled => \/ file' = file /\ Settled'
                  \/ pc[file] = "remove" /\ pc'[file] = "idle"
                  \/ file \notin alive' \/ file \in expired']_vars

=============================================================================
