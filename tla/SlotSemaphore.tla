---------------------------- MODULE SlotSemaphore ----------------------------
(***************************************************************************)
(* The cross-process task-slot semaphore of task/semaphore.rs, at the      *)
(* granularity of its file-system calls.                                   *)
(*                                                                         *)
(* A slot is a lease file slot_N.json.  A caller is one use of the         *)
(* semaphore: it may sweep (clear_reclaimable), then acquires one slot,    *)
(* works, and releases it.  A caller runs in a process (the code's         *)
(* "tenant", identified by its pid); callers of one process share its      *)
(* in-process wait-queue.  A process may be killed between any two calls.  *)
(*                                                                         *)
(* Reading a lease and probing its owner's pid are one step: the probe is  *)
(* monotone (a dead pid stays dead), and between a lease and its successor *)
(* in the same slot there is a moment with no readable lease, which the    *)
(* code treats like a dead owner.  A pid is never reused.  The tombstone   *)
(* a reclaimer renames a lease to is read by no operation and is left out. *)
(*                                                                         *)
(* The create, the write, the rename and the removals may each fail; the   *)
(* code ignores every one of these errors but the create's, which it takes *)
(* for an occupied slot.  At most MaxFaults calls fail.                    *)
(***************************************************************************)
EXTENDS Naturals, Sequences, SequencesExt

CONSTANTS
    Callers,     \* uses of the semaphore: one acquire and its release
    Procs,       \* operating-system processes, the tenants
    ProcOf,      \* the process each caller runs in
    MaxSlots,    \* capacity, clamped to at least 1 by the constructor
    Sweepers,    \* callers that may run clear_reclaimable before acquiring
    CanRelease2, \* callers that may release their handle a second time
    MaxFaults,   \* bound: how many file-system calls fail
    None         \* no file at a slot's path

ASSUME SemaphoreAssumption ==
    /\ ProcOf \in [Callers -> Procs]
    /\ MaxSlots \in Nat \ {0}
    /\ Sweepers \subseteq Callers
    /\ CanRelease2 \subseteq Callers
    /\ MaxFaults \in Nat
    /\ None \notin Callers

Slots == 0 .. MaxSlots - 1

VARIABLES
    file,        \* file[i]: the caller that created the file at slot i's path
    written,     \* slots whose file holds a complete lease, not an empty file
    alive,       \* processes that are running
    at,          \* where each caller is in the code
    idx,         \* the slot each caller is looking at or holds
    queue,       \* each process's FIFO queue of waiting callers
    faults,      \* how many file-system calls have failed
    torn,        \* history: callers whose write of their lease failed
    stuck        \* history: callers whose removal of their lease failed

errorVars == <<faults, torn, stuck>>
slotVars == <<file, written, alive, at, idx, queue, faults, torn, stuck>>

\* A created file is "written" by its creator's "write" step; a caller in one
\* of the Handle states has, or is about to get, a SlotLease for idx[c].
Handle == {"write", "held", "release", "unlink", "wake", "done"}
SlotLabels == {"idle", "sweep", "sweepRemove", "scan", "claim", "inspect",
           "reclaim", "recreate", "enqueue", "wait"} \cup Handle

SlotsTypeOK ==
    /\ file \in [Slots -> Callers \cup {None}]
    /\ written \in SUBSET Slots
    /\ alive \in SUBSET Procs
    /\ at \in [Callers -> SlotLabels]
    /\ idx \in [Callers -> Slots]
    /\ queue \in [Procs -> Seq(Callers)]
    /\ faults \in 0 .. MaxFaults
    /\ torn \in SUBSET Callers
    /\ stuck \in SUBSET Callers

SlotsInit ==
    /\ file = [i \in Slots |-> None]
    /\ written = {}
    /\ alive = Procs
    /\ at = [c \in Callers |-> "idle"]
    /\ idx = [c \in Callers |-> 0]
    /\ queue = [p \in Procs |-> <<>>]
    /\ faults = 0
    /\ torn = {}
    /\ stuck = {}

-----------------------------------------------------------------------------
(* What a reader of a slot sees.                                           *)

\* read_lease returns Some: the file is there and parses.
Readable(i) == file[i] # None /\ i \in written

\* The tenant recorded in slot i's lease, when it is readable.
Tenant(i) == ProcOf[file[i]]

\* Mutant of LiveLease: no pid probe, every readable lease counts as live.
LiveLeaseUnprobed(i) == Readable(i)

\* lease_reclaimable is its negation: absent, empty, or owned by a dead process.
LiveLease(i) == Readable(i) /\ Tenant(i) \in alive

Reclaimable(i) == ~LiveLease(i)

\* Slot i holds the lease of a live process other than p.
AlienLease(p, i) == LiveLease(i) /\ Tenant(i) # p

\* c executes: its process runs and c is at label l.
At(c, l) == at[c] = l /\ ProcOf[c] \in alive

Goto(c, l) == at' = [at EXCEPT ![c] = l]

\* One more file-system call fails.
Fault == faults < MaxFaults /\ faults' = faults + 1

\* Mutant of NextSlot: the loop runs over 0..=max_slots.
NextSlotInclusive(c, l, end) ==
    \/ /\ idx[c] + 1 \in 0 .. MaxSlots
       /\ idx' = [idx EXCEPT ![c] = idx[c] + 1]
       /\ Goto(c, l)
    \/ /\ idx[c] + 1 \notin 0 .. MaxSlots
       /\ idx' = [idx EXCEPT ![c] = 0]
       /\ Goto(c, end)

\* c goes on to the next slot at label l, or past the last slot to label end.
NextSlot(c, l, end) ==
    \/ /\ idx[c] + 1 \in Slots
       /\ idx' = [idx EXCEPT ![c] = idx[c] + 1]
       /\ Goto(c, l)
    \/ /\ idx[c] + 1 \notin Slots
       /\ idx' = [idx EXCEPT ![c] = 0]
       /\ Goto(c, end)

-----------------------------------------------------------------------------
(* clear_reclaimable: read every lease file, unlink the reclaimable ones.  *)

StartSweep(c) ==
    /\ At(c, "idle")
    /\ c \in Sweepers
    /\ Goto(c, "sweep")
    /\ idx' = [idx EXCEPT ![c] = 0]
    /\ UNCHANGED <<file, written, alive, queue, errorVars>>

SweepRead(c) ==
    /\ At(c, "sweep")
    /\ \/ /\ file[idx[c]] # None /\ Reclaimable(idx[c])
          /\ Goto(c, "sweepRemove")
          /\ UNCHANGED idx
       \/ /\ file[idx[c]] = None \/ ~Reclaimable(idx[c])
          /\ NextSlot(c, "sweep", "idle")
    /\ UNCHANGED <<file, written, alive, queue, errorVars>>

\* Whatever file is at slot i's path goes away.
Unlink(i) ==
    /\ file' = [file EXCEPT ![i] = None]
    /\ written' = written \ {i}
    /\ UNCHANGED errorVars

\* The same, where the result is ignored and the call may fail.
TryUnlink(i) ==
    \/ Unlink(i)
    \/ Fault /\ UNCHANGED <<file, written, torn, stuck>>

SweepRemove(c) ==
    /\ At(c, "sweepRemove")
    /\ TryUnlink(idx[c])
    /\ NextSlot(c, "sweep", "idle")
    /\ UNCHANGED <<alive, queue>>

-----------------------------------------------------------------------------
(* acquire: scan for an alien tenant, then try to claim each slot in order; *)
(* if neither succeeds, queue up and wait for a wake-up or the poll timer.  *)

StartAcquire(c) ==
    /\ At(c, "idle")
    /\ Goto(c, "scan")
    /\ idx' = [idx EXCEPT ![c] = 0]
    /\ UNCHANGED <<file, written, alive, queue, errorVars>>

\* Mutant of Scan: only the first slot is looked at.
ScanFirst(c) ==
    /\ At(c, "scan")
    /\ Goto(c, IF AlienLease(ProcOf[c], idx[c]) THEN "enqueue" ELSE "claim")
    /\ UNCHANGED <<file, written, alive, idx, queue, errorVars>>

\* One iteration of alien_tenant_active.
Scan(c) ==
    /\ At(c, "scan")
    /\ \/ /\ AlienLease(ProcOf[c], idx[c])
          /\ Goto(c, "enqueue")
          /\ UNCHANGED idx
       \/ /\ ~AlienLease(ProcOf[c], idx[c])
          /\ NextSlot(c, "scan", "claim")
    /\ UNCHANGED <<file, written, alive, queue, errorVars>>

\* The O_EXCL create: it succeeds only if no file is at the path, and leaves
\* an empty file, which the "write" step fills.
Create(c) ==
    /\ file[idx[c]] = None
    /\ file' = [file EXCEPT ![idx[c]] = c]
    /\ Goto(c, "write")
    /\ UNCHANGED <<written, idx, errorVars>>

\* A create that fails although no file is there: the slot counts as occupied.
CreateFails(c) ==
    /\ Fault
    /\ NextSlot(c, "claim", "enqueue")
    /\ UNCHANGED <<file, written, torn, stuck>>

TryClaim(c) ==
    /\ At(c, "claim")
    /\ \/ Create(c)
       \/ CreateFails(c)
       \/ /\ file[idx[c]] # None
          /\ Goto(c, "inspect")
          /\ UNCHANGED <<file, written, idx, errorVars>>
    /\ UNCHANGED <<alive, queue>>

\* The path existed: go and reclaim the lease, or treat the slot as occupied.
Inspect(c) ==
    /\ At(c, "inspect")
    /\ \/ /\ Reclaimable(idx[c])
          /\ Goto(c, "reclaim")
          /\ UNCHANGED idx
       \/ /\ ~Reclaimable(idx[c])
          /\ NextSlot(c, "claim", "enqueue")
    /\ UNCHANGED <<file, written, alive, queue, errorVars>>

\* The rename moves whatever file is at the path by now, if any.
Reclaim(c) ==
    /\ At(c, "reclaim")
    /\ TryUnlink(idx[c])
    /\ Goto(c, "recreate")
    /\ UNCHANGED <<alive, idx, queue>>

Recreate(c) ==
    /\ At(c, "recreate")
    /\ \/ Create(c)
       \/ CreateFails(c)
       \/ /\ file[idx[c]] # None
          /\ NextSlot(c, "claim", "enqueue")
          /\ UNCHANGED <<file, written, errorVars>>
    /\ UNCHANGED <<alive, queue>>

\* The lease is written through the handle the create returned: if the file
\* was renamed or unlinked meanwhile, nothing appears at the path.  acquire
\* returns the handle in both cases, and also when the write fails: then the
\* file at the path is empty or cut short, which read_lease cannot parse.
WriteLease(c) ==
    /\ At(c, "write")
    /\ \/ /\ written' = IF file[idx[c]] = c THEN written \cup {idx[c]} ELSE written
          /\ UNCHANGED errorVars
       \/ /\ Fault
          /\ torn' = torn \cup {c}
          /\ UNCHANGED <<written, stuck>>
    /\ Goto(c, "held")
    /\ UNCHANGED <<file, alive, idx, queue>>

Enqueue(c) ==
    /\ At(c, "enqueue")
    /\ queue' = [queue EXCEPT ![ProcOf[c]] = Append(@, c)]
    /\ Goto(c, "wait")
    /\ UNCHANGED <<file, written, alive, idx, errorVars>>

\* queue.retain(|&q| q != id): the entry is there unless a wake-up took it.
Leave(q, c) ==
    IF \E k \in 1 .. Len(q) : q[k] = c
    THEN RemoveAt(q, CHOOSE k \in 1 .. Len(q) : q[k] = c)
    ELSE q

\* Mutant of Resume: a caller that polled leaves its entry in the queue.
ResumeKeepsEntry(c) ==
    /\ At(c, "wait")
    /\ Goto(c, "scan")
    /\ idx' = [idx EXCEPT ![c] = 0]
    /\ UNCHANGED <<file, written, alive, queue, errorVars>>

\* select!: the wake-up of a release, which dequeued c, or the poll timer;
\* c then drops its own queue entry and goes round the loop again.
Resume(c) ==
    /\ At(c, "wait")
    /\ queue' = [queue EXCEPT ![ProcOf[c]] = Leave(@, c)]
    /\ Goto(c, "scan")
    /\ idx' = [idx EXCEPT ![c] = 0]
    /\ UNCHANGED <<file, written, alive, errorVars>>

-----------------------------------------------------------------------------
(* release: ownership check, unlink, wake the head waiter.                  *)

StartRelease(c) ==
    /\ \/ At(c, "held")
       \/ At(c, "done") /\ c \in CanRelease2
    /\ Goto(c, "release")
    /\ UNCHANGED <<file, written, alive, idx, queue, errorVars>>

\* Mutant of CheckOwner: release unlinks without looking at the owner.
CheckOwnerSkipped(c) ==
    /\ At(c, "release")
    /\ Goto(c, "unlink")
    /\ UNCHANGED <<file, written, alive, idx, queue, errorVars>>

CheckOwner(c) ==
    /\ At(c, "release")
    /\ \/ /\ AlienLease(ProcOf[c], idx[c])
          /\ Goto(c, "done")
       \/ /\ ~AlienLease(ProcOf[c], idx[c])
          /\ Goto(c, "unlink")
    /\ UNCHANGED <<file, written, alive, idx, queue, errorVars>>

\* Mutant of UnlinkLease: a lease of our own is taken for somebody else's.
UnlinkDead(c) ==
    /\ At(c, "unlink")
    /\ IF LiveLease(idx[c]) THEN UNCHANGED <<file, written, errorVars>> ELSE Unlink(idx[c])
    /\ Goto(c, "wake")
    /\ UNCHANGED <<alive, idx, queue>>

\* The result of remove_file is ignored too: the waiter is woken, and release
\* reports success, over a lease that may still be there.
UnlinkLease(c) ==
    /\ At(c, "unlink")
    /\ \/ Unlink(idx[c])
       \/ /\ Fault
          /\ stuck' = stuck \cup {c}
          /\ UNCHANGED <<file, written, torn>>
    /\ Goto(c, "wake")
    /\ UNCHANGED <<alive, idx, queue>>

WakeHead(c) ==
    /\ At(c, "wake")
    /\ queue' = [queue EXCEPT ![ProcOf[c]] = IF @ = <<>> THEN @ ELSE Tail(@)]
    /\ Goto(c, "done")
    /\ UNCHANGED <<file, written, alive, idx, errorVars>>

-----------------------------------------------------------------------------

\* The process is killed, or exits with leases still on disk.
Crash(p) ==
    /\ p \in alive
    /\ alive' = alive \ {p}
    /\ queue' = [queue EXCEPT ![p] = <<>>]
    /\ UNCHANGED <<file, written, at, idx, errorVars>>

AcquireStep(c) ==
    \/ Scan(c) \/ TryClaim(c) \/ Inspect(c) \/ Reclaim(c) \/ Recreate(c)
    \/ WriteLease(c) \/ Enqueue(c) \/ Resume(c)

ReleaseStep(c) == CheckOwner(c) \/ UnlinkLease(c) \/ WakeHead(c)

SweepStep(c) == SweepRead(c) \/ SweepRemove(c)

Step(c) ==
    \/ StartSweep(c) \/ SweepStep(c)
    \/ StartAcquire(c) \/ AcquireStep(c)
    \/ StartRelease(c) \/ ReleaseStep(c)

SlotsNext == (\E c \in Callers : Step(c)) \/ (\E p \in Procs : Crash(p))

SlotsSpec == SlotsInit /\ [][SlotsNext]_slotVars

\* tokio keeps running the tasks of a live process and the poll timer fires;
\* the work done under a first lease ends (a session has a turn budget).
\* Arrivals, second releases, sweeps and crashes are the environment's.
Fairness ==
    \A c \in Callers :
        /\ WF_slotVars(AcquireStep(c))
        /\ WF_slotVars(ReleaseStep(c))
        /\ WF_slotVars(SweepStep(c))
        /\ WF_slotVars(at[c] = "held" /\ StartRelease(c))

FairSlots == SlotsSpec /\ Fairness

-----------------------------------------------------------------------------
(* Properties.                                                             *)

\* A lease file whose process is alive belongs to a caller that still has the
\* handle for exactly that slot: release, whatever it raced with, leaves none
\* behind, unless its removal failed.  From the moment acquire has returned
\* the lease is there for everybody to read, unless its write failed.  So a
\* failed write is all that lets others take a slot whose holder is alive and
\* working, and a failed removal all that keeps one from everybody.
LeaseOwned ==
    \A i \in Slots : file[i] # None /\ ProcOf[file[i]] \in alive =>
        /\ idx[file[i]] = i
        /\ \/ at[file[i]] \in {"write", "held", "release", "unlink"}
           \/ at[file[i]] \in {"wake", "done"} /\ file[i] \in stuck
        /\ i \in written <=> at[file[i]] # "write" /\ file[i] \notin torn

\* Only a file that exists can hold a complete lease: an unlink takes it away.
WrittenExists == \A i \in written : file[i] # None

\* d is between the check and the removal of a file at slot i.
Removing(d, i) ==
    /\ ProcOf[d] \in alive /\ idx[d] = i
    /\ at[d] \in {"reclaim", "unlink", "sweepRemove"}

\* Slot i's lease is readable, its process is alive, nobody else decided to
\* remove a file at i before the lease was there, and no other handle of the
\* same process names i.
Settled(i) ==
    /\ LiveLease(i)
    /\ \A d \in Callers \ {file[i]} :
        /\ ~Removing(d, i)
        /\ ProcOf[d] = Tenant(i) /\ idx[d] = i => at[d] \notin Handle

\* The owner of slot i's lease gives it up in this step, or its process dies.
GivenUp(i) ==
    \/ at[file[i]] = "unlink" /\ at'[file[i]] = "wake"
    \/ Tenant(i) \notin alive'

\* What remains of "a live tenant's lease is never reclaimed" in the code:
\* once a lease is settled it stays, and stays settled, until its owner
\* releases it or dies, whatever other processes do in any order.
SettledLeaseKept ==
    [][\A i \in Slots : Settled(i) =>
          GivenUp(i) \/ (file'[i] = file[i] /\ Settled(i)')]_slotVars

\* c has not yet got past slot i in the alien scan of its current attempt.
NotPast(c, i) ==
    \/ at[c] \in {"idle", "sweep", "sweepRemove", "enqueue", "wait"}
    \/ at[c] = "scan" /\ idx[c] <= i

\* The single-tenant rule as far as the code enforces it: while a readable
\* lease of another live process is in slot i, no caller that has not scanned
\* slot i yet gets past it, whether it sweeps, queues, polls or starts anew.
AlienBlocks ==
    [][\A i \in Slots, c \in Callers :
          LiveLease(i) /\ Tenant(i) # ProcOf[c] /\ NotPast(c, i) =>
              NotPast(c, i)']_slotVars

\* Slot i keeps the lease of a live process that has released it.
Leaked(i) == LiveLease(i) /\ at[file[i]] \in {"wake", "done"}

\* Every acquire of a process that survives returns, although leases of
\* crashed processes stay on disk, files are left empty or cut short, creates
\* and renames fail, wake-ups get lost and claims collide: only a lease whose
\* removal failed, of a process that lives on, can keep a caller waiting.
EveryAcquireReturns ==
    \A c \in Callers :
        at[c] = "scan" ~> \/ at[c] \in Handle \/ ProcOf[c] \notin alive
                          \/ \E i \in Slots : Leaked(i)

\* A queued caller is waiting, and is queued once: no stale entry of a caller
\* that polled swallows the wake-up meant for the next waiter.
QueueSound ==
    \A p \in Procs :
        /\ \A k \in 1 .. Len(queue[p]) : At(queue[p][k], "wait") /\ ProcOf[queue[p][k]] = p
        /\ \A k, l \in 1 .. Len(queue[p]) : queue[p][k] = queue[p][l] => k = l

-----------------------------------------------------------------------------
(* A promise of the source's comments that the code does not keep.         *)

Holding(c) == At(c, "held")

\* semaphore.rs:10-12: a tenant is blocked while a live alien holds any slot.
SingleTenant ==
    \A c, d \in Callers : Holding(c) /\ Holding(d) => ProcOf[c] = ProcOf[d]

=============================================================================
