------------------------------- MODULE Pruner -------------------------------
(***************************************************************************)
(* "castor clean" (pruner.rs, run_clean in main.rs) beside the dispatcher  *)
(* and the workers that go on using the state directory it cleans.         *)
(*                                                                         *)
(* A plan is made from several readings of the directory, one after the    *)
(* other: the sessions, the task files, the task files and slot leases     *)
(* again, and last the layout the plan's fingerprint stands for.  apply    *)
(* compares the layout and then removes the planned paths one by one.      *)
(*                                                                         *)
(* Time is counted in coarse units; a file's mtime is the time of its last *)
(* write.  The fingerprint covers the names and mtimes of the entries of   *)
(* sessions/ and tasks/: it is taken to differ once one of them has been   *)
(* created, rewritten or removed, and not to change when a ledger inside a *)
(* session's directory grows.  Telemetry and evolution snapshots are old   *)
(* and written by nobody here.                                             *)
(***************************************************************************)
EXTENDS Naturals, FiniteSets, FiniteSetsExt

CONSTANTS
    Sessions,    \* session ids, and with them the directories under sessions/
    Tasks,       \* task ids; an id is used again by a later dispatch
    Leftovers,   \* the telemetry ledger and the directories under evo/
    Cleaners,    \* processes that run "castor clean"
    Size,        \* the bytes a session's directory takes
    MaxAge, MaxCount, MaxSize,    \* the retention policy
    MaxClock,    \* bound: the last moment
    None         \* no file

Times == 0..MaxClock

ASSUME PrunerAssumption ==
    /\ IsFiniteSet(Sessions) /\ Size \in [Sessions -> Nat]
    /\ {MaxCount, MaxSize, MaxClock} \subseteq Nat
    /\ MaxAge \in Times
    /\ None \notin Sessions

\* A session's directory: the mtime of its ledger, and what the ledger shows of
\* the session: "ended" if there is a session_end or session_error in it, which
\* the predecessor mcp-castor writes; otherwise "final" if its last run has
\* logged this program's final event.
Dir == [at : Times, log : {"open", "final", "ended"}]
NoDir == [at |-> 0, log |-> "absent"]
NoDirs == [s \in Sessions |-> NoDir]

\* A task's record task_N.json.
Rec == [session : Sessions, status : {"incomplete", "done"}, at : Times]
NoRec == [session |-> None, status |-> "absent", at |-> 0]

VARIABLES
    clock,       \* the time
    dir,         \* each session's directory
    rec,         \* each task's record
    spec,        \* the session in each job specification job_task_N.json
    lease,       \* tasks named in a slot lease
    left,        \* leftovers that are there
    pc,          \* where each cleaner is
    now,         \* the time at which its plan was begun, while it is made
    seen,        \* the directories as its plan found them
    plan,        \* the paths it has chosen
    drift,       \* whether the layout has changed since its fingerprint
    late         \* history: tasks dispatched when its plan cannot notice

env == <<clock, dir, rec, spec, lease, left>>
cleaner == <<pc, now, seen, plan>>
vars == <<env, cleaner, drift, late>>

Labels == {"idle", "gates", "tasks", "print", "planned", "delete"}

Paths(S, T, L) == [sessions |-> S, tasks |-> T, left |-> L]
NoPlan == Paths({}, {}, {})

\* The types.  A record names a session as long as it is there: no cancel or
\* reaping brings back the record of a task that has none.
TypeOK ==
    /\ clock \in Times
    /\ dir \in [Sessions -> Dir \cup {NoDir}]
    /\ rec \in [Tasks -> Rec \cup {NoRec}]
    /\ spec \in [Tasks -> Sessions \cup {None}]
    /\ lease \in SUBSET Tasks
    /\ left \in SUBSET Leftovers
    /\ pc \in [Cleaners -> Labels]
    /\ now \in [Cleaners -> Times]
    /\ seen \in [Cleaners -> [Sessions -> Dir \cup {NoDir}]]
    /\ plan \in [Cleaners -> [sessions : SUBSET Sessions, tasks : SUBSET Tasks,
                              left : SUBSET Leftovers]]
    /\ drift \in [Cleaners -> BOOLEAN]
    /\ late \in [Cleaners -> SUBSET Tasks]

\* Sessions of mcp-castor and of this program, ended, from before the age limit;
\* and records of tasks that are done.
Init ==
    /\ clock = MaxAge
    /\ dir \in [Sessions -> {[at |-> t, log |-> e] : t \in {0, MaxAge}, e \in {"final", "ended"}}
                                \cup {NoDir}]
    /\ rec \in [Tasks -> {[session |-> s, status |-> "done", at |-> 0] : s \in Sessions}
                         \cup {NoRec}]
    /\ spec = [t \in Tasks |-> None]
    /\ lease = {}
    /\ left = Leftovers
    /\ pc = [x \in Cleaners |-> "idle"]
    /\ now = [x \in Cleaners |-> 0]
    /\ seen = [x \in Cleaners |-> NoDirs]
    /\ plan = [x \in Cleaners |-> NoPlan]
    /\ drift = [x \in Cleaners |-> FALSE]
    /\ late = [x \in Cleaners |-> {}]

-----------------------------------------------------------------------------
(* The dispatcher and the workers, as far as the pruner looks at them.      *)

Incomplete(t) == rec[t].status = "incomplete"
InUse(t) == Incomplete(t) \/ t \in lease

\* The cleaner has read the records, and will not compare the layout with what
\* it is now: because it has not taken the fingerprint yet, or has already
\* compared it.
Blind(x) == pc[x] \in {"tasks", "print", "delete"}

\* An entry of a managed directory is created, rewritten or removed.
Touch == drift' = [x \in Cleaners |-> drift[x] \/ pc[x] = "planned"]

\* handle_coworker: a new session or one that exists, the record and the spec.
Dispatch(t, s) ==
    /\ ~Incomplete(t)
    /\ rec' = [rec EXCEPT ![t] = [session |-> s, status |-> "incomplete", at |-> clock]]
    /\ spec' = [spec EXCEPT ![t] = s]
    /\ late' = [x \in Cleaners |-> IF Blind(x) THEN late[x] \cup {t} ELSE late[x]]
    /\ Touch
    /\ UNCHANGED <<clock, dir, lease, left, cleaner>>

\* The session's ledger is written: what has ended once keeps that event.
Write(s, log) ==
    dir' = [dir EXCEPT ![s] =
               [at |-> clock, log |-> IF @.log = "ended" THEN "ended" ELSE log]]

\* The worker has a slot, marks the record, whose mtime matters to nobody before
\* it is done, and starts or continues the session's ledger.
Begin(t) ==
    /\ Incomplete(t) /\ t \notin lease
    /\ lease' = lease \cup {t}
    /\ Write(rec[t].session, "open")
    /\ Touch
    /\ UNCHANGED <<clock, rec, spec, left, cleaner, late>>

Done(t) == rec' = [rec EXCEPT ![t] = [session |-> @.session, status |-> "done", at |-> clock]]

\* The final event, if the directory is still there, and the terminal status.
Finish(t) ==
    /\ Incomplete(t) /\ t \in lease
    /\ IF dir[rec[t].session] = NoDir THEN UNCHANGED dir
                                      ELSE Write(rec[t].session, "final")
    /\ Done(t)
    /\ Touch
    /\ UNCHANGED <<clock, spec, lease, left, cleaner, late>>

\* A mutant of the next: the cancel does not look whether there is a record.
AbandonUnchecked(t) ==
    /\ Done(t)
    /\ Touch
    /\ UNCHANGED <<clock, dir, spec, lease, left, cleaner, late>>

\* A cancel, a failed spawn or the reaper.
Abandon(t) ==
    /\ Incomplete(t)
    /\ Done(t)
    /\ Touch
    /\ UNCHANGED <<clock, dir, spec, lease, left, cleaner, late>>

\* The worker's release, or the reclaim of a dead worker's lease.
Release(t) ==
    /\ t \in lease /\ ~Incomplete(t)
    /\ lease' = lease \ {t}
    /\ Touch
    /\ UNCHANGED <<clock, dir, rec, spec, left, cleaner, late>>

Tick ==
    /\ clock < MaxClock
    /\ clock' = clock + 1
    /\ UNCHANGED <<dir, rec, spec, lease, left, cleaner, drift, late>>

-----------------------------------------------------------------------------
(* plan: the sessions                                                       *)

\* The directories, their mtimes and sizes, and the events in their ledgers.
Scan(x) ==
    /\ pc[x] = "idle"
    /\ pc' = [pc EXCEPT ![x] = "gates"]
    /\ now' = [now EXCEPT ![x] = clock]
    /\ seen' = [seen EXCEPT ![x] = dir]
    /\ UNCHANGED <<env, plan, drift, late>>

Old(x, at) == now[x] > at + MaxAge

\* The sessions of the files in tasks/ that do not say they are done.  A job's
\* specification has no status.
Busy == {rec[t].session : t \in {u \in Tasks : Incomplete(u)}} \cup {spec[t] : t \in Tasks}

There(x) == {s \in Sessions : seen[x][s] # NoDir}
Candidates(x) == {s \in There(x) : seen[x][s].log = "ended"} \ Busy
Aged(x, S) == {s \in S : Old(x, seen[x][s].at)}
Bytes(S) == MapThenSumSet(LAMBDA s : Size[s], S)

\* A mutant of the next: newest first.
NewestFirst(x, S) ==
    {E \in SUBSET S : \A a \in E, b \in S \ E : seen[x][a].at >= seen[x][b].at}

\* What a walk through S can take, oldest first; the order of equals is open.
OldestFirst(x, S) ==
    {E \in SUBSET S : \A a \in E, b \in S \ E : seen[x][a].at <= seen[x][b].at}

\* The count gate, over the sessions the age gate has left in place.
Surplus(x, S) ==
    LET excess == Cardinality(There(x)) - MaxCount
    IN  {E \in OldestFirst(x, S) : \/ Cardinality(E) = excess
                                   \/ excess <= 0 /\ E = {}
                                   \/ Cardinality(S) < excess /\ E = S}

\* The size gate, over the sessions the other two have left in place: it stops
\* at the first that brings the total within the limit, and counts what the
\* other two have chosen as still there.
Oversize(x, S) ==
    LET Over(E) == Bytes(There(x)) > Bytes(E) + MaxSize
    IN  {E \in OldestFirst(x, S) :
            /\ Over(E) => E = S
            /\ E # {} => \E last \in E :
                            /\ \A s \in E : seen[x][s].at <= seen[x][last].at
                            /\ Over(E \ {last})}

\* The three gates over the closed sessions no incomplete task refers to.
Gates(x) ==
    /\ pc[x] = "gates"
    /\ LET aged == Aged(x, Candidates(x)) IN
       \E E \in Surplus(x, Candidates(x) \ aged) :
       \E F \in Oversize(x, Candidates(x) \ (aged \cup E)) :
           plan' = [plan EXCEPT ![x] = Paths(aged \cup E \cup F, {}, {})]
    /\ seen' = [seen EXCEPT ![x] = NoDirs]
    /\ pc' = [pc EXCEPT ![x] = "tasks"]
    /\ UNCHANGED <<env, now, drift, late>>

-----------------------------------------------------------------------------
(* plan: the rest, and the fingerprint                                      *)

\* Old records of tasks that are done and that no lease names.
PlanTasks(x) ==
    /\ pc[x] = "tasks"
    /\ LET over == {t \in Tasks : /\ rec[t].status = "done" /\ t \notin lease
                                   /\ Old(x, rec[t].at)}
           leftover == IF Old(x, 0) THEN left ELSE {}
       IN  plan' = [plan EXCEPT ![x] = Paths(@.sessions, over, leftover)]
    /\ pc' = [pc EXCEPT ![x] = "print"]
    /\ now' = [now EXCEPT ![x] = 0]
    /\ UNCHANGED <<env, seen, drift, late>>

Fingerprint(x) ==
    /\ pc[x] = "print"
    /\ pc' = [pc EXCEPT ![x] = "planned"]
    /\ UNCHANGED <<env, now, seen, plan, drift, late>>

-----------------------------------------------------------------------------
(* apply                                                                    *)

\* The process ends.
Stop(x) ==
    /\ pc' = [pc EXCEPT ![x] = "idle"]
    /\ plan' = [plan EXCEPT ![x] = NoPlan]
    /\ late' = [late EXCEPT ![x] = {}]
    /\ UNCHANGED <<now, seen>>

\* The plan is only listed.
DryRun(x) ==
    /\ pc[x] = "planned"
    /\ Stop(x)
    /\ drift' = [drift EXCEPT ![x] = FALSE]
    /\ UNCHANGED env

\* A mutant of the next: the plan is applied to whatever is there.
NotChecked(x) == FALSE

Drifted(x) == drift[x]

\* NotFromPlan, or go on to the deletions.
Apply(x) ==
    /\ pc[x] = "planned"
    /\ IF Drifted(x) THEN Stop(x)
                     ELSE /\ pc' = [pc EXCEPT ![x] = "delete"]
                          /\ UNCHANGED <<now, seen, plan, late>>
    /\ drift' = [drift EXCEPT ![x] = FALSE]
    /\ UNCHANGED env

\* remove_dir_all; a directory another cleaner has removed is an error, and ends it.
DeleteSession(x, s) ==
    /\ pc[x] = "delete" /\ s \in plan[x].sessions
    /\ IF dir[s] = NoDir
       THEN Stop(x) /\ UNCHANGED <<dir, drift>>
       ELSE /\ dir' = [dir EXCEPT ![s] = NoDir]
            /\ plan' = [plan EXCEPT ![x] = Paths(@.sessions \ {s}, @.tasks, @.left)]
            /\ Touch
            /\ UNCHANGED <<pc, now, seen, late>>
    /\ UNCHANGED <<clock, rec, spec, lease, left>>

\* remove_file, once the sessions are gone.
DeleteTask(x, t) ==
    /\ pc[x] = "delete" /\ plan[x].sessions = {} /\ t \in plan[x].tasks
    /\ IF rec[t] = NoRec
       THEN Stop(x) /\ UNCHANGED <<rec, drift>>
       ELSE /\ rec' = [rec EXCEPT ![t] = NoRec]
            /\ plan' = [plan EXCEPT ![x] = Paths(@.sessions, @.tasks \ {t}, @.left)]
            /\ Touch
            /\ UNCHANGED <<pc, now, seen, late>>
    /\ UNCHANGED <<clock, dir, spec, lease, left>>

\* The telemetry ledger and the snapshots, last.
DeleteLeftover(x, f) ==
    /\ pc[x] = "delete" /\ plan[x].sessions = {} /\ plan[x].tasks = {}
    /\ f \in plan[x].left
    /\ IF f \notin left
       THEN Stop(x) /\ UNCHANGED <<left, drift>>
       ELSE /\ left' = left \ {f}
            /\ plan' = [plan EXCEPT ![x] = Paths(@.sessions, @.tasks, @.left \ {f})]
            /\ Touch
            /\ UNCHANGED <<pc, now, seen, late>>
    /\ UNCHANGED <<clock, dir, rec, spec, lease>>

Applied(x) ==
    /\ pc[x] = "delete" /\ plan[x] = NoPlan
    /\ Stop(x)
    /\ UNCHANGED <<env, drift>>

-----------------------------------------------------------------------------
Environment ==
    \/ \E t \in Tasks : \/ \E s \in Sessions : Dispatch(t, s)
                        \/ Begin(t) \/ Finish(t) \/ Abandon(t) \/ Release(t)
    \/ Tick

Cleaner(x) ==
    \/ Scan(x) \/ Gates(x) \/ PlanTasks(x) \/ Fingerprint(x)
    \/ DryRun(x) \/ Apply(x) \/ Applied(x)
    \/ \E s \in Sessions : DeleteSession(x, s)
    \/ \E t \in Tasks : DeleteTask(x, t)
    \/ \E f \in Leftovers : DeleteLeftover(x, f)

Next == Environment \/ \E x \in Cleaners : Cleaner(x)

Spec == Init /\ [][Next]_vars

-----------------------------------------------------------------------------
(* Properties                                                               *)

\* The sessions a plan keeps are within the limits unless every candidate is in
\* it; it never passes over an older candidate for a younger one; and it takes a
\* candidate that is not old only when the directory as a whole was over a limit.
RetentionPolicy ==
    [][\A x \in Cleaners : pc[x] = "gates" /\ pc'[x] = "tasks" =>
          LET gone == plan'[x].sessions
              kept == There(x) \ gone
          IN  /\ gone = Candidates(x) \/ ( /\ Cardinality(kept) <= MaxCount
                                           /\ Bytes(kept) <= MaxSize
                                           /\ Aged(x, Candidates(x)) \subseteq gone )
              /\ \A a \in gone, b \in Candidates(x) \ gone :
                    seen[x][a].at <= seen[x][b].at
              /\ gone \subseteq Aged(x, There(x))
                    \/ Cardinality(There(x)) > MaxCount
                    \/ Bytes(There(x)) > MaxSize]_vars

\* A clean removes the directory of a session, or the record of a task, in use
\* only when the task was dispatched after the clean had read the records and
\* before it took its fingerprint, or after it had compared it: nothing that was
\* in use when the plan was made, and nothing dispatched between the plan and
\* its application, is removed.
ActiveImmunity ==
    [][\A x \in Cleaners, t \in Tasks :
          LET s == rec[t].session
              lostRecord == /\ t \in plan[x].tasks \ plan'[x].tasks
                            /\ rec[t] # NoRec /\ rec'[t] = NoRec
              lostSession == /\ Incomplete(t) /\ s \in plan[x].sessions \ plan'[x].sessions
                             /\ dir[s] # NoDir /\ dir'[s] = NoDir
          IN  InUse(t) /\ (lostRecord \/ lostSession) => t \in late[x]]_vars

=============================================================================
