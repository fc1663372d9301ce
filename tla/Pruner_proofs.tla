--------------------------- MODULE Pruner_proofs ---------------------------
(***************************************************************************)
(* Proofs about Pruner, for any sessions, tasks and cleaners and any       *)
(* retention policy.                                                       *)
(***************************************************************************)
EXTENDS Pruner, FiniteSetTheorems, TLAPS

Plans == [sessions : SUBSET Sessions, tasks : SUBSET Tasks, left : SUBSET Leftovers]

(* What a clean may hold against a task: it was dispatched late, or the     *)
(* fingerprint will show it.                                                *)
Noticed(x, t) == t \in late[x] \/ (pc[x] = "planned" /\ drift[x])

(* A planned session has no incomplete task, and a planned record is not in *)
(* use, but for tasks that came later.                                      *)
Sparing(x) ==
    /\ \A t \in Tasks : Incomplete(t) /\ rec[t].session \in plan[x].sessions => Noticed(x, t)
    /\ \A t \in Tasks : InUse(t) /\ t \in plan[x].tasks => Noticed(x, t)

(* The plan is empty before it is made, the records are chosen after the    *)
(* sessions, and the layout is watched between fingerprint and application.  *)
Staged(x) ==
    /\ pc[x] \in {"idle", "gates"} => plan[x] = NoPlan
    /\ pc[x] = "tasks" => plan[x].tasks = {}
    /\ drift[x] => pc[x] = "planned"

IInv == TypeOK /\ \A x \in Cleaners : Staged(x) /\ Sparing(x)

------------------------------------------------------------------------------
LEMMA PlanType ==
    /\ \A S \in SUBSET Sessions, T \in SUBSET Tasks, L \in SUBSET Leftovers :
          Paths(S, T, L) \in Plans
    /\ NoPlan \in Plans
    /\ \A p \in Plans : /\ p.sessions \subseteq Sessions /\ p.tasks \subseteq Tasks
                        /\ p.left \subseteq Leftovers
BY DEF Paths, NoPlan, Plans

LEMMA RecTypes ==
    /\ NoRec.status = "absent" /\ NoRec \notin Rec
    /\ \A s \in Sessions, i \in {"incomplete", "done"}, a \in Times :
          [session |-> s, status |-> i, at |-> a] \in Rec
    /\ \A r \in Rec : r.session \in Sessions
BY PrunerAssumption DEF NoRec, Rec

LEMMA DirTypes ==
    /\ \A a \in Times, l \in {"open", "final", "ended"} : [at |-> a, log |-> l] \in Dir
    /\ NoDirs \in [Sessions -> Dir \cup {NoDir}]
BY DEF Dir, NoDirs

LEMMA InitIInv == Init => IInv
<1> SUFFICES ASSUME Init PROVE IInv
  OBVIOUS
<1>t. 0 \in Times /\ MaxAge \in Times
  BY PrunerAssumption DEF Times
<1>1. dir \in [Sessions -> Dir \cup {NoDir}]
  <2>1. \A t \in {0, MaxAge}, e \in {"final", "ended"} : [at |-> t, log |-> e] \in Dir
    BY <1>t, DirTypes
  <2> QED BY <2>1 DEF Init
<1>2. rec \in [Tasks -> Rec \cup {NoRec}]
  <2>1. \A s \in Sessions : [session |-> s, status |-> "done", at |-> 0] \in Rec
    BY <1>t, RecTypes
  <2> QED BY <2>1 DEF Init
<1>3. TypeOK
  <2>1. seen \in [Cleaners -> [Sessions -> Dir \cup {NoDir}]]
    BY DirTypes DEF Init
  <2>2. plan \in [Cleaners -> Plans]
    BY PlanType DEF Init
  <2>3. /\ pc \in [Cleaners -> Labels] /\ now \in [Cleaners -> Times]
        /\ drift \in [Cleaners -> BOOLEAN] /\ late \in [Cleaners -> SUBSET Tasks]
    BY <1>t DEF Init, Labels
  <2>4. clock \in Times /\ lease \in SUBSET Tasks /\ left \in SUBSET Leftovers
    BY <1>t DEF Init
  <2>5. spec \in [Tasks -> Sessions \cup {None}]
    BY DEF Init
  <2> QED BY <1>1, <1>2, <2>1, <2>2, <2>3, <2>4, <2>5 DEF TypeOK, Plans
<1>4. ASSUME NEW x \in Cleaners PROVE Staged(x) /\ Sparing(x)
  BY DEF Init, Staged, Sparing, NoPlan, Paths
<1> QED BY <1>3, <1>4 DEF IInv

------------------------------------------------------------------------------
(* The steps of the dispatcher and the workers.                             *)

LEMMA DoneType ==
    ASSUME TypeOK, NEW t \in Tasks, Incomplete(t), Done(t)
    PROVE  /\ rec' \in [Tasks -> Rec \cup {NoRec}]
           /\ \A u \in Tasks : Incomplete(u)' => Incomplete(u) /\ rec'[u] = rec[u]
<1>1. rec[t] \in Rec /\ clock \in Times
  BY RecTypes DEF TypeOK, Incomplete
<1>2. [session |-> rec[t].session, status |-> "done", at |-> clock] \in Rec
  BY <1>1, RecTypes
<1> QED BY <1>2 DEF TypeOK, Done, Incomplete

LEMMA WriteType ==
    ASSUME TypeOK, NEW s \in Sessions, NEW l \in {"open", "final"}, Write(s, l)
    PROVE  dir' \in [Sessions -> Dir \cup {NoDir}]
<1>1. \A e \in {"open", "final", "ended"} : [at |-> clock, log |-> e] \in Dir
  BY DirTypes DEF TypeOK
<1> QED BY <1>1 DEF TypeOK, Write

LEMMA EnvironmentType == ASSUME TypeOK, Environment PROVE TypeOK'
<1>1. ASSUME NEW t \in Tasks, NEW s \in Sessions, Dispatch(t, s) PROVE TypeOK'
  <2>1. [session |-> s, status |-> "incomplete", at |-> clock] \in Rec
    BY RecTypes DEF TypeOK
  <2> QED BY <1>1, <2>1 DEF Dispatch, TypeOK, cleaner, Touch
<1>2. ASSUME NEW t \in Tasks, Begin(t) PROVE TypeOK'
  <2>1. rec[t].session \in Sessions
    BY <1>2, RecTypes DEF Begin, TypeOK, Incomplete
  <2>2. dir' \in [Sessions -> Dir \cup {NoDir}]
    BY <1>2, <2>1, WriteType DEF Begin
  <2> QED BY <1>2, <2>2 DEF Begin, TypeOK, cleaner, Touch
<1>3. ASSUME NEW t \in Tasks, Finish(t) PROVE TypeOK'
  <2>1. rec[t].session \in Sessions
    BY <1>3, RecTypes DEF Finish, TypeOK, Incomplete
  <2>2. dir' \in [Sessions -> Dir \cup {NoDir}]
    BY <1>3, <2>1, WriteType DEF Finish, TypeOK
  <2>3. rec' \in [Tasks -> Rec \cup {NoRec}]
    BY <1>3, DoneType DEF Finish
  <2> QED BY <1>3, <2>2, <2>3 DEF Finish, TypeOK, cleaner, Touch
<1>4. ASSUME NEW t \in Tasks, Abandon(t) PROVE TypeOK'
  <2>1. rec' \in [Tasks -> Rec \cup {NoRec}]
    BY <1>4, DoneType DEF Abandon
  <2> QED BY <1>4, <2>1 DEF Abandon, TypeOK, cleaner, Touch
<1>5. ASSUME NEW t \in Tasks, Release(t) PROVE TypeOK'
  BY <1>5 DEF Release, TypeOK, cleaner, Touch
<1>6. ASSUME Tick PROVE TypeOK'
  BY <1>6, PrunerAssumption DEF Tick, TypeOK, cleaner, Times
<1> QED BY <1>1, <1>2, <1>3, <1>4, <1>5, <1>6 DEF Environment

\* A step that brings no task into use, or that changes the layout and only
\* renews a use, leaves a clean that does not move as sparing as it was.
LEMMA StillSparing ==
    ASSUME IInv, NEW x \in Cleaners,
           pc'[x] = pc[x], plan'[x] = plan[x], late'[x] = late[x], drift[x] => drift'[x],
           \A t \in Tasks : Incomplete(t)' => Incomplete(t) /\ rec'[t] = rec[t],
           \A t \in Tasks : InUse(t)' => InUse(t)
    PROVE  Sparing(x)'
BY DEF IInv, Sparing, Noticed

LEMMA EnvironmentIInv == ASSUME IInv, Environment PROVE IInv'
<1>t. TypeOK'
  BY EnvironmentType DEF IInv
<1> SUFFICES ASSUME NEW x \in Cleaners PROVE Staged(x)' /\ Sparing(x)'
  BY <1>t DEF IInv
<1>c. /\ pc'[x] = pc[x] /\ plan'[x] = plan[x]
      /\ drift[x] => drift'[x]
      /\ drift'[x] => drift[x] \/ pc[x] = "planned"
  BY DEF Environment, Dispatch, Begin, Finish, Abandon, Release, Tick, Touch, cleaner
<1>s. Staged(x)'
  BY <1>c DEF Staged, IInv
<1>1. ASSUME NEW t \in Tasks, NEW s \in Sessions, Dispatch(t, s) PROVE Sparing(x)'
  <2>1. /\ \A u \in Tasks \ {t} : rec'[u] = rec[u]
        /\ lease' = lease /\ late[x] \subseteq late'[x]
        /\ pc[x] = "planned" => drift'[x]
        /\ Blind(x) => t \in late'[x]
    BY <1>1 DEF Dispatch, Touch, IInv, TypeOK
  <2>2. \A u \in Tasks : Noticed(x, u) => Noticed(x, u)'
    BY <1>c, <2>1 DEF Noticed
  <2>3. \/ plan[x] = NoPlan
        \/ Noticed(x, t)'
    <3>1. pc[x] \in Labels
      BY DEF IInv, TypeOK
    <3> QED BY <1>c, <2>1, <3>1 DEF Labels, Blind, Noticed, IInv, Staged
  <2>4. CASE plan[x] = NoPlan
    BY <1>c, <2>4 DEF Sparing, NoPlan, Paths
  <2>5. CASE Noticed(x, t)'
    <3>1. ASSUME NEW u \in Tasks, Incomplete(u)', rec'[u].session \in plan'[x].sessions
          PROVE  Noticed(x, u)'
      BY <1>c, <2>1, <2>2, <2>5, <3>1 DEF IInv, Sparing, Incomplete
    <3>2. ASSUME NEW u \in Tasks, InUse(u)', u \in plan'[x].tasks PROVE Noticed(x, u)'
      BY <1>c, <2>1, <2>2, <2>5, <3>2 DEF IInv, Sparing, Incomplete, InUse
    <3> QED BY <3>1, <3>2 DEF Sparing
  <2> QED BY <2>3, <2>4, <2>5
<1>2. ASSUME ~\E t \in Tasks, s \in Sessions : Dispatch(t, s) PROVE Sparing(x)'
  <2>1. late' = late
    BY <1>2 DEF Environment, Begin, Finish, Abandon, Release, Tick
  <2>2. /\ \A t \in Tasks : Incomplete(t)' => Incomplete(t) /\ rec'[t] = rec[t]
        /\ \A t \in Tasks : InUse(t)' => InUse(t)
    <3>1. ASSUME NEW t \in Tasks, Begin(t) PROVE <2>2!1 /\ <2>2!2
      BY <3>1 DEF Begin, Incomplete, InUse
    <3>2. ASSUME NEW t \in Tasks, Finish(t) PROVE <2>2!1 /\ <2>2!2
      BY <3>2, DoneType DEF Finish, InUse, IInv
    <3>3. ASSUME NEW t \in Tasks, Abandon(t) PROVE <2>2!1 /\ <2>2!2
      BY <3>3, DoneType DEF Abandon, InUse, IInv
    <3>4. ASSUME NEW t \in Tasks, Release(t) PROVE <2>2!1 /\ <2>2!2
      BY <3>4 DEF Release, Incomplete, InUse
    <3>5. ASSUME Tick PROVE <2>2!1 /\ <2>2!2
      BY <3>5 DEF Tick, Incomplete, InUse
    <3> QED BY <1>2, <3>1, <3>2, <3>3, <3>4, <3>5 DEF Environment
  <2> QED BY <1>c, <2>1, <2>2, StillSparing
<1> QED BY <1>s, <1>1, <1>2

------------------------------------------------------------------------------
(* The steps of a clean.                                                    *)

LEMMA StopType ==
    ASSUME TypeOK, NEW x \in Cleaners, Stop(x)
    PROVE  /\ pc' \in [Cleaners -> Labels] /\ plan' \in [Cleaners -> Plans]
           /\ late' \in [Cleaners -> SUBSET Tasks]
           /\ now' = now /\ seen' = seen
           /\ pc'[x] = "idle" /\ plan'[x] = NoPlan
           /\ \A y \in Cleaners \ {x} :
                 pc'[y] = pc[y] /\ plan'[y] = plan[y] /\ late'[y] = late[y]
BY PlanType DEF Stop, TypeOK, Labels, Plans

LEMMA GoType ==
    ASSUME TypeOK, NEW x \in Cleaners, NEW p \in Plans, NEW l \in Labels,
           plan' = [plan EXCEPT ![x] = p], pc' = [pc EXCEPT ![x] = l]
    PROVE  /\ plan' \in [Cleaners -> Plans] /\ plan'[x] = p
           /\ pc' \in [Cleaners -> Labels] /\ pc'[x] = l
           /\ \A y \in Cleaners \ {x} : pc'[y] = pc[y] /\ plan'[y] = plan[y]
BY DEF TypeOK, Plans

\* What the gates choose are candidates.
LEMMA GatesChoose ==
    ASSUME IInv, NEW x \in Cleaners, Gates(x)
    PROVE  \E S \in SUBSET Candidates(x) :
              plan' = [plan EXCEPT ![x] = Paths(S, {}, {})]
<1>1. PICK E \in Surplus(x, Candidates(x) \ Aged(x, Candidates(x))) :
      \E F \in Oversize(x, Candidates(x) \ (Aged(x, Candidates(x)) \cup E)) :
          plan' = [plan EXCEPT ![x] = Paths(Aged(x, Candidates(x)) \cup E \cup F, {}, {})]
  BY DEF Gates
<1>2. PICK F \in Oversize(x, Candidates(x) \ (Aged(x, Candidates(x)) \cup E)) :
          plan' = [plan EXCEPT ![x] = Paths(Aged(x, Candidates(x)) \cup E \cup F, {}, {})]
  BY <1>1
<1>3. E \subseteq Candidates(x) /\ F \subseteq Candidates(x)
  BY DEF Surplus, Oversize, OldestFirst
<1>4. Aged(x, Candidates(x)) \subseteq Candidates(x)
  BY DEF Aged
<1> QED BY <1>2, <1>3, <1>4

LEMMA GatesIInv ==
    ASSUME IInv, NEW x \in Cleaners, Gates(x)
    PROVE  TypeOK' /\ Staged(x)' /\ Sparing(x)'
<1>1. PICK S \in SUBSET Candidates(x) : plan' = [plan EXCEPT ![x] = Paths(S, {}, {})]
  BY GatesChoose
<1>2. S \subseteq Sessions /\ S \cap {rec[t].session : t \in {u \in Tasks : Incomplete(u)}} = {}
  BY DEF Candidates, There, Busy
<1>3. Paths(S, {}, {}) \in Plans /\ "tasks" \in Labels
  BY <1>2, PlanType DEF Labels
<1>4. /\ plan' \in [Cleaners -> Plans] /\ plan'[x] = Paths(S, {}, {})
      /\ pc' \in [Cleaners -> Labels] /\ pc'[x] = "tasks"
  BY <1>1, <1>3, GoType DEF Gates, IInv
<1>5. TypeOK'
  BY <1>4, DirTypes DEF Gates, IInv, TypeOK, Plans, env
<1>6. Staged(x)'
  BY <1>4 DEF Staged, Gates, IInv, Paths
<1>7. ASSUME NEW t \in Tasks, Incomplete(t)' PROVE rec'[t].session \notin S
  BY <1>2, <1>7 DEF Gates, env, Incomplete
<1> QED BY <1>4, <1>5, <1>6, <1>7 DEF Sparing, Paths

LEMMA PlanTasksIInv ==
    ASSUME IInv, NEW x \in Cleaners, PlanTasks(x)
    PROVE  TypeOK' /\ Staged(x)' /\ Sparing(x)'
<1> DEFINE T == {t \in Tasks : rec[t].status = "done" /\ t \notin lease /\ Old(x, rec[t].at)}
           L == IF Old(x, 0) THEN left ELSE {}
           p == Paths(plan[x].sessions, T, L)
<1>1. plan' = [plan EXCEPT ![x] = p] /\ pc' = [pc EXCEPT ![x] = "print"]
  BY DEF PlanTasks, IInv, TypeOK
<1>2. plan[x] \in Plans /\ L \in SUBSET Leftovers
  BY DEF IInv, TypeOK, Plans
<1>3. p \in Plans /\ "print" \in Labels
  BY <1>2, PlanType DEF Labels
<1>4. /\ plan' \in [Cleaners -> Plans] /\ plan'[x] = p
      /\ pc' \in [Cleaners -> Labels] /\ pc'[x] = "print"
  BY <1>1, <1>3, GoType DEF IInv
<1>5. now' \in [Cleaners -> Times]
  BY PrunerAssumption DEF PlanTasks, IInv, TypeOK, Times
<1>6. TypeOK'
  BY <1>4, <1>5 DEF PlanTasks, IInv, TypeOK, Plans, env
<1>7. Staged(x)'
  BY <1>4 DEF Staged, PlanTasks, IInv
<1>8. p.sessions = plan[x].sessions /\ p.tasks = T
  BY DEF Paths
<1>9. \A t \in T : ~InUse(t)
  BY DEF InUse, Incomplete
<1>10. /\ \A t \in Tasks : Incomplete(t)' <=> Incomplete(t)
       /\ \A t \in Tasks : InUse(t)' <=> InUse(t)
       /\ rec' = rec /\ late' = late
  BY DEF PlanTasks, env, Incomplete, InUse
<1>11. \A t \in Tasks : Noticed(x, t) => Noticed(x, t)'
  BY <1>10 DEF Noticed, PlanTasks
<1> QED
  <2>1. ASSUME NEW t \in Tasks, Incomplete(t)', rec'[t].session \in plan'[x].sessions
        PROVE  Noticed(x, t)'
    BY <1>4, <1>8, <1>10, <1>11, <2>1 DEF IInv, Sparing
  <2>2. ASSUME NEW t \in Tasks, InUse(t)', t \in plan'[x].tasks PROVE Noticed(x, t)'
    BY <1>4, <1>8, <1>9, <1>10, <2>2
  <2> QED BY <1>6, <1>7, <2>1, <2>2 DEF Sparing

\* The end of a clean.
LEMMA StopIInv ==
    ASSUME IInv, NEW x \in Cleaners, Stop(x), drift'[x] = FALSE
    PROVE  Staged(x)' /\ Sparing(x)'
BY StopType DEF IInv, Staged, Sparing, NoPlan, Paths

LEMMA ApplyIInv ==
    ASSUME IInv, NEW x \in Cleaners, Apply(x)
    PROVE  TypeOK' /\ Staged(x)' /\ Sparing(x)'
<1>1. drift' \in [Cleaners -> BOOLEAN] /\ drift'[x] = FALSE /\ env' = env
  BY DEF Apply, IInv, TypeOK
<1>2. CASE Drifted(x)
  <2>1. Stop(x)
    BY <1>2 DEF Apply
  <2> QED BY <1>1, <2>1, StopType, StopIInv DEF IInv, TypeOK, Plans, env
<1>3. CASE ~Drifted(x)
  <2>1. /\ pc' = [pc EXCEPT ![x] = "delete"] /\ UNCHANGED <<now, seen, plan, late>>
        /\ "delete" \in Labels /\ pc'[x] = "delete"
    BY <1>3 DEF Apply, Labels, IInv, TypeOK
  <2>2. TypeOK'
    BY <1>1, <2>1 DEF IInv, TypeOK, env
  <2>3. Staged(x)'
    BY <1>1, <2>1 DEF Staged
  <2>4. Sparing(x)'
    BY <1>1, <1>3, <2>1 DEF IInv, Sparing, Noticed, Drifted, env, Incomplete, InUse
  <2> QED BY <2>2, <2>3, <2>4
<1> QED BY <1>2, <1>3

LEMMA DeleteSessionIInv ==
    ASSUME IInv, NEW x \in Cleaners, NEW s \in Sessions, DeleteSession(x, s)
    PROVE  TypeOK' /\ Staged(x)' /\ Sparing(x)'
<1>1. ~drift[x]
  BY DEF DeleteSession, IInv, Staged
<1>2. CASE dir[s] = NoDir
  <2>1. Stop(x) /\ UNCHANGED <<dir, drift>>
    BY <1>2 DEF DeleteSession
  <2>2. drift'[x] = FALSE
    BY <1>1, <2>1 DEF IInv, TypeOK
  <2> QED BY <2>1, <2>2, StopType, StopIInv DEF DeleteSession, IInv, TypeOK, Plans
<1>3. CASE dir[s] # NoDir
  <2> DEFINE p == Paths(plan[x].sessions \ {s}, plan[x].tasks, plan[x].left)
  <2>1. p \in Plans /\ pc[x] \in Labels
    BY PlanType DEF IInv, TypeOK, Plans
  <2>2. /\ plan' = [plan EXCEPT ![x] = p] /\ UNCHANGED <<pc, now, seen, late>>
        /\ dir' = [dir EXCEPT ![s] = NoDir] /\ Touch
    BY <1>3 DEF DeleteSession, IInv, TypeOK
  <2>3. plan' \in [Cleaners -> Plans] /\ plan'[x] = p
    BY <2>1, <2>2 DEF IInv, TypeOK, Plans
  <2>4. TypeOK'
    BY <2>2, <2>3 DEF DeleteSession, IInv, TypeOK, Plans, Touch
  <2>5. /\ p.sessions \subseteq plan[x].sessions /\ p.tasks = plan[x].tasks
        /\ pc[x] = "delete" /\ ~drift'[x]
    BY <1>1, <2>2 DEF Paths, DeleteSession, Touch
  <2>6. Staged(x)'
    BY <2>2, <2>5 DEF Staged
  <2>7. Sparing(x)'
    BY <1>1, <2>2, <2>3, <2>5 DEF IInv, Sparing, Noticed, DeleteSession, Incomplete, InUse
  <2> QED BY <2>4, <2>6, <2>7
<1> QED BY <1>2, <1>3

LEMMA DeleteTaskIInv ==
    ASSUME IInv, NEW x \in Cleaners, NEW t \in Tasks, DeleteTask(x, t)
    PROVE  TypeOK' /\ Staged(x)' /\ Sparing(x)'
<1>1. ~drift[x]
  BY DEF DeleteTask, IInv, Staged
<1>2. CASE rec[t] = NoRec
  <2>1. Stop(x) /\ UNCHANGED <<rec, drift>>
    BY <1>2 DEF DeleteTask
  <2>2. drift'[x] = FALSE
    BY <1>1, <2>1 DEF IInv, TypeOK
  <2> QED BY <2>1, <2>2, StopType, StopIInv DEF DeleteTask, IInv, TypeOK, Plans
<1>3. CASE rec[t] # NoRec
  <2> DEFINE p == Paths(plan[x].sessions, plan[x].tasks \ {t}, plan[x].left)
  <2>1. p \in Plans /\ pc[x] \in Labels
    BY PlanType DEF IInv, TypeOK, Plans
  <2>2. /\ plan' = [plan EXCEPT ![x] = p] /\ UNCHANGED <<pc, now, seen, late>>
        /\ rec' = [rec EXCEPT ![t] = NoRec] /\ Touch
    BY <1>3 DEF DeleteTask, IInv, TypeOK
  <2>3. plan' \in [Cleaners -> Plans] /\ plan'[x] = p
    BY <2>1, <2>2 DEF IInv, TypeOK, Plans
  <2>4. TypeOK'
    BY <2>2, <2>3 DEF DeleteTask, IInv, TypeOK, Plans, Touch
  <2>5. /\ p.sessions = plan[x].sessions /\ p.tasks \subseteq plan[x].tasks
        /\ pc[x] = "delete" /\ ~drift'[x]
    BY <1>1, <2>2 DEF Paths, DeleteTask, Touch
  <2>6. Staged(x)'
    BY <2>2, <2>5 DEF Staged
  <2>7. /\ \A u \in Tasks : Incomplete(u)' => Incomplete(u) /\ rec'[u] = rec[u]
        /\ \A u \in Tasks : InUse(u)' => InUse(u)
    BY <2>2, RecTypes DEF Incomplete, InUse, DeleteTask, IInv, TypeOK
  <2>8. Sparing(x)'
    BY <1>1, <2>2, <2>3, <2>5, <2>7 DEF IInv, Sparing, Noticed
  <2> QED BY <2>4, <2>6, <2>8
<1> QED BY <1>2, <1>3

LEMMA DeleteLeftoverIInv ==
    ASSUME IInv, NEW x \in Cleaners, NEW f \in Leftovers, DeleteLeftover(x, f)
    PROVE  TypeOK' /\ Staged(x)' /\ Sparing(x)'
<1>1. ~drift[x]
  BY DEF DeleteLeftover, IInv, Staged
<1>2. CASE f \notin left
  <2>1. Stop(x) /\ UNCHANGED <<left, drift>>
    BY <1>2 DEF DeleteLeftover
  <2>2. drift'[x] = FALSE
    BY <1>1, <2>1 DEF IInv, TypeOK
  <2> QED BY <2>1, <2>2, StopType, StopIInv DEF DeleteLeftover, IInv, TypeOK, Plans
<1>3. CASE f \in left
  <2> DEFINE p == Paths(plan[x].sessions, plan[x].tasks, plan[x].left \ {f})
  <2>1. p \in Plans /\ pc[x] \in Labels
    BY PlanType DEF IInv, TypeOK, Plans
  <2>2. /\ plan' = [plan EXCEPT ![x] = p] /\ UNCHANGED <<pc, now, seen, late>>
        /\ left' = left \ {f} /\ Touch
    BY <1>3 DEF DeleteLeftover, IInv, TypeOK
  <2>3. plan' \in [Cleaners -> Plans] /\ plan'[x] = p
    BY <2>1, <2>2 DEF IInv, TypeOK, Plans
  <2>4. TypeOK'
    BY <2>2, <2>3 DEF DeleteLeftover, IInv, TypeOK, Plans, Touch
  <2>5. /\ p.sessions = plan[x].sessions /\ p.tasks = plan[x].tasks
        /\ pc[x] = "delete" /\ ~drift'[x]
    BY <1>1, <2>2 DEF Paths, DeleteLeftover, Touch
  <2>6. Staged(x)'
    BY <2>2, <2>5 DEF Staged
  <2>7. Sparing(x)'
    BY <1>1, <2>2, <2>3, <2>5 DEF IInv, Sparing, Noticed, DeleteLeftover, Incomplete, InUse
  <2> QED BY <2>4, <2>6, <2>7
<1> QED BY <1>2, <1>3

\* The clean that moves.
LEMMA CleanerIInv ==
    ASSUME IInv, NEW x \in Cleaners, Cleaner(x)
    PROVE  TypeOK' /\ Staged(x)' /\ Sparing(x)'
<1>1. CASE Scan(x)
  <2>1. TypeOK'
    BY <1>1 DEF Scan, IInv, TypeOK, env, Labels
  <2>2. pc'[x] = "gates" /\ plan' = plan /\ plan[x] = NoPlan /\ drift' = drift /\ ~drift[x]
    BY <1>1 DEF Scan, IInv, TypeOK, Staged
  <2> QED BY <2>1, <2>2 DEF Staged, Sparing, NoPlan, Paths
<1>2. CASE Fingerprint(x)
  <2>1. TypeOK'
    BY <1>2 DEF Fingerprint, IInv, TypeOK, env, Labels
  <2>2. /\ pc'[x] = "planned" /\ pc[x] = "print"
        /\ UNCHANGED <<rec, lease, plan, drift, late>>
    BY <1>2 DEF Fingerprint, IInv, TypeOK, env
  <2> QED BY <2>1, <2>2 DEF Staged, Sparing, Noticed, IInv, Incomplete, InUse
<1>3. CASE DryRun(x)
  <2>1. drift' \in [Cleaners -> BOOLEAN] /\ drift'[x] = FALSE
    BY <1>3 DEF DryRun, IInv, TypeOK
  <2> QED BY <1>3, <2>1, StopType, StopIInv DEF DryRun, IInv, TypeOK, Plans, env
<1>4. CASE Applied(x)
  <2>1. drift' = drift /\ drift'[x] = FALSE
    BY <1>4 DEF Applied, IInv, TypeOK, Staged
  <2> QED BY <1>4, <2>1, StopType, StopIInv DEF Applied, IInv, TypeOK, Plans, env
<1> QED BY <1>1, <1>2, <1>3, <1>4, GatesIInv, PlanTasksIInv, ApplyIInv, DeleteSessionIInv,
           DeleteTaskIInv, DeleteLeftoverIInv DEF Cleaner

\* The others stay where they are, and no task comes into use.
LEMMA OthersStay ==
    ASSUME IInv, NEW x \in Cleaners, Cleaner(x)
    PROVE  /\ \A y \in Cleaners \ {x} :
                 /\ pc'[y] = pc[y] /\ plan'[y] = plan[y] /\ late'[y] = late[y]
                 /\ drift[y] => drift'[y]
                 /\ drift'[y] => drift[y] \/ pc[y] = "planned"
           /\ \A t \in Tasks : Incomplete(t)' => Incomplete(t) /\ rec'[t] = rec[t]
           /\ \A t \in Tasks : InUse(t)' => InUse(t)
<1> DEFINE Still == \A y \in Cleaners \ {x} :
               /\ pc'[y] = pc[y] /\ plan'[y] = plan[y] /\ late'[y] = late[y]
               /\ drift[y] => drift'[y]
               /\ drift'[y] => drift[y] \/ pc[y] = "planned"
           NoNew == /\ \A t \in Tasks : Incomplete(t)' => Incomplete(t) /\ rec'[t] = rec[t]
                    /\ \A t \in Tasks : InUse(t)' => InUse(t)
<1>1. CASE Scan(x)
  BY <1>1 DEF Scan, env, IInv, TypeOK, Incomplete, InUse
<1>2. CASE Gates(x)
  <2>1. Still
    BY <1>2, GatesChoose DEF Gates, IInv, TypeOK
  <2>2. NoNew
    BY <1>2 DEF Gates, env, Incomplete, InUse
  <2> QED BY <2>1, <2>2
<1>3. CASE PlanTasks(x)
  BY <1>3 DEF PlanTasks, env, IInv, TypeOK, Incomplete, InUse
<1>4. CASE Fingerprint(x)
  BY <1>4 DEF Fingerprint, env, IInv, TypeOK, Incomplete, InUse
<1>5. CASE DryRun(x) \/ Apply(x) \/ Applied(x)
  <2>1. Still
    BY <1>5, StopType DEF DryRun, Apply, Applied, IInv, TypeOK
  <2>2. NoNew
    BY <1>5 DEF DryRun, Apply, Applied, env, Incomplete, InUse
  <2> QED BY <2>1, <2>2
<1>6. ASSUME NEW s \in Sessions, DeleteSession(x, s) PROVE Still /\ NoNew
  <2>1. Still
    BY <1>6, StopType DEF DeleteSession, Touch, IInv, TypeOK
  <2>2. NoNew
    BY <1>6 DEF DeleteSession, Incomplete, InUse
  <2> QED BY <2>1, <2>2
<1>7. ASSUME NEW t \in Tasks, DeleteTask(x, t) PROVE Still /\ NoNew
  <2>1. Still
    BY <1>7, StopType DEF DeleteTask, Touch, IInv, TypeOK
  <2>2. NoNew
    BY <1>7, RecTypes DEF DeleteTask, Incomplete, InUse, IInv, TypeOK
  <2> QED BY <2>1, <2>2
<1>8. ASSUME NEW f \in Leftovers, DeleteLeftover(x, f) PROVE Still /\ NoNew
  <2>1. Still
    BY <1>8, StopType DEF DeleteLeftover, Touch, IInv, TypeOK
  <2>2. NoNew
    BY <1>8 DEF DeleteLeftover, Incomplete, InUse
  <2> QED BY <2>1, <2>2
<1> QED BY <1>1, <1>2, <1>3, <1>4, <1>5, <1>6, <1>7, <1>8 DEF Cleaner

LEMMA NextIInv == IInv /\ [Next]_vars => IInv'
<1> SUFFICES ASSUME IInv, [Next]_vars PROVE IInv'
  OBVIOUS
<1>1. ASSUME NEW x \in Cleaners, Cleaner(x) PROVE IInv'
  <2>1. TypeOK' /\ Staged(x)' /\ Sparing(x)'
    BY <1>1, CleanerIInv
  <2>2. ASSUME NEW y \in Cleaners \ {x} PROVE Staged(y)' /\ Sparing(y)'
    <3>1. Sparing(y)'
      BY <1>1, OthersStay, StillSparing
    <3> QED BY <1>1, <3>1, OthersStay DEF IInv, Staged
  <2> QED BY <2>1, <2>2 DEF IInv
<1>2. CASE UNCHANGED vars
  BY <1>2 DEF vars, env, cleaner, IInv, TypeOK, Staged, Sparing, Noticed, Incomplete, InUse
<1> QED BY <1>1, <1>2, EnvironmentIInv DEF Next

LEMMA IInvCorrect == Spec => []IInv
BY InitIInv, NextIInv, PTL DEF Spec

(* The state keeps its type: in particular no cancel or reaping brings back *)
(* the record of a task that has none.                                      *)
THEOREM TypeCorrect == Spec => []TypeOK
BY IInvCorrect, PTL DEF IInv

------------------------------------------------------------------------------
(* A clean removes nothing in use but for tasks dispatched too late for it  *)
(* to notice: what was in use at the plan, or came into use between plan    *)
(* and application, stays (plan, apply and compute_fingerprint).            *)
THEOREM ActiveImmune == Spec => ActiveImmunity
<1> DEFINE Lost(x, t) ==
              /\ InUse(t)
              /\ \/ /\ t \in plan[x].tasks \ plan'[x].tasks
                    /\ rec[t] # NoRec /\ rec'[t] = NoRec
                 \/ /\ Incomplete(t)
                    /\ rec[t].session \in plan[x].sessions \ plan'[x].sessions
                    /\ dir[rec[t].session] # NoDir /\ dir'[rec[t].session] = NoDir
<1>1. ASSUME IInv, [Next]_vars, NEW x \in Cleaners, NEW t \in Tasks, Lost(x, t)
      PROVE  t \in late[x]
  <2>1. Noticed(x, t)
    BY <1>1 DEF IInv, Sparing
  <2>2. pc[x] # "planned"
    <3>1. ~Environment /\ ~UNCHANGED vars
      BY <1>1 DEF Environment, Dispatch, Begin, Finish, Abandon, Release, Tick, cleaner, vars, env
    <3>2. PICK y \in Cleaners : Cleaner(y)
      BY <1>1, <3>1 DEF Next
    <3>3. y = x
      BY <1>1, <3>2, OthersStay
    <3> QED BY <1>1, <3>2, <3>3 DEF Cleaner, Scan, Gates, PlanTasks, Fingerprint, DryRun, Apply,
                Applied, DeleteSession, DeleteTask, DeleteLeftover, env
  <2> QED BY <2>1, <2>2 DEF Noticed
<1>2. IInv /\ [Next]_vars =>
        \A x \in Cleaners, t \in Tasks :
          LET s == rec[t].session
              lostRecord == /\ t \in plan[x].tasks \ plan'[x].tasks
                            /\ rec[t] # NoRec /\ rec'[t] = NoRec
              lostSession == /\ Incomplete(t) /\ s \in plan[x].sessions \ plan'[x].sessions
                             /\ dir[s] # NoDir /\ dir'[s] = NoDir
          IN  InUse(t) /\ (lostRecord \/ lostSession) => t \in late[x]
  BY <1>1
<1> QED BY <1>2, IInvCorrect, PTL DEF Spec, ActiveImmunity

------------------------------------------------------------------------------
(* The size of a set of sessions.  Bytes walks through the set in an order  *)
(* of its own; that it gives the sum, so that the size of a part and that   *)
(* of the rest add up, is an induction.  The library's induction theorems   *)
(* take an operator as a parameter; the least number of a set of naturals   *)
(* does instead: the smallest counterexample there is.                      *)
LEMMA LeastNat ==
    ASSUME NEW N \in SUBSET Nat, N # {}
    PROVE  \E n \in N : \A m \in N : n <= m
<1> DEFINE R == OpToRel(<, Nat)
<1>1. IsWellFoundedOn(R, Nat)
  BY NatLessThanWellFounded
<1>2. \A m, n \in Nat : m < n => <<m, n>> \in R
  BY DEF OpToRel
<1> HIDE DEF R
<1>3. PICK n \in N : \A m \in N : ~ (<<m, n>> \in R)
  BY <1>1, WFMin
<1>4. \A m \in N : ~(m < n)
  BY <1>2, <1>3
<1> QED BY <1>4

(* The walk's next element, the equation its function solves, and the same  *)
(* for the subsets of at most n elements.                                   *)
First(S) == CHOOSE s \in S : TRUE

Walk(g, S) ==
    g = [T \in SUBSET S |-> IF T = {} THEN 0 ELSE Size[First(T)] + g[T \ {First(T)}]]

Small(S, n) == {T \in SUBSET S : IsFiniteSet(T) /\ Cardinality(T) <= n}

SmallWalk(g, S, n) ==
    g = [T \in Small(S, n) |-> IF T = {} THEN 0 ELSE Size[First(T)] + g[T \ {First(T)}]]

LEMMA BytesWalks == \A S : Bytes(S) = (CHOOSE g : Walk(g, S))[S]
BY DEF Bytes, MapThenSumSet, MapThenFoldSet, Walk, First

LEMMA Smaller ==
    ASSUME NEW S, IsFiniteSet(S), NEW s \in S
    PROVE  /\ Cardinality(S) \in Nat \ {0} /\ IsFiniteSet(S \ {s})
           /\ Cardinality(S \ {s}) = Cardinality(S) - 1
BY FS_RemoveElement, FS_CardinalityType, FS_EmptySet

LEMMA FirstSmaller ==
    ASSUME NEW S, IsFiniteSet(S), S # {}
    PROVE  /\ First(S) \in S
           /\ Cardinality(S) \in Nat \ {0} /\ IsFiniteSet(S \ {First(S)})
           /\ Cardinality(S \ {First(S)}) = Cardinality(S) - 1
<1>1. First(S) \in S
  BY DEF First
<1> QED BY <1>1, Smaller

LEMMA SmallWalkExists ==
    ASSUME NEW S, NEW n \in Nat
    PROVE  \E g : SmallWalk(g, S, n)
<1> DEFINE N == {k \in Nat : ~ \E g : SmallWalk(g, S, k)}
<1> SUFFICES ASSUME N # {} PROVE FALSE
  OBVIOUS
<1>1. PICK k \in N : \A m \in N : k <= m
  BY LeastNat
<1>2. CASE k = 0
  <2>1. \A T \in Small(S, 0) : T = {}
    BY FS_EmptySet, FS_CardinalityType DEF Small
  <2>2. SmallWalk([T \in Small(S, 0) |-> 0], S, 0)
    BY <2>1 DEF SmallWalk
  <2> QED BY <1>2, <2>2
<1>3. CASE k # 0
  <2>1. k - 1 \in Nat /\ ~(k <= k - 1)
    BY <1>3
  <2>2. PICK g : SmallWalk(g, S, k - 1)
    BY <1>1, <2>1
  <2> DEFINE h == [T \in Small(S, k) |->
                      IF T = {} THEN 0 ELSE Size[First(T)] + g[T \ {First(T)}]]
  <2>3. \A T \in Small(S, k) : T # {} => T \ {First(T)} \in Small(S, k - 1)
    BY <1>1, FirstSmaller DEF Small
  <2>4. \A T \in Small(S, k - 1) : T \in Small(S, k)
    <3>1. \A T \in Small(S, k - 1) : Cardinality(T) \in Nat
      BY FS_CardinalityType DEF Small
    <3> QED BY <1>1, <3>1 DEF Small
  <2>5. \A T \in Small(S, k - 1) : h[T] = g[T]
    BY <2>2, <2>4 DEF SmallWalk
  <2>6. SmallWalk(h, S, k)
    BY <2>3, <2>4, <2>5 DEF SmallWalk
  <2> QED BY <2>6
<1> QED BY <1>2, <1>3

LEMMA WalkExists ==
    ASSUME NEW S, IsFiniteSet(S)
    PROVE  \E g : Walk(g, S)
<1> DEFINE n == Cardinality(S)
<1>1. n \in Nat
  BY FS_CardinalityType
<1>2. PICK g : SmallWalk(g, S, n)
  BY <1>1, SmallWalkExists
<1>3. SUBSET S = Small(S, n)
  BY FS_Subset DEF Small
<1> QED BY <1>2, <1>3 DEF Walk, SmallWalk

LEMMA WalksAgree ==
    ASSUME NEW S, NEW T, NEW g, NEW h, Walk(g, S), Walk(h, T),
           NEW U \in SUBSET (S \cap T), IsFiniteSet(U)
    PROVE  g[U] = h[U]
<1> DEFINE Bad(k) == \E V \in SUBSET (S \cap T) :
                        IsFiniteSet(V) /\ Cardinality(V) = k /\ g[V] # h[V]
           N == {k \in Nat : Bad(k)}
<1> SUFFICES ASSUME g[U] # h[U] PROVE FALSE
  OBVIOUS
<1>1. Cardinality(U) \in N
  BY FS_CardinalityType
<1>2. PICK k \in N : \A m \in N : k <= m
  BY <1>1, LeastNat
<1>3. PICK V \in SUBSET (S \cap T) : IsFiniteSet(V) /\ Cardinality(V) = k /\ g[V] # h[V]
  OBVIOUS
<1>4. V # {}
  BY <1>3 DEF Walk
<1> DEFINE W == V \ {First(V)}
<1>5. W \in SUBSET (S \cap T) /\ IsFiniteSet(W) /\ Cardinality(W) = k - 1 /\ k \in Nat \ {0}
  BY <1>3, <1>4, FirstSmaller
<1>6. g[W] = h[W]
  <2>1. k - 1 \in Nat /\ ~(k <= k - 1)
    BY <1>5
  <2>2. k - 1 \notin N
    BY <1>2, <2>1
  <2> QED BY <1>5, <2>1, <2>2
<1>7. V \in SUBSET S /\ V \in SUBSET T
  BY <1>3
<1>8. g[V] = Size[First(V)] + g[W] /\ h[V] = Size[First(V)] + h[W]
  BY <1>4, <1>7 DEF Walk
<1> QED BY <1>3, <1>6, <1>8

LEMMA BytesFirst ==
    ASSUME NEW S, IsFiniteSet(S)
    PROVE  Bytes(S) = IF S = {} THEN 0 ELSE Size[First(S)] + Bytes(S \ {First(S)})
<1> DEFINE F(T) == CHOOSE g : Walk(g, T)
           R == S \ {First(S)}
<1>1. Walk(F(S), S)
  BY WalkExists
<1>2. Bytes(S) = F(S)[S]
  BY BytesWalks
<1>3. CASE S = {}
  BY <1>1, <1>2, <1>3 DEF Walk
<1>4. CASE S # {}
  <2>1. IsFiniteSet(R) /\ R \subseteq S
    BY <1>4, FirstSmaller
  <2>2. Walk(F(R), R)
    BY <2>1, WalkExists
  <2>3. Bytes(R) = F(R)[R]
    BY BytesWalks
  <2>4. F(S)[R] = F(R)[R]
    BY <1>1, <2>1, <2>2, WalksAgree
  <2> HIDE DEF F
  <2>5. F(S)[S] = Size[First(S)] + F(S)[R]
    BY <1>1, <1>4 DEF Walk
  <2> QED BY <1>2, <1>4, <2>3, <2>4, <2>5
<1> QED BY <1>3, <1>4

LEMMA BytesNat ==
    ASSUME NEW S \in SUBSET Sessions
    PROVE  Bytes(S) \in Nat
<1> DEFINE N == {k \in Nat : \E T \in SUBSET Sessions : Cardinality(T) = k /\ Bytes(T) \notin Nat}
<1>f. \A T \in SUBSET Sessions : IsFiniteSet(T) /\ Cardinality(T) \in Nat
  BY PrunerAssumption, FS_Subset, FS_CardinalityType
<1> SUFFICES ASSUME Bytes(S) \notin Nat PROVE FALSE
  OBVIOUS
<1>1. N # {}
  BY <1>f
<1>2. PICK k \in N : \A m \in N : k <= m
  BY <1>1, LeastNat
<1>3. PICK T \in SUBSET Sessions : Cardinality(T) = k /\ Bytes(T) \notin Nat
  OBVIOUS
<1>4. T # {}
  BY <1>3, <1>f, BytesFirst
<1> DEFINE U == T \ {First(T)}
<1>5. U \in SUBSET Sessions /\ Cardinality(U) = k - 1 /\ k \in Nat \ {0} /\ First(T) \in Sessions
  BY <1>3, <1>4, <1>f, FirstSmaller
<1>6. Bytes(U) \in Nat
  <2>1. k - 1 \in Nat /\ ~(k <= k - 1)
    BY <1>5
  <2> QED BY <1>2, <1>5, <2>1
<1>7. Size[First(T)] \in Nat
  BY <1>5, PrunerAssumption
<1> QED BY <1>3, <1>4, <1>6, <1>7, <1>f, BytesFirst

(* Any session may be taken for the first.                                  *)
LEMMA BytesAny ==
    ASSUME NEW S \in SUBSET Sessions, NEW s \in S
    PROVE  Bytes(S) = Size[s] + Bytes(S \ {s})
<1> DEFINE Off(T, t) == Bytes(T) # Size[t] + Bytes(T \ {t})
           N == {k \in Nat : \E T \in SUBSET Sessions : Cardinality(T) = k /\ \E t \in T : Off(T, t)}
<1>f. \A T \in SUBSET Sessions : IsFiniteSet(T) /\ Cardinality(T) \in Nat
  BY PrunerAssumption, FS_Subset, FS_CardinalityType
<1> SUFFICES ASSUME Off(S, s) PROVE FALSE
  OBVIOUS
<1>1. N # {}
  BY <1>f
<1>2. PICK k \in N : \A m \in N : k <= m
  BY <1>1, LeastNat
<1>3. PICK T \in SUBSET Sessions : Cardinality(T) = k /\ \E t \in T : Off(T, t)
  OBVIOUS
<1>4. PICK t \in T : Off(T, t)
  BY <1>3
<1> DEFINE f == First(T)
<1>5. /\ f \in T /\ k \in Nat \ {0}
      /\ Bytes(T) = Size[f] + Bytes(T \ {f})
      /\ Cardinality(T \ {f}) = k - 1 /\ Cardinality(T \ {t}) = k - 1
  BY <1>3, <1>4, <1>f, FirstSmaller, Smaller, BytesFirst
<1> HIDE DEF f
<1>6. f # t
  BY <1>4, <1>5
<1>7. \A V \in SUBSET Sessions : \A v \in V : Cardinality(V) = k - 1 => ~Off(V, v)
  <2>1. k - 1 \in Nat /\ ~(k <= k - 1)
    BY <1>5
  <2>2. k - 1 \notin N
    BY <1>2, <2>1
  <2> QED BY <2>1, <2>2
<1> DEFINE R == T \ {f, t}
<1>8. (T \ {f}) \ {t} = R /\ (T \ {t}) \ {f} = R
  OBVIOUS
<1>9. Bytes(T \ {f}) = Size[t] + Bytes(R) /\ Bytes(T \ {t}) = Size[f] + Bytes(R)
  BY <1>5, <1>6, <1>7, <1>8
<1>10. Size[f] \in Nat /\ Size[t] \in Nat /\ Bytes(R) \in Nat
  <2>1. f \in Sessions /\ t \in Sessions /\ R \in SUBSET Sessions
    BY <1>5
  <2> QED BY <2>1, PrunerAssumption, BytesNat
<1>11. Bytes(T) = Size[t] + Bytes(T \ {t})
  <2>1. \A a, b, c \in Nat : a + (b + c) = b + (a + c)
    OBVIOUS
  <2> QED BY <1>5, <1>9, <1>10, <2>1
<1> QED BY <1>4, <1>11

(* The size of a part and that of the rest are the size of the whole.       *)
LEMMA BytesAdd ==
    ASSUME NEW S \in SUBSET Sessions, NEW P \in SUBSET S
    PROVE  Bytes(S) = Bytes(P) + Bytes(S \ P)
<1> DEFINE Off(Q) == Bytes(S) # Bytes(Q) + Bytes(S \ Q)
           N == {k \in Nat : \E Q \in SUBSET S : Cardinality(Q) = k /\ Off(Q)}
<1>f. \A T \in SUBSET Sessions : /\ IsFiniteSet(T) /\ Cardinality(T) \in Nat
                                 /\ Bytes(T) \in Nat
  BY PrunerAssumption, FS_Subset, FS_CardinalityType, BytesNat
<1> SUFFICES ASSUME Off(P) PROVE FALSE
  OBVIOUS
<1>1. N # {}
  BY <1>f
<1>2. PICK k \in N : \A m \in N : k <= m
  BY <1>1, LeastNat
<1>3. PICK Q \in SUBSET S : Cardinality(Q) = k /\ Off(Q)
  OBVIOUS
<1>4. Q # {}
  <2>1. Bytes({}) = 0
    BY FS_EmptySet, BytesFirst
  <2>2. ~Off({})
    BY <2>1, <1>f
  <2> QED BY <1>3, <2>2
<1>5. PICK q \in Q : TRUE
  BY <1>4
<1> DEFINE R == Q \ {q}
<1>6. R \in SUBSET S /\ Cardinality(R) = k - 1 /\ k \in Nat \ {0}
  BY <1>3, <1>f, Smaller
<1>7. Bytes(S) = Bytes(R) + Bytes(S \ R)
  <2>1. k - 1 \in Nat /\ ~(k <= k - 1)
    BY <1>6
  <2> QED BY <1>2, <1>6, <2>1
<1>8. Bytes(Q) = Size[q] + Bytes(R)
  BY BytesAny
<1>9. Bytes(S \ R) = Size[q] + Bytes(S \ Q)
  <2>1. S \ R \in SUBSET Sessions /\ q \in S \ R /\ (S \ R) \ {q} = S \ Q
    OBVIOUS
  <2> QED BY <2>1, BytesAny
<1>10. Size[q] \in Nat /\ Bytes(R) \in Nat /\ Bytes(S \ Q) \in Nat
  BY <1>f, PrunerAssumption
<1>11. \A a, b, c \in Nat : a + (b + c) = (b + a) + c
  OBVIOUS
<1> QED BY <1>3, <1>7, <1>8, <1>9, <1>10, <1>11

------------------------------------------------------------------------------
(* RetentionPolicy: what the three gates choose together.                   *)
LEMMA PartSize ==
    ASSUME NEW S, IsFiniteSet(S), NEW P \in SUBSET S
    PROVE  Cardinality(S) = Cardinality(P) + Cardinality(S \ P)
<1>1. IsFiniteSet(P) /\ IsFiniteSet(S \ P)
  BY FS_Subset
<1>2. P \cup (S \ P) = S /\ P \cap (S \ P) = {}
  OBVIOUS
<1>3. Cardinality(P \cap (S \ P)) = 0
  BY <1>2, FS_EmptySet
<1>4. Cardinality(P) \in Nat /\ Cardinality(S \ P) \in Nat
  BY <1>1, FS_CardinalityType
<1> QED BY <1>1, <1>2, <1>3, <1>4, FS_Union

Retained(x, gone) ==
    LET kept == There(x) \ gone
    IN  /\ gone = Candidates(x) \/ ( /\ Cardinality(kept) <= MaxCount
                                     /\ Bytes(kept) <= MaxSize
                                     /\ Aged(x, Candidates(x)) \subseteq gone )
        /\ \A a \in gone, b \in Candidates(x) \ gone :
              seen[x][a].at <= seen[x][b].at
        /\ gone \subseteq Aged(x, There(x))
              \/ Cardinality(There(x)) > MaxCount
              \/ Bytes(There(x)) > MaxSize

LEMMA SeenTypes ==
    ASSUME TypeOK, NEW x \in Cleaners
    PROVE  /\ Candidates(x) \subseteq There(x) /\ There(x) \subseteq Sessions
           /\ \A s \in Sessions : seen[x][s].at \in Nat
           /\ now[x] \in Nat /\ MaxAge \in Nat /\ MaxCount \in Nat /\ MaxSize \in Nat
           /\ \A S \in SUBSET There(x) :
                 IsFiniteSet(S) /\ Cardinality(S) \in Nat /\ Bytes(S) \in Nat
<1>1. Candidates(x) \subseteq There(x) /\ There(x) \subseteq Sessions
  BY DEF Candidates, There
<1>2. Times \subseteq Nat /\ MaxAge \in Nat /\ MaxCount \in Nat /\ MaxSize \in Nat
  BY PrunerAssumption DEF Times
<1>3. \A d \in Dir \cup {NoDir} : d.at \in Nat
  <2>1. \A d \in Dir : d.at \in Nat
    BY <1>2 DEF Dir
  <2>2. NoDir.at = 0
    BY DEF NoDir
  <2> QED BY <2>1, <2>2
<1>4. \A s \in Sessions : seen[x][s] \in Dir \cup {NoDir}
  BY DEF TypeOK
<1>5. now[x] \in Nat
  BY <1>2 DEF TypeOK
<1>6. \A S \in SUBSET There(x) : IsFiniteSet(S) /\ Cardinality(S) \in Nat /\ Bytes(S) \in Nat
  BY <1>1, PrunerAssumption, FS_Subset, FS_CardinalityType, BytesNat
<1> QED BY <1>1, <1>2, <1>3, <1>4, <1>5, <1>6

LEMMA GatesRetain ==
    ASSUME TypeOK, NEW x \in Cleaners,
           NEW E \in Surplus(x, Candidates(x) \ Aged(x, Candidates(x))),
           NEW F \in Oversize(x, Candidates(x) \ (Aged(x, Candidates(x)) \cup E))
    PROVE  Retained(x, Aged(x, Candidates(x)) \cup E \cup F)
<1> DEFINE C == Candidates(x)
           W == There(x)
           A == Aged(x, C)
           gone == A \cup E \cup F
           kept == W \ gone
           excess == Cardinality(W) - MaxCount
<1>t. /\ C \subseteq W /\ W \subseteq Sessions
      /\ \A s \in Sessions : seen[x][s].at \in Nat
      /\ now[x] \in Nat /\ MaxAge \in Nat /\ MaxCount \in Nat /\ MaxSize \in Nat
      /\ \A S \in SUBSET W : IsFiniteSet(S) /\ Cardinality(S) \in Nat /\ Bytes(S) \in Nat
  BY SeenTypes
<1>a. A \subseteq C /\ A \subseteq Aged(x, W)
  BY <1>t DEF Aged
<1>e. /\ E \subseteq C \ A
      /\ \A a \in E, b \in (C \ A) \ E : seen[x][a].at <= seen[x][b].at
      /\ \/ Cardinality(E) = excess
         \/ excess <= 0 /\ E = {}
         \/ Cardinality(C \ A) < excess /\ E = C \ A
  BY DEF Surplus, OldestFirst
<1>f. /\ F \subseteq C \ (A \cup E)
      /\ \A a \in F, b \in (C \ (A \cup E)) \ F : seen[x][a].at <= seen[x][b].at
      /\ Bytes(W) > Bytes(F) + MaxSize => F = C \ (A \cup E)
      /\ F # {} => \E last \in F : Bytes(W) > Bytes(F \ {last}) + MaxSize
  BY DEF Oversize, OldestFirst
<1>g. gone \subseteq C /\ gone \subseteq W /\ E \subseteq W /\ F \subseteq W /\ kept \subseteq W
  BY <1>t, <1>a, <1>e, <1>f
<1>o. \A a \in A, b \in C \ A : seen[x][a].at <= seen[x][b].at
  <2>1. ASSUME NEW a \in A, NEW b \in C \ A
        PROVE  seen[x][a].at <= seen[x][b].at
    <3>1. now[x] > seen[x][a].at + MaxAge /\ ~(now[x] > seen[x][b].at + MaxAge)
      BY DEF Aged, Old
    <3>2. seen[x][a].at \in Nat /\ seen[x][b].at \in Nat
      BY <1>t, <1>a
    <3>3. \A i, j, k, m \in Nat : i > j + m /\ ~(i > k + m) => j <= k
      OBVIOUS
    <3> QED BY <3>1, <3>2, <3>3, <1>t
  <2> QED BY <2>1
<1> HIDE DEF C, W, A
<1>1. gone = C \/ Cardinality(kept) <= MaxCount
  <2>n. Cardinality(W) \in Nat /\ Cardinality(E) \in Nat /\ Cardinality(kept) \in Nat
    BY <1>t, <1>g
  <2>1. CASE Cardinality(E) = excess
    <3>1. Cardinality(W \ E) = Cardinality(W) - Cardinality(E)
      <4>1. W \ E = W \ (W \cap E) /\ W \cap E = E
        BY <1>g
      <4>2. Cardinality(W) = Cardinality(E) + Cardinality(W \ E)
        BY <1>t, <1>g, PartSize
      <4>3. Cardinality(W \ E) \in Nat
        BY <1>t
      <4> QED BY <4>2, <4>3, <2>n
    <3>2. Cardinality(kept) <= Cardinality(W \ E)
      <4>1. kept \in SUBSET (W \ E) /\ IsFiniteSet(W \ E)
        BY <1>t
      <4> QED BY <4>1, FS_Subset
    <3> QED BY <2>1, <2>n, <3>1, <3>2, <1>t
  <2>2. CASE excess <= 0
    <3>1. Cardinality(kept) <= Cardinality(W)
      BY <1>t, <1>g, FS_Subset
    <3> QED BY <2>2, <2>n, <3>1, <1>t
  <2>3. CASE E = C \ A
    BY <2>3, <1>g, <1>a
  <2> QED BY <2>1, <2>2, <2>3, <1>e
<1>2. gone = C \/ Bytes(kept) <= MaxSize
  <2>1. CASE Bytes(W) > Bytes(F) + MaxSize
    BY <2>1, <1>a, <1>e, <1>f
  <2>2. CASE ~(Bytes(W) > Bytes(F) + MaxSize)
    <3> DEFINE rest == gone \ F
    <3>1. Bytes(W) = Bytes(gone) + Bytes(kept) /\ Bytes(gone) = Bytes(F) + Bytes(rest)
      <4>1. W \in SUBSET Sessions /\ gone \in SUBSET W /\ gone \in SUBSET Sessions
            /\ F \in SUBSET gone
        BY <1>t, <1>g
      <4> QED BY <4>1, BytesAdd
    <3>2. /\ Bytes(W) \in Nat /\ Bytes(F) \in Nat /\ Bytes(gone) \in Nat
          /\ Bytes(kept) \in Nat /\ Bytes(rest) \in Nat
      BY <1>t, <1>g
    <3>3. \A w, g, k, f, r, m \in Nat : w = g + k /\ g = f + r /\ ~(w > f + m) => k <= m
      OBVIOUS
    <3> QED BY <2>2, <3>1, <3>2, <3>3, <1>t
  <2> QED BY <2>1, <2>2
<1>3. \A a \in gone, b \in C \ gone : seen[x][a].at <= seen[x][b].at
  BY <1>o, <1>a, <1>e, <1>f
<1>4. gone \subseteq Aged(x, W) \/ Cardinality(W) > MaxCount \/ Bytes(W) > MaxSize
  <2>1. CASE E # {}
    <3>1. excess > 0
      <4>1. Cardinality(E) \in Nat /\ Cardinality(E) # 0 /\ Cardinality(C \ A) \in Nat
        <5>1. IsFiniteSet(E) /\ Cardinality(E) \in Nat /\ C \ A \in SUBSET W
          BY <1>t, <1>g
        <5> QED BY <2>1, <5>1, <1>t, FS_EmptySet
      <4>2. Cardinality(W) \in Nat
        BY <1>t
      <4> QED BY <2>1, <4>1, <4>2, <1>e, <1>t
    <3>2. Cardinality(W) \in Nat
      BY <1>t
    <3> QED BY <3>1, <3>2, <1>t
  <2>2. CASE F # {}
    <3>1. PICK last \in F : Bytes(W) > Bytes(F \ {last}) + MaxSize
      BY <2>2, <1>f
    <3>2. Bytes(F \ {last}) \in Nat /\ Bytes(W) \in Nat
      BY <1>t, <1>g
    <3>3. \A w, f, m \in Nat : w > f + m => w > m
      OBVIOUS
    <3> QED BY <3>1, <3>2, <3>3, <1>t
  <2>3. CASE E = {} /\ F = {}
    BY <2>3, <1>a
  <2> QED BY <2>1, <2>2, <2>3
<1> USE DEF C, W, A
<1> QED BY <1>1, <1>2, <1>3, <1>4 DEF Retained

(* What a plan leaves is within the limits unless every candidate is in it; *)
(* no younger candidate goes before an older one; and one that is not old   *)
(* goes only when the directory was over a limit (plan's three gates): for  *)
(* any sessions of any sizes and any policy.                                *)
THEOREM PolicyRetains == Spec => RetentionPolicy
<1>1. ASSUME IInv, [Next]_vars, NEW x \in Cleaners, pc[x] = "gates", pc'[x] = "tasks"
      PROVE  Retained(x, plan'[x].sessions)
  <2>1. Gates(x)
    <3>1. ~Environment /\ ~UNCHANGED vars
      BY <1>1 DEF Environment, Dispatch, Begin, Finish, Abandon, Release, Tick, cleaner, vars
    <3>2. PICK y \in Cleaners : Cleaner(y)
      BY <1>1, <3>1 DEF Next
    <3>3. y = x
      BY <1>1, <3>2, OthersStay
    <3> QED BY <1>1, <3>2, <3>3 DEF Cleaner, Scan, PlanTasks, Fingerprint, DryRun, Apply,
                Applied, DeleteSession, DeleteTask, DeleteLeftover
  <2> DEFINE aged == Aged(x, Candidates(x))
  <2>2. PICK E \in Surplus(x, Candidates(x) \ aged) :
          \E F \in Oversize(x, Candidates(x) \ (aged \cup E)) :
             plan' = [plan EXCEPT ![x] = Paths(aged \cup E \cup F, {}, {})]
    BY <2>1 DEF Gates
  <2>3. PICK F \in Oversize(x, Candidates(x) \ (aged \cup E)) :
             plan' = [plan EXCEPT ![x] = Paths(aged \cup E \cup F, {}, {})]
    BY <2>2
  <2>4. plan'[x].sessions = aged \cup E \cup F
    BY <1>1, <2>3 DEF IInv, TypeOK, Paths
  <2> QED BY <1>1, <2>4, GatesRetain DEF IInv
<1>2. IInv /\ [Next]_vars =>
        \A x \in Cleaners : pc[x] = "gates" /\ pc'[x] = "tasks" =>
          LET gone == plan'[x].sessions
              kept == There(x) \ gone
          IN  /\ gone = Candidates(x) \/ ( /\ Cardinality(kept) <= MaxCount
                                           /\ Bytes(kept) <= MaxSize
                                           /\ Aged(x, Candidates(x)) \subseteq gone )
              /\ \A a \in gone, b \in Candidates(x) \ gone :
                    seen[x][a].at <= seen[x][b].at
              /\ gone \subseteq Aged(x, There(x))
                    \/ Cardinality(There(x)) > MaxCount
                    \/ Bytes(There(x)) > MaxSize
  BY <1>1 DEF Retained
<1> QED BY <1>2, IInvCorrect, PTL DEF Spec, RetentionPolicy

=============================================================================
