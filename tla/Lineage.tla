------------------------------- MODULE Lineage -------------------------------
(***************************************************************************)
(* The evolution lineage (evo/lineage.rs) under `evo run` and `evo status` *)
(* (main.rs, evo/optimizer.rs, evo/watchdog.rs): a run scores the          *)
(* artifact, loads the file, appends one commit in memory, and writes the  *)
(* whole file anew.  Runs of several processes may overlap, and a process  *)
(* may die while it writes.                                                *)
(*                                                                         *)
(* A commit is a record; the file is a sequence of commits, or one whose   *)
(* last line is cut.  Fitness is a small number, Unscored for none.        *)
(***************************************************************************)
EXTENDS Integers, Sequences, FiniteSets, SequencesExt

CONSTANTS
    Runs,        \* processes that run `evo run`
    Scores,      \* mean fitness values, of numbers
    MaxTime,     \* bound on the clock
    MaxCommits,  \* bound on the commits of a file
    StallAge,    \* STALL_DAYS, in ticks of the clock
    Window       \* IMPROVEMENT_WINDOW

Unscored == -1

LineageAssumption ==
    /\ Scores \subseteq Nat /\ MaxTime \in Nat
    /\ StallAge \in Nat /\ Window \in Nat \ {0}

VARIABLES
    file,        \* the commits in the lineage file, in order
    cut,         \* whether the file's last line is cut off
    nodes,       \* the lineage each run has in memory
    pc,          \* where each run is
    now,         \* the clock
    overlapped   \* runs whose file another has written since they loaded it

vars == <<file, cut, nodes, pc, now, overlapped>>

Init ==
    /\ file = <<>>
    /\ cut = FALSE
    /\ nodes = [r \in Runs |-> <<>>]
    /\ pc = [r \in Runs |-> "idle"]
    /\ now = 0
    /\ overlapped = {}

Ids(ns) == {ns[i].id : i \in DOMAIN ns}

\* load refuses a repeated id, and a parent that is the node or is not there.
Loadable(ns) ==
    /\ \A i, j \in DOMAIN ns : ns[i].id = ns[j].id => i = j
    /\ \A i \in DOMAIN ns : ns[i].parents \subseteq Ids(ns) \ {ns[i].id}

\* compare_fitness, and the last of equals as max_by takes it (the second part
\* of an id is the node's place in the file).
Better(a, b) ==
    \/ a.fitness > b.fitness
    \/ a.fitness = b.fitness /\ a.at < b.at
    \/ a.fitness = b.fitness /\ a.at = b.at /\ a.id[2] > b.id[2]

\* max_by over a set that is not empty.
Best(set) == CHOOSE a \in set : \A b \in set : ~Better(b, a)

Scored(ns) == {n \in ToSet(ns) : n.fitness # Unscored}

ParentIds(ns) == UNION {ns[i].parents : i \in DOMAIN ns}

\* The scored nodes that head chooses from.
Leaves(ns) == {n \in Scored(ns) : n.id \notin ParentIds(ns)}

\* head, as a set of at most one node.
Head1(ns) == IF Leaves(ns) = {} THEN {} ELSE {Best(Leaves(ns))}

\* commit_artifact.
NewNode(ns, fitness, t) ==
    [id |-> <<t, Len(ns)>>, parents |-> {h.id : h \in Head1(ns)},
     fitness |-> fitness, at |-> t]

\* add_node refuses a known id and an unknown parent.
CanAdd(ns, n) == n.id \notin Ids(ns) /\ n.parents \subseteq Ids(ns)

\* watchdog::evaluate, at the time t: the oldest and the newest scored commit of
\* the window are compared.
Verdict(ns, t) ==
    LET first == IF Len(ns) > Window THEN Len(ns) - Window + 1 ELSE 1
        scored == {i \in first..Len(ns) : ns[i].fitness # Unscored}
        Flat(i, j) == i < j /\ scored \subseteq i..j /\ ns[j].fitness <= ns[i].fitness
    IN CASE ns = <<>> -> "empty"
         [] ns # <<>> /\ t - Last(ns).at >= StallAge -> "old"
         [] OTHER -> IF \E i, j \in scored : Flat(i, j) THEN "flat" ELSE "healthy"

-----------------------------------------------------------------------------

\* The evaluations take a while; then the file is loaded, or refused.
Load(r) ==
    /\ pc[r] \in {"idle", "dead"}
    /\ ~cut /\ Loadable(file)
    /\ Len(file) < MaxCommits
    /\ nodes' = [nodes EXCEPT ![r] = file]
    /\ overlapped' = overlapped \ {r}
    /\ pc' = [pc EXCEPT ![r] = "commit"]
    /\ UNCHANGED <<file, cut, now>>

\* commit_artifact; an error of add_node ends the run.
Commit(r) ==
    /\ pc[r] = "commit"
    /\ \E fitness \in Scores \cup {Unscored} :
          LET n == NewNode(nodes[r], fitness, now)
          IN \/ /\ CanAdd(nodes[r], n)
                /\ nodes' = [nodes EXCEPT ![r] = Append(@, n)]
                /\ pc' = [pc EXCEPT ![r] = "save"]
             \/ /\ ~CanAdd(nodes[r], n)
                /\ pc' = [pc EXCEPT ![r] = "idle"]
                /\ UNCHANGED nodes
    /\ UNCHANGED <<file, cut, now, overlapped>>

\* Mutant of Save: only the run's own commit is appended to the file.
SaveOwn(r) ==
    /\ pc[r] = "save"
    /\ file' = Append(file, Last(nodes[r]))
    /\ cut' = FALSE
    /\ pc' = [pc EXCEPT ![r] = "idle"]
    /\ nodes' = [nodes EXCEPT ![r] = <<>>]
    /\ overlapped' = overlapped \cup {q \in Runs \ {r} : pc[q] \in {"commit", "save"}}
    /\ UNCHANGED now

\* save: the file is written as it is in memory, and the id is reported.
Save(r) ==
    /\ pc[r] = "save"
    /\ file' = nodes[r]
    /\ cut' = FALSE
    /\ pc' = [pc EXCEPT ![r] = "idle"]
    /\ nodes' = [nodes EXCEPT ![r] = <<>>]
    /\ overlapped' = overlapped \cup {q \in Runs \ {r} : pc[q] \in {"commit", "save"}}
    /\ UNCHANGED now

\* fs::write truncates and writes: a process that dies there leaves a part.
DieInSave(r) ==
    /\ pc[r] = "save"
    /\ \E n \in 0..Len(nodes[r]) - 1, half \in BOOLEAN :
          file' = SubSeq(nodes[r], 1, n) /\ cut' = half
    /\ pc' = [pc EXCEPT ![r] = "dead"]
    /\ nodes' = [nodes EXCEPT ![r] = <<>>]
    /\ overlapped' = overlapped \cup {q \in Runs \ {r} : pc[q] \in {"commit", "save"}}
    /\ UNCHANGED now

Tick ==
    /\ now < MaxTime
    /\ now' = now + 1
    /\ UNCHANGED <<file, cut, nodes, pc, overlapped>>

Next ==
    \/ \E r \in Runs : Load(r) \/ Commit(r) \/ Save(r) \/ DieInSave(r)
    \/ Tick

Spec == Init /\ [][Next]_vars

-----------------------------------------------------------------------------

\* Whatever runs overlap or die, the whole lines of the file are a lineage
\* that load accepts, and each commit's parent stands before it: no cycle.  The
\* file as it is is refused only where a run died in the middle of a line, and
\* nothing repairs it but the save of a run that had loaded it before.
FileSound ==
    /\ Loadable(file)
    /\ \A i \in DOMAIN file : \A id \in file[i].parents : \E j \in 1..i - 1 : file[j].id = id
    /\ cut => \E r \in Runs : pc[r] = "dead"

\* A run that no other overlapped loses nothing: the file grows by its commit.
GrowsAlone ==
    [][\A r \in Runs \ overlapped :
          pc[r] = "save" /\ pc'[r] = "idle"
              => IsPrefix(file, file') /\ Len(file') = Len(file) + 1]_vars

\* The commits form lines of descent: each is built on the one before it, if that
\* was scored.  One that could not be scored ends its line, since it is the child
\* of the only scored leaf and no leaf itself for head: the next is a new root.
LinesOfDescent ==
    \A i \in DOMAIN file :
        file[i].parents = IF i > 1 /\ file[i - 1].fitness # Unscored THEN {file[i - 1].id} ELSE {}

\* When every commit of the window improved, the watchdog sees no stall.
ImprovingIsHealthy ==
    (\A i, j \in DOMAIN file : i < j => file[i].fitness < file[j].fitness)
        => Verdict(file, now) \in {"empty", "old", "healthy"}
=============================================================================
