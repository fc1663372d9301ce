-------------------------- MODULE SingletonServer --------------------------
(***************************************************************************)
(* The bring-up of a singleton server: every MCP server process that       *)
(* starts (main.rs, Mcp) takes the server's lockfile, probes its port,     *)
(* spawns a detached server if the port is dark, and gives the lock back;  *)
(* the spawned server takes the same lock for itself, binds the port and   *)
(* serves (main.rs, Status and Proxy).  The status server and the proxy    *)
(* are brought up by the same code, each with a lock and a port of its     *)
(* own; this is the composition of one such pair with LockFile, whose      *)
(* actions are the lock's steps here.                                      *)
(***************************************************************************)
EXTENDS LockFile

CONSTANTS
    Launchers,   \* processes that run ensure_status_server or ensure_proxy_server
    Servers      \* processes that run the server, when they are spawned

ASSUME ServerAssumption ==
    /\ Procs = Launchers \cup Servers
    /\ Launchers \cap Servers = {}

VARIABLES
    phase,       \* where each process is, outside acquire and release
    port,        \* the server that listens on the port, or None
    late,        \* history: launchers before their spawn that began while a server
                 \* served, and it still does
    blind        \* history: launchers before their spawn whose probe of a serving
                 \* port got no answer

historyVars == <<late, blind>>
serverVars == <<vars, phase, port, late, blind>>

Phases == {"new", "locking", "probe", "spawn", "unlock", "done",
           "unborn", "bind", "serving"}

\* Types; whoever listens is serving, and only servers listen.
ServerTypeOK ==
    /\ TypeOK
    /\ phase \in [Procs -> Phases]
    /\ port \in Servers \cup {None}
    /\ \A s \in Servers : phase[s] = "serving" <=> port = s
    /\ late \in SUBSET Launchers
    /\ blind \in SUBSET Launchers

ServerInit ==
    /\ Init
    /\ phase = [p \in Procs |-> IF p \in Launchers THEN "new" ELSE "unborn"]
    /\ port = None
    /\ late = {}
    /\ blind = {}

In(p, f) == phase[p] = f /\ p \in alive

To(p, f) == phase' = [phase EXCEPT ![p] = f]

-----------------------------------------------------------------------------
(* try_acquire_lock, by launchers and servers alike                        *)

StartLock(p) ==
    /\ In(p, "new")
    /\ Start(p)
    /\ To(p, "locking")
    /\ late' = IF p \in Launchers /\ port # None THEN late \cup {p} ELSE late
    /\ UNCHANGED <<port, blind>>

LockStep(p) ==
    /\ In(p, "locking")
    /\ AcquireStep(p)
    /\ UNCHANGED <<phase, port, historyVars>>

\* Mutant of Locked: a lock that somebody else holds is taken for one's own.
LockedAnyway(p) ==
    /\ In(p, "locking")
    /\ pc[p] \in {"held", "idle"}
    /\ Goto(p, "held")
    /\ To(p, IF p \in Launchers THEN "probe" ELSE "bind")
    /\ UNCHANGED <<file, full, expired, alive, errorVars, shaky, port, historyVars>>

\* acquire has returned: the lock is held, or somebody else's.
Locked(p) ==
    /\ In(p, "locking")
    /\ pc[p] \in {"held", "idle"}
    /\ \/ p \in Launchers /\ To(p, "probe")
       \/ p \in Servers /\ To(p, IF pc[p] = "held" THEN "bind" ELSE "unborn")
    /\ UNCHANGED <<vars, port, historyVars>>

-----------------------------------------------------------------------------
(* ensure_status_server, ensure_proxy_server                               *)

\* p is past its decision to spawn a server or not.
Settles(p) == late' = late \ {p} /\ blind' = blind \ {p}

\* Mutant of Probe: a dark port or a lock of one's own is enough.
ProbeEither(p) ==
    /\ In(p, "probe") /\ p \in Launchers
    /\ To(p, IF pc[p] = "held" \/ port = None THEN "spawn" ELSE "done")
    /\ UNCHANGED <<vars, port, historyVars>>

\* Mutant of Probe: a lock that is held is waited for.
ProbeWaits(p) ==
    /\ In(p, "probe") /\ p \in Launchers
    /\ pc[p] = "held"
    /\ To(p, IF port = None THEN "spawn" ELSE "unlock")
    /\ UNCHANGED <<vars, port, historyVars>>

\* A port nobody listens on is dark; one that is served answers, or does not
\* within half a second and is taken for dark.
Probe(p) ==
    /\ In(p, "probe") /\ p \in Launchers
    /\ \/ pc[p] # "held" /\ To(p, "done") /\ Settles(p)
       \/ pc[p] = "held" /\ port # None /\ To(p, "unlock") /\ Settles(p)
       \/ pc[p] = "held" /\ port = None /\ To(p, "spawn") /\ UNCHANGED historyVars
       \/ /\ pc[p] = "held" /\ port # None /\ To(p, "spawn")
          /\ blind' = blind \cup {p}
          /\ UNCHANGED late
    /\ UNCHANGED <<vars, port>>

\* The child runs from here on, at the side of its parent; the spawn may fail.
Spawn(p) ==
    /\ In(p, "spawn") /\ p \in Launchers
    /\ \/ \E s \in Servers :
             /\ In(s, "unborn")
             /\ file # s
             /\ phase' = [phase EXCEPT ![p] = "unlock", ![s] = "new"]
       \/ To(p, "unlock")
    /\ Settles(p)
    /\ UNCHANGED <<vars, port>>

\* release_lock ignores every error of release.
Unlock(p) ==
    /\ In(p, "unlock")
    /\ ReleaseStep(p)
    /\ UNCHANGED <<phase, port, historyVars>>

Unlocked(p) ==
    /\ In(p, "unlock")
    /\ pc[p] = "idle"
    /\ To(p, "done")
    /\ UNCHANGED <<vars, port, historyVars>>

\* Another MCP server process of the same installation begins.
Again(p) ==
    /\ In(p, "done")
    /\ pc[p] = "idle" /\ file # p
    /\ To(p, "new")
    /\ UNCHANGED <<vars, port, historyVars>>

-----------------------------------------------------------------------------
(* serve                                                                   *)

\* Mutant of Bind: a server whose bind fails goes on.
BindUnchecked(s) ==
    /\ In(s, "bind")
    /\ To(s, "serving")
    /\ UNCHANGED <<vars, port, historyVars>>

Bind(s) ==
    /\ In(s, "bind")
    /\ port = None
    /\ port' = s
    /\ To(s, "serving")
    /\ UNCHANGED <<vars, historyVars>>

\* The bind fails, or the process dies: the lock stays as it is.
Die(p) ==
    /\ phase[p] \notin {"done", "unborn"}
    /\ Crash(p)
    /\ port' = IF port = p THEN None ELSE port
    /\ late' = IF port = p THEN {} ELSE late \ {p}
    /\ blind' = blind \ {p}
    /\ To(p, IF p \in Servers THEN "unborn" ELSE "done")

BindFails(s) == In(s, "bind") /\ port # None /\ Die(s)

Age(p) ==
    /\ Expire(p)
    /\ UNCHANGED <<phase, port, historyVars>>

\* The steps of a running process, once it is in ensure or in its server.
ServerStep(p) ==
    \/ StartLock(p) \/ LockStep(p) \/ Locked(p) \/ Probe(p) \/ Spawn(p)
    \/ Unlock(p) \/ Unlocked(p)
    \/ p \in Servers /\ (Bind(p) \/ BindFails(p))

ServerNext == \E p \in Procs : ServerStep(p) \/ Again(p) \/ Die(p) \/ Age(p)

\* Running processes run on, time passes, and sessions keep being started
\* while the machine has a process left to start them.
ServerSpec ==
    /\ ServerInit /\ [][ServerNext]_serverVars
    /\ \A p \in Procs : /\ WF_serverVars(ServerStep(p))
                        /\ WF_serverVars(Again(p))
                        /\ WF_serverVars(Age(p))

-----------------------------------------------------------------------------
(* Properties                                                              *)

\* A session that begins while the server serves spawns a second one only if
\* two things went wrong at once: the server no longer has its lock to itself,
\* because it served for longer than the TTL or took the lock on an older look
\* of somebody else, and the serving port did not answer the probe in time.
LateSpawnsNothing ==
    \A p \in late : phase[p] = "spawn" => p \in blind /\ port \in expired \cup shaky

\* The bring-up never holds the MCP server up: it comes to its end, whoever has
\* the lock.  And the lock of a server that died is taken over in the end, if its
\* content was written: sessions that keep being started are not refused for ever.
InstallationLive ==
    /\ \A p \in Launchers :
          phase[p] = "new" /\ p \in alive ~> phase[p] = "done" \/ p \notin alive
    /\ \A s \in Servers :
          file = s /\ full /\ s \notin alive ~> file # s \/ Launchers \cap alive = {}
=============================================================================
