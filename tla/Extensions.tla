----------------------------- MODULE Extensions ----------------------------
(***************************************************************************)
(* The extension servers of one dispatch (tools/extensions.rs): they are   *)
(* started one after the other, their tools are frozen, called by name,    *)
(* and the servers are shut down, or dropped with the worker that has      *)
(* finished (mcp/worker.rs).                                               *)
(*                                                                         *)
(* The servers are external: any of them may fail, hang or end at any      *)
(* time.  A hung server does not answer and does not notice the end of its *)
(* input.                                                                  *)
(***************************************************************************)
EXTENDS Naturals, SequencesExt

CONSTANTS
    Commands,    \* the commands of the dispatch, in order; each is one server
    NameOf,      \* the name derive_server_name makes of each command
    ToolsOf,     \* the tools each server lists
    Unlisted,    \* a tool no server lists
    MaxCalls     \* bound on the calls

Procs == {Commands[i] : i \in DOMAIN Commands}

ExtensionAssumption ==
    /\ Commands \in Seq(DOMAIN NameOf)
    /\ \A i, j \in DOMAIN Commands : Commands[i] = Commands[j] => i = j
    /\ Procs \subseteq DOMAIN ToolsOf
    /\ MaxCalls \in Nat

VARIABLES
    phase,       \* spawn, open, call, close, done; or refused
    at,          \* the command or the server that is next
    failed,      \* any_failed
    servers,     \* the servers that came up, in order
    proc,        \* the state of each server process
    call,        \* the full name that is called, and by which server
    answer,      \* what the latest call returned
    calls        \* number of calls (bound)

vars == <<phase, at, failed, servers, proc, call, answer, calls>>

\* A tool goes by the name of its server and its own: <ext>__<tool>.
FullNames(s) == {<<NameOf[s], t>> : t \in ToolsOf[s]}

\* The names the model is offered, each with the server that listed it.
Offered == UNION {{<<n, servers[i]>> : n \in FullNames(servers[i])} : i \in DOMAIN servers}

NoCall == [name |-> <<Unlisted, Unlisted>>, by |-> Unlisted]

TypeOK ==
    /\ phase \in {"spawn", "open", "call", "close", "drop", "done", "refused"}
    /\ at \in 1..Len(Commands) + 1
    /\ failed \in BOOLEAN
    /\ \A i \in DOMAIN servers : servers[i] \in Procs
    /\ proc \in [Procs -> {"unborn", "unstarted", "up", "hung", "gone"}]
    /\ call.by \in Procs \cup {Unlisted}
    /\ answer \in {"none", "UnknownTool", "CallFailed", "result"}
    /\ calls \in 0..MaxCalls

Init ==
    /\ phase = "spawn"
    /\ at = 1
    /\ failed = FALSE
    /\ servers = <<>>
    /\ proc = [p \in Procs |-> "unborn"]
    /\ call = NoCall
    /\ answer = "none"
    /\ calls = 0

Set(p, state) == proc' = [proc EXCEPT ![p] = state]

-----------------------------------------------------------------------------
(* spawn                                                                   *)

\* An empty command, a failed spawn, handshake or listing: the server is
\* skipped.  One that hung in its handshake may outlive its transport.
SpawnOne ==
    /\ phase = "spawn"
    /\ at <= Len(Commands)
    /\ at' = at + 1
    /\ \/ /\ Set(Commands[at], "up")
          /\ servers' = Append(servers, Commands[at])
          /\ UNCHANGED failed
       \/ /\ failed' = TRUE
          /\ \E end \in {"unstarted", "gone", "hung"} : Set(Commands[at], end)
          /\ UNCHANGED servers
    /\ UNCHANGED <<phase, call, answer, calls>>

\* Nothing but failures is an error; the worker goes on without extensions.
SpawnEnds ==
    /\ phase = "spawn"
    /\ at > Len(Commands)
    /\ phase' = IF Commands # <<>> /\ servers = <<>> /\ failed THEN "refused" ELSE "open"
    /\ UNCHANGED <<at, failed, servers, proc, call, answer, calls>>

-----------------------------------------------------------------------------
(* call                                                                    *)

\* The place of the first server whose frozen tools have this name, or 0.
Having(name) == SelectInSeq(servers, LAMBDA s : name \in FullNames(s))

\* The first server with the name is asked, whichever one the schema was from.
Call(name) ==
    /\ phase = "open"
    /\ calls < MaxCalls
    /\ calls' = calls + 1
    /\ IF Having(name) = 0
       THEN answer' = "UnknownTool" /\ UNCHANGED <<phase, call>>
       ELSE /\ call' = [name |-> name, by |-> servers[Having(name)]]
            /\ phase' = "call"
            /\ answer' = "none"
    /\ UNCHANGED <<at, failed, servers, proc>>

\* Arguments that are no JSON object, an error of the server, or the timeout.
CallFails ==
    /\ phase = "call"
    /\ answer' = "CallFailed"
    /\ call' = NoCall
    /\ phase' = "open"
    /\ UNCHANGED <<at, failed, servers, proc, calls>>

CallAnswered ==
    /\ phase = "call"
    /\ proc[call.by] = "up"
    /\ answer' = "result"
    /\ call' = NoCall
    /\ phase' = "open"
    /\ UNCHANGED <<at, failed, servers, proc, calls>>

-----------------------------------------------------------------------------
(* The end                                                                 *)

BeginEnd ==
    /\ phase = "open"
    /\ phase' \in {"close", "drop"}
    /\ at' = 1
    /\ UNCHANGED <<failed, servers, proc, call, answer, calls>>

\* The transport is closed; a server that has not ended in time is killed.
ShutdownOne ==
    /\ phase = "close"
    /\ at <= Len(servers)
    /\ Set(servers[at], "gone")
    /\ at' = at + 1
    /\ UNCHANGED <<phase, failed, servers, call, answer, calls>>

ShutdownEnds ==
    /\ phase = "close"
    /\ at > Len(servers)
    /\ phase' = "done"
    /\ UNCHANGED <<at, failed, servers, proc, call, answer, calls>>

\* The worker only drops the bridge: a server sees the end of its input.
DropOne ==
    /\ phase = "drop"
    /\ at <= Len(servers)
    /\ at' = at + 1
    /\ \/ proc[servers[at]] = "up" /\ Set(servers[at], "gone")
       \/ proc[servers[at]] # "up" /\ UNCHANGED proc
    /\ UNCHANGED <<phase, failed, servers, call, answer, calls>>

-----------------------------------------------------------------------------

\* A server hangs or ends.
Falter(p) ==
    /\ proc[p] \in {"up", "hung"}
    /\ \E end \in {"hung", "gone"} : Set(p, end)
    /\ UNCHANGED <<phase, at, failed, servers, call, answer, calls>>

Names == UNION {FullNames(p) : p \in Procs} \cup {<<Unlisted, Unlisted>>}

Bridge ==
    \/ SpawnOne \/ SpawnEnds \/ CallFails \/ CallAnswered
    \/ ShutdownOne \/ ShutdownEnds \/ DropOne

Next ==
    \/ Bridge \/ BeginEnd
    \/ \E n \in Names : Call(n)
    \/ \E p \in Procs : Falter(p)

\* The timeouts of handshake, call and shutdown move the bridge on.
Spec == Init /\ [][Next]_vars /\ WF_vars(Bridge)

-----------------------------------------------------------------------------
(* Properties                                                              *)

\* One bad extension takes no other down: every command has been tried before
\* the dispatch goes on, and it goes on without extensions only if none came up.
EachTried ==
    /\ phase \in {"open", "call"} => \A p \in Procs : proc[p] # "unborn"
    /\ phase = "refused" => \A p \in Procs : proc[p] \notin {"unborn", "up"}

\* A call goes to a server that listed the name, and to the first of them: a
\* tool whose name no earlier server has is answered by its own server.
CallReaches ==
    phase = "call" =>
        /\ <<call.name, call.by>> \in Offered
        /\ \A i, j \in DOMAIN servers :
              servers[j] = call.by /\ i < j => call.name \notin FullNames(servers[i])

\* After shutdown_all no server that came up runs, hung or not.  A server that
\* hung in its handshake was skipped, and shutdown_all knows nothing of it: it is
\* the one that may still run.
NoneLeft ==
    phase = "done" =>
        \A p \in Procs : \/ proc[p] \in {"unstarted", "gone"}
                         \/ proc[p] = "hung" /\ p \notin ToSet(servers)

\* Spawning, a call and a shutdown end, also when every server hangs.
BridgeReturns == phase \in {"spawn", "call", "close"} ~> phase \in {"open", "refused", "done"}
=============================================================================
