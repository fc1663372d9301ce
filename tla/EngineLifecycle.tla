-------------------------- MODULE EngineLifecycle --------------------------
(***************************************************************************)
(* Boot, canary, wedge detection, heal and stop of the engine              *)
(* (engine/lifecycle.rs), with the wedge counter of state/mod.rs and the   *)
(* callers of the command line and of the MCP server, which build a new    *)
(* EngineLifecycle for every call.                                         *)
(*                                                                         *)
(* A caller is a process with one EngineLifecycle at a time.  The locks    *)
(* are those of LockFile.  The boot lock is taken and given back in its    *)
(* separate calls to the file system; of the heal lock, on which only      *)
(* refusals depend, acquire and release are one step each, and what they   *)
(* could do to another's lock on an earlier look they may do at any time.  *)
(* No boot outlives its lock: the default boot timeout, 180 s, is shorter  *)
(* than the time-to-live.  The engines are processes on one port: the      *)
(* first to bind it answers, and the others end.                           *)
(***************************************************************************)
EXTENDS Naturals, FiniteSets

CONSTANTS
    Callers,     \* processes that boot, check, heal and stop
    Engines,     \* engine processes that may be launched in a behaviour
    Threshold,   \* WEDGE_THRESHOLD
    MaxFails,    \* bound on the failed canaries of check_wedge
    Configs,     \* configurations an installation may have
    None,
    Left         \* a lock nobody will give back

ASSUME EngineAssumption ==
    /\ Threshold \in Nat \ {0}
    /\ MaxFails \in Nat
    /\ None \notin Callers \cup Engines
    /\ Left \notin Callers \cup {None}
    /\ Configs \subseteq [model : BOOLEAN, launch : BOOLEAN, stop : BOOLEAN]

\* Two installations: one launches its engine and kills it, the other has an
\* engine started by hand, and a command that stops it.
MixedConfigs ==
    { [model |-> TRUE, launch |-> TRUE, stop |-> FALSE],
      [model |-> TRUE, launch |-> FALSE, stop |-> TRUE] }

VARIABLES
    config,      \* whether a model, a launch command and a stop command are set
    engine,      \* the state of each engine process
    bootLock,    \* holder of the boot lock
    healLock,    \* holder of the heal lock
    count,       \* the number in the wedge counter's file
    child,       \* the child handle each EngineLifecycle keeps
    launched,    \* the engine the boot in progress has spawned
    pc,          \* where each caller is
    healing,     \* callers whose stop and boot belong to a heal
    got,         \* the number a caller's incr has read
    result,      \* what the latest call returned
    contested,   \* callers that took the boot lock under an earlier look of another
                 \* (history)
    fails,       \* number of canaries that failed in check_wedge (history)
    mishaps      \* number of locks left behind: by the death of a caller, or by a write
                 \* or a removal that failed

vars == <<config, engine, bootLock, healLock, count, child, launched, pc,
          healing, got, result, contested, fails, mishaps>>

Labels == {"idle", "boot", "look", "move", "remake", "canary", "spawn", "poll", "kill",
           "bootUnlock", "remove", "stop", "healUnlock", "incr", "store"}

\* "ended" stands for every answer that no property tells apart.
Results == {"ended", "BootTimeout", "stopped", "wedged"}

pastVars == <<contested, fails, mishaps>>

\* Types; and the locals of a call end with it, whichever way it ends.
TypeOK ==
    /\ config \in Configs
    /\ engine \in [Engines -> {"unborn", "loading", "serving", "wedged", "gone"}]
    /\ bootLock \in Callers \cup {None, Left}
    /\ healLock \in Callers \cup {None, Left}
    /\ count \in Nat
    /\ child \in [Callers -> Engines \cup {None}]
    /\ launched \in [Callers -> Engines \cup {None}]
    /\ pc \in [Callers -> Labels]
    /\ healing \in SUBSET Callers
    /\ got \in [Callers -> Nat]
    /\ result \in [Callers -> Results]
    /\ contested \in SUBSET Callers
    /\ fails \in Nat
    /\ mishaps \in {0, 1}
    /\ \A c \in Callers : pc[c] = "idle" => c \notin healing /\ launched[c] = None

Init ==
    /\ config \in Configs
    /\ \E up \in SUBSET Engines :
          /\ up = {} \/ (~config.launch /\ Cardinality(up) = 1)
          /\ engine = [e \in Engines |-> IF e \in up THEN "serving" ELSE "unborn"]
    /\ bootLock = None
    /\ healLock = None
    /\ count = 0
    /\ child = [c \in Callers |-> None]
    /\ launched = [c \in Callers |-> None]
    /\ pc = [c \in Callers |-> "idle"]
    /\ healing = {}
    /\ got = [c \in Callers |-> 0]
    /\ result = [c \in Callers |-> "ended"]
    /\ contested = {}
    /\ fails = 0
    /\ mishaps = 0

\* GET /v1/models lists the configured model.
Canary == config.model /\ \E e \in Engines : engine[e] = "serving"

\* The engine holds the port.
Bound(e) == engine[e] \in {"serving", "wedged"}

Running(e) == engine[e] \in {"loading", "serving", "wedged"}

Goto(c, l) == pc' = [pc EXCEPT ![c] = l]

Answer(c, r) == result' = [result EXCEPT ![c] = r]

\* A lock is left behind: its holder dies, or its write or its removal fails.
\* Bound: one, where no canary of check_wedge fails.
Mishap == fails = 0 /\ mishaps = 0 /\ mishaps' = 1

-----------------------------------------------------------------------------
(* boot                                                                    *)

\* After boot: back to the heal that called it, or to the caller.
AfterBoot(c) == IF c \in healing THEN "healUnlock" ELSE "idle"

CallBoot(c) ==
    /\ pc[c] = "idle"
    /\ Goto(c, "boot")
    /\ Answer(c, "ended")
    /\ UNCHANGED <<config, engine, bootLock, healLock, count, child, launched,
                   healing, got, pastVars>>

\* boot returns to what called it.
LeaveBoot(c) ==
    /\ Answer(c, "ended")
    /\ launched' = [launched EXCEPT ![c] = None]
    /\ contested' = contested \ {c}
    /\ Goto(c, AfterBoot(c))

\* Callers about to move aside or to remove whatever lock is there by now.
Reaching == {d \in Callers : pc[d] \in {"move", "remove"}}

\* The exclusive create has succeeded: the lock is written, or the write fails
\* and acquire with it.
CreateBoot(c) ==
    \/ /\ bootLock' = c
       /\ contested' = IF Reaching \ {c} = {} THEN contested ELSE contested \cup {c}
       /\ Goto(c, "canary")
       /\ UNCHANGED <<launched, result, mishaps>>
    \/ /\ Mishap
       /\ bootLock' = Left
       /\ LeaveBoot(c)

\* Mutant of AcquireBoot: boot_inner runs whoever holds the lock.
AcquireBootBlind(c) ==
    /\ pc[c] = "boot"
    /\ bootLock' = c
    /\ Goto(c, "canary")
    /\ UNCHANGED <<config, engine, healLock, count, child, launched, healing, got,
                   result, pastVars>>

AcquireBoot(c) ==
    /\ pc[c] = "boot"
    /\ \/ bootLock = None /\ CreateBoot(c)
       \/ /\ bootLock # None /\ Goto(c, "look")
          /\ UNCHANGED <<bootLock, launched, result, contested, mishaps>>
    /\ UNCHANGED <<config, engine, healLock, count, child, healing, got, fails>>

\* The two reads of the lock.  One that has gone by now counts as stale; one that
\* is young, or not written yet, ends the boot.
LookBoot(c) ==
    /\ pc[c] = "look"
    /\ \/ /\ bootLock \in {None, Left} /\ Goto(c, "move")
          /\ UNCHANGED <<launched, result, contested>>
       \/ bootLock # None /\ LeaveBoot(c)
    /\ UNCHANGED <<config, engine, bootLock, healLock, count, child, healing, got, fails, mishaps>>

\* The rename does not ask whose lock it is, and its failure is ignored.
MoveBoot(c) ==
    /\ pc[c] = "move"
    /\ bootLock' \in {None, bootLock}
    /\ Goto(c, "remake")
    /\ UNCHANGED <<config, engine, healLock, count, child, launched, healing, got,
                   result, pastVars>>

RemakeBoot(c) ==
    /\ pc[c] = "remake"
    /\ \/ bootLock = None /\ CreateBoot(c)
       \/ bootLock # None /\ LeaveBoot(c) /\ UNCHANGED <<bootLock, mishaps>>
    /\ UNCHANGED <<config, engine, healLock, count, child, healing, got, fails>>

\* Mutant of FirstCanary: an error of boot_inner skips the release.
FirstCanaryLeaks(c) ==
    /\ pc[c] = "canary"
    /\ \/ /\ Canary
          /\ count' = 0
          /\ Answer(c, "ended")
          /\ Goto(c, "bootUnlock")
       \/ /\ ~Canary
          /\ \/ config.launch /\ Goto(c, "spawn") /\ UNCHANGED result
             \/ ~config.launch /\ Answer(c, "ended") /\ Goto(c, AfterBoot(c))
          /\ UNCHANGED count
    /\ UNCHANGED <<config, engine, bootLock, healLock, child, launched, healing, got, pastVars>>

FirstCanary(c) ==
    /\ pc[c] = "canary"
    /\ \/ /\ Canary
          /\ count' = 0
          /\ Answer(c, "ended")
          /\ Goto(c, "bootUnlock")
       \/ /\ ~Canary
          /\ \/ config.launch /\ Goto(c, "spawn") /\ UNCHANGED result
             \/ ~config.launch /\ Answer(c, "ended") /\ Goto(c, "bootUnlock")
          /\ UNCHANGED count
    /\ UNCHANGED <<config, engine, bootLock, healLock, child, launched, healing, got, pastVars>>

\* Engine processes that have not been launched.
Unborn == {e \in Engines : engine[e] = "unborn"}

\* The handle of an earlier child is overwritten.
Spawn(c) ==
    /\ pc[c] = "spawn"
    /\ \/ /\ Unborn # {}
          /\ LET e == CHOOSE e \in Unborn : TRUE
             IN /\ engine' = [engine EXCEPT ![e] = "loading"]
                /\ child' = [child EXCEPT ![c] = e]
                /\ launched' = [launched EXCEPT ![c] = e]
          /\ Goto(c, "poll")
          /\ UNCHANGED result
       \/ /\ Answer(c, "ended")
          /\ Goto(c, "bootUnlock")
          /\ UNCHANGED <<engine, child, launched>>
    /\ UNCHANGED <<config, bootLock, healLock, count, healing, got, pastVars>>

\* Mutant of Poll: the deadline is not looked at.
PollPatiently(c) ==
    /\ pc[c] = "poll"
    /\ Canary
    /\ count' = 0
    /\ Answer(c, "ended")
    /\ Goto(c, "bootUnlock")
    /\ UNCHANGED <<config, engine, bootLock, healLock, child, launched, healing, got, pastVars>>

\* The canary that decides, or the last one before the deadline.
Poll(c) ==
    /\ pc[c] = "poll"
    /\ \/ /\ Canary
          /\ count' = 0
          /\ Answer(c, "ended")
          /\ Goto(c, "bootUnlock")
       \/ ~Canary /\ Goto(c, "kill") /\ UNCHANGED <<count, result>>
    /\ UNCHANGED <<config, engine, bootLock, healLock, child, launched, healing, got, pastVars>>

\* SIGKILL to the child's process group.
Killed(c) == [e \in Engines |-> IF e = child[c] THEN "gone" ELSE engine[e]]

\* Mutant of KillLate: the handle is dropped and the child lives on.
KillLateForgets(c) ==
    /\ pc[c] = "kill"
    /\ child' = [child EXCEPT ![c] = None]
    /\ Answer(c, "BootTimeout")
    /\ Goto(c, "bootUnlock")
    /\ UNCHANGED <<config, engine, bootLock, healLock, count, launched, healing, got, pastVars>>

\* The deadline has passed; an engine that came up meanwhile dies with it.
KillLate(c) ==
    /\ pc[c] = "kill"
    /\ engine' = Killed(c)
    /\ child' = [child EXCEPT ![c] = None]
    /\ Answer(c, "BootTimeout")
    /\ Goto(c, "bootUnlock")
    /\ UNCHANGED <<config, bootLock, healLock, count, launched, healing, got, pastVars>>

\* The lock is not one's own any more, or it is about to be removed.
ReleaseBoot(c) ==
    /\ pc[c] = "bootUnlock"
    /\ \/ bootLock # c /\ LeaveBoot(c)
       \/ bootLock = c /\ Goto(c, "remove") /\ UNCHANGED <<launched, result, contested>>
    /\ UNCHANGED <<config, engine, bootLock, healLock, count, child, healing, got, fails, mishaps>>

\* The removal takes what is there by now; its failure is ignored.
RemoveBoot(c) ==
    /\ pc[c] = "remove"
    /\ \/ bootLock' = None /\ UNCHANGED mishaps
       \/ Mishap /\ bootLock' = IF bootLock = c THEN Left ELSE bootLock
    /\ LeaveBoot(c)
    /\ UNCHANGED <<config, engine, healLock, count, child, healing, got, fails>>

-----------------------------------------------------------------------------
(* heal and stop                                                           *)

\* The lock is taken, or its write fails, or it is somebody else's or unreadable.
CallHeal(c) ==
    /\ pc[c] = "idle"
    /\ \/ /\ healLock' = c
          /\ count' = 0
          /\ healing' = healing \cup {c}
          /\ Goto(c, "stop")
          /\ UNCHANGED mishaps
       \/ /\ Mishap
          /\ healLock' = Left
          /\ UNCHANGED <<count, healing, pc>>
       \/ /\ healLock # None
          /\ UNCHANGED <<healLock, count, healing, pc, mishaps>>
    /\ Answer(c, "ended")
    /\ UNCHANGED <<config, engine, bootLock, child, launched, got, contested, fails>>

CallStop(c) ==
    /\ pc[c] = "idle"
    /\ Goto(c, "stop")
    /\ Answer(c, "ended")
    /\ UNCHANGED <<config, engine, bootLock, healLock, count, child, launched,
                   healing, got, pastVars>>

\* Mutant of StopEnds: a stop that fails ends the heal on the spot.
StopEndsHeal(c, ok) ==
    IF c \in healing /\ ok THEN Goto(c, "boot") /\ UNCHANGED result
    ELSE Goto(c, "idle") /\ Answer(c, IF ok THEN "stopped" ELSE "ended")

\* Where stop's success and its error lead.
StopEnds(c, ok) ==
    IF c \in healing
    THEN IF ok THEN Goto(c, "boot") /\ UNCHANGED result
               ELSE Goto(c, "healUnlock") /\ Answer(c, "ended")
    ELSE Goto(c, "idle") /\ Answer(c, IF ok THEN "stopped" ELSE "ended")

\* The stop command ends, which it need not: nothing limits the time it takes.
\* One that exits 0 has stopped every engine; one that fails, none.
StopCommand(c) ==
    /\ pc[c] = "stop"
    /\ config.stop
    /\ \/ /\ engine' = [e \in Engines |-> IF Running(e) THEN "gone" ELSE engine[e]]
          /\ StopEnds(c, TRUE)
       \/ StopEnds(c, FALSE) /\ UNCHANGED engine
    /\ UNCHANGED <<config, bootLock, healLock, count, child, launched, healing, got, pastVars>>

\* Without a child this does nothing, and succeeds.
StopChild(c) ==
    /\ pc[c] = "stop"
    /\ ~config.stop
    /\ engine' = Killed(c)
    /\ child' = [child EXCEPT ![c] = None]
    /\ StopEnds(c, TRUE)
    /\ UNCHANGED <<config, bootLock, healLock, count, launched, healing, got, pastVars>>

\* Its own lock goes, or what has taken its place; or it stays, because it is
\* another's or the removal fails.
ReleaseHeal(c) ==
    /\ pc[c] = "healUnlock"
    /\ \/ healLock' = None /\ UNCHANGED mishaps
       \/ healLock # c /\ UNCHANGED <<healLock, mishaps>>
       \/ healLock = c /\ Mishap /\ healLock' = Left
    /\ healing' = healing \ {c}
    /\ Goto(c, "idle")
    /\ UNCHANGED <<config, engine, bootLock, count, child, launched, got, result, contested, fails>>

-----------------------------------------------------------------------------
(* check_wedge                                                             *)

CheckWedge(c) ==
    /\ pc[c] = "idle"
    /\ \/ Canary /\ count' = 0 /\ Answer(c, "ended") /\ UNCHANGED <<pc, fails>>
       \/ /\ ~Canary
          /\ fails < MaxFails /\ mishaps = 0
          /\ fails' = fails + 1
          /\ Goto(c, "incr")
          /\ Answer(c, "ended")
          /\ UNCHANGED count
    /\ UNCHANGED <<config, engine, bootLock, healLock, child, launched, healing, got, contested, mishaps>>

IncrRead(c) ==
    /\ pc[c] = "incr"
    /\ got' = [got EXCEPT ![c] = count]
    /\ Goto(c, "store")
    /\ UNCHANGED <<config, engine, bootLock, healLock, count, child, launched,
                   healing, result, pastVars>>

\* The mutex is of one process: another's incr or reset may come in between.
IncrStore(c) ==
    /\ pc[c] = "store"
    /\ count' = got[c] + 1
    /\ Answer(c, IF count' >= Threshold THEN "wedged" ELSE "ended")
    /\ got' = [got EXCEPT ![c] = 0]
    /\ Goto(c, "idle")
    /\ UNCHANGED <<config, engine, bootLock, healLock, child, launched, healing, pastVars>>

-----------------------------------------------------------------------------
(* The processes around the calls                                          *)

\* The next call builds a new EngineLifecycle; a dropped handle kills nothing.
NewObject(c) ==
    /\ pc[c] = "idle"
    /\ child[c] # None
    /\ child' = [child EXCEPT ![c] = None]
    /\ UNCHANGED <<config, engine, bootLock, healLock, count, launched, pc, healing,
                   got, result, pastVars>>

\* From its first canary to the end of its release.
Booting(c) == pc[c] \in {"canary", "spawn", "poll", "kill", "bootUnlock", "remove"}

\* A lock keeps the pid of the dead process; the engines live on.  A caller that
\* dies elsewhere leaves nothing behind that another could notice.
Crash(c) ==
    /\ Booting(c) \/ healLock = c
    /\ Mishap
    /\ bootLock' = IF bootLock = c THEN Left ELSE bootLock
    /\ healLock' = IF healLock = c THEN Left ELSE healLock
    /\ healing' = healing \ {c}
    /\ child' = [child EXCEPT ![c] = None]
    /\ launched' = [launched EXCEPT ![c] = None]
    /\ got' = [got EXCEPT ![c] = 0]
    /\ contested' = contested \ {c}
    /\ Answer(c, "ended")
    /\ Goto(c, "idle")
    /\ UNCHANGED <<config, engine, count, fails>>

\* The server has loaded; it ends if another holds the port.
Load(e) ==
    /\ engine[e] = "loading"
    /\ engine' = [engine EXCEPT ![e] =
           IF \E f \in Engines : Bound(f) THEN "gone" ELSE "serving"]
    /\ UNCHANGED <<config, bootLock, healLock, count, child, launched, pc, healing,
                   got, result, pastVars>>

\* The engine stops answering, answers again, or ends.
Falter(e) ==
    /\ \/ engine[e] = "serving" /\ engine' = [engine EXCEPT ![e] = "wedged"]
       \/ engine[e] = "wedged" /\ engine' = [engine EXCEPT ![e] = "serving"]
       \/ Running(e) /\ engine' = [engine EXCEPT ![e] = "gone"]
    /\ UNCHANGED <<config, bootLock, healLock, count, child, launched, pc, healing,
                   got, result, pastVars>>

\* The steps a call takes once it is made, all but the wait for a stop command:
\* file-system calls, canaries with a timeout, a poll with a deadline.
Step(c) ==
    \/ AcquireBoot(c) \/ LookBoot(c) \/ MoveBoot(c) \/ RemakeBoot(c)
    \/ FirstCanary(c) \/ Spawn(c) \/ Poll(c) \/ KillLate(c)
    \/ ReleaseBoot(c) \/ RemoveBoot(c) \/ StopChild(c) \/ ReleaseHeal(c)
    \/ IncrRead(c) \/ IncrStore(c)

Next ==
    \/ \E c \in Callers :
          \/ CallBoot(c) \/ CallHeal(c) \/ CallStop(c) \/ CheckWedge(c)
          \/ Step(c) \/ StopCommand(c) \/ NewObject(c) \/ Crash(c)
    \/ \E e \in Engines : Load(e) \/ Falter(e)

Spec == Init /\ [][Next]_vars /\ \A c \in Callers : WF_vars(Step(c))

-----------------------------------------------------------------------------
(* Properties                                                              *)

\* boot_inner, from its first canary to the release, is run by one process at a
\* time, also when a boot is part of a heal, when a holder has died and when a lock
\* was left behind.  The one exception: a process that takes the lock while another
\* is between its look at the lock before and the rename, or the removal, that
\* follows the look, may lose it to that call and boot at the side of a third.
BootSerial ==
    \A c \in Callers : Booting(c) /\ c \notin contested => bootLock = c

\* What a call reports is so.  A boot that reports its timeout has left no engine
\* of its own behind, also when the engine came up between the last canary and the
\* kill; and the wedge counter, read and written by several processes, never shows
\* more than the canaries that failed: a heal is not advised before the third.
ReportsTrue ==
    \A c \in Callers :
        /\ pc[c] = "bootUnlock" /\ result[c] = "BootTimeout" /\ launched[c] # None
            => engine[launched[c]] = "gone"
        /\ result[c] = "wedged" => fails >= Threshold

\* Whichever way boot and heal end, a caller between calls holds no lock; and a
\* lock stays behind only where a process died or a call to the file system failed.
LocksReturned ==
    /\ \A c \in Callers : pc[c] = "idle" => bootLock # c /\ healLock # c
    /\ Left \in {bootLock, healLock} => mishaps = 1

\* Every call of boot, heal, stop and check_wedge ends, whatever the engines do,
\* unless it waits for a stop command that does not end: nothing limits that wait.
CallReturns ==
    \A c \in Callers :
        pc[c] # "idle" ~> pc[c] = "idle" \/ (pc[c] = "stop" /\ config.stop)

\* "`stop` stops it" (main.rs): once stop has reported success no engine runs.
StopStops ==
    [][\A c \in Callers :
          result'[c] = "stopped" /\ pc[c] = "stop" /\ pc'[c] = "idle"
              => ~\E e \in Engines : engine'[e] \in {"loading", "serving", "wedged"}]_vars
=============================================================================
