------------------------------- MODULE Parts -------------------------------
(***************************************************************************)
(* Four machines of a session and of the command line that share nothing,  *)
(* side by side: one call of the shell tool, the calls that write one      *)
(* file, the extension servers of one dispatch, and the runs that extend   *)
(* the evolution lineage.  `which` is the machine that runs; the others    *)
(* stay where they start, and "other" is the machines of other modules.    *)
(***************************************************************************)
EXTENDS Naturals, Sequences, FiniteSets

CONSTANTS
    Main, Jobs, Detached, Cap, PipeSize, MaxBytes,            \* ShellExec
    Calls, Original, NoFile,                                  \* FileWrites
    Commands, NameOf, ToolsOf, Unlisted, MaxCalls,            \* Extensions
    Runs, Scores, MaxTime, MaxCommits, StallAge, ImprovementWindow   \* Lineage

VARIABLES
    which,
    shellPc, proc, late, pipe, written, kept, cut, reading, code,        \* ShellExec
    link, data, temps, tool, callPc, plan, opened, callAnswer,           \* FileWrites
    phase, next, failed, servers, server, call, callResult, calls,       \* Extensions
    file, fileCut, nodes, runPc, now, overlapped                         \* Lineage

Shell == INSTANCE ShellExec WITH pc <- shellPc

Writes == INSTANCE FileWrites WITH pc <- callPc, held <- opened, answer <- callAnswer, None <- NoFile

Bridge == INSTANCE Extensions WITH at <- next, proc <- server, answer <- callResult

Evolution == INSTANCE Lineage WITH Window <- ImprovementWindow, cut <- fileCut, pc <- runPc

ASSUME PartsAssumption ==
    /\ Shell!ShellAssumption
    /\ Writes!FileAssumption
    /\ Bridge!ExtensionAssumption
    /\ Evolution!LineageAssumption

shellVars == <<shellPc, proc, late, pipe, written, kept, cut, reading, code>>
writeVars == <<link, data, temps, tool, callPc, plan, opened, callAnswer>>
bridgeVars == <<phase, next, failed, servers, server, call, callResult, calls>>
lineageVars == <<file, fileCut, nodes, runPc, now, overlapped>>
partVars == <<which, shellVars, writeVars, bridgeVars, lineageVars>>

-----------------------------------------------------------------------------
(* One of them runs                                                        *)

PartsInit ==
    /\ which \in {"shell", "writes", "bridge", "lineage", "other"}
    /\ Shell!Init /\ Writes!Init /\ Bridge!Init /\ Evolution!Init

ShellStep(A) ==
    /\ which = "shell" /\ A
    /\ UNCHANGED <<which, writeVars, bridgeVars, lineageVars>>
WriteStep ==
    /\ which = "writes" /\ Writes!Next
    /\ UNCHANGED <<which, shellVars, bridgeVars, lineageVars>>
BridgeStep(A) ==
    /\ which = "bridge" /\ A
    /\ UNCHANGED <<which, shellVars, writeVars, lineageVars>>
LineageStep ==
    /\ which = "lineage" /\ Evolution!Next
    /\ UNCHANGED <<which, shellVars, writeVars, bridgeVars>>

PartsNext ==
    \/ ShellStep(Shell!Next) \/ WriteStep \/ BridgeStep(Bridge!Next) \/ LineageStep

PartsSpec == PartsInit /\ [][PartsNext]_partVars

-----------------------------------------------------------------------------
(* The properties of each                                                  *)

\* Types of the machines of the tools.
ToolTypes == Shell!TypeOK /\ Writes!TypeOK /\ Bridge!TypeOK

\* The answer of a command holds what was written up to the cap and says so, and
\* a timeout leaves nothing of its process group; the file that several calls
\* edit is whole whoever dies, but for a rewrite in place and what was read in the
\* midst of one, a call that returns leaves no temporary file, and a text reported
\* as written is there unless another reported text took its place; one extension
\* that fails takes no other down, a call goes to the first server that listed its
\* name, and a shutdown leaves no server but one that hung in its handshake.
ToolsSound ==
    /\ ToolTypes
    /\ Shell!OutputExact
    /\ Shell!GroupGone
    /\ Writes!FileWhole
    /\ Writes!TempsGone
    /\ Writes!WrittenShows
    /\ Bridge!EachTried
    /\ Bridge!CallReaches
    /\ Bridge!NoneLeft

\* A command without jobs of its own is answered, and no writer is blocked for
\* ever by its own output; spawning the extensions, a call and a shutdown end.
ToolsReturn ==
    /\ which = "shell" => Shell!LoneReturns /\ Shell!RoomReturns
    /\ which = "bridge" => Bridge!BridgeReturns

\* The lines of the lineage file are a lineage without a cycle, which can be loaded
\* unless a run died in the middle of a line; a run alone adds its commit and loses
\* none, each commit is built on the one before it if that was scored, and no stall
\* is seen where every commit improved.
LineageSound ==
    /\ [](Evolution!FileSound /\ Evolution!LinesOfDescent /\ Evolution!ImprovingIsHealthy)
    /\ Evolution!GrowsAlone
=============================================================================
