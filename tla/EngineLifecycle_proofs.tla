----------------------- MODULE EngineLifecycle_proofs -----------------------
(***************************************************************************)
(* TLAPS proofs about EngineLifecycle, for any processes, engine processes *)
(* and configurations, and any threshold.                                  *)
(***************************************************************************)
EXTENDS EngineLifecycle, FiniteSetTheorems, TLAPS

(* Where the locals of a call are in use: the engine launched is known from *)
(* the first poll to the release, and a heal is never between calls.        *)
Placed ==
    \A c \in Callers :
        /\ launched[c] # None => pc[c] \in {"poll", "kill", "bootUnlock", "remove"}
        /\ c \in healing => pc[c] \notin {"idle", "incr", "store"}

IInv == TypeOK /\ Placed

LEMMA GotoType ==
    ASSUME TypeOK, NEW c \in Callers, NEW l \in Labels, Goto(c, l)
    PROVE  /\ pc' \in [Callers -> Labels]
           /\ pc'[c] = l
           /\ \A d \in Callers \ {c} : pc'[d] = pc[d]
BY DEF TypeOK, Goto

LEMMA AnswerType ==
    ASSUME TypeOK, NEW c \in Callers, NEW r \in Results, Answer(c, r)
    PROVE  /\ result' \in [Callers -> Results]
           /\ result'[c] = r
           /\ \A d \in Callers \ {c} : result'[d] = result[d]
BY DEF TypeOK, Answer

LEMMA KilledType ==
    ASSUME TypeOK, NEW c \in Callers
    PROVE  Killed(c) \in [Engines -> {"unborn", "loading", "serving", "wedged", "gone"}]
BY DEF TypeOK, Killed

LEMMA StoppedType ==
    ASSUME TypeOK
    PROVE  [e \in Engines |-> IF Running(e) THEN "gone" ELSE engine[e]]
               \in [Engines -> {"unborn", "loading", "serving", "wedged", "gone"}]
BY DEF TypeOK

LEMMA AfterBootType ==
    ASSUME NEW c \in Callers
    PROVE  /\ AfterBoot(c) \in Labels
           /\ AfterBoot(c) \in {"idle", "healUnlock"}
           /\ AfterBoot(c) = "idle" <=> c \notin healing
BY DEF AfterBoot, Labels

LEMMA InitIInv == Init => IInv
<1> SUFFICES ASSUME Init PROVE IInv
  OBVIOUS
<1>1. \A c \in Callers : launched[c] = None /\ c \notin healing /\ pc[c] = "idle"
  BY DEF Init
<1>2. bootLock = None /\ healLock = None /\ healing = {} /\ fails = 0 /\ count = 0
      /\ mishaps = 0 /\ contested = {} /\ config \in Configs
  BY DEF Init
<1>3. PICK up \in SUBSET Engines :
          engine = [e \in Engines |-> IF e \in up THEN "serving" ELSE "unborn"]
  BY DEF Init
<1>4. engine \in [Engines -> {"unborn", "loading", "serving", "wedged", "gone"}]
  BY <1>3
<1>5. /\ child \in [Callers -> Engines \cup {None}]
      /\ launched \in [Callers -> Engines \cup {None}]
      /\ pc \in [Callers -> Labels]
      /\ got \in [Callers -> Nat]
      /\ result \in [Callers -> Results]
  BY DEF Init, Labels, Results
<1> QED BY <1>1, <1>2, <1>4, <1>5 DEF IInv, Placed, TypeOK

(* A step of c that takes the boot lock or gives it back: it goes on, or    *)
(* leaves the boot.                                                         *)
GoesOn(c, l) ==
    /\ l \in {"look", "move", "remake", "canary", "remove"}
    /\ \/ l = "remove" /\ pc[c] = "bootUnlock"
       \/ l # "remove" /\ pc[c] \in {"boot", "look", "move", "remake"}
    /\ Goto(c, l)
    /\ UNCHANGED <<launched, result>>

Leaves(c) ==
    /\ Goto(c, AfterBoot(c))
    /\ Answer(c, "ended")
    /\ launched' = [launched EXCEPT ![c] = None]

Locking(c) ==
    /\ UNCHANGED <<config, engine, healLock, count, child, healing, got, fails>>
    /\ pc[c] \in {"boot", "look", "move", "remake", "bootUnlock", "remove"}
    /\ bootLock' \in Callers \cup {None, Left}
    /\ mishaps' \in {0, 1}
    /\ contested' \in SUBSET Callers
    /\ Leaves(c) \/ \E l \in Labels : GoesOn(c, l)

LockStep(c) ==
    \/ AcquireBoot(c) \/ LookBoot(c) \/ MoveBoot(c) \/ RemakeBoot(c)
    \/ ReleaseBoot(c) \/ RemoveBoot(c)

LEMMA CreateLocks ==
    ASSUME IInv, NEW c \in Callers, CreateBoot(c),
           pc[c] \in {"boot", "remake"},
           UNCHANGED <<config, engine, healLock, count, child, healing, got, fails>>
    PROVE  Locking(c)
<1>1. CASE bootLock' = c /\ Goto(c, "canary") /\ UNCHANGED <<launched, result, mishaps>>
  <2>1. contested' \in SUBSET Callers
    BY <1>1 DEF CreateBoot, LeaveBoot, IInv, TypeOK
  <2>2. GoesOn(c, "canary")
    BY <1>1 DEF GoesOn
  <2>3. "canary" \in Labels
    BY DEF Labels
  <2> QED BY <1>1, <2>1, <2>2, <2>3 DEF Locking, IInv, TypeOK
<1>2. CASE Mishap /\ bootLock' = Left /\ LeaveBoot(c)
  <2>1. Leaves(c)
    BY <1>2 DEF LeaveBoot, Leaves
  <2> QED BY <1>2, <2>1 DEF Locking, LeaveBoot, Mishap, IInv, TypeOK
<1> QED BY <1>1, <1>2 DEF CreateBoot

LEMMA LockStepLocks ==
    ASSUME IInv, NEW c \in Callers, LockStep(c)
    PROVE  Locking(c)
<1>l. {"look", "move", "remake", "remove"} \subseteq Labels
  BY DEF Labels
<1>1. CASE AcquireBoot(c)
  <2>1. CASE CreateBoot(c)
    BY <1>1, <2>1, CreateLocks DEF AcquireBoot
  <2>2. CASE Goto(c, "look") /\ UNCHANGED <<bootLock, launched, result, contested, mishaps>>
    <3>1. GoesOn(c, "look")
      BY <1>1, <2>2 DEF AcquireBoot, GoesOn
    <3> QED BY <1>1, <1>l, <2>2, <3>1 DEF AcquireBoot, Locking, IInv, TypeOK
  <2> QED BY <1>1, <2>1, <2>2 DEF AcquireBoot
<1>2. CASE LookBoot(c)
  <2>1. CASE Goto(c, "move") /\ UNCHANGED <<launched, result, contested>>
    <3>1. GoesOn(c, "move")
      BY <1>2, <2>1 DEF LookBoot, GoesOn
    <3> QED BY <1>2, <1>l, <2>1, <3>1 DEF LookBoot, Locking, IInv, TypeOK
  <2>2. CASE LeaveBoot(c)
    <3>1. Leaves(c)
      BY <2>2 DEF LeaveBoot, Leaves
    <3> QED BY <1>2, <2>2, <3>1 DEF LookBoot, LeaveBoot, Locking, IInv, TypeOK
  <2> QED BY <1>2, <2>1, <2>2 DEF LookBoot
<1>3. CASE MoveBoot(c)
  <2>1. GoesOn(c, "remake")
    BY <1>3 DEF MoveBoot, GoesOn
  <2> QED BY <1>3, <1>l, <2>1 DEF MoveBoot, pastVars, Locking, IInv, TypeOK
<1>4. CASE RemakeBoot(c)
  <2>1. CASE CreateBoot(c)
    BY <1>4, <2>1, CreateLocks DEF RemakeBoot
  <2>2. CASE LeaveBoot(c) /\ UNCHANGED <<bootLock, mishaps>>
    <3>1. Leaves(c)
      BY <2>2 DEF LeaveBoot, Leaves
    <3> QED BY <1>4, <2>2, <3>1 DEF RemakeBoot, LeaveBoot, Locking, IInv, TypeOK
  <2> QED BY <1>4, <2>1, <2>2 DEF RemakeBoot
<1>5. CASE ReleaseBoot(c)
  <2>1. CASE LeaveBoot(c)
    <3>1. Leaves(c)
      BY <2>1 DEF LeaveBoot, Leaves
    <3> QED BY <1>5, <2>1, <3>1 DEF ReleaseBoot, LeaveBoot, Locking, IInv, TypeOK
  <2>2. CASE Goto(c, "remove") /\ UNCHANGED <<launched, result, contested>>
    <3>1. GoesOn(c, "remove")
      BY <1>5, <2>2 DEF ReleaseBoot, GoesOn
    <3> QED BY <1>5, <1>l, <2>2, <3>1 DEF ReleaseBoot, Locking, IInv, TypeOK
  <2> QED BY <1>5, <2>1, <2>2 DEF ReleaseBoot
<1>6. CASE RemoveBoot(c)
  <2>1. Leaves(c)
    BY <1>6 DEF RemoveBoot, LeaveBoot, Leaves
  <2> QED BY <1>6, <2>1 DEF RemoveBoot, LeaveBoot, Mishap, Locking, IInv, TypeOK
<1> QED BY <1>1, <1>2, <1>3, <1>4, <1>5, <1>6 DEF LockStep

LEMMA LocksKeepIInv ==
    ASSUME IInv, NEW c \in Callers, LockStep(c)
    PROVE  IInv'
<1>l. Labels = {"idle", "boot", "look", "move", "remake", "canary", "spawn", "poll", "kill",
                "bootUnlock", "remove", "stop", "healUnlock", "incr", "store"}
  BY DEF Labels
<1>r. Results = {"ended", "BootTimeout", "stopped", "wedged"}
  BY DEF Results
<1>0. Locking(c)
  BY LockStepLocks
<1>1. CASE Leaves(c)
  BY <1>0, <1>1, <1>l, <1>r, GotoType, AnswerType, AfterBootType
     DEF Locking, Leaves, IInv, Placed, TypeOK
<1>2. ASSUME NEW l \in Labels, GoesOn(c, l)
      PROVE  IInv'
  BY <1>0, <1>2, <1>l, GotoType DEF Locking, GoesOn, IInv, Placed, TypeOK
<1> QED BY <1>0, <1>1, <1>2 DEF Locking

LEMMA BootKeepsIInv ==
    ASSUME IInv, NEW c \in Callers,
           CallBoot(c) \/ FirstCanary(c)
    PROVE  IInv'
<1> USE EngineAssumption, AfterBootType DEF IInv, Placed
<1>l. Labels = {"idle", "boot", "look", "move", "remake", "canary", "spawn", "poll", "kill",
                "bootUnlock", "remove", "stop", "healUnlock", "incr", "store"}
  BY DEF Labels
<1>r. Results = {"ended", "BootTimeout", "stopped", "wedged"}
  BY DEF Results
<1>1. CASE CallBoot(c)
  BY <1>1, <1>l, <1>r, GotoType, AnswerType DEF CallBoot, TypeOK, pastVars
<1>2. CASE FirstCanary(c)
  BY <1>2, <1>l, <1>r, GotoType, AnswerType DEF FirstCanary, TypeOK, pastVars
<1> QED BY <1>1, <1>2

LEMMA LaunchKeepsIInv ==
    ASSUME IInv, NEW c \in Callers,
           Spawn(c) \/ Poll(c) \/ KillLate(c)
    PROVE  IInv'
<1> USE EngineAssumption, AfterBootType DEF IInv, Placed
<1>l. Labels = {"idle", "boot", "look", "move", "remake", "canary", "spawn", "poll", "kill",
                "bootUnlock", "remove", "stop", "healUnlock", "incr", "store"}
  BY DEF Labels
<1>r. Results = {"ended", "BootTimeout", "stopped", "wedged"}
  BY DEF Results
<1>1. CASE Spawn(c)
  <2>1. ASSUME NEW e \in Engines,
               engine' = [engine EXCEPT ![e] = "loading"],
               child' = [child EXCEPT ![c] = e],
               launched' = [launched EXCEPT ![c] = e],
               Goto(c, "poll"), UNCHANGED result
        PROVE  IInv'
    BY <1>1, <2>1, <1>l, GotoType DEF Spawn, TypeOK, pastVars
  <2>2. CASE Answer(c, "ended") /\ Goto(c, "bootUnlock") /\ UNCHANGED <<engine, child, launched>>
    BY <1>1, <2>2, <1>l, <1>r, GotoType, AnswerType DEF Spawn, TypeOK, pastVars
  <2>3. (CHOOSE e \in Unborn : TRUE) \in Engines \/ Unborn = {}
    BY DEF Unborn
  <2> QED BY <1>1, <2>1, <2>2, <2>3 DEF Spawn
<1>2. CASE Poll(c)
  BY <1>2, <1>l, <1>r, GotoType, AnswerType DEF Poll, TypeOK, pastVars
<1>3. CASE KillLate(c)
  BY <1>3, <1>l, <1>r, GotoType, AnswerType, KilledType DEF KillLate, TypeOK, pastVars
<1> QED BY <1>1, <1>2, <1>3

LEMMA HealKeepsIInv ==
    ASSUME IInv, NEW c \in Callers,
           \/ CallHeal(c) \/ CallStop(c) \/ StopCommand(c) \/ StopChild(c) \/ ReleaseHeal(c)
    PROVE  IInv'
<1> USE EngineAssumption DEF IInv, Placed
<1>l. Labels = {"idle", "boot", "look", "move", "remake", "canary", "spawn", "poll", "kill",
                "bootUnlock", "remove", "stop", "healUnlock", "incr", "store"}
  BY DEF Labels
<1>r. Results = {"ended", "BootTimeout", "stopped", "wedged"}
  BY DEF Results
<1>1. CASE CallHeal(c)
  BY <1>1, <1>l, <1>r, GotoType, AnswerType DEF CallHeal, Mishap, TypeOK, pastVars
<1>2. CASE CallStop(c)
  BY <1>2, <1>l, <1>r, GotoType, AnswerType DEF CallStop, TypeOK, pastVars
<1>3. CASE StopCommand(c)
  <2>1. engine' \in [Engines -> {"unborn", "loading", "serving", "wedged", "gone"}]
    <3>1. UNCHANGED engine \/ engine' = [e \in Engines |-> IF Running(e) THEN "gone" ELSE engine[e]]
      BY <1>3 DEF StopCommand
    <3> QED BY <3>1, StoppedType DEF TypeOK
  <2>2. \E ok \in BOOLEAN : StopEnds(c, ok)
    BY <1>3 DEF StopCommand
  <2>3. CASE c \in healing
    BY <1>3, <2>1, <2>2, <2>3, <1>l, <1>r, GotoType, AnswerType
       DEF StopCommand, StopEnds, TypeOK, pastVars
  <2>4. CASE c \notin healing
    BY <1>3, <2>1, <2>2, <2>4, <1>l, <1>r, GotoType, AnswerType
       DEF StopCommand, StopEnds, TypeOK, pastVars
  <2> QED BY <2>3, <2>4
<1>4. CASE StopChild(c)
  <2>1. engine' \in [Engines -> {"unborn", "loading", "serving", "wedged", "gone"}]
    BY <1>4, KilledType DEF StopChild
  <2>2. CASE c \in healing
    BY <1>4, <2>1, <2>2, <1>l, GotoType DEF StopChild, StopEnds, TypeOK, pastVars
  <2>3. CASE c \notin healing
    BY <1>4, <2>1, <2>3, <1>l, <1>r, GotoType, AnswerType DEF StopChild, StopEnds, TypeOK, pastVars
  <2> QED BY <2>2, <2>3
<1>5. CASE ReleaseHeal(c)
  BY <1>5, <1>l, GotoType DEF ReleaseHeal, Mishap, TypeOK, pastVars
<1> QED BY <1>1, <1>2, <1>3, <1>4, <1>5

LEMMA WedgeKeepsIInv ==
    ASSUME IInv, NEW c \in Callers, CheckWedge(c) \/ IncrRead(c) \/ IncrStore(c)
    PROVE  IInv'
<1> USE EngineAssumption DEF IInv, Placed
<1>l. Labels = {"idle", "boot", "look", "move", "remake", "canary", "spawn", "poll", "kill",
                "bootUnlock", "remove", "stop", "healUnlock", "incr", "store"}
  BY DEF Labels
<1>r. Results = {"ended", "BootTimeout", "stopped", "wedged"}
  BY DEF Results
<1>1. CASE CheckWedge(c)
  BY <1>1, <1>l, <1>r, GotoType, AnswerType DEF CheckWedge, TypeOK
<1>2. CASE IncrRead(c)
  BY <1>2, <1>l, GotoType DEF IncrRead, TypeOK, pastVars
<1>3. CASE IncrStore(c)
  BY <1>3, <1>l, <1>r, GotoType, AnswerType DEF IncrStore, TypeOK, pastVars
<1> QED BY <1>1, <1>2, <1>3

LEMMA OutsideKeepsIInv ==
    ASSUME IInv,
           \/ \E c \in Callers : NewObject(c) \/ Crash(c)
           \/ \E e \in Engines : Load(e) \/ Falter(e)
    PROVE  IInv'
<1> USE EngineAssumption DEF IInv, Placed
<1>l. Labels = {"idle", "boot", "look", "move", "remake", "canary", "spawn", "poll", "kill",
                "bootUnlock", "remove", "stop", "healUnlock", "incr", "store"}
  BY DEF Labels
<1>r. Results = {"ended", "BootTimeout", "stopped", "wedged"}
  BY DEF Results
<1>1. ASSUME NEW c \in Callers, NewObject(c)
      PROVE  IInv'
  BY <1>1 DEF NewObject, TypeOK, pastVars
<1>2. ASSUME NEW c \in Callers, Crash(c)
      PROVE  IInv'
  BY <1>2, <1>l, <1>r, GotoType, AnswerType DEF Crash, Mishap, TypeOK
<1>3. ASSUME NEW e \in Engines, Load(e) \/ Falter(e)
      PROVE  IInv'
  BY <1>3 DEF Load, Falter, TypeOK, pastVars
<1> QED BY <1>1, <1>2, <1>3

\* Every step of the specification keeps the inductive invariant.
LEMMA NextKeepsIInv ==
    ASSUME IInv, [Next]_vars
    PROVE  IInv'
<1>1. CASE Next
  BY <1>1, LocksKeepIInv, BootKeepsIInv, LaunchKeepsIInv, HealKeepsIInv, WedgeKeepsIInv,
     OutsideKeepsIInv DEF Next, Step, LockStep
<1>2. CASE UNCHANGED vars
  BY <1>2 DEF vars, pastVars, IInv, Placed, TypeOK
<1> QED BY <1>1, <1>2

\* The inductive invariant holds: the types, and where a call's locals are in use.
THEOREM IInvCorrect == Spec => []IInv
<1>1. Init => IInv
  BY InitIInv
<1>2. IInv /\ [Next]_vars => IInv'
  BY NextKeepsIInv
<1> QED BY <1>1, <1>2, PTL DEF Spec

\* The state keeps its type, and the locals of a call end with it, for any
\* processes, engines and configurations: TypeOK.
THEOREM TypeCorrect == Spec => []TypeOK
<1>1. IInv => TypeOK
  BY DEF IInv
<1> QED BY <1>1, IInvCorrect, PTL

-----------------------------------------------------------------------------
(* The locks: who holds the boot lock is booting, who holds the heal lock   *)
(* heals, and who boots and took the lock with nobody reaching for it has   *)
(* it, and still nobody reaches for it.                                     *)
Held ==
    \A c \in Callers :
        /\ bootLock = c => Booting(c)
        /\ healLock = c => c \in healing

Alone ==
    \A c \in Callers : Booting(c) /\ c \notin contested
        => bootLock = c /\ \A d \in Callers \ {c} : pc[d] \notin {"move", "remove"}

Accounted == Left \in {bootLock, healLock} => mishaps = 1

LInv == IInv /\ Held /\ Alone /\ Accounted

LEMMA InitLInv == Init => LInv
<1> SUFFICES ASSUME Init PROVE LInv
  OBVIOUS
<1>1. bootLock = None /\ healLock = None /\ \A c \in Callers : pc[c] = "idle"
  BY DEF Init
<1> QED BY <1>1, InitIInv, EngineAssumption DEF LInv, Held, Alone, Accounted, Booting

(* The exclusive create, where no lock is there.                            *)
LEMMA CreateKeepsLInv ==
    ASSUME LInv, NEW c \in Callers, CreateBoot(c), bootLock = None,
           pc[c] \in {"boot", "remake"}, UNCHANGED <<healLock, healing>>
    PROVE  Held' /\ Alone' /\ Accounted'
<1>l. Labels = {"idle", "boot", "look", "move", "remake", "canary", "spawn", "poll", "kill",
                "bootUnlock", "remove", "stop", "healUnlock", "incr", "store"}
  BY DEF Labels
<1>0. \A d \in Callers : Booting(d) => d \in contested
  BY EngineAssumption DEF LInv, Alone
<1>1. CASE /\ bootLock' = c
           /\ contested' = IF Reaching \ {c} = {} THEN contested ELSE contested \cup {c}
           /\ Goto(c, "canary")
           /\ UNCHANGED <<launched, result, mishaps>>
  <2>1. /\ pc'[c] = "canary"
        /\ \A d \in Callers \ {c} : pc'[d] = pc[d]
    BY <1>1, <1>l, GotoType DEF LInv, IInv
  <2>2. contested \subseteq contested'
    BY <1>1
  <2>3. ASSUME NEW d \in Callers, Booting(d)', d \notin contested'
        PROVE  bootLock' = d /\ \A f \in Callers \ {d} : pc'[f] \notin {"move", "remove"}
    <3>1. d = c
      BY <1>0, <2>1, <2>2, <2>3 DEF Booting
    <3>2. Reaching \ {c} = {}
      BY <1>1, <2>3, <3>1
    <3> QED BY <1>1, <2>1, <3>1, <3>2 DEF Reaching
  <2>4. Alone'
    BY <2>3 DEF Alone
  <2>5. Held'
    BY <1>1, <2>1 DEF LInv, Held, Booting
  <2>6. Accounted'
    BY <1>1, EngineAssumption DEF LInv, Accounted
  <2> QED BY <2>4, <2>5, <2>6
<1>2. CASE Mishap /\ bootLock' = Left /\ LeaveBoot(c)
  <2>1. /\ pc'[c] \in {"idle", "healUnlock"}
        /\ \A d \in Callers \ {c} : pc'[d] = pc[d]
        /\ contested' = contested \ {c}
    BY <1>2, <1>l, GotoType, AfterBootType DEF LInv, IInv, LeaveBoot
  <2>2. Alone'
    BY <1>0, <2>1 DEF Alone, Booting
  <2>3. Held'
    BY <1>2, <2>1, EngineAssumption DEF LInv, Held, Booting
  <2> QED BY <1>2, <2>2, <2>3 DEF Mishap, Accounted
<1> QED BY <1>1, <1>2 DEF CreateBoot

(* The other steps around the boot lock.                                    *)
LEMMA LocksKeepLInv ==
    ASSUME LInv, NEW c \in Callers, LockStep(c)
    PROVE  Held' /\ Alone' /\ Accounted'
<1>l. Labels = {"idle", "boot", "look", "move", "remake", "canary", "spawn", "poll", "kill",
                "bootUnlock", "remove", "stop", "healUnlock", "incr", "store"}
  BY DEF Labels
<1> DEFINE Out == /\ pc'[c] \in {"idle", "healUnlock"}
                  /\ \A d \in Callers \ {c} : pc'[d] = pc[d]
                  /\ contested' = contested \ {c}
<1>o. LeaveBoot(c) => Out
  BY <1>l, GotoType, AfterBootType DEF LInv, IInv, LeaveBoot
<1>1. CASE AcquireBoot(c)
  <2>1. CASE bootLock = None /\ CreateBoot(c)
    BY <1>1, <2>1, CreateKeepsLInv DEF AcquireBoot
  <2>2. CASE Goto(c, "look") /\ UNCHANGED <<bootLock, contested, mishaps>>
    BY <1>1, <2>2, <1>l, GotoType
       DEF AcquireBoot, LInv, IInv, Held, Alone, Accounted, Booting
  <2> QED BY <1>1, <2>1, <2>2 DEF AcquireBoot
<1>2. CASE LookBoot(c)
  <2>1. CASE bootLock \in {None, Left} /\ Goto(c, "move") /\ UNCHANGED contested
    <3>1. bootLock \notin Callers
      BY <2>1, EngineAssumption
    <3> QED BY <1>2, <2>1, <3>1, <1>l, GotoType
            DEF LookBoot, LInv, IInv, Held, Alone, Accounted, Booting
  <2>2. CASE LeaveBoot(c)
    <3>1. Out /\ pc[c] = "look" /\ UNCHANGED <<bootLock, healLock, healing, mishaps>>
      BY <1>2, <2>2, <1>o DEF LookBoot
    <3> HIDE DEF Out
    <3> QED BY <3>1 DEF Out, LInv, Held, Alone, Accounted, Booting
  <2> QED BY <1>2, <2>1, <2>2 DEF LookBoot
<1>3. CASE MoveBoot(c)
  <2>1. /\ pc[c] = "move" /\ pc'[c] = "remake"
        /\ \A d \in Callers \ {c} : pc'[d] = pc[d]
        /\ bootLock' \in {None, bootLock}
        /\ UNCHANGED <<healLock, healing, mishaps, contested>>
    BY <1>3, <1>l, GotoType DEF MoveBoot, pastVars, LInv, IInv
  <2>2. \A d \in Callers : Booting(d) => d \in contested
    BY <2>1 DEF LInv, Alone, Booting
  <2> QED BY <2>1, <2>2, EngineAssumption DEF LInv, Held, Alone, Accounted, Booting
<1>4. CASE RemakeBoot(c)
  <2>1. CASE bootLock = None /\ CreateBoot(c)
    BY <1>4, <2>1, CreateKeepsLInv DEF RemakeBoot
  <2>2. CASE LeaveBoot(c) /\ UNCHANGED <<bootLock, mishaps>>
    <3>1. Out /\ pc[c] = "remake" /\ UNCHANGED <<bootLock, healLock, healing, mishaps>>
      BY <1>4, <2>2, <1>o DEF RemakeBoot
    <3> HIDE DEF Out
    <3> QED BY <3>1 DEF Out, LInv, Held, Alone, Accounted, Booting
  <2> QED BY <1>4, <2>1, <2>2 DEF RemakeBoot
<1>5. CASE ReleaseBoot(c)
  <2>1. CASE bootLock # c /\ LeaveBoot(c)
    <3>1. /\ Out /\ pc[c] = "bootUnlock" /\ bootLock # c
          /\ UNCHANGED <<bootLock, healLock, healing, mishaps>>
      BY <1>5, <2>1, <1>o DEF ReleaseBoot
    <3> HIDE DEF Out
    <3> QED BY <3>1 DEF Out, LInv, Held, Alone, Accounted, Booting
  <2>2. CASE bootLock = c /\ Goto(c, "remove") /\ UNCHANGED contested
    BY <1>5, <2>2, <1>l, GotoType
       DEF ReleaseBoot, LInv, IInv, Held, Alone, Accounted, Booting
  <2> QED BY <1>5, <2>1, <2>2 DEF ReleaseBoot
<1>6. CASE RemoveBoot(c)
  <2>1. /\ Out /\ pc[c] = "remove"
        /\ UNCHANGED <<healLock, healing>>
        /\ \/ bootLock' = None /\ UNCHANGED mishaps
           \/ mishaps' = 1 /\ bootLock' = IF bootLock = c THEN Left ELSE bootLock
    BY <1>6, <1>o DEF RemoveBoot, Mishap
  <2> HIDE DEF Out
  <2>2. \A d \in Callers \ {c} : Booting(d) => d \in contested
    BY <2>1 DEF LInv, Alone
  <2>3. Alone'
    BY <2>1, <2>2 DEF Out, Alone, Booting
  <2>4. Held'
    BY <2>1, EngineAssumption DEF Out, LInv, Held, Booting
  <2>5. Accounted'
    BY <2>1, EngineAssumption DEF LInv, Accounted
  <2> QED BY <2>3, <2>4, <2>5
<1> QED BY <1>1, <1>2, <1>3, <1>4, <1>5, <1>6 DEF LockStep

LEMMA BootKeepsLInv ==
    ASSUME LInv, NEW c \in Callers,
           CallBoot(c) \/ FirstCanary(c)
    PROVE  Held' /\ Alone' /\ Accounted'
<1> USE EngineAssumption, AfterBootType DEF LInv, IInv, Held, Alone, Accounted, Booting
<1>l. Labels = {"idle", "boot", "look", "move", "remake", "canary", "spawn", "poll", "kill",
                "bootUnlock", "remove", "stop", "healUnlock", "incr", "store"}
  BY DEF Labels
<1>1. CASE CallBoot(c)
  BY <1>1, <1>l, GotoType DEF CallBoot, pastVars
<1>2. CASE FirstCanary(c)
  BY <1>2, <1>l, GotoType DEF FirstCanary, pastVars
<1> QED BY <1>1, <1>2

LEMMA LaunchKeepsLInv ==
    ASSUME LInv, NEW c \in Callers,
           Spawn(c) \/ Poll(c) \/ KillLate(c)
    PROVE  Held' /\ Alone' /\ Accounted'
<1> USE EngineAssumption, AfterBootType DEF LInv, IInv, Held, Alone, Accounted, Booting
<1>l. Labels = {"idle", "boot", "look", "move", "remake", "canary", "spawn", "poll", "kill",
                "bootUnlock", "remove", "stop", "healUnlock", "incr", "store"}
  BY DEF Labels
<1>1. CASE Spawn(c)
  BY <1>1, <1>l, GotoType DEF Spawn, pastVars
<1>2. CASE Poll(c)
  BY <1>2, <1>l, GotoType DEF Poll, pastVars
<1>3. CASE KillLate(c)
  BY <1>3, <1>l, GotoType DEF KillLate, pastVars
<1> QED BY <1>1, <1>2, <1>3

LEMMA HealKeepsLInv ==
    ASSUME LInv, NEW c \in Callers,
           \/ CallHeal(c) \/ CallStop(c) \/ StopCommand(c) \/ StopChild(c) \/ ReleaseHeal(c)
    PROVE  Held' /\ Alone' /\ Accounted'
<1> USE EngineAssumption DEF LInv, IInv, Held, Alone, Accounted, Booting
<1>l. Labels = {"idle", "boot", "look", "move", "remake", "canary", "spawn", "poll", "kill",
                "bootUnlock", "remove", "stop", "healUnlock", "incr", "store"}
  BY DEF Labels
<1>1. CASE CallHeal(c)
  BY <1>1, <1>l, GotoType DEF CallHeal, Mishap, pastVars
<1>2. CASE CallStop(c)
  BY <1>2, <1>l, GotoType DEF CallStop, pastVars
<1>3. CASE StopCommand(c)
  <2>1. \E l \in {"boot", "healUnlock", "idle"} : Goto(c, l)
    BY <1>3 DEF StopCommand, StopEnds
  <2> QED BY <1>3, <2>1, <1>l, GotoType DEF StopCommand, pastVars
<1>4. CASE StopChild(c)
  <2>1. \E l \in {"boot", "healUnlock", "idle"} : Goto(c, l)
    BY <1>4 DEF StopChild, StopEnds
  <2> QED BY <1>4, <2>1, <1>l, GotoType DEF StopChild, pastVars
<1>5. CASE ReleaseHeal(c)
  BY <1>5, <1>l, GotoType DEF ReleaseHeal, Mishap, pastVars
<1> QED BY <1>1, <1>2, <1>3, <1>4, <1>5

LEMMA OthersKeepLInv ==
    ASSUME LInv,
           \/ \E c \in Callers : CheckWedge(c) \/ IncrRead(c) \/ IncrStore(c) \/ NewObject(c) \/ Crash(c)
           \/ \E e \in Engines : Load(e) \/ Falter(e)
    PROVE  Held' /\ Alone' /\ Accounted'
<1> USE EngineAssumption DEF LInv, IInv, Held, Alone, Accounted, Booting
<1>l. Labels = {"idle", "boot", "look", "move", "remake", "canary", "spawn", "poll", "kill",
                "bootUnlock", "remove", "stop", "healUnlock", "incr", "store"}
  BY DEF Labels
<1>1. ASSUME NEW c \in Callers, CheckWedge(c)
      PROVE  Held' /\ Alone' /\ Accounted'
  BY <1>1, <1>l, GotoType DEF CheckWedge
<1>2. ASSUME NEW c \in Callers, IncrRead(c)
      PROVE  Held' /\ Alone' /\ Accounted'
  BY <1>2, <1>l, GotoType DEF IncrRead, pastVars
<1>3. ASSUME NEW c \in Callers, IncrStore(c)
      PROVE  Held' /\ Alone' /\ Accounted'
  BY <1>3, <1>l, GotoType DEF IncrStore, pastVars
<1>4. ASSUME NEW c \in Callers, NewObject(c)
      PROVE  Held' /\ Alone' /\ Accounted'
  BY <1>4 DEF NewObject, pastVars
<1>5. ASSUME NEW c \in Callers, Crash(c)
      PROVE  Held' /\ Alone' /\ Accounted'
  BY <1>5, <1>l, GotoType DEF Crash, Mishap
<1>6. ASSUME NEW e \in Engines, Load(e) \/ Falter(e)
      PROVE  Held' /\ Alone' /\ Accounted'
  BY <1>6 DEF Load, Falter, pastVars
<1> QED BY <1>1, <1>2, <1>3, <1>4, <1>5, <1>6

\* Every step keeps the locks with their holders.
LEMMA NextKeepsLInv ==
    ASSUME LInv, [Next]_vars
    PROVE  LInv'
<1>1. IInv'
  BY NextKeepsIInv DEF LInv
<1>2. CASE Next
  BY <1>1, <1>2, LocksKeepLInv, BootKeepsLInv, LaunchKeepsLInv, HealKeepsLInv, OthersKeepLInv
     DEF Next, Step, LockStep, LInv
<1>3. CASE UNCHANGED vars
  BY <1>1, <1>3 DEF vars, pastVars, LInv, Held, Alone, Accounted, Booting
<1> QED BY <1>2, <1>3

\* Who holds a lock is in the call that took it, and who took it with nobody
\* reaching for it has it to himself.
THEOREM LInvCorrect == Spec => []LInv
<1>1. Init => LInv
  BY InitLInv
<1>2. LInv /\ [Next]_vars => LInv'
  BY NextKeepsLInv
<1> QED BY <1>1, <1>2, PTL DEF Spec

\* One process boots at a time, from its first canary to its release, but for one
\* that took the lock under an earlier look of another: BootSerial.
THEOREM BootIsSerial == Spec => []BootSerial
<1>1. LInv => BootSerial
  BY DEF LInv, Alone, BootSerial
<1> QED BY <1>1, LInvCorrect, PTL

\* A caller between calls holds neither lock, whichever way its last call ended,
\* and a lock stays behind only after a mishap: LocksReturned.
THEOREM LocksAreReturned == Spec => []LocksReturned
<1>1. LInv => LocksReturned
  BY DEF LInv, IInv, TypeOK, Placed, Held, Accounted, Booting, LocksReturned
<1> QED BY <1>1, LInvCorrect, PTL
-----------------------------------------------------------------------------
(* Reports.  A boot keeps the engine it launched as its child until it is   *)
(* released or killed, and an engine that is gone stays gone.               *)
Own ==
    \A c \in Callers :
        /\ pc[c] \in {"poll", "kill"} => child[c] = launched[c]
        /\ pc[c] = "bootUnlock" /\ result[c] = "BootTimeout" /\ launched[c] # None
           => engine[launched[c]] = "gone"

\* No step brings an engine back that is gone.
LEMMA GoneStaysGone ==
    ASSUME IInv, [Next]_vars, NEW e \in Engines, engine[e] = "gone"
    PROVE  engine'[e] = "gone"
<1> USE DEF IInv, TypeOK
<1>1. ASSUME NEW c \in Callers, Spawn(c)
      PROVE  engine'[e] = "gone"
  <2>1. CASE Unborn # {} /\ engine' = [engine EXCEPT ![CHOOSE f \in Unborn : TRUE] = "loading"]
    <3>1. (CHOOSE f \in Unborn : TRUE) # e
      BY <2>1 DEF Unborn
    <3> QED BY <2>1, <3>1
  <2>2. CASE UNCHANGED engine
    BY <2>2
  <2> QED BY <1>1, <2>1, <2>2 DEF Spawn
<1>2. ASSUME NEW c \in Callers, KillLate(c) \/ StopChild(c) \/ StopCommand(c)
      PROVE  engine'[e] = "gone"
  BY <1>2 DEF KillLate, StopChild, StopCommand, Killed, Running
<1>3. ASSUME NEW c \in Callers,
             \/ CallBoot(c) \/ LockStep(c) \/ FirstCanary(c) \/ Poll(c) \/ CallHeal(c) \/ CallStop(c) \/ ReleaseHeal(c)
             \/ CheckWedge(c) \/ IncrRead(c) \/ IncrStore(c) \/ NewObject(c) \/ Crash(c)
      PROVE  engine'[e] = "gone"
  BY <1>3, LockStepLocks DEF Locking, CallBoot, FirstCanary, Poll, CallHeal, CallStop, ReleaseHeal, CheckWedge, IncrRead, IncrStore, NewObject, Crash
<1>4. ASSUME NEW f \in Engines, Load(f) \/ Falter(f)
      PROVE  engine'[e] = "gone"
  BY <1>4 DEF Load, Falter, Running
<1>5. CASE UNCHANGED vars
  BY <1>5 DEF vars
<1> QED BY <1>1, <1>2, <1>3, <1>4, <1>5 DEF Next, Step, LockStep

LEMMA BootKeepsOwn ==
    ASSUME IInv, Own, [Next]_vars, NEW c \in Callers,
           CallBoot(c) \/ LockStep(c) \/ FirstCanary(c)
    PROVE  Own'
<1> USE EngineAssumption, AfterBootType DEF IInv, Own
<1>l. Labels = {"idle", "boot", "look", "move", "remake", "canary", "spawn", "poll", "kill",
                "bootUnlock", "remove", "stop", "healUnlock", "incr", "store"}
  BY DEF Labels
<1>r. Results = {"ended", "BootTimeout", "stopped", "wedged"}
  BY DEF Results
<1>1. CASE CallBoot(c)
  BY <1>1, <1>l, <1>r, GotoType, AnswerType DEF CallBoot
<1>2. CASE LockStep(c)
  <2>0. Locking(c)
    BY <1>2, LockStepLocks
  <2>1. CASE Leaves(c)
    BY <2>0, <2>1, <1>l, <1>r, GotoType, AnswerType DEF Locking, Leaves, TypeOK
  <2>2. ASSUME NEW l \in Labels, GoesOn(c, l)
        PROVE  Own'
    BY <2>0, <2>2, <1>l, GotoType DEF Locking, GoesOn
  <2> QED BY <2>0, <2>1, <2>2 DEF Locking
<1>3. CASE FirstCanary(c)
  BY <1>3, <1>l, <1>r, GotoType, AnswerType DEF FirstCanary
<1> QED BY <1>1, <1>2, <1>3

LEMMA LaunchKeepsOwn ==
    ASSUME IInv, Own, [Next]_vars, NEW c \in Callers,
           Spawn(c) \/ Poll(c) \/ KillLate(c)
    PROVE  Own'
<1> USE EngineAssumption, AfterBootType, GoneStaysGone DEF IInv, Own
<1>l. Labels = {"idle", "boot", "look", "move", "remake", "canary", "spawn", "poll", "kill",
                "bootUnlock", "remove", "stop", "healUnlock", "incr", "store"}
  BY DEF Labels
<1>r. Results = {"ended", "BootTimeout", "stopped", "wedged"}
  BY DEF Results
<1>1. CASE Spawn(c)
  <2>1. ASSUME NEW e \in Engines,
               child' = [child EXCEPT ![c] = e],
               launched' = [launched EXCEPT ![c] = e],
               Goto(c, "poll"), UNCHANGED result
        PROVE  Own'
    BY <2>1, <1>l, GotoType DEF TypeOK
  <2>2. CASE Answer(c, "ended") /\ Goto(c, "bootUnlock") /\ UNCHANGED <<engine, child, launched>>
    BY <2>2, <1>l, <1>r, GotoType, AnswerType DEF TypeOK
  <2>3. (CHOOSE e \in Unborn : TRUE) \in Engines \/ Unborn = {}
    BY DEF Unborn
  <2> QED BY <1>1, <2>1, <2>2, <2>3 DEF Spawn
<1>2. CASE Poll(c)
  BY <1>2, <1>l, <1>r, GotoType, AnswerType DEF Poll
<1>3. CASE KillLate(c)
  <2>1. launched[c] # None => engine'[launched[c]] = "gone"
    BY <1>3 DEF KillLate, Killed, TypeOK
  <2> QED BY <1>3, <2>1, <1>l, <1>r, GotoType, AnswerType DEF KillLate, TypeOK
<1> QED BY <1>1, <1>2, <1>3

LEMMA HealKeepsOwn ==
    ASSUME IInv, Own, [Next]_vars, NEW c \in Callers,
           \/ CallHeal(c) \/ CallStop(c) \/ StopCommand(c) \/ StopChild(c) \/ ReleaseHeal(c)
    PROVE  Own'
<1> USE EngineAssumption, GoneStaysGone DEF IInv, Own, TypeOK
<1>l. Labels = {"idle", "boot", "look", "move", "remake", "canary", "spawn", "poll", "kill",
                "bootUnlock", "remove", "stop", "healUnlock", "incr", "store"}
  BY DEF Labels
<1>r. Results = {"ended", "BootTimeout", "stopped", "wedged"}
  BY DEF Results
<1>1. CASE CallHeal(c)
  BY <1>1, <1>l, <1>r, GotoType, AnswerType DEF CallHeal
<1>2. CASE CallStop(c)
  BY <1>2, <1>l, <1>r, GotoType, AnswerType DEF CallStop
<1>3. CASE StopCommand(c) \/ StopChild(c)
  <2>1. \E l \in {"boot", "healUnlock", "idle"} : Goto(c, l)
    BY <1>3 DEF StopCommand, StopChild, StopEnds
  <2>2. \A d \in Callers \ {c} : result'[d] = result[d]
    BY <1>3, <1>r DEF StopCommand, StopChild, StopEnds, Answer
  <2>3. /\ launched' = launched
        /\ \A d \in Callers \ {c} : child'[d] = child[d]
    BY <1>3 DEF StopCommand, StopChild
  <2>4. /\ pc'[c] \in {"boot", "healUnlock", "idle"}
        /\ \A d \in Callers \ {c} : pc'[d] = pc[d]
    BY <2>1, <1>l, GotoType
  <2>5. ASSUME NEW d \in Callers, d # c
        PROVE  /\ pc'[d] \in {"poll", "kill"} => child'[d] = launched'[d]
               /\ pc'[d] = "bootUnlock" /\ result'[d] = "BootTimeout" /\ launched'[d] # None
                  => engine'[launched'[d]] = "gone"
    BY <2>2, <2>3, <2>4, <2>5
  <2> QED BY <2>4, <2>5
<1>4. CASE ReleaseHeal(c)
  BY <1>4, <1>l, GotoType DEF ReleaseHeal
<1> QED BY <1>1, <1>2, <1>3, <1>4

LEMMA OthersKeepOwn ==
    ASSUME IInv, Own, [Next]_vars,
           \/ \E c \in Callers : CheckWedge(c) \/ IncrRead(c) \/ IncrStore(c) \/ NewObject(c) \/ Crash(c)
           \/ \E e \in Engines : Load(e) \/ Falter(e)
           \/ UNCHANGED vars
    PROVE  Own'
<1> USE EngineAssumption, GoneStaysGone DEF IInv, Own, TypeOK
<1>l. Labels = {"idle", "boot", "look", "move", "remake", "canary", "spawn", "poll", "kill",
                "bootUnlock", "remove", "stop", "healUnlock", "incr", "store"}
  BY DEF Labels
<1>r. Results = {"ended", "BootTimeout", "stopped", "wedged"}
  BY DEF Results
<1>1. ASSUME NEW c \in Callers, CheckWedge(c) \/ Crash(c)
      PROVE  Own'
  BY <1>1, <1>l, <1>r, GotoType, AnswerType DEF CheckWedge, Crash
<1>2. ASSUME NEW c \in Callers, IncrRead(c)
      PROVE  Own'
  BY <1>2, <1>l, GotoType DEF IncrRead
<1>3. ASSUME NEW c \in Callers, IncrStore(c)
      PROVE  Own'
  <2>1. \A d \in Callers \ {c} : result'[d] = result[d]
    BY <1>3 DEF IncrStore, Answer
  <2> QED BY <1>3, <2>1, <1>l, GotoType DEF IncrStore
<1>4. ASSUME NEW c \in Callers, NewObject(c)
      PROVE  Own'
  BY <1>4 DEF NewObject
<1>5. ASSUME NEW e \in Engines, Load(e) \/ Falter(e)
      PROVE  Own'
  BY <1>5 DEF Load, Falter
<1>6. CASE UNCHANGED vars
  BY <1>6 DEF vars
<1> QED BY <1>1, <1>2, <1>3, <1>4, <1>5, <1>6

LEMMA NextKeepsOwn ==
    ASSUME IInv, Own, [Next]_vars
    PROVE  Own'
BY BootKeepsOwn, LaunchKeepsOwn, HealKeepsOwn, OthersKeepOwn DEF Next, Step, LockStep

(* The counter: what it shows, and what a caller has read of it, with the   *)
(* canaries whose increment is still to come, are canaries that failed.     *)
Pending == {c \in Callers : pc[c] \in {"incr", "store"}}

Counted ==
    /\ IsFiniteSet(Pending)
    /\ count + Cardinality(Pending) <= fails
    /\ \A c \in Callers : pc[c] = "store" => got[c] + Cardinality(Pending) <= fails
    /\ \A c \in Callers : result[c] = "wedged" => fails >= Threshold

\* A step that begins and ends no increment; it may reset the counter.
Quiet ==
    /\ count' \in {0, count}
    /\ fails' = fails
    /\ \A d \in Callers :
          /\ pc'[d] \in {"incr", "store"} <=> pc[d] \in {"incr", "store"}
          /\ pc'[d] = "store" => pc[d] = "store" /\ got'[d] = got[d]
          /\ result'[d] = "wedged" => result[d] = "wedged"

LEMMA QuietKeepsCounted ==
    ASSUME IInv, Counted, Quiet
    PROVE  Counted'
<1>1. Pending' = Pending
  BY DEF Quiet, Pending
<1>2. Cardinality(Pending) \in Nat
  BY FS_CardinalityType DEF Counted
<1>3. count \in Nat /\ fails \in Nat
  BY DEF IInv, TypeOK
<1>4. count' + Cardinality(Pending) <= fails
  BY <1>2, <1>3 DEF Counted, Quiet
<1> QED BY <1>1, <1>4 DEF Counted, Quiet

LEMMA BootIsQuiet ==
    ASSUME IInv, NEW c \in Callers,
           \/ CallBoot(c) \/ LockStep(c) \/ FirstCanary(c)
           \/ Spawn(c) \/ Poll(c) \/ KillLate(c)
    PROVE  Quiet
<1> USE AfterBootType DEF IInv, Quiet
<1>l. Labels = {"idle", "boot", "look", "move", "remake", "canary", "spawn", "poll", "kill",
                "bootUnlock", "remove", "stop", "healUnlock", "incr", "store"}
  BY DEF Labels
<1>r. Results = {"ended", "BootTimeout", "stopped", "wedged"}
  BY DEF Results
<1>1. CASE CallBoot(c) \/ KillLate(c)
  BY <1>1, <1>l, <1>r, GotoType, AnswerType DEF CallBoot, KillLate, pastVars
<1>2. CASE LockStep(c)
  <2>0. Locking(c)
    BY <1>2, LockStepLocks
  <2>1. CASE Leaves(c)
    BY <2>0, <2>1, <1>l, <1>r, GotoType, AnswerType DEF Locking, Leaves
  <2>2. ASSUME NEW l \in Labels, GoesOn(c, l)
        PROVE  Quiet
    BY <2>0, <2>2, <1>l, GotoType DEF Locking, GoesOn
  <2> QED BY <2>0, <2>1, <2>2 DEF Locking
<1>4. CASE FirstCanary(c)
  BY <1>4, <1>l, <1>r, GotoType, AnswerType DEF FirstCanary, pastVars
<1>5. CASE Spawn(c)
  BY <1>5, <1>l, <1>r, GotoType, AnswerType DEF Spawn, pastVars
<1>6. CASE Poll(c)
  BY <1>6, <1>l, <1>r, GotoType, AnswerType DEF Poll, pastVars
<1> QED BY <1>1, <1>2, <1>4, <1>5, <1>6

LEMMA HealIsQuiet ==
    ASSUME IInv, NEW c \in Callers,
           \/ CallHeal(c) \/ CallStop(c) \/ StopCommand(c) \/ StopChild(c) \/ ReleaseHeal(c)
    PROVE  Quiet
<1> USE DEF IInv, Quiet
<1>l. Labels = {"idle", "boot", "look", "move", "remake", "canary", "spawn", "poll", "kill",
                "bootUnlock", "remove", "stop", "healUnlock", "incr", "store"}
  BY DEF Labels
<1>r. Results = {"ended", "BootTimeout", "stopped", "wedged"}
  BY DEF Results
<1>1. CASE CallHeal(c) \/ CallStop(c)
  BY <1>1, <1>l, <1>r, GotoType, AnswerType DEF CallHeal, CallStop, Mishap, pastVars
<1>2. CASE StopCommand(c) \/ StopChild(c)
  <2>1. \E l \in {"boot", "healUnlock", "idle"} : Goto(c, l)
    BY <1>2 DEF StopCommand, StopChild, StopEnds
  <2>2. \/ UNCHANGED result
        \/ \E r \in {"stopped", "ended"} : Answer(c, r)
    BY <1>2 DEF StopCommand, StopChild, StopEnds
  <2>3. /\ pc[c] = "stop"
        /\ UNCHANGED <<count, got, pastVars>>
    BY <1>2 DEF StopCommand, StopChild
  <2> QED BY <2>1, <2>2, <2>3, <1>l, <1>r, GotoType, AnswerType DEF pastVars
<1>3. CASE ReleaseHeal(c)
  BY <1>3, <1>l, GotoType DEF ReleaseHeal, Mishap, pastVars
<1> QED BY <1>1, <1>2, <1>3

\* A process that dies boots or holds the heal lock, so it is in no increment.
LEMMA OthersAreQuiet ==
    ASSUME LInv,
           \/ \E c \in Callers : NewObject(c) \/ Crash(c)
           \/ \E e \in Engines : Load(e) \/ Falter(e)
           \/ UNCHANGED vars
    PROVE  Quiet
<1> USE DEF LInv, IInv, Quiet
<1>l. Labels = {"idle", "boot", "look", "move", "remake", "canary", "spawn", "poll", "kill",
                "bootUnlock", "remove", "stop", "healUnlock", "incr", "store"}
  BY DEF Labels
<1>r. Results = {"ended", "BootTimeout", "stopped", "wedged"}
  BY DEF Results
<1>1. ASSUME NEW c \in Callers, Crash(c)
      PROVE  Quiet
  <2>1. pc[c] \notin {"incr", "store"}
    BY <1>1 DEF Crash, Held, Booting, Placed
  <2> QED BY <1>1, <2>1, <1>l, <1>r, GotoType, AnswerType DEF Crash
<1>2. ASSUME NEW c \in Callers, NewObject(c)
      PROVE  Quiet
  BY <1>2 DEF NewObject, pastVars
<1>3. ASSUME NEW e \in Engines, Load(e) \/ Falter(e)
      PROVE  Quiet
  BY <1>3 DEF Load, Falter, pastVars
<1>4. CASE UNCHANGED vars
  BY <1>4 DEF vars, pastVars
<1> QED BY <1>1, <1>2, <1>3, <1>4

LEMMA CheckKeepsCounted ==
    ASSUME IInv, Counted, NEW c \in Callers, CheckWedge(c)
    PROVE  Counted'
<1> USE DEF IInv
<1>l. Labels = {"idle", "boot", "look", "move", "remake", "canary", "spawn", "poll", "kill",
                "bootUnlock", "remove", "stop", "healUnlock", "incr", "store"}
  BY DEF Labels
<1>r. Results = {"ended", "BootTimeout", "stopped", "wedged"}
  BY DEF Results
<1>0. Answer(c, "ended") /\ UNCHANGED got
  BY DEF CheckWedge
<1>n. Cardinality(Pending) \in Nat /\ count \in Nat /\ fails \in Nat /\ got \in [Callers -> Nat]
  BY FS_CardinalityType DEF Counted, TypeOK
<1>1. CASE count' = 0 /\ UNCHANGED <<pc, fails>>
  <2>1. Quiet
    BY <1>0, <1>1, <1>r, AnswerType DEF Quiet
  <2> QED BY <2>1, QuietKeepsCounted
<1>2. CASE pc[c] = "idle" /\ fails' = fails + 1 /\ Goto(c, "incr") /\ UNCHANGED count
  <2>1. Pending' = Pending \cup {c} /\ c \notin Pending
    BY <1>2, <1>l, GotoType DEF Pending
  <2>2. /\ IsFiniteSet(Pending')
        /\ Cardinality(Pending') = Cardinality(Pending) + 1
    BY <2>1, FS_AddElement DEF Counted
  <2>3. count' + Cardinality(Pending') <= fails'
    BY <1>n, <1>2, <2>2 DEF Counted
  <2>4. ASSUME NEW d \in Callers, pc'[d] = "store"
        PROVE  got'[d] + Cardinality(Pending') <= fails'
    <3>1. pc[d] = "store" /\ got'[d] = got[d]
      BY <1>0, <1>2, <2>4, <1>l, GotoType
    <3> QED BY <1>n, <1>2, <2>2, <3>1 DEF Counted
  <2>5. ASSUME NEW d \in Callers, result'[d] = "wedged"
        PROVE  fails' >= Threshold
    <3>1. result[d] = "wedged"
      BY <1>0, <2>5, <1>r, AnswerType
    <3> QED BY <1>n, <1>2, <3>1, EngineAssumption DEF Counted
  <2> QED BY <2>2, <2>3, <2>4, <2>5 DEF Counted
<1> QED BY <1>1, <1>2 DEF CheckWedge

LEMMA IncrKeepsCounted ==
    ASSUME IInv, Counted, NEW c \in Callers, IncrRead(c) \/ IncrStore(c)
    PROVE  Counted'
<1> USE DEF IInv
<1>l. Labels = {"idle", "boot", "look", "move", "remake", "canary", "spawn", "poll", "kill",
                "bootUnlock", "remove", "stop", "healUnlock", "incr", "store"}
  BY DEF Labels
<1>r. Results = {"ended", "BootTimeout", "stopped", "wedged"}
  BY DEF Results
<1>n. Cardinality(Pending) \in Nat /\ count \in Nat /\ fails \in Nat /\ got \in [Callers -> Nat]
  BY FS_CardinalityType DEF Counted, TypeOK
<1>1. CASE IncrRead(c)
  <2>1. Pending' = Pending
    BY <1>1, <1>l, GotoType DEF IncrRead, Pending
  <2>2. UNCHANGED <<count, fails, result>>
    BY <1>1 DEF IncrRead, pastVars
  <2>3. ASSUME NEW d \in Callers, pc'[d] = "store"
        PROVE  got'[d] + Cardinality(Pending) <= fails
    <3>1. CASE d = c
      BY <1>1, <1>n, <3>1 DEF IncrRead, Counted
    <3>2. CASE d # c
      BY <1>1, <1>n, <2>3, <3>2, <1>l, GotoType DEF IncrRead, Counted
    <3> QED BY <3>1, <3>2
  <2> QED BY <2>1, <2>2, <2>3 DEF Counted
<1>2. CASE IncrStore(c)
  <2>1. Pending' = Pending \ {c} /\ c \in Pending
    BY <1>2, <1>l, GotoType DEF IncrStore, Pending
  <2>2. /\ IsFiniteSet(Pending')
        /\ Cardinality(Pending') = Cardinality(Pending) - 1
    BY <2>1, FS_RemoveElement DEF Counted
  <2>3. /\ fails' = fails
        /\ count' = got[c] + 1
        /\ got[c] + Cardinality(Pending) <= fails
    BY <1>2 DEF IncrStore, pastVars, Counted
  <2>4. /\ Cardinality(Pending') \in Nat
        /\ count' + Cardinality(Pending') <= fails'
        /\ count' <= fails'
    BY <1>n, <2>2, <2>3, FS_CardinalityType
  <2>5. ASSUME NEW d \in Callers, pc'[d] = "store"
        PROVE  got'[d] + Cardinality(Pending') <= fails'
    <3>1. d # c /\ pc[d] = "store" /\ got'[d] = got[d]
      BY <1>2, <1>n, <2>5, <1>l, GotoType DEF IncrStore
    <3> QED BY <1>n, <2>2, <2>3, <3>1 DEF Counted
  <2>6. ASSUME NEW d \in Callers, result'[d] = "wedged"
        PROVE  fails' >= Threshold
    <3>1. CASE d = c
      <4>1. count' >= Threshold
        BY <1>2, <2>6, <3>1, <1>r DEF IncrStore, Answer, TypeOK
      <4> QED BY <1>n, <2>3, <2>4, <4>1, EngineAssumption
    <3>2. CASE d # c
      <4>1. result[d] = "wedged"
        BY <1>2, <2>6, <3>2 DEF IncrStore, Answer, TypeOK
      <4> QED BY <2>3, <4>1 DEF Counted
    <3> QED BY <3>1, <3>2
  <2> QED BY <2>2, <2>4, <2>5, <2>6 DEF Counted
<1> QED BY <1>1, <1>2

\* Everything ReportsTrue rests on.
RInv == LInv /\ Own /\ Counted

LEMMA InitRInv == Init => RInv
<1> SUFFICES ASSUME Init PROVE RInv
  OBVIOUS
<1>1. LInv
  BY InitLInv
<1>2. /\ \A c \in Callers : pc[c] = "idle" /\ launched[c] = None /\ result[c] = "ended"
      /\ count = 0 /\ fails = 0
  BY DEF Init
<1>3. Pending = {}
  BY <1>2 DEF Pending
<1>4. Counted
  BY <1>2, <1>3, FS_EmptySet DEF Counted
<1>5. Own
  BY <1>2 DEF Own
<1> QED BY <1>1, <1>4, <1>5 DEF RInv

\* A boot that reports its timeout has left none of its engines behind, and no
\* wedge is reported before as many canaries failed as the threshold says, for any
\* number of processes that share the counter: ReportsTrue.
THEOREM ReportsAreTrue == Spec => []ReportsTrue
<1>1. Init => RInv
  BY InitRInv
<1>2. ASSUME RInv, [Next]_vars
      PROVE  RInv'
  <2>1. LInv'
    BY <1>2, NextKeepsLInv DEF RInv
  <2>2. Own'
    BY <1>2, NextKeepsOwn DEF RInv, LInv
  <2>3. Counted'
    <3>1. IInv /\ Counted /\ LInv
      BY <1>2 DEF RInv, LInv
    <3>2. CASE Quiet
      BY <3>1, <3>2, QuietKeepsCounted
    <3>3. ASSUME NEW c \in Callers, CheckWedge(c) \/ IncrRead(c) \/ IncrStore(c)
          PROVE  Counted'
      BY <3>1, <3>3, CheckKeepsCounted, IncrKeepsCounted
    <3> QED BY <1>2, <3>1, <3>2, <3>3, BootIsQuiet, HealIsQuiet, OthersAreQuiet
       DEF Next, Step, LockStep
  <2> QED BY <2>1, <2>2, <2>3 DEF RInv
<1>3. RInv => ReportsTrue
  BY DEF RInv, Own, Counted, ReportsTrue
<1> QED BY <1>1, <1>2, <1>3, PTL DEF Spec
=============================================================================
