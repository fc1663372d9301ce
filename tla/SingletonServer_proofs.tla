----------------------- MODULE SingletonServer_proofs -----------------------
(***************************************************************************)
(* TLAPS proofs about LockFile and about SingletonServer, which takes the  *)
(* steps of a LockFile: for any set of processes, whether or not locks get *)
(* older than their TTL, however many calls fail, and any division of the  *)
(* processes into launchers and servers.                                   *)
(***************************************************************************)
EXTENDS SingletonServer, TLAPS

-----------------------------------------------------------------------------
(* The lockfile.                                                           *)

(* A holder within its TTL that took the lock with nobody about to move it  *)
(* still has it, and still nobody is.  This is why exclusion holds: only    *)
(* Recheck leads to a rename, and it reads such a lock as fresh.            *)
Secure ==
    \A p \in Procs :
        pc[p] \in Acquired /\ p \notin expired \cup shaky => file = p /\ ~Moving(p)

(* Who is about to move a lockfile of its own has seen it past its TTL.     *)
OwnMoved == \A p \in Procs : file = p /\ pc[p] = "rename" => p \in expired

IInv == TypeOK /\ LockOwned /\ Secure /\ OwnMoved

LEMMA GotoType ==
    ASSUME TypeOK, NEW p \in Procs, NEW l \in Labels, Goto(p, l)
    PROVE  /\ pc' \in [Procs -> Labels]
           /\ pc'[p] = l
           /\ \A q \in Procs \ {p} : pc'[q] = pc[q]
BY DEF TypeOK, Goto

LEMMA IdleType ==
    ASSUME TypeOK, NEW p \in Procs, Idle(p)
    PROVE  /\ pc' \in [Procs -> Labels] /\ shaky' \in SUBSET Procs
           /\ pc'[p] = "idle" /\ p \notin shaky'
           /\ \A q \in Procs \ {p} : pc'[q] = pc[q] /\ (q \in shaky' <=> q \in shaky)
<1>1. "idle" \in Labels
  BY DEF Labels
<1> QED BY <1>1, GotoType DEF Idle, TypeOK

(* A failed call is counted up to the bound.                               *)
LEMMA FaultType ==
    ASSUME TypeOK, Fault
    PROVE  faults' \in 0 .. MaxFaults
<1>1. PICK n \in Nat : n = MaxFaults
  BY LockAssumption
<1>2. faults \in 0 .. n /\ faults < n /\ faults' = faults + 1
  BY <1>1 DEF Fault, TypeOK
<1>3. faults' \in 0 .. n
  BY <1>2
<1> QED BY <1>1, <1>3

LEMMA InitIInv == Init => IInv
<1>1. PICK n \in Nat : n = MaxFaults
  BY LockAssumption
<1>2. 0 \in 0 .. n
  OBVIOUS
<1> QED BY <1>1, <1>2, LockAssumption
        DEF Init, IInv, TypeOK, LockOwned, Secure, OwnMoved, Labels, Acquired

-----------------------------------------------------------------------------
(* Steps of one process, by what they do to the lockfile.                  *)

(* p moves; nobody else does, and nobody else's history changes.            *)
Frame(p) ==
    /\ p \in alive /\ alive' = alive
    /\ pc' \in [Procs -> Labels] /\ shaky' \in SUBSET Procs /\ faults' \in 0 .. MaxFaults
    /\ \A q \in Procs \ {p} : pc'[q] = pc[q] /\ (q \in shaky' <=> q \in shaky)

(* The lockfile is untouched, and p neither had the lock nor gets it.       *)
Looks(p) ==
    /\ Frame(p)
    /\ UNCHANGED <<file, full, expired, left>>
    /\ pc[p] \notin Acquired /\ pc'[p] \notin Acquired
    /\ pc'[p] = "rename" => Stale

(* p had the lock, and goes on with it, or leaves the file behind.          *)
Goes(p) ==
    /\ Frame(p)
    /\ UNCHANGED <<file, expired>>
    /\ full' \in BOOLEAN /\ left' \in BOOLEAN
    /\ pc[p] \in Acquired
    /\ pc'[p] \in {"held", "release", "remove", "idle"}
    /\ pc'[p] = "remove" => file = p
    /\ pc'[p] \in Acquired => (p \in shaky' <=> p \in shaky)
    /\ full' => file # None
    /\ file = p => (pc'[p] \in Acquired => full') /\ (pc'[p] = "idle" => left')
    /\ file # p => full' = full /\ left' = left

(* p moves whatever lockfile there is away.                                *)
Moves(p) ==
    /\ Frame(p)
    /\ file' = None /\ full' = FALSE /\ expired' = expired /\ left' = FALSE
    /\ pc[p] \in {"rename", "remove"} /\ pc'[p] \in {"recreate", "idle"}

LEMMA LooksKeeps ==
    ASSUME IInv, NEW p \in Procs, Looks(p)
    PROVE  IInv'
<1> USE DEF Looks, Frame
<1>1. TypeOK'
  BY DEF IInv, TypeOK
<1>2. LockOwned'
  BY DEF IInv, TypeOK, LockOwned
<1>3. Secure'
  <2>1. ASSUME NEW q \in Procs, pc'[q] \in Acquired, q \notin expired' \cup shaky'
        PROVE  file' = q /\ ~Moving(q)'
    <3>1. q # p /\ file = q /\ ~Moving(q) /\ q \notin expired
      BY <2>1 DEF IInv, Secure
    <3>2. pc'[p] \notin {"rename", "remove"}
      BY <3>1, LockAssumption DEF Stale, Fresh, Unreadable, Acquired
    <3> QED BY <3>1, <3>2, <2>1 DEF Moving, IInv, TypeOK
  <2> QED BY <2>1 DEF Secure
<1>4. OwnMoved'
  <2>1. ASSUME NEW q \in Procs, file' = q, pc'[q] = "rename" PROVE q \in expired'
    <3>1. CASE q = p
      BY <2>1, <3>1, LockAssumption DEF Stale, Fresh, Unreadable
    <3>2. CASE q # p
      BY <2>1, <3>2 DEF IInv, OwnMoved
    <3> QED BY <3>1, <3>2
  <2> QED BY <2>1 DEF OwnMoved
<1> QED BY <1>1, <1>2, <1>3, <1>4 DEF IInv

LEMMA GoesKeeps ==
    ASSUME IInv, NEW p \in Procs, Goes(p)
    PROVE  IInv'
<1> USE DEF Goes, Frame
<1>1. TypeOK'
  BY DEF IInv, TypeOK
<1>2. LockOwned'
  <2>1. CASE file = p
    BY <2>1 DEF LockOwned, Acquired
  <2>2. CASE file # p
    BY <2>2 DEF IInv, TypeOK, LockOwned
  <2> QED BY <2>1, <2>2
<1>3. Secure'
  <2>1. ASSUME NEW q \in Procs, pc'[q] \in Acquired, q \notin expired' \cup shaky'
        PROVE  file' = q /\ ~Moving(q)'
    <3>1. file = q /\ ~Moving(q)
      BY <2>1 DEF IInv, Secure
    <3>2. q # p => pc'[p] \notin {"rename", "remove"}
      BY <3>1
    <3> QED BY <3>1, <3>2 DEF Moving, IInv, TypeOK
  <2> QED BY <2>1 DEF Secure
<1>4. OwnMoved'
  BY DEF IInv, OwnMoved
<1> QED BY <1>1, <1>2, <1>3, <1>4 DEF IInv

LEMMA MovesKeeps ==
    ASSUME IInv, NEW p \in Procs, Moves(p)
    PROVE  IInv'
<1> USE DEF Moves, Frame
<1>1. TypeOK'
  BY DEF IInv, TypeOK
<1>2. LockOwned' /\ OwnMoved'
  BY LockAssumption DEF LockOwned, OwnMoved
<1>3. Secure'
  <2>1. ASSUME NEW q \in Procs, pc'[q] \in Acquired, q \notin expired' \cup shaky'
        PROVE  FALSE
    <3>1. q # p
      BY <2>1 DEF Acquired
    <3>2. ~Moving(q)
      BY <2>1, <3>1 DEF IInv, Secure
    <3> QED BY <3>1, <3>2 DEF Moving
  <2> QED BY <2>1 DEF Secure
<1> QED BY <1>1, <1>2, <1>3 DEF IInv

LEMMA CreateNewKeeps ==
    ASSUME IInv, NEW p \in Procs, p \in alive, CreateNew(p), alive' = alive
    PROVE  IInv'
<1>1. /\ pc' \in [Procs -> Labels] /\ pc'[p] = "write"
      /\ \A q \in Procs \ {p} : pc'[q] = pc[q]
  <2>1. "write" \in Labels /\ Goto(p, "write") /\ TypeOK
    BY DEF Labels, CreateNew, IInv
  <2> QED BY <2>1, GotoType
<1>2. file = None /\ file' = p /\ full' = FALSE /\ left' = left /\ faults' = faults
      /\ expired' = expired \ {p}
  BY DEF CreateNew, errorVars
<1>3. /\ shaky' \in SUBSET Procs
      /\ \A q \in Procs \ {p} : q \in shaky' <=> q \in shaky
      /\ p \notin shaky' => ~Moving(p)
  BY DEF CreateNew, IInv, TypeOK
<1>4. TypeOK'
  BY <1>1, <1>2, <1>3, LockAssumption DEF IInv, TypeOK
<1>5. LockOwned'
  BY <1>1, <1>2 DEF LockOwned, Acquired
<1>6. Secure'
  <2>1. ASSUME NEW q \in Procs, pc'[q] \in Acquired, q \notin expired' \cup shaky'
        PROVE  file' = q /\ ~Moving(q)'
    <3>1. CASE q = p
      <4>1. ~Moving(p)
        BY <2>1, <3>1, <1>3
      <4> QED BY <3>1, <4>1, <1>1, <1>2 DEF Moving, IInv, TypeOK
    <3>2. CASE q # p
      BY <2>1, <3>2, <1>1, <1>2, <1>3, LockAssumption DEF IInv, Secure
    <3> QED BY <3>1, <3>2
  <2> QED BY <2>1 DEF Secure
<1>7. OwnMoved'
  BY <1>1, <1>2 DEF OwnMoved
<1> QED BY <1>4, <1>5, <1>6, <1>7 DEF IInv

-----------------------------------------------------------------------------
(* IInv is kept by every step.                                             *)

(* What the two ways to move p do to the frame.                            *)
LEMMA GotoFrame ==
    ASSUME TypeOK, NEW p \in Procs, p \in alive, alive' = alive, NEW l \in Labels,
           Goto(p, l), shaky' = shaky, faults' = faults \/ Fault
    PROVE  Frame(p) /\ pc'[p] = l /\ (p \in shaky' <=> p \in shaky)
BY GotoType, FaultType DEF Frame, TypeOK

LEMMA IdleFrame ==
    ASSUME TypeOK, NEW p \in Procs, p \in alive, alive' = alive, Idle(p),
           faults' = faults \/ Fault
    PROVE  Frame(p) /\ pc'[p] = "idle"
BY IdleType, FaultType DEF Frame, TypeOK

LEMMA GivesUpLooks ==
    ASSUME IInv, NEW p \in Procs, p \in alive, alive' = alive, pc[p] \notin Acquired,
           GivesUp(p), expired' = expired
    PROVE  IInv'
<1>1. Frame(p) /\ pc'[p] = "idle"
  BY IdleFrame DEF GivesUp, IInv
<1> QED BY <1>1, LooksKeeps DEF Looks, GivesUp, Acquired

LEMMA AcquireKeepsIInv ==
    ASSUME IInv, NEW p \in Procs, Start(p) \/ AcquireStep(p)
    PROVE  IInv'
<1>l. Labels = {"idle", "create", "write", "check", "recheck", "rename", "recreate",
                "held", "release", "remove"}
  BY DEF Labels
<1>t. TypeOK
  BY DEF IInv
<1>1. CASE Start(p)
  <2>1. p \in alive /\ alive' = alive /\ pc[p] = "idle" /\ faults' = faults /\ shaky' = shaky
        /\ Goto(p, "create") /\ UNCHANGED <<file, full, expired, left>>
    BY <1>1 DEF Start, At, errorVars
  <2>2. Frame(p) /\ pc'[p] = "create"
    BY <1>l, <1>t, <2>1, GotoFrame
  <2> QED BY <2>1, <2>2, LooksKeeps DEF Looks, Acquired
<1>2. CASE Create(p)
  <2>0. p \in alive /\ alive' = alive /\ pc[p] = "create"
    BY <1>2 DEF Create, At
  <2>1. CASE CreateNew(p)
    BY <2>0, <2>1, CreateNewKeeps
  <2>2. CASE GivesUp(p) /\ UNCHANGED expired
    BY <2>0, <2>2, GivesUpLooks DEF Acquired
  <2>3. CASE /\ Goto(p, "check") /\ (faults' = faults \/ Fault)
             /\ UNCHANGED <<file, full, expired, left, shaky>>
    <3>1. Frame(p) /\ pc'[p] = "check"
      BY <1>l, <1>t, <2>0, <2>3, GotoFrame
    <3> QED BY <2>0, <2>3, <3>1, LooksKeeps DEF Looks, Acquired
  <2> QED BY <1>2, <2>1, <2>2, <2>3 DEF Create
<1>3. CASE Write(p)
  <2>0. p \in alive /\ alive' = alive /\ pc[p] = "write" /\ file' = file /\ expired' = expired
    BY <1>3 DEF Write, At
  <2>1. CASE full' = (full \/ file = p) /\ Goto(p, "held") /\ UNCHANGED <<errorVars, shaky>>
    <3>1. Frame(p) /\ pc'[p] = "held" /\ (p \in shaky' <=> p \in shaky)
      BY <1>l, <1>t, <2>0, <2>1, GotoFrame DEF errorVars
    <3>2. full' \in BOOLEAN /\ left' \in BOOLEAN /\ left' = left /\ (full' => file # None)
          /\ (file = p => full') /\ (file # p => full' = full)
      BY <1>t, <2>1, LockAssumption DEF TypeOK, errorVars
    <3> QED BY <2>0, <3>1, <3>2, GoesKeeps DEF Goes, Acquired
  <2>2. CASE Fault /\ Idle(p) /\ Leave(p) /\ UNCHANGED full
    <3>1. Frame(p) /\ pc'[p] = "idle"
      BY <1>t, <2>0, <2>2, IdleFrame
    <3>2. full' \in BOOLEAN /\ left' \in BOOLEAN /\ full' = full /\ (full' => file # None)
          /\ (file = p => left') /\ (file # p => left' = left)
      BY <1>t, <2>2 DEF TypeOK, Leave
    <3> QED BY <2>0, <3>1, <3>2, GoesKeeps DEF Goes, Acquired
  <2> QED BY <1>3, <2>1, <2>2 DEF Write
<1>4. CASE Check(p) \/ Recheck(p)
  <2>0. p \in alive /\ alive' = alive /\ pc[p] \in {"check", "recheck"} /\ expired' = expired
    BY <1>4 DEF Check, Recheck, At
  <2>1. CASE GivesUp(p)
    BY <2>0, <2>1, GivesUpLooks DEF Acquired
  <2>2. CASE Idle(p) /\ UNCHANGED <<file, full, errorVars>>
    <3>1. Frame(p) /\ pc'[p] = "idle"
      BY <1>t, <2>0, <2>2, IdleFrame DEF errorVars
    <3> QED BY <2>0, <2>2, <3>1, LooksKeeps DEF Looks, Acquired, errorVars
  <2>3. CASE \E l \in {"recheck", "rename"} :
                Stale /\ Goto(p, l) /\ UNCHANGED <<file, full, errorVars, shaky>>
    <3>0. PICK l \in {"recheck", "rename"} :
                Stale /\ Goto(p, l) /\ UNCHANGED <<file, full, errorVars, shaky>>
      BY <2>3
    <3>1. Frame(p) /\ pc'[p] = l
      BY <1>l, <1>t, <2>0, <3>0, GotoFrame DEF errorVars
    <3> QED BY <2>0, <3>0, <3>1, LooksKeeps DEF Looks, Acquired, errorVars
  <2> QED BY <1>4, <2>1, <2>2, <2>3 DEF Check, Recheck
<1>5. CASE Rename(p)
  <2>0. p \in alive /\ alive' = alive /\ pc[p] = "rename" /\ expired' = expired
        /\ Goto(p, "recreate") /\ shaky' = shaky /\ (faults' = faults \/ Fault)
    BY <1>5 DEF Rename, At
  <2>1. Frame(p) /\ pc'[p] = "recreate"
    BY <1>l, <1>t, <2>0, GotoFrame
  <2>2. CASE Gone
    BY <2>0, <2>1, <2>2, MovesKeeps DEF Moves, Gone
  <2>3. CASE UNCHANGED <<file, full, left>>
    BY <2>0, <2>1, <2>3, LooksKeeps DEF Looks, Acquired
  <2> QED BY <1>5, <2>2, <2>3 DEF Rename
<1>6. CASE Recreate(p)
  <2>0. p \in alive /\ alive' = alive /\ pc[p] = "recreate"
    BY <1>6 DEF Recreate, At
  <2>1. CASE CreateNew(p)
    BY <2>0, <2>1, CreateNewKeeps
  <2>2. CASE GivesUp(p) /\ UNCHANGED expired
    BY <2>0, <2>2, GivesUpLooks DEF Acquired
  <2>3. CASE Idle(p) /\ UNCHANGED <<file, full, expired, errorVars>>
    <3>1. Frame(p) /\ pc'[p] = "idle"
      BY <1>t, <2>0, <2>3, IdleFrame DEF errorVars
    <3> QED BY <2>0, <2>3, <3>1, LooksKeeps DEF Looks, Acquired, errorVars
  <2> QED BY <1>6, <2>1, <2>2, <2>3 DEF Recreate
<1> QED BY <1>1, <1>2, <1>3, <1>4, <1>5, <1>6 DEF AcquireStep

LEMMA ReleaseKeepsIInv ==
    ASSUME IInv, NEW p \in Procs, ReleaseStep(p)
    PROVE  IInv'
<1>l. Labels = {"idle", "create", "write", "check", "recheck", "rename", "recreate",
                "held", "release", "remove"}
  BY DEF Labels
<1>t. TypeOK
  BY DEF IInv
<1>0. /\ p \in alive /\ alive' = alive /\ expired' = expired
      /\ pc[p] \in {"held", "release", "remove"}
  BY DEF ReleaseStep, StartRelease, CheckOwner, Remove, At
<1>o. file = p => full
  BY <1>0, LockAssumption DEF IInv, LockOwned, Acquired
<1>1. CASE \E l \in {"release", "remove"} :
              /\ Goto(p, l) /\ (l = "remove" => file = p)
              /\ UNCHANGED <<file, full, errorVars, shaky>>
  <2>0. PICK l \in {"release", "remove"} :
              /\ Goto(p, l) /\ (l = "remove" => file = p)
              /\ UNCHANGED <<file, full, errorVars, shaky>>
    BY <1>1
  <2>1. Frame(p) /\ pc'[p] = l /\ (p \in shaky' <=> p \in shaky)
    BY <1>l, <1>t, <1>0, <2>0, GotoFrame DEF errorVars
  <2> QED BY <1>t, <1>0, <1>o, <2>0, <2>1, GoesKeeps DEF Goes, Acquired, errorVars, TypeOK
<1>2. CASE /\ Idle(p) /\ UNCHANGED <<file, full>> /\ (faults' = faults \/ Fault)
           /\ Leave(p) \/ (file # p /\ left' = left)
  <2>1. Frame(p) /\ pc'[p] = "idle"
    BY <1>t, <1>0, <1>2, IdleFrame
  <2> QED BY <1>t, <1>0, <1>2, <2>1, GoesKeeps DEF Goes, Acquired, TypeOK, Leave
<1>3. CASE Remove(p) /\ Gone /\ UNCHANGED faults
  <2>1. Frame(p) /\ pc'[p] = "idle"
    BY <1>t, <1>0, <1>3, IdleFrame DEF Remove
  <2> QED BY <1>0, <1>3, <2>1, MovesKeeps DEF Moves, Gone, Remove, At
<1>4. CASE StartRelease(p)
  BY <1>1, <1>4 DEF StartRelease
<1>5. CASE CheckOwner(p)
  BY <1>1, <1>2, <1>5, <1>o DEF CheckOwner, errorVars
<1>6. CASE Remove(p)
  BY <1>2, <1>3, <1>6 DEF Remove
<1> QED BY <1>4, <1>5, <1>6 DEF ReleaseStep

LEMMA WorldKeepsIInv ==
    ASSUME IInv, NEW p \in Procs, Expire(p) \/ Crash(p)
    PROVE  IInv'
<1>1. CASE Expire(p)
  BY <1>1 DEF Expire, errorVars, IInv, TypeOK, LockOwned, Secure, OwnMoved, Moving
<1>2. CASE Crash(p)
  <2>0. /\ alive' = alive \ {p} /\ UNCHANGED <<file, full, expired, faults, left>>
        /\ Idle(p) /\ TypeOK
    BY <1>2 DEF Crash, errorVars, IInv
  <2>1. /\ pc' \in [Procs -> Labels] /\ shaky' \in SUBSET Procs
        /\ pc'[p] = "idle" /\ p \notin shaky'
        /\ \A q \in Procs \ {p} : pc'[q] = pc[q] /\ (q \in shaky' <=> q \in shaky)
    BY <2>0, IdleType
  <2>2. TypeOK'
    BY <2>0, <2>1 DEF TypeOK
  <2>3. LockOwned'
    BY <2>0, <2>1 DEF IInv, TypeOK, LockOwned
  <2>4. Secure'
    <3>1. ASSUME NEW q \in Procs, pc'[q] \in Acquired, q \notin expired' \cup shaky'
          PROVE  file' = q /\ ~Moving(q)'
      <4>1. q # p
        BY <2>1, <3>1 DEF Acquired
      <4>2. file = q /\ ~Moving(q)
        BY <2>0, <2>1, <3>1, <4>1 DEF IInv, Secure
      <4> QED BY <2>0, <2>1, <4>2 DEF Moving, TypeOK
    <3> QED BY <3>1 DEF Secure
  <2>5. OwnMoved'
    BY <2>0, <2>1 DEF IInv, OwnMoved
  <2> QED BY <2>2, <2>3, <2>4, <2>5 DEF IInv
<1> QED BY <1>1, <1>2

LEMMA NextIInv == IInv /\ [Next]_vars => IInv'
<1> SUFFICES ASSUME IInv, [Next]_vars PROVE IInv'
  OBVIOUS
<1>1. CASE Next
  BY <1>1, AcquireKeepsIInv, ReleaseKeepsIInv, WorldKeepsIInv DEF Next, Step
<1>2. CASE UNCHANGED vars
  BY <1>2 DEF vars, IInv, TypeOK, LockOwned, Secure, OwnMoved, Moving
<1> QED BY <1>1, <1>2

(* The inductive invariant holds in every reachable state of the lockfile,  *)
(* whatever races, failed calls and crashes there are.                      *)
THEOREM IInvCorrect == Spec => []IInv
BY InitIInv, NextIInv, PTL DEF Spec

(* The state keeps its type, and an absent lockfile has no content.         *)
THEOREM TypeCorrect == Spec => []TypeOK
BY IInvCorrect, PTL DEF IInv

(* A live process's lockfile is one it has not given up, unless a call of   *)
(* the file system failed: neither a release nor a takeover leaves one      *)
(* behind (Locks::acquire and release).                                     *)
THEOREM LockIsOwned == Spec => []LockOwned
BY IInvCorrect, PTL DEF IInv

(* Two processes that both have the lock are told apart by one that is past *)
(* its TTL, or took the lock under an earlier look of another.              *)
LEMMA SecureMeans == IInv => HeldOnce
<1>1. ASSUME IInv, NEW p \in Holders, NEW q \in Holders,
             p \notin expired \cup shaky, q \notin expired \cup shaky
      PROVE  p = q
  <2>1. ASSUME NEW h \in Holders PROVE h \in Procs /\ pc[h] \in Acquired
    BY <1>1, <2>1 DEF Holders, IInv, TypeOK
  <2> QED BY <1>1, <2>1 DEF IInv, Secure
<1>2. ASSUME IInv, NEW p \in Holders, NEW q \in Holders
      PROVE  p = q \/ {p, q} \cap (expired \cup shaky) # {}
  <2>1. CASE p \notin expired \cup shaky /\ q \notin expired \cup shaky
    BY <1>1, <1>2, <2>1
  <2>2. CASE p \in expired \cup shaky \/ q \in expired \cup shaky
    BY <2>2
  <2> QED BY <2>1, <2>2
<1> QED BY <1>2 DEF HeldOnce

(* Exclusion: of two running processes that have the lock at once, one is   *)
(* past its TTL or took it under an earlier look of another (Locks::acquire *)
(* and release, whatever fails or dies in between).                         *)
THEOREM HeldByOne == Spec => []HeldOnce
BY IInvCorrect, SecureMeans, PTL

-----------------------------------------------------------------------------
(* A settled lock stays settled, for every step.                           *)

SettledStep == Settled => \/ file' = file /\ Settled'
                          \/ pc[file] = "remove" /\ pc'[file] = "idle"
                          \/ file \notin alive' \/ file \in expired'

LEMMA SettledHolder ==
    ASSUME IInv, Settled
    PROVE  /\ file \in Procs /\ file \in alive /\ file \notin expired /\ full
           /\ pc[file] \notin {"write", "rename"} /\ file # None
BY LockAssumption DEF IInv, LockOwned, OwnMoved, TypeOK, Settled, Fresh, Acquired

(* What keeps a lock settled.                                              *)
LEMMA StaysSettled ==
    ASSUME IInv, Settled, NEW p \in Procs, Frame(p), file' = file, full',
           file \notin expired', p = file \/ pc'[p] \notin {"rename", "remove"}
    PROVE  Settled'
<1>1. file' = file /\ file \in Procs /\ file \in alive'
  BY SettledHolder DEF Frame
<1>2. ASSUME NEW q \in Procs \ {file'}, q \in alive' PROVE pc'[q] \notin {"rename", "remove"}
  BY <1>1, <1>2 DEF Settled, Frame
<1>3. file' # None
  BY <1>1, LockAssumption
<1> QED BY <1>1, <1>2, <1>3 DEF Settled, Fresh

LEMMA SettledIdle ==
    ASSUME IInv, Settled, NEW p \in Procs, p \in alive, alive' = alive, Idle(p),
           faults' = faults \/ Fault, file' = file, full' = full, expired' = expired
    PROVE  Settled'
<1>1. Frame(p) /\ pc'[p] = "idle"
  BY IdleFrame DEF IInv
<1> QED BY <1>1, SettledHolder, StaysSettled

LEMMA SettledGoto ==
    ASSUME IInv, Settled, NEW p \in Procs, p \in alive, alive' = alive, NEW l \in Labels,
           Goto(p, l), p = file \/ l \notin {"rename", "remove"}, shaky' = shaky,
           faults' = faults \/ Fault, file' = file, full' = full, expired' = expired
    PROVE  Settled'
<1>1. Frame(p) /\ pc'[p] = l
  BY GotoFrame DEF IInv
<1> QED BY <1>1, SettledHolder, StaysSettled

LEMMA StepSettled ==
    ASSUME IInv, Settled, NEW p \in Procs, Step(p)
    PROVE  SettledStep
<1>h. /\ file \in Procs /\ file \in alive /\ file \notin expired /\ full
      /\ pc[file] \notin {"write", "rename"} /\ file # None
  BY SettledHolder
<1>l. Labels = {"idle", "create", "write", "check", "recheck", "rename", "recreate",
                "held", "release", "remove"}
  BY DEF Labels
<1>0. p \in alive /\ alive' = alive
  BY DEF Step, Start, AcquireStep, Create, Write, Check, Recheck, Rename, Recreate,
         ReleaseStep, StartRelease, CheckOwner, Remove, At
<1>m. p # file => pc[p] \notin {"rename", "remove"}
  BY <1>0 DEF Settled
<1>n. ~CreateNew(p)
  BY <1>h DEF CreateNew
<1>g. GivesUp(p) /\ expired' = expired => Settled' /\ file' = file
  BY <1>0, SettledIdle DEF GivesUp
<1> USE DEF SettledStep, errorVars
<1>1. CASE Start(p)
  BY <1>0, <1>1, <1>l, SettledGoto DEF Start
<1>2. CASE Create(p)
  BY <1>0, <1>2, <1>l, <1>n, <1>g, SettledGoto DEF Create
<1>3. CASE Write(p)
  <2>0. p # file /\ file' = file /\ expired' = expired
    BY <1>3, <1>h DEF Write, At
  <2>1. full' = full
    BY <1>3, <2>0, <1>h DEF Write, IInv, TypeOK
  <2> QED BY <1>0, <1>3, <1>l, <2>0, <2>1, SettledGoto, SettledIdle DEF Write
<1>4. CASE Check(p)
  BY <1>0, <1>4, <1>l, <1>g, SettledGoto, SettledIdle DEF Check
<1>5. CASE Recheck(p)
  <2>1. ~Stale
    BY DEF Settled, Stale
  <2> QED BY <1>0, <1>5, <1>g, <2>1, SettledIdle DEF Recheck
<1>6. CASE Rename(p)
  BY <1>6, <1>h, <1>m DEF Rename, At
<1>7. CASE Recreate(p)
  BY <1>0, <1>7, <1>n, <1>g, SettledIdle DEF Recreate
<1>8. CASE StartRelease(p)
  BY <1>0, <1>8, <1>l, SettledGoto DEF StartRelease
<1>9. CASE CheckOwner(p)
  BY <1>0, <1>9, <1>l, SettledGoto, SettledIdle DEF CheckOwner
<1>10. CASE Remove(p)
  <2>1. p = file /\ pc[p] = "remove"
    BY <1>10, <1>m DEF Remove, At
  <2>2. pc'[p] = "idle"
    BY <1>10, IdleType DEF Remove, IInv
  <2> QED BY <2>1, <2>2
<1> QED BY <1>1, <1>2, <1>3, <1>4, <1>5, <1>6, <1>7, <1>8, <1>9, <1>10
        DEF Step, AcquireStep, ReleaseStep

LEMMA NextSettled == IInv /\ [Next]_vars => SettledStep
<1> SUFFICES ASSUME IInv, [Next]_vars, Settled PROVE SettledStep
  BY DEF SettledStep
<1>h. file \in Procs
  BY SettledHolder
<1>1. ASSUME NEW p \in Procs, Expire(p) PROVE SettledStep
  BY <1>1, <1>h DEF Expire, SettledStep, Settled, Fresh, IInv, TypeOK
<1>2. ASSUME NEW p \in Procs, Crash(p) PROVE SettledStep
  <2>1. /\ pc'[p] = "idle" /\ \A q \in Procs \ {p} : pc'[q] = pc[q]
    BY <1>2, IdleType DEF Crash, IInv
  <2> QED BY <1>2, <1>h, <2>1 DEF Crash, SettledStep, Settled, Fresh
<1>3. CASE UNCHANGED vars
  BY <1>3 DEF vars, SettledStep, Settled, Fresh
<1> QED BY <1>1, <1>2, <1>3, StepSettled DEF Next

(* A readable lock within its TTL, which no other process has decided to    *)
(* move or remove, stays until its holder removes it, dies or outlives it.  *)
THEOREM SettledIsKept == Spec => SettledLockKept
<1>1. IInv /\ [Next]_vars => [SettledStep]_vars
  BY NextSettled
<1> QED BY <1>1, IInvCorrect, PTL DEF Spec, SettledLockKept, SettledStep

-----------------------------------------------------------------------------
(* The servers that use it.  Every step of the composition is a step of the *)
(* lockfile or leaves the lock alone, so what is proved of the lockfile     *)
(* holds of the composition as it is.                                      *)

LEMMA ServerStepUsesLock ==
    ASSUME NEW p \in Procs, ServerStep(p) \/ Again(p) \/ Die(p) \/ Age(p)
    PROVE  [Next]_vars
<1>1. CASE StartLock(p)
  BY <1>1 DEF StartLock, Next, Step
<1>2. CASE LockStep(p)
  BY <1>2 DEF LockStep, Next, Step
<1>3. CASE Unlock(p)
  BY <1>3 DEF Unlock, Next, Step
<1>4. CASE Locked(p) \/ Probe(p) \/ Spawn(p) \/ Unlocked(p) \/ Bind(p) \/ Again(p)
  BY <1>4 DEF Locked, Probe, Spawn, Unlocked, Bind, Again
<1>5. CASE Die(p) \/ BindFails(p)
  BY <1>5 DEF Die, BindFails, Next
<1>6. CASE Age(p)
  BY <1>6 DEF Age, Next
<1> QED BY <1>1, <1>2, <1>3, <1>4, <1>5, <1>6 DEF ServerStep

LEMMA ServerNextUsesLock == [ServerNext]_serverVars => [Next]_vars
<1>1. ServerNext => [Next]_vars
  BY ServerStepUsesLock DEF ServerNext
<1>2. UNCHANGED serverVars => UNCHANGED vars
  BY DEF serverVars
<1> QED BY <1>1, <1>2

LEMMA ServerUsesLock == ServerSpec => Spec
<1>1. ServerInit => Init
  BY DEF ServerInit
<1> QED BY <1>1, ServerNextUsesLock, PTL DEF ServerSpec, Spec

(* So the lockfile of a live launcher or server is one it has not given up, *)
(* unless a call failed, at the side of all the ports and spawns.           *)
THEOREM ServerLockIsOwned == ServerSpec => []LockOwned
BY ServerUsesLock, LockIsOwned

(* And of two launchers or servers that have the lock at once, one is past  *)
(* its TTL or took it under an earlier look of another (main.rs).           *)
THEOREM ServerHeldByOne == ServerSpec => []HeldOnce
BY ServerUsesLock, HeldByOne

(* A settled lock of a singleton server stays until its holder removes it,  *)
(* dies or outlives the TTL (main.rs through Locks::acquire and release).   *)
THEOREM ServerLockIsKept == ServerSpec => SettledLockKept
BY ServerUsesLock, SettledIsKept

-----------------------------------------------------------------------------
(* The port and the sessions that begin while a server serves.             *)

(* A server has the lock from before its bind for as long as it serves.     *)
ServersHold == \A s \in Servers : phase[s] \in {"bind", "serving"} => pc[s] = "held"

(* A late launcher can have taken the lock only when the serving process no *)
(* longer had it to itself, and spawns only if its probe got no answer.     *)
LateInv ==
    \A p \in late :
        /\ port # None /\ phase[p] \in {"locking", "probe", "spawn"}
        /\ pc[p] \in Acquired => port \in expired \cup shaky
        /\ phase[p] = "spawn" => pc[p] = "held" /\ p \in blind

ServerIInv == ServerTypeOK /\ ServersHold /\ LateInv

LEMMA LateMeans == LateInv => LateSpawnsNothing
BY DEF LateInv, LateSpawnsNothing, Acquired

(* phase changes only at p, and only from and to what f allows.             *)
LEMMA ToType ==
    ASSUME ServerTypeOK, NEW p \in Procs, NEW f \in Phases, To(p, f)
    PROVE  /\ phase' \in [Procs -> Phases]
           /\ phase'[p] = f
           /\ \A q \in Procs \ {p} : phase'[q] = phase[q]
BY DEF ServerTypeOK, To

LEMMA ServerInitIInv == ServerInit => ServerIInv
<1> SUFFICES ASSUME ServerInit PROVE ServerIInv
  OBVIOUS
<1>1. TypeOK
  BY InitIInv DEF ServerInit, IInv
<1>2. /\ phase \in [Procs -> Phases]
      /\ \A s \in Servers : phase[s] = "unborn"
  BY ServerAssumption DEF ServerInit, Phases
<1>3. None \notin Servers
  BY ServerAssumption, LockAssumption
<1>4. port = None /\ late = {} /\ blind = {}
  BY DEF ServerInit
<1>5. ServerTypeOK
  BY <1>1, <1>2, <1>3, <1>4 DEF ServerTypeOK
<1>6. ServersHold
  BY <1>2 DEF ServersHold
<1>7. LateInv
  BY <1>4 DEF LateInv
<1> QED BY <1>5, <1>6, <1>7 DEF ServerIInv

(* Steps of p that leave the lock alone and change no phase but p's own,    *)
(* neither from nor to "serving".                                          *)
LEMMA PhaseStep ==
    ASSUME ServerIInv, NEW p \in Procs, NEW f \in Phases \ {"serving"},
           phase[p] # "serving", To(p, f), UNCHANGED <<vars, port>>,
           late' \in SUBSET late, blind' \in SUBSET Launchers,
           \A q \in late' \ {p} : q \in blind => q \in blind',
           p \in late' => /\ f \in {"locking", "probe", "spawn"}
                          /\ f = "spawn" => pc[p] = "held" /\ p \in blind',
           p \in Servers /\ f = "bind" => pc[p] = "held"
    PROVE  ServerIInv'
<1>1. /\ phase' \in [Procs -> Phases] /\ phase'[p] = f
      /\ \A q \in Procs \ {p} : phase'[q] = phase[q]
  BY ToType DEF ServerIInv
<1>2. pc' = pc /\ expired' = expired /\ shaky' = shaky /\ port' = port /\ TypeOK'
  BY DEF vars, ServerIInv, ServerTypeOK, TypeOK
<1>3. ServerTypeOK'
  <2>1. \A s \in Servers : phase'[s] = "serving" <=> port' = s
    BY <1>1, <1>2, ServerAssumption DEF ServerIInv, ServerTypeOK
  <2> QED BY <1>1, <1>2, <2>1 DEF ServerIInv, ServerTypeOK
<1>4. ServersHold'
  BY <1>1, <1>2, ServerAssumption DEF ServerIInv, ServersHold
<1>5. LateInv'
  <2>1. ASSUME NEW q \in late'
        PROVE  /\ port' # None /\ phase'[q] \in {"locking", "probe", "spawn"}
               /\ pc'[q] \in Acquired => port' \in expired' \cup shaky'
               /\ phase'[q] = "spawn" => pc'[q] = "held" /\ q \in blind'
    <3>0. q \in late /\ q \in Procs
      BY ServerAssumption DEF ServerIInv, ServerTypeOK
    <3>1. CASE q = p
      BY <3>0, <3>1, <1>1, <1>2 DEF ServerIInv, LateInv
    <3>2. CASE q # p
      BY <3>0, <3>2, <1>1, <1>2 DEF ServerIInv, LateInv
    <3> QED BY <3>1, <3>2
  <2> QED BY <2>1 DEF LateInv
<1> QED BY <1>3, <1>4, <1>5 DEF ServerIInv

(* Steps of the lock that leave every phase alone: p takes or gives back    *)
(* the lock, and is not a server past its bring-up; or p's lock gets old.   *)
LEMMA LockKeeps ==
    ASSUME IInv, IInv', ServerIInv, NEW p \in Procs,
           UNCHANGED <<phase, port, late, blind>>,
           \/ phase[p] \in {"locking", "unlock"} /\ (AcquireStep(p) \/ ReleaseStep(p))
           \/ Expire(p),
           p \in late => Expire(p) \/ AcquireStep(p)
    PROVE  ServerIInv'
<1>1. ServerTypeOK'
  BY DEF ServerIInv, ServerTypeOK, IInv
<1>2. /\ \A q \in Procs \ {p} : /\ pc'[q] = pc[q]
                                /\ q \in expired => q \in expired'
                                /\ q \in shaky => q \in shaky'
      /\ p \in expired \cup shaky => p \in expired' \cup shaky' \/ ~Expire(p)
      /\ Expire(p) => pc' = pc
  <2>1. CASE Expire(p)
    BY <2>1 DEF Expire
  <2>2. CASE AcquireStep(p) \/ ReleaseStep(p)
    <3>1. \A q \in Procs \ {p} : pc'[q] = pc[q] /\ (q \in shaky => q \in shaky')
      BY <2>2, GotoType, IdleType
         DEF AcquireStep, ReleaseStep, Create, CreateNew, GivesUp, Write, Check, Recheck,
             Rename, Recreate, StartRelease, CheckOwner, Remove, IInv, Goto, Idle, TypeOK
    <3>2. \A q \in Procs \ {p} : q \in expired => q \in expired'
      BY <2>2 DEF AcquireStep, ReleaseStep, Create, CreateNew, GivesUp, Write, Check, Recheck,
                  Rename, Recreate, StartRelease, CheckOwner, Remove
    <3>3. ~Expire(p)
      BY <2>2 DEF Expire, AcquireStep, ReleaseStep, Create, CreateNew, GivesUp, Write, Check,
                  Recheck, Rename, Recreate, StartRelease, CheckOwner, Remove, Goto, Idle,
                  IInv, TypeOK, At
    <3> QED BY <3>1, <3>2, <3>3
  <2> QED BY <2>1, <2>2
<1>3. ServersHold'
  BY <1>2, ServerAssumption DEF ServerIInv, ServersHold
<1>4. LateInv'
  <2>1. ASSUME NEW q \in late, pc'[q] \in Acquired
        PROVE  port \in expired' \cup shaky'
    <3>0. /\ q \in Procs /\ port \in Servers /\ port \in Procs /\ q # port
          /\ phase[port] = "serving" /\ pc[port] = "held"
          /\ port # p \/ Expire(p)
      BY ServerAssumption DEF ServerIInv, ServerTypeOK, ServersHold, LateInv
    <3>1. port \in expired \cup shaky
      <4>1. CASE pc[q] \in Acquired
        BY <4>1 DEF ServerIInv, LateInv
      <4>2. CASE pc[q] \notin Acquired
        <5>1. q = p /\ AcquireStep(p)
          BY <2>1, <4>2, <1>2, <3>0
        <5>2. CreateNew(p)
          BY <5>1, <2>1, <4>2, GotoType, IdleType
             DEF AcquireStep, Create, GivesUp, Write, Check, Recheck, Rename, Recreate, At,
                 Acquired, IInv, Labels
        <5>3. file = None
          BY <5>2 DEF CreateNew
        <5>4. port \notin expired \cup shaky => file = port
          BY <3>0 DEF IInv, Secure, Acquired
        <5>5. None \notin Procs
          BY LockAssumption
        <5> QED BY <3>0, <5>3, <5>4, <5>5
      <4> QED BY <4>1, <4>2
    <3> QED BY <3>0, <3>1, <1>2
  <2>2. ASSUME NEW q \in late, phase[q] = "spawn" PROVE pc'[q] = "held"
    <3>1. q \in Procs /\ pc[q] = "held"
      BY <2>2, ServerAssumption DEF ServerIInv, ServerTypeOK, LateInv
    <3> QED BY <2>2, <3>1, <1>2
  <2> QED BY <2>1, <2>2 DEF ServerIInv, LateInv
<1> QED BY <1>1, <1>3, <1>4 DEF ServerIInv

LEMMA StartLockKeeps ==
    ASSUME IInv, IInv', ServerIInv, NEW p \in Procs, StartLock(p)
    PROVE  ServerIInv'
<1>1. /\ phase' \in [Procs -> Phases] /\ phase'[p] = "locking" /\ phase[p] = "new"
      /\ \A q \in Procs \ {p} : phase'[q] = phase[q]
  BY ToType DEF StartLock, In, ServerIInv, Phases
<1>2. /\ pc'[p] = "create" /\ \A q \in Procs \ {p} : pc'[q] = pc[q]
      /\ expired' = expired /\ shaky' = shaky /\ port' = port /\ blind' = blind
  BY GotoType DEF StartLock, Start, IInv, Labels
<1>3. ServerTypeOK'
  BY <1>1, <1>2, ServerAssumption DEF ServerIInv, ServerTypeOK, StartLock, IInv
<1>4. ServersHold'
  BY <1>1, <1>2, ServerAssumption DEF ServerIInv, ServersHold
<1>5. LateInv'
  <2>1. ASSUME NEW q \in late'
        PROVE  /\ port' # None /\ phase'[q] \in {"locking", "probe", "spawn"}
               /\ pc'[q] \in Acquired => port' \in expired' \cup shaky'
               /\ phase'[q] = "spawn" => pc'[q] = "held" /\ q \in blind'
    <3>0. q \in Procs
      BY <1>3, ServerAssumption DEF ServerTypeOK
    <3>1. CASE q = p
      <4>1. p \notin late
        BY <1>1 DEF ServerIInv, LateInv
      <4>2. port # None
        BY <2>1, <3>1, <4>1 DEF StartLock
      <4> QED BY <3>1, <4>2, <1>1, <1>2 DEF Acquired
    <3>2. CASE q # p
      <4>1. q \in late
        BY <2>1, <3>2 DEF StartLock
      <4> QED BY <3>0, <3>2, <4>1, <1>1, <1>2 DEF ServerIInv, LateInv
    <3> QED BY <3>1, <3>2
  <2> QED BY <2>1 DEF LateInv
<1> QED BY <1>3, <1>4, <1>5 DEF ServerIInv

LEMMA LauncherSteps ==
    ASSUME IInv, IInv', ServerIInv, NEW p \in Procs,
           LockStep(p) \/ Locked(p) \/ Probe(p) \/ Unlock(p) \/ Unlocked(p) \/ Again(p) \/ Age(p)
    PROVE  ServerIInv'
<1>p. Phases = {"new", "locking", "probe", "spawn", "unlock", "done", "unborn", "bind",
                "serving"}
  BY DEF Phases
<1>b. /\ blind \in SUBSET Launchers /\ late \in SUBSET Launchers /\ Launchers \cap Servers = {}
      /\ \A q \in late : phase[q] \in {"locking", "probe", "spawn"}
  BY ServerAssumption DEF ServerIInv, ServerTypeOK, LateInv
<1>1. CASE LockStep(p) \/ Unlock(p) \/ Age(p)
  BY <1>1, <1>b, LockKeeps DEF LockStep, Unlock, Age, In, historyVars
<1>2. CASE Locked(p)
  <2>1. /\ phase[p] # "serving" /\ UNCHANGED <<vars, port>> /\ late' = late /\ blind' = blind
    BY <1>2 DEF Locked, In, historyVars
  <2>2. PICK f \in {"probe", "bind", "unborn"} :
           To(p, f) /\ (f = "bind" => pc[p] = "held") /\ (f # "probe" => p \in Servers)
    BY <1>2 DEF Locked
  <2>3. f \in Phases \ {"serving"}
    BY <1>p
  <2> QED BY <1>b, <2>1, <2>2, <2>3, PhaseStep
<1>3. CASE Unlocked(p) \/ Again(p)
  <2>1. /\ phase[p] # "serving" /\ UNCHANGED <<vars, port>> /\ late' = late /\ blind' = blind
        /\ p \notin late
    BY <1>3, <1>b DEF Unlocked, Again, In, historyVars
  <2>2. PICK f \in {"new", "done"} : To(p, f)
    BY <1>3 DEF Unlocked, Again
  <2>3. f \in Phases \ {"serving"}
    BY <1>p
  <2> QED BY <1>b, <2>1, <2>2, <2>3, PhaseStep
<1>4. CASE Probe(p)
  <2>1. phase[p] # "serving" /\ UNCHANGED <<vars, port>> /\ p \in Launchers
    BY <1>4 DEF Probe, In
  <2>2. CASE \E f \in {"done", "unlock"} : To(p, f) /\ Settles(p)
    <3>1. PICK f \in {"done", "unlock"} : To(p, f) /\ Settles(p)
      BY <2>2
    <3>2. f \in Phases \ {"serving"} /\ f # "bind"
      BY <1>p
    <3>3. /\ late' \in SUBSET late /\ blind' \in SUBSET Launchers /\ p \notin late'
          /\ \A q \in late' \ {p} : q \in blind => q \in blind'
      BY <3>1, <1>b DEF Settles
    <3> QED BY <2>1, <3>1, <3>2, <3>3, PhaseStep
  <2>3. CASE /\ pc[p] = "held" /\ To(p, "spawn") /\ late' = late
             /\ \/ port = None /\ blind' = blind
                \/ blind' = blind \cup {p}
    <3>1. /\ late' \in SUBSET late /\ blind' \in SUBSET Launchers /\ (p \in late' => p \in blind')
          /\ \A q \in late' \ {p} : q \in blind => q \in blind'
      BY <2>1, <2>3, <1>b DEF ServerIInv, LateInv
    <3>2. "spawn" \in Phases \ {"serving"} /\ "spawn" # "bind"
      BY <1>p
    <3> QED BY <2>1, <2>3, <3>1, <3>2, PhaseStep
  <2> QED BY <1>4, <2>2, <2>3 DEF Probe, historyVars
<1> QED BY <1>1, <1>2, <1>3, <1>4

LEMMA SpawnKeeps ==
    ASSUME IInv', ServerIInv, NEW p \in Procs, Spawn(p)
    PROVE  ServerIInv'
<1>p. {"unlock", "new"} \subseteq Phases \ {"serving", "spawn", "bind"}
  BY DEF Phases
<1>0. /\ phase[p] = "spawn" /\ UNCHANGED <<vars, port>> /\ p \in Launchers
      /\ late' = late \ {p} /\ blind' = blind \ {p}
  BY DEF Spawn, In, Settles
<1>b. blind \in SUBSET Launchers /\ late \in SUBSET Launchers /\ Launchers \cap Servers = {}
  BY ServerAssumption DEF ServerIInv, ServerTypeOK
<1>1. CASE To(p, "unlock")
  BY <1>0, <1>1, <1>b, <1>p, PhaseStep
<1>2. ASSUME NEW s \in Servers, In(s, "unborn"),
             phase' = [phase EXCEPT ![p] = "unlock", ![s] = "new"]
      PROVE  ServerIInv'
  <2>1. /\ phase \in [Procs -> Phases] /\ s \in Procs /\ p # s /\ phase[s] = "unborn"
    BY <1>0, <1>2, ServerAssumption DEF In, ServerIInv, ServerTypeOK
  <2>2. /\ phase' \in [Procs -> Phases] /\ phase'[p] = "unlock" /\ phase'[s] = "new"
        /\ \A q \in Procs \ {p, s} : phase'[q] = phase[q]
    BY <1>2, <1>p, <2>1
  <2>v. pc' = pc /\ expired' = expired /\ shaky' = shaky /\ port' = port
    BY <1>0 DEF vars
  <2>3. ServerTypeOK'
    BY <1>0, <1>b, <2>1, <2>2, ServerAssumption DEF ServerIInv, ServerTypeOK, IInv
  <2>4. ServersHold'
    BY <2>1, <2>2, <2>v, ServerAssumption DEF ServerIInv, ServersHold
  <2>5. LateInv'
    <3>1. ASSUME NEW q \in late'
          PROVE  q \in late /\ q # p /\ q # s /\ q \in Procs /\ (q \in blind => q \in blind')
      BY <1>0, <1>b, <1>2, ServerAssumption
    <3> QED BY <3>1, <2>2, <2>v DEF ServerIInv, LateInv
  <2> QED BY <2>3, <2>4, <2>5 DEF ServerIInv
<1> QED BY <1>1, <1>2 DEF Spawn

LEMMA BindKeeps ==
    ASSUME IInv', ServerIInv, NEW s \in Servers, Bind(s)
    PROVE  ServerIInv'
<1>1. s \in Procs /\ s # None /\ "serving" \in Phases /\ phase[s] = "bind"
  BY ServerAssumption, LockAssumption DEF Phases, Bind, In
<1>2. /\ phase' \in [Procs -> Phases] /\ phase'[s] = "serving"
      /\ \A q \in Procs \ {s} : phase'[q] = phase[q]
  BY <1>1, ToType DEF Bind, ServerIInv
<1>3. port = None /\ port' = s /\ late' = late /\ blind' = blind /\ pc' = pc
  BY DEF Bind, historyVars, vars
<1>4. ServerTypeOK'
  <2>1. \A q \in Servers : phase'[q] = "serving" <=> port' = q
    <3>1. \A q \in Servers \ {s} : phase[q] # "serving" /\ q \in Procs
      BY <1>3, ServerAssumption, LockAssumption DEF ServerIInv, ServerTypeOK
    <3> QED BY <3>1, <1>2, <1>3
  <2> QED BY <2>1, <1>2, <1>3 DEF ServerIInv, ServerTypeOK, IInv
<1>5. late = {}
  BY <1>3 DEF ServerIInv, LateInv
<1>6. ServersHold'
  BY <1>1, <1>2, <1>3, ServerAssumption DEF ServerIInv, ServersHold
<1> QED BY <1>3, <1>4, <1>5, <1>6 DEF ServerIInv, LateInv

LEMMA DieKeeps ==
    ASSUME IInv, IInv', ServerIInv, NEW p \in Procs, Die(p)
    PROVE  ServerIInv'
<1> DEFINE f == IF p \in Servers THEN "unborn" ELSE "done"
<1>1. f \in Phases \ {"serving", "spawn", "bind"} /\ None \notin Procs
  BY LockAssumption DEF Phases
<1>2. /\ phase' \in [Procs -> Phases] /\ phase'[p] = f
      /\ \A q \in Procs \ {p} : phase'[q] = phase[q]
  BY <1>1, ToType DEF Die, ServerIInv
<1> HIDE DEF f
<1>3. ServerTypeOK'
  <2>1. CASE port = p
    BY <1>1, <1>2, <2>1, ServerAssumption DEF Die, ServerIInv, ServerTypeOK, IInv
  <2>2. CASE port # p
    BY <1>1, <1>2, <2>2, ServerAssumption DEF Die, ServerIInv, ServerTypeOK, IInv
  <2> QED BY <2>1, <2>2
<1>4. /\ \A q \in Procs \ {p} : pc'[q] = pc[q] /\ (q \in shaky' <=> q \in shaky)
      /\ expired' = expired
  BY IdleType DEF Die, Crash, IInv
<1>5. ServersHold'
  BY <1>1, <1>2, <1>4, ServerAssumption DEF ServerIInv, ServersHold
<1>6. LateInv'
  <2>1. ASSUME NEW q \in late'
        PROVE  /\ q \in late /\ q # p /\ q \in Procs /\ port' = port /\ port # p
               /\ port \in Procs /\ (q \in blind => q \in blind')
    BY ServerAssumption DEF Die, ServerIInv, ServerTypeOK, LateInv
  <2> QED BY <2>1, <1>2, <1>4 DEF ServerIInv, LateInv
<1> QED BY <1>3, <1>5, <1>6 DEF ServerIInv

LEMMA ServerNextIInv == IInv /\ ServerIInv /\ [ServerNext]_serverVars => ServerIInv'
<1> SUFFICES ASSUME IInv, ServerIInv, [ServerNext]_serverVars PROVE ServerIInv'
  OBVIOUS
<1>1. IInv'
  BY ServerNextUsesLock, NextIInv
<1>2. ASSUME NEW p \in Procs, ServerStep(p) PROVE ServerIInv'
  BY <1>1, <1>2, StartLockKeeps, LauncherSteps, SpawnKeeps, BindKeeps, DieKeeps
     DEF ServerStep, BindFails
<1>3. ASSUME NEW p \in Procs, Again(p) \/ Die(p) \/ Age(p) PROVE ServerIInv'
  BY <1>1, <1>3, LauncherSteps, DieKeeps
<1>4. CASE UNCHANGED serverVars
  BY <1>1, <1>4 DEF serverVars, vars, ServerIInv, ServerTypeOK, ServersHold, LateInv, IInv
<1> QED BY <1>2, <1>3, <1>4 DEF ServerNext

LEMMA ServerIInvCorrect == ServerSpec => []ServerIInv
<1>1. ServerSpec => []IInv
  BY ServerUsesLock, IInvCorrect
<1> QED BY <1>1, ServerInitIInv, ServerNextIInv, PTL DEF ServerSpec

(* Whoever listens on the port is the one server that serves.               *)
THEOREM ServerTypeCorrect == ServerSpec => []ServerTypeOK
BY ServerIInvCorrect, PTL DEF ServerIInv

(* A session that begins while a server serves spawns a second one only if  *)
(* the server no longer has the lock to itself and its port did not answer  *)
(* in time, however many sessions begin at once and whoever dies meanwhile  *)
(* (ensure_status_server and ensure_proxy_server in main.rs).               *)
THEOREM LateSpawnNothing == ServerSpec => []LateSpawnsNothing
BY ServerIInvCorrect, LateMeans, PTL DEF ServerIInv

=============================================================================
