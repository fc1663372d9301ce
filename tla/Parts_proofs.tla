---------------------------- MODULE Parts_proofs ----------------------------
(***************************************************************************)
(* Two compositions for every value of the constants.  The background      *)
(* task: one record, and the dispatchers, workers, cancels and requests    *)
(* that race for it.  The machines of Parts: one call of the shell tool,   *)
(* the calls that write one file, the extension servers of one dispatch,   *)
(* and the runs that extend the evolution lineage.  Each machine of Parts  *)
(* has an inductive invariant of its own; a step of PartsNext is a step or *)
(* a stutter of each.                                                      *)
(***************************************************************************)
EXTENDS TaskLifecycle, Parts, FiniteSetTheorems, SequenceTheorems, TLAPS

-----------------------------------------------------------------------------
(* The background task                                                     *)

(* While there is no record, nobody has anything to work on; and what waits *)
(* to be saved is a record; a worker has a spec to read.  Without it TypeOK *)
(* is not inductive: a copy of an absent record is not a record.            *)
Created ==
    /\ rec = NoRec =>
        /\ \A d \in Dispatches : mcp[d].at \in {"idle", "done"} /\ worker[d].at = "none"
        /\ \A k \in Cancels : cancel[k].at \in {"idle", "done"}
        /\ \A r \in Requests : request[r].at \notin {"reap", "reapSave"}
    /\ job = None => \A d \in Dispatches :
        mcp[d].at # "spawn" /\ worker[d].at \in {"none", "exited"}
    /\ \A d \in Dispatches :
        worker[d].spec = None => worker[d].at \in {"none", "start", "exited"}
    /\ \A d \in Dispatches :
        /\ mcp[d].at \in {"stampSave", "failSave"} => mcp[d].rec \in Record
        /\ worker[d].at \in {"execSave", "endSave"} => worker[d].rec \in Record
    /\ \A k \in Cancels : cancel[k].at \in {"kill", "save"} => cancel[k].rec \in Record
    /\ \A r \in Requests : request[r].at = "reapSave" => request[r].rec \in Record

IInv == TypeOK /\ Created

(* NoRec is not a record, and each registry operation makes a record of one. *)
LEMMA NoRecNotRecord == NoRec \notin Record
BY LifecycleAssumption DEF NoRec, Record

LEMMA CopiesType ==
    ASSUME rec \in Record
    PROVE  /\ \A s \in Statuses : Transitioned(s) \in Record
           /\ \A d \in Dispatches : Stamped(d) \in Record /\ Claimed(d) \in Record
BY SMT DEF Record, Transitioned, Stamped, Claimed, Statuses, Terminals

LEMMA NewTask ==
    \A d \in Dispatches : [of |-> d, status |-> "queued", pid |-> None] \in Record
BY SMT DEF Record, Statuses, Terminals

LEMMA SaveType ==
    ASSUME NEW r \in Record, TypeOK, Save(r)
    PROVE  rec' \in RecordOrNone /\ (rec # NoRec => rec' # NoRec) /\ lost' \in BOOLEAN
BY NoRecNotRecord DEF Save, TypeOK, RecordOrNone

(* What the actions' helpers do to the actors.                             *)
LEMMA McpType ==
    ASSUME TypeOK, NEW d \in Dispatches, NEW l \in McpAt, NEW r \in RecordOrNone,
           McpTakes(d, l, r)
    PROVE  /\ mcp' \in [Dispatches -> [at : McpAt, rec : RecordOrNone]]
           /\ mcp'[d].at = l /\ mcp'[d].rec = r
           /\ \A e \in Dispatches \ {d} : mcp'[e] = mcp[e]
BY SMT DEF TypeOK, McpTakes

LEMMA WorkerType ==
    ASSUME TypeOK, NEW d \in Dispatches, NEW l \in WorkerAt, NEW r \in RecordOrNone,
           WorkerTakes(d, l, r)
    PROVE  /\ worker' \in [Dispatches -> [at : WorkerAt, spec : Dispatches \cup {None},
                                          rec : RecordOrNone]]
           /\ worker'[d].at = l /\ worker'[d].rec = r /\ worker'[d].spec = worker[d].spec
           /\ \A e \in Dispatches \ {d} : worker'[e] = worker[e]
BY SMT DEF TypeOK, WorkerTakes

LEMMA CancelType ==
    ASSUME TypeOK, NEW k \in Cancels, NEW l \in CancelAt, NEW r \in RecordOrNone,
           CancelTakes(k, l, r)
    PROVE  /\ cancel' \in [Cancels -> [at : CancelAt, rec : RecordOrNone]]
           /\ cancel'[k].at = l /\ cancel'[k].rec = r
           /\ \A e \in Cancels \ {k} : cancel'[e] = cancel[e]
BY SMT DEF TypeOK, CancelTakes

LEMMA RequestType ==
    ASSUME TypeOK, NEW q \in Requests, NEW l \in RequestAt, NEW r \in RecordOrNone,
           RequestTakes(q, l, r)
    PROVE  /\ request' \in [Requests -> [at : RequestAt, rec : RecordOrNone]]
           /\ request'[q].at = l /\ request'[q].rec = r
           /\ \A e \in Requests \ {q} : request'[e] = request[e]
BY SMT DEF TypeOK, RequestTakes

-----------------------------------------------------------------------------
(* IInv holds initially and is kept by each actor's steps.                  *)

LEMMA InitIInv == Init => IInv
<1> SUFFICES ASSUME Init PROVE IInv
  OBVIOUS
<1>1. lost \in BOOLEAN
  BY DEF Init
<1>2. QED
  BY <1>1, NoRecNotRecord DEF Init, IInv, TypeOK, Created, RecordOrNone, McpAt, WorkerAt,
                              CancelAt, RequestAt

LEMMA McpKeepsIInv ==
    ASSUME IInv, NEW d \in Dispatches, Create(d) \/ McpStep(d) \/ McpDies(d)
    PROVE  IInv'
<1> USE NoRecNotRecord DEF IInv, Created
<1>t. TypeOK
  BY DEF IInv
<1>n. NoRec \in RecordOrNone /\ Record \subseteq RecordOrNone
  BY DEF RecordOrNone
<1>r. rec # NoRec => rec \in Record
  BY <1>t DEF TypeOK, RecordOrNone
<1>l. McpAt = {"idle", "spec", "spawn", "stamp", "stampSave", "fail", "failSave", "done"}
  BY DEF McpAt
<1>1. CASE Create(d)
  <2>1. TypeOK'
    BY <1>1, <1>t, <1>n, <1>l, McpType, NewTask DEF Create, McpGoes, TypeOK
  <2>2. Created'
    BY <1>1, <1>t, <1>n, <1>l, McpType, NewTask DEF Create, McpGoes
  <2> QED BY <2>1, <2>2
<1>2. CASE WriteSpec(d)
  <2>1. TypeOK'
    BY <1>2, <1>t, <1>n, <1>l, McpType DEF WriteSpec, McpGoes, TypeOK
  <2>2. Created'
    BY <1>2, <1>t, <1>n, <1>l, McpType, LifecycleAssumption DEF WriteSpec, McpGoes
  <2> QED BY <2>1, <2>2
<1>3. CASE Spawn(d)
  <2>1. TypeOK'
    <3>1. mcp' \in [Dispatches -> [at : McpAt, rec : RecordOrNone]]
      BY <1>3, <1>t, <1>n, <1>l, McpType DEF Spawn, McpGoes
    <3>2. worker' \in [Dispatches -> [at : WorkerAt, spec : Dispatches \cup {None},
                                      rec : RecordOrNone]]
      BY <1>3, <1>t, <1>n, SMT DEF Spawn, WorkerStarts, TypeOK, WorkerAt
    <3> QED BY <1>3, <1>t, <3>1, <3>2 DEF Spawn, TypeOK
  <2>2. Created'
    <3>1. /\ mcp'[d].at \in {"stamp", "fail"}
          /\ \A e \in Dispatches \ {d} : mcp'[e] = mcp[e]
      BY <1>3, <1>t, <1>n, <1>l, McpType DEF Spawn, McpGoes
    <3>2. /\ worker'[d].at = "start" \/ worker' = worker
          /\ \A e \in Dispatches \ {d} : worker'[e] = worker[e]
      BY <1>3, <1>t, SMT DEF Spawn, WorkerStarts, TypeOK
    <3> QED BY <1>3, <3>1, <3>2 DEF Spawn
  <2> QED BY <2>1, <2>2
<1>4. CASE StampLoad(d)
  <2>1. Stamped(d) \in Record
    BY <1>4, <1>r, CopiesType DEF StampLoad
  <2>2. TypeOK'
    BY <1>4, <2>1, <1>t, <1>n, <1>l, McpType DEF StampLoad, McpTakes, TypeOK
  <2>3. Created'
    BY <1>4, <2>1, <1>t, <1>n, <1>l, McpType DEF StampLoad, McpTakes
  <2> QED BY <2>2, <2>3
<1>5. CASE FailLoad(d)
  <2>1. Transitioned("failed") \in Record
    BY <1>5, <1>r, CopiesType DEF FailLoad, Statuses, Terminals
  <2>2. TypeOK'
    BY <1>5, <2>1, <1>t, <1>n, <1>l, McpType DEF FailLoad, McpTakes, McpGoes, TypeOK
  <2>3. Created'
    BY <1>5, <2>1, <1>t, <1>n, <1>l, McpType DEF FailLoad, McpTakes, McpGoes
  <2> QED BY <2>2, <2>3
<1>6. CASE McpSave(d)
  <2>1. mcp[d].rec \in Record
    BY <1>6 DEF McpSave
  <2>2. rec' \in RecordOrNone /\ (rec # NoRec => rec' # NoRec) /\ lost' \in BOOLEAN
    BY <1>6, <1>t, <2>1, SaveType DEF McpSave
  <2>3. TypeOK'
    BY <1>6, <2>2, <1>t, <1>n, <1>l, McpType DEF McpSave, McpGoes, TypeOK
  <2>4. Created'
    BY <1>6, <2>2, <1>t, <1>n, <1>l, McpType DEF McpSave, McpGoes
  <2> QED BY <2>3, <2>4
<1>7. CASE McpDies(d)
  <2>1. TypeOK'
    BY <1>7, <1>t, <1>n, <1>l, McpType DEF McpDies, McpGoes, TypeOK
  <2>2. Created'
    BY <1>7, <1>t, <1>n, <1>l, McpType DEF McpDies, McpGoes
  <2> QED BY <2>1, <2>2
<1> QED BY <1>1, <1>2, <1>3, <1>4, <1>5, <1>6, <1>7 DEF McpStep

LEMMA WorkerKeepsIInv ==
    ASSUME IInv, NEW d \in Dispatches, WorkerStep(d) \/ WorkerDies(d)
    PROVE  IInv'
<1> USE NoRecNotRecord DEF IInv, Created
<1>t. TypeOK
  BY DEF IInv
<1>n. NoRec \in RecordOrNone /\ Record \subseteq RecordOrNone
  BY DEF RecordOrNone
<1>r. worker[d].at # "none" => rec \in Record
  BY <1>t DEF TypeOK, RecordOrNone
<1>l. WorkerAt = {"none", "start", "slot", "exec", "execSave", "run", "endSave",
                  "release", "exited"}
  BY DEF WorkerAt
<1>1. CASE ReadSpec(d)
  <2>1. worker' \in [Dispatches -> [at : WorkerAt, spec : Dispatches \cup {None},
                                    rec : RecordOrNone]]
    BY <1>1, <1>t, <1>n, SMT DEF ReadSpec, TypeOK, WorkerAt
  <2>2. worker'[d].at = "slot" /\ worker'[d].spec = job /\ \A e \in Dispatches \ {d} : worker'[e] = worker[e]
    BY <1>1, <1>t, SMT DEF ReadSpec, TypeOK
  <2>3. TypeOK'
    BY <1>1, <1>t, <2>1 DEF ReadSpec, TypeOK
  <2>4. Created'
    BY <1>1, <2>2 DEF ReadSpec
  <2> QED BY <2>3, <2>4
<1>2. CASE GetSlot(d)
  <2>1. TypeOK'
    BY <1>2, <1>t, <1>n, <1>l, WorkerType DEF GetSlot, WorkerGoes, TypeOK
  <2>2. Created'
    BY <1>2, <1>t, <1>n, <1>l, WorkerType DEF GetSlot, WorkerGoes
  <2> QED BY <2>1, <2>2
<1>3. CASE ExecLoad(d)
  <2>1. Claimed(d) \in Record
    BY <1>3, <1>r, CopiesType DEF ExecLoad
  <2>2. TypeOK'
    BY <1>3, <2>1, <1>t, <1>n, <1>l, WorkerType DEF ExecLoad, TypeOK
  <2>3. Created'
    BY <1>3, <2>1, <1>t, <1>n, <1>l, WorkerType DEF ExecLoad
  <2> QED BY <2>2, <2>3
<1>4. CASE ExecSave(d) \/ EndSave(d)
  <2>1. /\ Save(worker[d].rec) /\ worker[d].rec \in Record
        /\ \E l \in WorkerAt \ {"none", "execSave", "endSave"} : WorkerTakes(d, l, NoRec)
        /\ UNCHANGED <<job, mcp, cancel, request, mem>>
        /\ succeeded' = succeeded
    BY <1>4, <1>l DEF ExecSave, EndSave, WorkerGoes
  <2>2. PICK l \in WorkerAt \ {"none", "execSave", "endSave"} : WorkerTakes(d, l, NoRec)
    BY <2>1
  <2>3. rec' \in RecordOrNone /\ (rec # NoRec => rec' # NoRec) /\ lost' \in BOOLEAN
    BY <2>1, <1>t, SaveType
  <2>4. TypeOK'
    BY <2>1, <2>2, <2>3, <1>t, <1>n, WorkerType DEF TypeOK
  <2>5. worker[d].at \notin {"none", "exited"}
    BY <1>4 DEF ExecSave, EndSave
  <2>6. /\ worker'[d].at = l /\ worker'[d].spec = worker[d].spec
        /\ \A e \in Dispatches \ {d} : worker'[e] = worker[e]
    BY <2>2, <1>t, <1>n, WorkerType
  <2>7. worker[d].spec # None
    BY <1>4 DEF ExecSave, EndSave
  <2>8. Created'
    BY <2>1, <2>3, <2>5, <2>6, <2>7
  <2> QED BY <2>4, <2>8
<1>5. CASE Finish(d)
  <2>1. \A s \in {"completed", "failed"} : Transitioned(s) \in Record
    BY <1>5, <1>r, CopiesType DEF Finish, Statuses, Terminals
  <2>2. PICK s \in {"completed", "failed"} :
          /\ succeeded' = IF s = "completed" THEN succeeded \cup {worker[d].spec}
                                             ELSE succeeded
          /\ WorkerGoes(d, "release") \/ WorkerTakes(d, "endSave", Transitioned(s))
    BY <1>5 DEF Finish
  <2>3. UNCHANGED <<rec, job, mcp, cancel, request, mem, lost>> /\ worker[d].at = "run"
    BY <1>5 DEF Finish
  <2>4. TypeOK'
    <3>1. succeeded' \in SUBSET Dispatches
      BY <2>2, <2>3, <1>t DEF TypeOK
    <3> QED BY <3>1, <2>1, <2>2, <2>3, <1>t, <1>n, <1>l, WorkerType DEF WorkerGoes, TypeOK
  <2>5. Created'
    BY <2>1, <2>2, <2>3, <1>t, <1>n, <1>l, WorkerType DEF WorkerGoes
  <2> QED BY <2>4, <2>5
<1>6. CASE Release(d)
  <2>1. TypeOK'
    BY <1>6, <1>t, <1>n, <1>l, WorkerType DEF Release, WorkerGoes, TypeOK
  <2>2. Created'
    BY <1>6, <1>t, <1>n, <1>l, WorkerType DEF Release, WorkerGoes
  <2> QED BY <2>1, <2>2
<1>7. CASE WorkerDies(d)
  <2>1. TypeOK'
    BY <1>7, <1>t, <1>n, <1>l, WorkerType DEF WorkerDies, WorkerGoes, TypeOK
  <2>2. Created'
    <3>1. \A e \in Dispatches \ {d} : worker'[e] = worker[e]
      BY <1>7, <1>t, <1>n, <1>l, WorkerType DEF WorkerDies, WorkerGoes
    <3>2. worker[d].at # "none" /\ worker'[d].at = "exited" /\ UNCHANGED <<rec, job, mcp, cancel, request>>
      BY <1>7, <1>t, <1>n, <1>l, WorkerType DEF WorkerDies, WorkerGoes, Running
    <3> QED BY <3>1, <3>2
  <2> QED BY <2>1, <2>2
<1> QED BY <1>1, <1>2, <1>3, <1>4, <1>5, <1>6, <1>7 DEF WorkerStep

LEMMA CancelKeepsIInv ==
    ASSUME IInv, NEW k \in Cancels, CancelGet(k) \/ CancelAllList(k) \/ CancelStep(k)
    PROVE  IInv'
<1> USE NoRecNotRecord DEF IInv, Created
<1>t. TypeOK
  BY DEF IInv
<1>n. NoRec \in RecordOrNone /\ Record \subseteq RecordOrNone
  BY DEF RecordOrNone
<1>r. rec # NoRec => rec \in Record
  BY <1>t DEF TypeOK, RecordOrNone
<1>l. CancelAt = {"idle", "kill", "load", "save", "done"}
  BY DEF CancelAt
<1>1. CASE CancelGet(k) \/ CancelAllList(k)
  <2>1. TypeOK'
    BY <1>1, <1>t, <1>n, <1>r, <1>l, CancelType DEF CancelGet, CancelAllList, CancelGoes, TypeOK
  <2>2. Created'
    BY <1>1, <1>t, <1>n, <1>r, <1>l, CancelType DEF CancelGet, CancelAllList, CancelGoes
  <2> QED BY <2>1, <2>2
<1>2. CASE CancelKill(k)
  <2> DEFINE p == cancel[k].rec.pid
  <2>1. cancel[k].rec \in Record /\ rec # NoRec
    BY <1>2 DEF CancelKill
  <2>2. p \in Dispatches \cup {None}
    BY <2>1 DEF Record
  <2>3. CancelGoes(k, "load") /\ UNCHANGED <<rec, job, mcp, request, mem, succeeded, lost>>
    BY <1>2 DEF CancelKill
  <2>4. CASE p = None
    <3>1. worker' = worker
      BY <1>2, <2>4 DEF CancelKill
    <3>2. TypeOK'
      BY <2>3, <3>1, <1>t, <1>n, <1>l, CancelType DEF CancelGoes, TypeOK
    <3>3. Created'
      BY <2>1, <2>3, <3>1, <1>t, <1>n, <1>l, CancelType DEF CancelGoes
    <3> QED BY <3>2, <3>3
  <2>5. CASE p # None
    <3>1. p \in Dispatches /\ WorkerTakes(p, "exited", NoRec)
      BY <1>2, <2>2, <2>5 DEF CancelKill, WorkerGoes
    <3> HIDE DEF p
    <3>2. /\ worker' \in [Dispatches -> [at : WorkerAt, spec : Dispatches \cup {None},
                                        rec : RecordOrNone]]
          /\ worker'[p].at = "exited" /\ worker'[p].spec = worker[p].spec
          /\ \A e \in Dispatches \ {p} : worker'[e] = worker[e]
      BY <3>1, <1>t, <1>n, WorkerType DEF WorkerAt
    <3>3. TypeOK'
      BY <2>3, <3>2, <1>t, <1>n, <1>l, CancelType DEF CancelGoes, TypeOK
    <3>4. Created'
      BY <2>1, <2>3, <3>1, <3>2, <1>t, <1>n, <1>l, CancelType DEF CancelGoes
    <3> QED BY <3>3, <3>4
  <2> QED BY <2>4, <2>5
<1>3. CASE CancelLoad(k)
  <2>1. Transitioned("cancelled") \in Record
    BY <1>3, <1>r, CopiesType DEF CancelLoad, Statuses, Terminals
  <2>2. TypeOK'
    BY <1>3, <2>1, <1>t, <1>n, <1>l, CancelType DEF CancelLoad, CancelGoes, TypeOK
  <2>3. Created'
    BY <1>3, <2>1, <1>t, <1>n, <1>l, CancelType DEF CancelLoad, CancelGoes
  <2> QED BY <2>2, <2>3
<1>4. CASE CancelSave(k)
  <2>1. cancel[k].rec \in Record
    BY <1>4 DEF CancelSave
  <2>2. rec' \in RecordOrNone /\ (rec # NoRec => rec' # NoRec) /\ lost' \in BOOLEAN
    BY <1>4, <1>t, <2>1, SaveType DEF CancelSave
  <2>3. TypeOK'
    BY <1>4, <2>2, <1>t, <1>n, <1>l, CancelType DEF CancelSave, CancelGoes, TypeOK
  <2>4. Created'
    BY <1>4, <2>2, <1>t, <1>n, <1>l, CancelType DEF CancelSave, CancelGoes
  <2> QED BY <2>3, <2>4
<1> QED BY <1>1, <1>2, <1>3, <1>4 DEF CancelStep

LEMMA RequestKeepsIInv ==
    ASSUME IInv, NEW q \in Requests, Wait(q) \/ RequestStep(q)
    PROVE  IInv'
<1> USE NoRecNotRecord DEF IInv, Created
<1>t. TypeOK
  BY DEF IInv
<1>n. NoRec \in RecordOrNone /\ Record \subseteq RecordOrNone
  BY DEF RecordOrNone
<1>r. rec # NoRec => rec \in Record
  BY <1>t DEF TypeOK, RecordOrNone
<1>l. RequestAt = {"idle", "probe", "reap", "reapSave", "get", "poll"}
  BY DEF RequestAt
<1>1. CASE Wait(q)
  <2>1. PICK l \in {"probe", "get"} : RequestTakes(q, l, NoRec)
    BY <1>1 DEF Wait, RequestGoes
  <2>2. UNCHANGED <<rec, job, mcp, worker, cancel, mem, succeeded, lost>>
    BY <1>1, <1>t DEF Wait, TypeOK
  <2>3. TypeOK'
    BY <2>1, <2>2, <1>t, <1>n, <1>l, RequestType DEF TypeOK
  <2>4. Created'
    BY <2>1, <2>2, <1>t, <1>n, <1>l, RequestType
  <2> QED BY <2>3, <2>4
<1>2. CASE Probe(q)
  <2>1. PICK l \in {"reap", "get"} :
          RequestTakes(q, l, NoRec) /\ (l = "reap" => DeadPid(rec))
    BY <1>2 DEF Probe, RequestGoes
  <2>2. UNCHANGED <<rec, job, mcp, worker, cancel, succeeded, lost>> /\ mem' = rec
    BY <1>2 DEF Probe
  <2>3. l = "reap" => rec # NoRec
    BY <2>1 DEF DeadPid, NoRec
  <2>4. TypeOK'
    BY <2>1, <2>2, <1>t, <1>n, <1>l, RequestType DEF TypeOK
  <2>5. Created'
    BY <2>1, <2>2, <2>3, <1>t, <1>n, <1>l, RequestType
  <2> QED BY <2>4, <2>5
<1>3. CASE ReapLoad(q)
  <2>1. Transitioned("failed") \in Record
    BY <1>3, <1>r, CopiesType DEF ReapLoad, Statuses, Terminals
  <2>2. TypeOK'
    BY <1>3, <2>1, <1>t, <1>n, <1>l, RequestType DEF ReapLoad, RequestGoes, TypeOK
  <2>3. Created'
    BY <1>3, <2>1, <1>t, <1>n, <1>l, RequestType DEF ReapLoad, RequestGoes
  <2> QED BY <2>2, <2>3
<1>4. CASE ReapSave(q)
  <2>1. request[q].rec \in Record
    BY <1>4 DEF ReapSave
  <2>2. rec' \in RecordOrNone /\ (rec # NoRec => rec' # NoRec) /\ lost' \in BOOLEAN
    BY <1>4, <1>t, <2>1, SaveType DEF ReapSave
  <2>3. TypeOK'
    BY <1>4, <2>2, <1>t, <1>n, <1>l, RequestType DEF ReapSave, RequestGoes, TypeOK
  <2>4. Created'
    BY <1>4, <2>2, <1>t, <1>n, <1>l, RequestType DEF ReapSave, RequestGoes
  <2> QED BY <2>3, <2>4
<1>5. CASE Get(q) \/ AnswerTerminal(q) \/ AnswerTimedOut(q)
  <2>1. PICK l \in {"idle", "poll"} : RequestTakes(q, l, NoRec)
    BY <1>5 DEF Get, AnswerTerminal, AnswerTimedOut, RequestGoes
  <2>2. /\ UNCHANGED <<rec, job, mcp, worker, cancel, succeeded, lost>>
        /\ mem' \in RecordOrNone
    BY <1>5, <1>t DEF Get, AnswerTerminal, AnswerTimedOut, TypeOK
  <2>3. TypeOK'
    BY <2>1, <2>2, <1>t, <1>n, <1>l, RequestType DEF TypeOK
  <2>4. Created'
    BY <2>1, <2>2, <1>t, <1>n, <1>l, RequestType
  <2> QED BY <2>3, <2>4
<1> QED BY <1>1, <1>2, <1>3, <1>4, <1>5 DEF RequestStep

LEMMA NextIInv == IInv /\ [Next]_vars => IInv'
<1>1. IInv /\ UNCHANGED vars => IInv'
  BY DEF IInv, TypeOK, Created, vars
<1> QED BY <1>1, McpKeepsIInv, WorkerKeepsIInv, CancelKeepsIInv, RequestKeepsIInv DEF Next

THEOREM IInvCorrect == Spec => []IInv
BY NextIInv, InitIInv, PTL DEF Spec

(* TypeOK: what waits to be saved is a whole record of a dispatched task,   *)
(* and no operation makes one out of a task that does not exist.            *)
THEOREM TypeCorrect == Spec => []TypeOK
<1>1. IInv => TypeOK
  BY DEF IInv
<1> QED BY <1>1, IInvCorrect, PTL

-----------------------------------------------------------------------------
(* FinalKept: in a final state each actor either cannot move, or moves      *)
(* without a copy to save because it finds the record terminal.             *)

LEMMA FinalStep ==
    ASSUME TypeOK, Final, [Next]_vars
    PROVE  Final' /\ rec' = rec
<1>n. NoRec \in RecordOrNone
  BY DEF RecordOrNone
<1>0. CASE UNCHANGED vars
  BY <1>0 DEF Final, vars, IsTerminal
<1>1. ASSUME NEW d \in Dispatches, Create(d) \/ McpStep(d) \/ McpDies(d)
      PROVE  Final' /\ rec' = rec
  <2>1. /\ McpGoes(d, "done")
        /\ UNCHANGED <<rec, job, worker, cancel, request, mem, succeeded, lost>>
    BY <1>1 DEF Final, Create, McpStep, McpDies, WriteSpec, Spawn, StampLoad, FailLoad, McpSave
  <2>2. mcp'[d].at = "done" /\ \A e \in Dispatches \ {d} : mcp'[e] = mcp[e]
    BY <2>1, <1>n, McpType DEF McpGoes, McpAt
  <2> QED BY <2>1, <2>2 DEF Final, IsTerminal
<1>2. ASSUME NEW d \in Dispatches, WorkerStep(d) \/ WorkerDies(d)
      PROVE  Final' /\ rec' = rec
  <2>1. /\ WorkerGoes(d, "release") \/ WorkerGoes(d, "exited")
        /\ UNCHANGED <<rec, job, mcp, cancel, request, mem>>
    BY <1>2 DEF Final, WorkerStep, WorkerDies, ReadSpec, GetSlot, ExecLoad, ExecSave,
                Finish, EndSave, Release
  <2>2. /\ worker'[d].at \in {"release", "exited"}
        /\ \A e \in Dispatches \ {d} : worker'[e] = worker[e]
    BY <2>1, <1>n, WorkerType DEF WorkerGoes, WorkerAt
  <2> QED BY <2>1, <2>2 DEF Final, IsTerminal
<1>3. ASSUME NEW k \in Cancels, CancelGet(k) \/ CancelAllList(k) \/ CancelStep(k)
      PROVE  Final' /\ rec' = rec
  <2>1. /\ cancel'[k].at # "save" /\ \A e \in Cancels \ {k} : cancel'[e] = cancel[e]
        /\ UNCHANGED <<rec, job, mcp, request, mem, succeeded, lost>>
    <3>1. PICK l \in CancelAt \ {"save"}, r \in RecordOrNone : CancelTakes(k, l, r)
      BY <1>3, <1>n DEF Final, CancelStep, CancelGet, CancelAllList, CancelKill, CancelLoad,
                        CancelSave, CancelGoes, CancelAt, TypeOK
    <3>2. UNCHANGED <<rec, job, mcp, request, mem, succeeded, lost>>
      BY <1>3 DEF Final, CancelStep, CancelGet, CancelAllList, CancelKill, CancelLoad, CancelSave
    <3> QED BY <3>1, <3>2, CancelType
  <2>2. \A d \in Dispatches : worker'[d].at \in {worker[d].at, "exited"}
    <3>1. CASE worker' = worker
      BY <3>1
    <3>2. CASE WorkerGoes(cancel[k].rec.pid, "exited")
      BY <3>2, <1>n DEF WorkerGoes, WorkerTakes, TypeOK
    <3> QED BY <1>3, <3>1, <3>2 DEF CancelStep, CancelGet, CancelAllList, CancelKill,
                                    CancelLoad, CancelSave
  <2> QED BY <2>1, <2>2 DEF Final, IsTerminal
<1>4. ASSUME NEW q \in Requests, Wait(q) \/ RequestStep(q)
      PROVE  Final' /\ rec' = rec
  <2>1. PICK l \in RequestAt \ {"reapSave"} : RequestTakes(q, l, NoRec)
    BY <1>4 DEF Final, RequestStep, Wait, Probe, ReapLoad, ReapSave, Get, AnswerTerminal,
                AnswerTimedOut, RequestGoes, RequestAt
  <2>2. UNCHANGED <<rec, job, mcp, worker, cancel, succeeded>>
    BY <1>4 DEF Final, RequestStep, Wait, Probe, ReapLoad, ReapSave, Get, AnswerTerminal,
                AnswerTimedOut
  <2>3. request'[q].at # "reapSave" /\ \A e \in Requests \ {q} : request'[e] = request[e]
    BY <2>1, <1>n, RequestType
  <2> QED BY <2>2, <2>3 DEF Final, IsTerminal
<1> QED BY <1>0, <1>1, <1>2, <1>3, <1>4 DEF Next

(* FinalKept: once nobody holds an older copy, no worker, cancel, reaper or *)
(* poll changes a terminal record, whatever number of them race.            *)
THEOREM FinalIsKept == Spec => FinalKept
<1>1. IInv /\ [Next]_vars => (Final => Final' /\ rec' = rec)
  BY FinalStep DEF IInv
<1> QED BY <1>1, IInvCorrect, PTL DEF Spec, FinalKept

-----------------------------------------------------------------------------
(* RunningReachable, for a task that is dispatched once: a second dispatch  *)
(* names its task the same and writes its own record over the first one's.  *)
(* A pid is in a record, or in a copy of it, only once its worker has been  *)
(* spawned; so the reaper's dead pid is that of a worker that has exited,   *)
(* and only a cancel can save a copy without the pid while the worker runs. *)

Sole == \A d, e \in Dispatches : d = e

Spawned(r) == \A d \in Dispatches : r.pid = d => worker[d].at # "none"

Copies ==
    /\ Spawned(rec)
    /\ \A d \in Dispatches :
          /\ worker[d].at # "none" => mcp[d].at \in {"stamp", "stampSave", "done"}
          /\ mcp[d].at \in {"stamp", "stampSave"} => worker[d].at # "none"
          /\ mcp[d].at = "stampSave" => mcp[d].rec.pid = d
          /\ worker[d].at = "execSave" => worker[d].rec.pid = d
          /\ Spawned(mcp[d].rec) /\ Spawned(worker[d].rec)
    /\ \A k \in Cancels :
          /\ Spawned(cancel[k].rec)
          /\ cancel[k].at = "save" => cancel[k].rec.status = "cancelled"
    /\ \A r \in Requests :
          /\ Spawned(request[r].rec)
          /\ request[r].at \in {"reap", "reapSave"} => \A d \in Dispatches : worker[d].at = "exited"

Reach == Copies /\ RunningReachable

LEMMA NoRecSpawned == Spawned(NoRec) /\ NoRec \in RecordOrNone
BY LifecycleAssumption DEF Spawned, NoRec, RecordOrNone

\* What the copies an operation makes say of the pid.
LEMMA CopiesPid ==
    /\ \A s : Transitioned(s).pid = rec.pid /\ Transitioned(s).status = s
    /\ \A d : Stamped(d).pid = d /\ Claimed(d).pid = d
BY DEF Transitioned, Stamped, Claimed

LEMMA InitReach == Init => Reach
<1> SUFFICES ASSUME Init PROVE Reach
  OBVIOUS
<1>1. /\ rec = NoRec
      /\ \A d \in Dispatches : /\ mcp[d].at = "idle" /\ mcp[d].rec = NoRec
                               /\ worker[d].at = "none" /\ worker[d].rec = NoRec
      /\ \A k \in Cancels : cancel[k].at = "idle" /\ cancel[k].rec = NoRec
      /\ \A r \in Requests : request[r].at = "idle" /\ request[r].rec = NoRec
  BY DEF Init
<1> QED BY <1>1, NoRecSpawned DEF Reach, Copies, RunningReachable

LEMMA McpReach ==
    ASSUME Sole, IInv, Reach, NEW d \in Dispatches, Create(d) \/ McpStep(d) \/ McpDies(d)
    PROVE  Reach'
<1>t. TypeOK
  BY DEF IInv
<1>l. McpAt = {"idle", "spec", "spawn", "stamp", "stampSave", "fail", "failSave", "done"}
  BY DEF McpAt
<1>s. \A e \in Dispatches : e = d
  BY DEF Sole
<1>k. ASSUME worker' = worker, cancel' = cancel, request' = request,
             Spawned(rec'), Spawned(mcp'[d].rec),
             worker[d].at # "none" => mcp'[d].at \in {"stamp", "stampSave", "done"},
             mcp'[d].at \in {"stamp", "stampSave"} => worker[d].at # "none",
             mcp'[d].at = "stampSave" => mcp'[d].rec.pid = d,
             worker[d].at = "run" => rec'.pid = d \/ rec'.status = "cancelled" \/ lost'
      PROVE  Reach'
  BY <1>k, <1>s DEF Reach, Copies, RunningReachable, Spawned
<1>1. CASE Create(d)
  <2>1. worker[d].at = "none"
    BY <1>1 DEF Create, Reach, Copies
  <2>2. mcp'[d].at \in {"spec", "done"} /\ mcp'[d].rec = NoRec
    BY <1>1, <1>t, <1>l, NoRecSpawned, McpType DEF Create, McpGoes
  <2>3. Spawned(rec')
    <3>1. CASE rec' = rec
      BY <3>1 DEF Reach, Copies
    <3>2. CASE rec' = [of |-> d, status |-> "queued", pid |-> None]
      BY <3>2, LifecycleAssumption DEF Spawned
    <3> QED BY <1>1, <3>1, <3>2 DEF Create
  <2> QED BY <1>1, <1>k, <2>1, <2>2, <2>3, NoRecSpawned DEF Create
<1>2. CASE WriteSpec(d)
  <2>1. mcp'[d].at \in {"spawn", "done"} /\ mcp'[d].rec = NoRec
    BY <1>2, <1>t, <1>l, NoRecSpawned, McpType DEF WriteSpec, McpGoes
  <2>2. worker[d].at = "none"
    BY <1>2 DEF WriteSpec, Reach, Copies
  <2> QED BY <1>2, <1>k, <2>1, <2>2, NoRecSpawned DEF WriteSpec, Reach, Copies
<1>3. CASE Spawn(d)
  <2>1. worker[d].at = "none"
    BY <1>3 DEF Spawn, Reach, Copies
  <2>2. CASE McpGoes(d, "fail") /\ UNCHANGED worker
    <3>1. mcp'[d].at = "fail" /\ mcp'[d].rec = NoRec
      BY <2>2, <1>t, <1>l, NoRecSpawned, McpType DEF McpGoes
    <3> QED BY <1>3, <1>k, <2>1, <2>2, <3>1, NoRecSpawned DEF Spawn, Reach, Copies
  <2>3. CASE WorkerStarts(d) /\ McpGoes(d, "stamp")
    <3>1. mcp'[d].at = "stamp" /\ mcp'[d].rec = NoRec
      BY <2>3, <1>t, <1>l, NoRecSpawned, McpType DEF McpGoes
    <3>2. worker'[d].at = "start" /\ worker'[d].rec = NoRec
      BY <2>3, <1>t, SMT DEF WorkerStarts, TypeOK
    <3>4. /\ cancel' = cancel /\ request' = request /\ rec' = rec
          /\ \A r \in Requests : request[r].at \notin {"reap", "reapSave"}
      BY <1>3, <2>1 DEF Spawn, Reach, Copies
    <3>5. \A r : (\A e \in Dispatches : r.pid = e => worker'[e].at # "none")
      BY <3>2, <1>s
    <3> QED BY <1>s, <3>1, <3>2, <3>4, <3>5 DEF Reach, Copies, RunningReachable, Spawned
  <2> QED BY <1>3, <2>2, <2>3 DEF Spawn
<1>4. CASE StampLoad(d)
  <2>1. mcp'[d].at = "stampSave" /\ mcp'[d].rec = Stamped(d)
    <3>1. rec \in Record
      BY <1>4, <1>t DEF StampLoad, IInv, Created, TypeOK, RecordOrNone
    <3>2. Stamped(d) \in RecordOrNone
      BY <3>1, CopiesType DEF RecordOrNone
    <3> QED BY <1>4, <3>2, <1>t, <1>l, McpType DEF StampLoad
  <2>2. worker[d].at # "none"
    BY <1>4 DEF StampLoad, Reach, Copies
  <2>3. Spawned(mcp'[d].rec) /\ mcp'[d].rec.pid = d
    BY <1>s, <2>1, <2>2, CopiesPid DEF Spawned
  <2> QED BY <1>4, <1>k, <2>1, <2>2, <2>3 DEF StampLoad, Reach, Copies, RunningReachable
<1>5. CASE FailLoad(d)
  <2>0. worker[d].at = "none"
    BY <1>5 DEF FailLoad, Reach, Copies
  <2>1. /\ mcp'[d].at \in {"failSave", "done"}
        /\ mcp'[d].rec \in {NoRec, Transitioned("failed")}
    <3>1. rec \in Record
      BY <1>5, <1>t DEF FailLoad, IInv, Created, TypeOK, RecordOrNone
    <3>2. Transitioned("failed") \in RecordOrNone
      BY <3>1, CopiesType DEF RecordOrNone, Statuses, Terminals
    <3> QED BY <1>5, <3>2, <1>t, <1>l, NoRecSpawned, McpType DEF FailLoad, McpGoes
  <2>2. Spawned(rec)
    BY DEF Reach, Copies
  <2>3. Spawned(mcp'[d].rec)
    BY <2>1, <2>2, NoRecSpawned, CopiesPid DEF Spawned
  <2> QED BY <1>5, <1>k, <2>0, <2>1, <2>2, <2>3 DEF FailLoad
<1>6. CASE McpSave(d)
  <2>1. mcp'[d].at = "done" /\ mcp'[d].rec = NoRec
    BY <1>6, <1>t, <1>l, NoRecSpawned, McpType DEF McpSave, McpGoes
  <2>2. Spawned(rec')
    <3>1. Spawned(rec) /\ Spawned(mcp[d].rec) /\ rec' \in {rec, mcp[d].rec}
      BY <1>6 DEF McpSave, Save, Reach, Copies
    <3> QED BY <3>1 
  <2>3. worker[d].at = "run" => rec'.pid = d \/ rec'.status = "cancelled" \/ lost'
    <3>1. worker[d].at = "run" => mcp[d].rec.pid = d
      BY <1>6 DEF McpSave, Reach, Copies
    <3>2. worker[d].at = "run" => rec.pid = d \/ rec.status = "cancelled" \/ lost
      BY DEF Reach, RunningReachable
    <3> QED BY <1>6, <3>1, <3>2 DEF McpSave, Save
  <2> QED BY <1>6, <1>k, <2>1, <2>2, <2>3, NoRecSpawned DEF McpSave
<1>7. CASE McpDies(d)
  <2>1. mcp'[d].at = "done" /\ mcp'[d].rec = NoRec
    BY <1>7, <1>t, <1>l, NoRecSpawned, McpType DEF McpDies, McpGoes
  <2> QED BY <1>7, <1>k, <2>1, NoRecSpawned DEF McpDies, Reach, Copies, RunningReachable
<1> QED BY <1>1, <1>2, <1>3, <1>4, <1>5, <1>6, <1>7 DEF McpStep

LEMMA WorkerReach ==
    ASSUME Sole, IInv, Reach, NEW d \in Dispatches, WorkerStep(d) \/ WorkerDies(d)
    PROVE  Reach'
<1>t. TypeOK
  BY DEF IInv
<1>l. WorkerAt = {"none", "start", "slot", "exec", "execSave", "run", "endSave",
                  "release", "exited"}
  BY DEF WorkerAt
<1>s. \A e \in Dispatches : e = d
  BY DEF Sole
<1>r. worker[d].at # "none" => rec \in Record
  BY <1>t DEF IInv, Created, TypeOK, RecordOrNone
<1>k. ASSUME mcp' = mcp, cancel' = cancel, request' = request,
             worker[d].at # "none", worker'[d].at # "none",
             worker[d].at # "exited" \/ worker'[d].at = "exited",
             worker'[d].at = "execSave" => worker'[d].rec.pid = d,
             worker'[d].at = "run" => rec'.pid = d \/ rec'.status = "cancelled" \/ lost'
      PROVE  Reach'
  <2>1. \A r : \A e \in Dispatches : r.pid = e => worker'[e].at # "none"
    BY <1>k, <1>s
  <2> QED BY <1>k, <1>s, <2>1 DEF Reach, Copies, RunningReachable, Spawned
<1>1. CASE ReadSpec(d)
  <2>1. worker[d].at = "start" /\ worker'[d].at = "slot"
    BY <1>1, <1>t, SMT DEF ReadSpec, TypeOK
  <2> QED BY <1>1, <1>k, <2>1 DEF ReadSpec
<1>2. CASE GetSlot(d)
  <2>1. worker[d].at = "slot" /\ worker'[d].at = "exec"
    BY <1>2, <1>t, <1>l, NoRecSpawned, WorkerType DEF GetSlot, WorkerGoes
  <2> QED BY <1>2, <1>k, <2>1 DEF GetSlot
<1>3. CASE ExecLoad(d)
  <2>1. worker[d].at = "exec" /\ worker'[d].at = "execSave" /\ worker'[d].rec = Claimed(d)
    <3>1. Claimed(d) \in RecordOrNone
      BY <1>3, <1>r, CopiesType DEF ExecLoad, RecordOrNone
    <3> QED BY <1>3, <3>1, <1>t, <1>l, WorkerType DEF ExecLoad
  <2> QED BY <1>3, <1>k, <2>1, CopiesPid DEF ExecLoad
<1>4. CASE ExecSave(d)
  <2>1. worker[d].at = "execSave" /\ worker'[d].at = "run"
    BY <1>4, <1>t, <1>l, NoRecSpawned, WorkerType DEF ExecSave, WorkerGoes
  <2>2. rec'.pid = d \/ lost'
    BY <1>4 DEF ExecSave, Save, Reach, Copies
  <2> QED BY <1>4, <1>k, <2>1, <2>2 DEF ExecSave
<1>5. CASE Finish(d)
  <2>1. worker[d].at = "run" /\ worker'[d].at \in {"release", "endSave"}
    <3>1. \A s \in {"completed", "failed"} : Transitioned(s) \in RecordOrNone
      BY <1>5, <1>r, CopiesType DEF Finish, RecordOrNone, Statuses, Terminals
    <3> QED BY <1>5, <3>1, <1>t, <1>l, NoRecSpawned, WorkerType DEF Finish, WorkerGoes
  <2> QED BY <1>5, <1>k, <2>1 DEF Finish
<1>6. CASE EndSave(d)
  <2>1. worker[d].at = "endSave" /\ worker'[d].at = "release"
    BY <1>6, <1>t, <1>l, NoRecSpawned, WorkerType DEF EndSave, WorkerGoes
  <2> QED BY <1>6, <1>k, <2>1 DEF EndSave
<1>7. CASE Release(d)
  <2>1. worker[d].at = "release" /\ worker'[d].at = "exited"
    BY <1>7, <1>t, <1>l, NoRecSpawned, WorkerType DEF Release, WorkerGoes
  <2> QED BY <1>7, <1>k, <2>1 DEF Release
<1>8. CASE WorkerDies(d)
  <2>1. worker[d].at \notin {"none", "exited"} /\ worker'[d].at = "exited"
    BY <1>8, <1>t, <1>l, NoRecSpawned, WorkerType DEF WorkerDies, WorkerGoes, Running
  <2> QED BY <1>8, <1>k, <2>1 DEF WorkerDies
<1> QED BY <1>1, <1>2, <1>3, <1>4, <1>5, <1>6, <1>7, <1>8 DEF WorkerStep

LEMMA CancelReach ==
    ASSUME Sole, IInv, Reach, NEW k \in Cancels, CancelGet(k) \/ CancelAllList(k) \/ CancelStep(k)
    PROVE  Reach'
<1>t. TypeOK
  BY DEF IInv
<1>r. Spawned(rec) /\ Spawned(cancel[k].rec)
  BY DEF Reach, Copies
<1>n. /\ rec \in RecordOrNone
      /\ cancel[k].at = "load" => Transitioned("cancelled") \in RecordOrNone
  BY <1>t, CopiesType DEF IInv, Created, TypeOK, RecordOrNone, Statuses, Terminals
<1>k. ASSUME mcp' = mcp, request' = request, rec' = rec, lost' = lost,
             NEW l \in CancelAt, NEW c \in RecordOrNone, CancelTakes(k, l, c),
             Spawned(c), l = "save" => c.status = "cancelled",
             worker' = worker
      PROVE  Reach'
  <2>1. /\ cancel'[k].at = l /\ cancel'[k].rec = c
        /\ \A e \in Cancels \ {k} : cancel'[e] = cancel[e]
    BY <1>k, <1>t, CancelType
  <2> QED BY <1>k, <2>1 DEF Reach, Copies, RunningReachable, Spawned
<1>1. CASE CancelGet(k) \/ CancelAllList(k)
  <2>1. \/ CancelTakes(k, "done", NoRec)
        \/ CancelTakes(k, "kill", rec)
    BY <1>1 DEF CancelGet, CancelAllList, CancelGoes
  <2>2. "done" \in CancelAt /\ "kill" \in CancelAt
    BY DEF CancelAt
  <2> QED BY <1>1, <1>k, <1>n, <1>r, <2>1, <2>2, NoRecSpawned DEF CancelGet, CancelAllList
<1>2. CASE CancelKill(k)
  <2>1. /\ cancel'[k].at = "load" /\ cancel'[k].rec = NoRec
        /\ \A e \in Cancels \ {k} : cancel'[e] = cancel[e]
    BY <1>2, <1>t, NoRecSpawned, CancelType DEF CancelKill, CancelGoes, CancelAt
  <2>2. \A d \in Dispatches : \/ worker'[d] = worker[d]
                              \/ /\ worker[d].at # "none"
                                 /\ worker'[d].at = "exited" /\ worker'[d].rec = NoRec
    <3>1. CASE worker' = worker
      BY <3>1
    <3>2. ASSUME cancel[k].rec.pid # None, WorkerGoes(cancel[k].rec.pid, "exited")
          PROVE  \A d \in Dispatches : \/ worker'[d] = worker[d]
                                       \/ /\ worker[d].at # "none"
                                          /\ worker'[d].at = "exited" /\ worker'[d].rec = NoRec
      <4> DEFINE p == cancel[k].rec.pid
      <4>1. p \in Dispatches
        <5>1. cancel[k].rec \in RecordOrNone
          BY <1>t DEF TypeOK
        <5> QED BY <3>2, <5>1 DEF RecordOrNone, Record, NoRec
      <4>2. worker[p].at # "none"
        BY <4>1, <1>r DEF Spawned
      <4>3. /\ worker'[p].at = "exited" /\ worker'[p].rec = NoRec
            /\ \A e \in Dispatches \ {p} : worker'[e] = worker[e]
        BY <3>2, <4>1, <1>t, NoRecSpawned, WorkerType DEF WorkerGoes, WorkerAt
      <4> QED BY <4>1, <4>2, <4>3
    <3> QED BY <1>2, <3>1, <3>2 DEF CancelKill
  <2>3. \A r : Spawned(r) => \A d \in Dispatches : r.pid = d => worker'[d].at # "none"
    BY <2>2 DEF Spawned
  <2>4. \A d \in Dispatches : NoRec.pid = d => worker'[d].at # "none"
    BY LifecycleAssumption DEF NoRec
  <2> QED BY <1>2, <2>1, <2>2, <2>3, <2>4 DEF CancelKill, Reach, Copies, RunningReachable, Spawned
<1>3. CASE CancelLoad(k)
  <2>1. \/ CancelTakes(k, "done", NoRec)
        \/ CancelTakes(k, "save", Transitioned("cancelled"))
    BY <1>3 DEF CancelLoad, CancelGoes
  <2>2. "done" \in CancelAt /\ "save" \in CancelAt /\ Transitioned("cancelled") \in RecordOrNone
    BY <1>3, <1>n DEF CancelAt, CancelLoad
  <2>3. Spawned(Transitioned("cancelled")) /\ Transitioned("cancelled").status = "cancelled"
    BY <1>r, CopiesPid DEF Spawned
  <2> QED BY <1>3, <1>k, <2>1, <2>2, <2>3, NoRecSpawned DEF CancelLoad
<1>4. CASE CancelSave(k)
  <2>1. /\ cancel'[k].at = "done" /\ cancel'[k].rec = NoRec
        /\ \A e \in Cancels \ {k} : cancel'[e] = cancel[e]
    BY <1>4, <1>t, NoRecSpawned, CancelType DEF CancelSave, CancelGoes, CancelAt
  <2>2. /\ UNCHANGED <<mcp, worker, request>>
        /\ Spawned(rec')
        /\ (rec' = rec /\ (lost => lost')) \/ rec'.status = "cancelled"
    BY <1>4, <1>r DEF CancelSave, Save, Reach, Copies
  <2> QED BY <2>1, <2>2, NoRecSpawned DEF Reach, Copies, RunningReachable, Spawned
<1> QED BY <1>1, <1>2, <1>3, <1>4 DEF CancelStep

LEMMA RequestReach ==
    ASSUME Sole, IInv, Reach, NEW q \in Requests, Wait(q) \/ RequestStep(q)
    PROVE  Reach'
<1>t. TypeOK
  BY DEF IInv
<1>r. Spawned(rec)
  BY DEF Reach, Copies
<1>k. ASSUME mcp' = mcp, worker' = worker, cancel' = cancel, rec' = rec, lost' = lost,
             NEW l \in RequestAt, NEW c \in RecordOrNone, RequestTakes(q, l, c),
             Spawned(c),
             l \in {"reap", "reapSave"} => \A d \in Dispatches : worker[d].at = "exited"
      PROVE  Reach'
  <2>1. /\ request'[q].at = l /\ request'[q].rec = c
        /\ \A e \in Requests \ {q} : request'[e] = request[e]
    BY <1>k, <1>t, RequestType
  <2> QED BY <1>k, <2>1 DEF Reach, Copies, RunningReachable, Spawned
<1>l. RequestAt = {"idle", "probe", "reap", "reapSave", "get", "poll"}
  BY DEF RequestAt
<1>1. CASE Wait(q) \/ Get(q) \/ AnswerTerminal(q) \/ AnswerTimedOut(q)
  <2>1. PICK l \in {"probe", "get", "idle", "poll"} : RequestTakes(q, l, NoRec)
    BY <1>1 DEF Wait, Get, AnswerTerminal, AnswerTimedOut, RequestGoes
  <2> QED BY <1>1, <1>k, <1>l, <2>1, NoRecSpawned DEF Wait, Get, AnswerTerminal, AnswerTimedOut
<1>2. CASE Probe(q)
  <2>1. CASE DeadPid(rec)
    <3>1. rec.pid \in Dispatches
      BY <2>1, <1>t DEF DeadPid, TypeOK, RecordOrNone, Record, NoRec
    <3>2. worker[rec.pid].at = "exited"
      BY <2>1, <3>1, <1>r DEF DeadPid, Running, Spawned
    <3>3. \A d \in Dispatches : worker[d].at = "exited"
      BY <3>1, <3>2 DEF Sole
    <3>4. RequestTakes(q, "reap", NoRec)
      BY <1>2, <2>1 DEF Probe, RequestGoes
    <3> QED BY <1>2, <1>k, <1>l, <3>3, <3>4, NoRecSpawned DEF Probe
  <2>2. CASE ~DeadPid(rec)
    <3>1. RequestTakes(q, "get", NoRec)
      BY <1>2, <2>2 DEF Probe, RequestGoes
    <3> QED BY <1>2, <1>k, <1>l, <3>1, NoRecSpawned DEF Probe
  <2> QED BY <2>1, <2>2
<1>3. CASE ReapLoad(q)
  <2>1. \A d \in Dispatches : worker[d].at = "exited"
    BY <1>3 DEF ReapLoad, Reach, Copies
  <2>2. \/ RequestTakes(q, "get", NoRec)
        \/ RequestTakes(q, "reapSave", Transitioned("failed"))
    BY <1>3 DEF ReapLoad, RequestGoes
  <2>3. Transitioned("failed") \in RecordOrNone /\ Spawned(Transitioned("failed"))
    <3>1. rec \in Record
      BY <1>3, <1>t DEF ReapLoad, IInv, Created, TypeOK, RecordOrNone
    <3>2. Transitioned("failed") \in RecordOrNone
      BY <3>1, CopiesType DEF RecordOrNone, Statuses, Terminals
    <3> QED BY <3>2, <1>r, CopiesPid DEF Spawned
  <2> QED BY <1>3, <1>k, <1>l, <2>1, <2>2, <2>3, NoRecSpawned DEF ReapLoad
<1>4. CASE ReapSave(q)
  <2>1. \A d \in Dispatches : worker[d].at = "exited"
    BY <1>4 DEF ReapSave, Reach, Copies
  <2>2. /\ request'[q].at = "get" /\ request'[q].rec = NoRec
        /\ \A e \in Requests \ {q} : request'[e] = request[e]
    BY <1>4, <1>t, <1>l, NoRecSpawned, RequestType DEF ReapSave, RequestGoes
  <2>3. UNCHANGED <<mcp, worker, cancel>> /\ Spawned(rec')
    BY <1>4, <1>r DEF ReapSave, Save, Reach, Copies
  <2> QED BY <2>1, <2>2, <2>3, NoRecSpawned DEF Reach, Copies, RunningReachable, Spawned
<1> QED BY <1>1, <1>2, <1>3, <1>4 DEF RequestStep

(* The record of a task that is dispatched once names the pid of the worker *)
(* that runs it, so that a cancel kills it, unless a cancel that raced the  *)
(* dispatch has recorded its end or the claim could not be written: for any *)
(* number of cancels and waits (handle_task, run_job_with_engine, reaper).  *)
THEOREM RunningIsReachable ==
    ASSUME Sole
    PROVE  Spec => []RunningReachable
<1>1. IInv /\ Reach /\ [Next]_vars => Reach'
  <2> SUFFICES ASSUME IInv, Reach, [Next]_vars PROVE Reach'
    OBVIOUS
  <2>1. CASE UNCHANGED vars
    BY <2>1 DEF vars, Reach, Copies, RunningReachable, Spawned
  <2> QED BY <2>1, McpReach, WorkerReach, CancelReach, RequestReach DEF Next
<1>2. Reach => RunningReachable
  BY DEF Reach
<1> QED BY <1>1, <1>2, InitReach, IInvCorrect, PTL DEF Spec

-----------------------------------------------------------------------------
(* The machines of Parts                                                   *)

-----------------------------------------------------------------------------
(* The inductive invariants                                                *)

\* What a reader has taken from its pipe is kept up to the cap.
Drained ==
    \A s \in Shell!Streams :
        /\ pipe[s] <= written[s]
        /\ kept[s] = Shell!Least(Cap, written[s] - pipe[s])
        /\ cut[s] <=> Cap < written[s] - pipe[s]

\* A reader that has seen the end has read all, and nothing is left that writes.
EndsSeen ==
    \A s \in Shell!Streams \ reading : pipe[s] = 0 /\ \A p \in Shell!Procs : proc[p] # "running"

ShellInv ==
    /\ Shell!TypeOK
    /\ proc[Main] # "unborn"
    /\ Drained
    /\ EndsSeen
    /\ shellPc = "done" => reading = {}
    /\ Shell!GroupGone

-----------------------------------------------------------------------------

\* The path, and a rewrite in place, name the original or a text that was
\* reported as written; only the original is there from the start.
Linked ==
    /\ link \in Calls => callAnswer[link] = "written"
    /\ \A c \in Calls :
          /\ opened[c] \in Calls => callAnswer[opened[c]] = "written"
          /\ opened[c] # NoFile => link # NoFile
          /\ opened[c] \in Calls => link # Original

\* Where a call can be, by its tool and what it has opened.
Places ==
    \A c \in Calls :
        /\ callAnswer[c] # "none" => callPc[c] = "done"
        /\ callPc[c] = "done" => callAnswer[c] # "none"
        /\ callPc[c] \in {"write", "rename"} => tool[c] # "ast_replace"
        /\ callPc[c] \in {"open", "put"} => tool[c] = "ast_replace"
        /\ opened[c] # NoFile => tool[c] = "ast_replace"
        /\ callPc[c] = "put" => opened[c] # NoFile

\* A text on its way into the file, or written, shows its call's edit, and is in
\* the temporary file before the rename.
Planned ==
    \A c \in Calls :
        /\ callPc[c] \in {"write", "rename", "open", "put"} \/ callAnswer[c] = "written"
              => c \in plan[c].shows
        /\ callPc[c] = "rename" => data[c] = plan[c]

\* Without a rewrite in place only whole texts are on their way.
PlannedWhole ==
    Writes!Rewrites = {} => \A c \in Calls : callPc[c] \in {"write", "rename"} => plan[c].whole

\* Once a text has been reported as written, a whole file is one that was.
Told ==
    link # NoFile /\ data[link].whole =>
        \/ \A c \in Calls : callAnswer[c] # "written"
        \/ \E c \in Calls : callAnswer[c] = "written" /\ data[link] = plan[c]

TempsOf ==
    \A c \in temps : callPc[c] \in {"rename", "dead"} \/ callAnswer[c] = "failed"

PlaceInv == Writes!TypeOK /\ Linked /\ Places /\ TempsOf

TextInv == Planned /\ PlannedWhole /\ Told /\ Writes!FileWhole

-----------------------------------------------------------------------------

\* The servers that came up are distinct and are of the commands tried so far.
CameUp ==
    /\ servers \in Seq(Bridge!Procs)
    /\ Len(servers) <= Len(Commands)
    /\ \A i, j \in DOMAIN servers : servers[i] = servers[j] => i = j
    /\ phase = "spawn" =>
          /\ Len(servers) < next
          /\ \A i \in DOMAIN servers : \E j \in 1..next - 1 : servers[i] = Commands[j]

\* Each command is tried in its turn, and one whose server is up is a server.
Tried ==
    /\ \A i \in DOMAIN Commands : phase # "spawn" \/ i < next => server[Commands[i]] # "unborn"
    /\ \A p \in Bridge!Procs : server[p] = "up" => \E i \in DOMAIN servers : servers[i] = p
    /\ phase = "refused" => servers = <<>>

\* The server that is called is the first that lists the name.
Reached ==
    phase = "call" =>
        \E k \in DOMAIN servers :
            /\ call.by = servers[k]
            /\ call.name \in Bridge!FullNames(servers[k])
            /\ \A i \in 1..k - 1 : call.name \notin Bridge!FullNames(servers[i])

\* A shutdown ends the servers one by one.
Ended ==
    /\ phase \in {"close", "drop"} => next <= Len(servers) + 1
    /\ phase \in {"close", "done"} =>
          \A i \in DOMAIN servers : phase = "done" \/ i < next => server[servers[i]] = "gone"

BridgeInv ==
    /\ Bridge!TypeOK
    /\ CameUp
    /\ Tried
    /\ Reached
    /\ Ended

-----------------------------------------------------------------------------

Node == [id : Nat \X Nat, parents : SUBSET (Nat \X Nat),
         fitness : Scores \cup {Evolution!Unscored}, at : Nat]

\* The parents of the commit at i: the one before it, if that was scored.
Before(ns, i) ==
    IF i > 1 /\ ns[i - 1].fitness # Evolution!Unscored THEN {ns[i - 1].id} ELSE {}

\* A lineage: ids are distinct, and each commit is built on the one before it.
Descent(ns) ==
    /\ ns \in Seq(Node)
    /\ \A i, j \in DOMAIN ns : ns[i].id = ns[j].id => i = j
    /\ \A i \in DOMAIN ns : ns[i].parents = Before(ns, i)

\* What a run that no other overlapped holds in memory.
Alone ==
    \A r \in Runs \ overlapped :
        /\ runPc[r] = "commit" => nodes[r] = file
        /\ runPc[r] = "save" => /\ Len(nodes[r]) = Len(file) + 1
                                /\ SubSeq(nodes[r], 1, Len(file)) = file

LineageInv ==
    /\ runPc \in [Runs -> {"idle", "commit", "save", "dead"}]
    /\ now \in Nat
    /\ overlapped \subseteq Runs
    /\ Descent(file)
    /\ DOMAIN nodes = Runs
    /\ \A r \in Runs : Descent(nodes[r])
    /\ Alone
    /\ fileCut => \E r \in Runs : runPc[r] = "dead"

-----------------------------------------------------------------------------
(* One call of the shell tool                                              *)

\* What ShellAssumption says.
LEMMA ShellConstants ==
    /\ Cap \in Nat /\ Cap > 0 /\ PipeSize \in Nat /\ PipeSize > 0 /\ MaxBytes \in Nat
    /\ Main \in Shell!Group /\ Shell!Group \subseteq Shell!Procs
  BY PartsAssumption DEF Shell!ShellAssumption, Shell!Group, Shell!Procs

\* ShellInv holds of a command that has been spawned.
LEMMA ShellStarts == Shell!Init => ShellInv
  <1> SUFFICES ASSUME Shell!Init PROVE ShellInv
    OBVIOUS
  <1> USE DEF Shell!Init
  <1>1. Shell!TypeOK
    <2>1. 0 \in 0..PipeSize /\ 0 \in 0..MaxBytes /\ 0 \in 0..Cap
      BY ShellConstants
    <2>2. proc \in [Shell!Procs -> {"unborn", "running", "exited", "failed", "killed"}]
      OBVIOUS
    <2> QED
      BY <2>1, <2>2 DEF Shell!TypeOK
  <1>2. proc[Main] = "running"
    BY ShellConstants
  <1>3. Drained
    BY ShellConstants DEF Drained, Shell!Least
  <1>4. EndsSeen /\ Shell!GroupGone
    BY DEF EndsSeen, Shell!GroupGone
  <1> QED
    BY <1>1, <1>2, <1>3, <1>4 DEF ShellInv

\* A step of the command keeps ShellInv: a process is started by one of the
\* group only, and what is written enters the pipe.
LEMMA CommandKeeps == ShellInv /\ Shell!Command => ShellInv'
  <1> SUFFICES ASSUME ShellInv, Shell!Command PROVE ShellInv'
    OBVIOUS
  <1> USE ShellConstants DEF ShellInv, Shell!readVars
  <1>1. ASSUME NEW p \in Shell!Procs, Shell!Fork(p) PROVE ShellInv'
    <2> USE <1>1 DEF Shell!Fork, Shell!Running
    <2>1. Shell!TypeOK'
      BY DEF Shell!TypeOK
    <2>2. (proc[Main] # "unborn")' /\ Shell!GroupGone'
      BY DEF Shell!TypeOK, Shell!GroupGone
    <2>3. Drained'
      BY DEF Drained
    <2>4. EndsSeen'
      BY DEF EndsSeen
    <2> QED
      BY <2>1, <2>2, <2>3, <2>4
  <1>2. ASSUME NEW p \in Shell!Procs, Shell!Exit(p) PROVE ShellInv'
    <2> USE <1>2 DEF Shell!Exit, Shell!Running
    <2>0. PICK end \in {"exited", "failed", "killed"} : proc' = [proc EXCEPT ![p] = end]
      OBVIOUS
    <2>1. Shell!TypeOK'
      BY <2>0 DEF Shell!TypeOK
    <2>2. (proc[Main] # "unborn")' /\ Shell!GroupGone'
      BY <2>0 DEF Shell!TypeOK, Shell!GroupGone
    <2>3. Drained'
      BY DEF Drained
    <2>4. EndsSeen'
      BY <2>0 DEF EndsSeen, Shell!TypeOK
    <2> QED
      BY <2>1, <2>2, <2>3, <2>4
  <1>3. ASSUME NEW p \in Shell!Procs, NEW s \in Shell!Streams, NEW n \in 1..PipeSize,
               Shell!Write(p, s, n)
        PROVE  ShellInv'
    <2> USE <1>3 DEF Shell!Write, Shell!Running
    <2>0. pipe[s] \in Nat /\ written[s] \in Nat /\ n \in Nat
      BY DEF Shell!TypeOK
    <2>1. Shell!TypeOK'
      BY <2>0 DEF Shell!TypeOK
    <2>2. (proc[Main] # "unborn")' /\ Shell!GroupGone'
      BY DEF Shell!TypeOK, Shell!GroupGone
    <2>3. Drained'
      <3>1. pipe'[s] = pipe[s] + n /\ written'[s] = written[s] + n
        BY DEF Shell!TypeOK
      <3>2. \A t \in Shell!Streams \ {s} : pipe'[t] = pipe[t] /\ written'[t] = written[t]
        BY DEF Shell!TypeOK
      <3>3. written'[s] - pipe'[s] = written[s] - pipe[s]
        BY <2>0, <3>1
      <3> QED
        BY <2>0, <3>1, <3>2, <3>3 DEF Drained
    <2>4. EndsSeen'
      BY DEF EndsSeen, Shell!TypeOK
    <2> QED
      BY <2>1, <2>2, <2>3, <2>4
  <1> QED
    BY <1>1, <1>2, <1>3 DEF Shell!Command

\* A reader keeps ShellInv.
LEMMA ReaderKeeps ==
    ASSUME NEW s \in Shell!Streams
    PROVE  ShellInv /\ Shell!Reader(s) => ShellInv'
  <1> SUFFICES ASSUME ShellInv, Shell!Reader(s) PROVE ShellInv'
    OBVIOUS
  <1> USE ShellConstants DEF ShellInv
  <1>1. ASSUME Shell!Drain(s) PROVE ShellInv'
    <2> USE <1>1 DEF Shell!Drain
    <2>0. PICK n \in 1..pipe[s] : /\ pipe' = [pipe EXCEPT ![s] = @ - n]
                                  /\ Shell!Take(s, n)
      OBVIOUS
    <2>t. pipe[s] \in Nat /\ written[s] \in Nat /\ kept[s] \in Nat /\ n \in Nat /\ n <= pipe[s]
      BY <2>0 DEF Shell!TypeOK
    <2>p. pipe'[s] = pipe[s] - n
      BY <2>0 DEF Shell!TypeOK
    <2>k. /\ kept'[s] = IF kept[s] + n > Cap THEN Cap ELSE kept[s] + n
          /\ cut'[s] <=> cut[s] \/ kept[s] + n > Cap
      BY <2>0 DEF Shell!TypeOK, Shell!Take
    <2>o. \A t \in Shell!Streams \ {s} :
              pipe'[t] = pipe[t] /\ kept'[t] = kept[t] /\ cut'[t] = cut[t]
      BY <2>0 DEF Shell!TypeOK, Shell!Take
    <2>1. Shell!TypeOK'
      <3>1. pipe' \in [Shell!Streams -> 0..PipeSize]
        BY <2>0, <2>t, <2>p, <2>o DEF Shell!TypeOK
      <3>2. kept' \in [Shell!Streams -> 0..Cap]
        BY <2>0, <2>t, <2>k, <2>o DEF Shell!TypeOK, Shell!Take
      <3>3. cut' \in [Shell!Streams -> BOOLEAN]
        BY <2>0 DEF Shell!TypeOK, Shell!Take
      <3> QED
        BY <3>1, <3>2, <3>3 DEF Shell!TypeOK
    <2>3. Drained'
      <3>1. pipe[s] <= written[s]
        BY DEF Drained
      <3>2. kept[s] = IF Cap < written[s] - pipe[s] THEN Cap ELSE written[s] - pipe[s]
        BY DEF Drained, Shell!Least
      <3>3. cut[s] <=> Cap < written[s] - pipe[s]
        BY DEF Drained
      <3>4. written'[s] = written[s]
        OBVIOUS
      <3>5. \A w, q, k, m, c \in Nat :
                /\ q <= w /\ m <= q
                /\ k = IF c < w - q THEN c ELSE w - q
                => /\ q - m <= w
                   /\ (k + m > c \/ c < w - q) <=> c < w - (q - m)
                   /\ (IF k + m > c THEN c ELSE k + m) = IF c < w - (q - m) THEN c ELSE w - (q - m)
        OBVIOUS
      <3>6. /\ pipe[s] - n <= written[s]
            /\ (kept[s] + n > Cap \/ Cap < written[s] - pipe[s]) <=> Cap < written[s] - (pipe[s] - n)
            /\ (IF kept[s] + n > Cap THEN Cap ELSE kept[s] + n)
                = IF Cap < written[s] - (pipe[s] - n) THEN Cap ELSE written[s] - (pipe[s] - n)
        BY <2>t, <3>1, <3>2, <3>5
      <3>7. pipe'[s] <= written'[s] /\ kept'[s] = Shell!Least(Cap, written'[s] - pipe'[s])
        BY <3>4, <3>6, <2>k, <2>p DEF Shell!Least
      <3>8. cut'[s] <=> Cap < written'[s] - pipe'[s]
        BY <3>3, <3>4, <3>6, <2>k, <2>p
      <3>9. \A t \in Shell!Streams \ {s} :
               /\ pipe'[t] <= written'[t]
               /\ kept'[t] = Shell!Least(Cap, written'[t] - pipe'[t])
               /\ cut'[t] <=> Cap < written'[t] - pipe'[t]
        BY <2>o DEF Drained
      <3> QED
        BY <3>7, <3>8, <3>9 DEF Drained
    <2>4. EndsSeen'
      BY <2>o DEF EndsSeen
    <2>5. (proc[Main] # "unborn")' /\ Shell!GroupGone'
      BY DEF Shell!GroupGone, Shell!Running
    <2> QED
      BY <2>1, <2>3, <2>4, <2>5
  <1>2. ASSUME Shell!ReadEnd(s) PROVE ShellInv'
    <2> USE <1>2 DEF Shell!ReadEnd, Shell!procVars, Shell!Running
    <2>1. Shell!TypeOK'
      BY DEF Shell!TypeOK
    <2>2. Drained'
      BY DEF Drained
    <2>3. EndsSeen' /\ Shell!GroupGone'
      BY DEF EndsSeen, Shell!GroupGone
    <2>4. (shellPc = "done" => reading = {})'
      OBVIOUS
    <2> QED
      BY <2>1, <2>2, <2>3, <2>4
  <1> QED
    BY <1>1, <1>2 DEF Shell!Reader

\* The executor keeps ShellInv.
LEMMA ExecutorKeeps == ShellInv /\ (Shell!Executor \/ Shell!PollFails) => ShellInv'
  <1> SUFFICES ASSUME ShellInv, Shell!Executor \/ Shell!PollFails PROVE ShellInv'
    OBVIOUS
  <1> USE ShellConstants DEF ShellInv, Shell!procVars, Shell!readVars
  <1>1. ASSUME Shell!Poll PROVE ShellInv'
    <2>1. Shell!TypeOK'
      BY <1>1 DEF Shell!Poll, Shell!TypeOK, Shell!Running
    <2>2. Shell!GroupGone'
      BY <1>1 DEF Shell!Poll, Shell!TypeOK, Shell!GroupGone, Shell!Running
    <2> QED
      BY <1>1, <2>1, <2>2 DEF Shell!Poll, Drained, EndsSeen
  <1>2. ASSUME Shell!KillGroup PROVE ShellInv'
    <2> USE <1>2 DEF Shell!KillGroup, Shell!Running
    <2>1. Shell!TypeOK'
      BY DEF Shell!TypeOK
    <2>2. Shell!GroupGone' /\ EndsSeen'
      BY DEF Shell!GroupGone, EndsSeen
    <2>3. (proc[Main] # "unborn")' /\ Drained'
      BY DEF Drained
    <2> QED
      BY <2>1, <2>2, <2>3
  <1>3. ASSUME Shell!Join \/ Shell!PollFails PROVE ShellInv'
    BY <1>3 DEF Shell!Join, Shell!PollFails, Shell!TypeOK, Drained, EndsSeen, Shell!GroupGone,
                Shell!Running
  <1> QED
    BY <1>1, <1>2, <1>3 DEF Shell!Executor

\* ShellInv is inductive.
LEMMA ShellStepKeeps == ShellInv /\ [Shell!Next]_shellVars => ShellInv'
  <1> SUFFICES ASSUME ShellInv, [Shell!Next]_shellVars PROVE ShellInv'
    OBVIOUS
  <1>1. CASE Shell!Deadline \/ Shell!Answered \/ UNCHANGED shellVars
    BY <1>1 DEF Shell!Deadline, Shell!Answered, shellVars, Shell!vars, Shell!procVars,
                Shell!readVars, ShellInv, Shell!TypeOK, Drained, EndsSeen, Shell!GroupGone,
                Shell!Running
  <1> QED
    BY <1>1, CommandKeeps, ReaderKeeps, ExecutorKeeps DEF Shell!Next

\* OutputExact and GroupGone follow.
LEMMA ShellPromises == ShellInv => Shell!TypeOK /\ Shell!OutputExact /\ Shell!GroupGone
  <1> SUFFICES ASSUME ShellInv, shellPc = "done", NEW s \in Shell!Streams
               PROVE  /\ kept[s] = Shell!Least(Cap, written[s])
                      /\ cut[s] <=> kept[s] < written[s]
    BY DEF ShellInv, Shell!OutputExact
  <1>1. pipe[s] = 0 /\ written[s] \in Nat /\ Cap \in Nat
    BY ShellConstants DEF ShellInv, EndsSeen, Shell!TypeOK
  <1>2. kept[s] = Shell!Least(Cap, written[s] - pipe[s]) /\ (cut[s] <=> Cap < written[s] - pipe[s])
    BY DEF ShellInv, Drained
  <1>3. written[s] - pipe[s] = written[s]
    BY <1>1
  <1>4. kept[s] = Shell!Least(Cap, written[s])
    BY <1>2, <1>3
  <1>5. cut[s] <=> Cap < written[s]
    BY <1>2, <1>3
  <1>6. Cap < written[s] <=> Shell!Least(Cap, written[s]) < written[s]
    BY <1>1 DEF Shell!Least
  <1> QED
    BY <1>4, <1>5, <1>6

-----------------------------------------------------------------------------
(* The calls that write one file                                           *)

\* What FileAssumption says.
LEMMA WriteConstants ==
    /\ Original \notin Calls /\ NoFile \notin Calls /\ Original # NoFile
    /\ Writes!Inodes = Calls \cup {Original}
  BY PartsAssumption DEF Writes!FileAssumption, Writes!Inodes

\* The texts the calls make.
LEMMA TextsMade ==
    /\ Writes!Empty \in Writes!Texts
    /\ Writes!Empty.shows = {} /\ Writes!Empty.whole = FALSE
    /\ \A c \in Calls : [shows |-> {c}, whole |-> TRUE] \in Writes!Texts
    /\ \A t \in Writes!Texts, c \in Calls :
          /\ [t EXCEPT !.shows = @ \cup {c}] \in Writes!Texts
          /\ [t EXCEPT !.shows = @ \cup {c}].shows = t.shows \cup {c}
          /\ [t EXCEPT !.shows = @ \cup {c}].whole = t.whole
  BY DEF Writes!Texts, Writes!Empty

\* Both invariants hold before any call.
LEMMA WriteStarts == Writes!Init => PlaceInv /\ TextInv
  <1> SUFFICES ASSUME Writes!Init PROVE PlaceInv /\ TextInv
    OBVIOUS
  <1> USE WriteConstants, TextsMade DEF Writes!Init
  <1>1. Writes!TypeOK
    <2>1. \A i \in Writes!Inodes : [shows |-> {}, whole |-> i = Original] \in Writes!Texts
      BY DEF Writes!Texts
    <2> QED
      BY <2>1 DEF Writes!TypeOK
  <1>2. Linked /\ Places /\ Planned /\ PlannedWhole /\ TempsOf
    BY DEF Linked, Places, Planned, PlannedWhole, TempsOf
  <1>3. Told
    BY DEF Told
  <1>4. Writes!FileWhole
    BY DEF Writes!FileWhole
  <1> QED
    BY <1>1, <1>2, <1>3, <1>4 DEF PlaceInv, TextInv

\* A step of c leaves the other calls alone; a call is done when it has answered,
\* and has a temporary file only where it may.
Steps(c) ==
    /\ tool' = tool
    /\ \A d \in Calls \ {c} :
          /\ callPc'[d] = callPc[d] /\ callAnswer'[d] = callAnswer[d]
          /\ plan'[d] = plan[d] /\ opened'[d] = opened[d]
    /\ callAnswer[c] = "none"
    /\ callPc'[c] = "done" <=> callAnswer'[c] # "none"
    /\ temps' \subseteq temps \cup {c}
    /\ c \in temps' => callPc'[c] \in {"rename", "dead"} \/ callAnswer'[c] = "failed"

\* What a step does to the texts: nothing,
Quiet(c) ==
    /\ link' = link /\ data' = data /\ plan' = plan /\ opened' = opened
    /\ callPc'[c] \in {"read", "done", "dead"}
    /\ callAnswer'[c] # "written"

\* or it plans a text of its own or one made from the file's,
Plans(c) ==
    /\ link' = link /\ data' = data /\ opened' = opened
    /\ callPc[c] = "read"
    /\ callPc'[c] = IF tool[c] = "ast_replace" THEN "open" ELSE "write"
    /\ \/ plan'[c].shows = {c} /\ plan'[c].whole
       \/ /\ link # NoFile
          /\ plan'[c].shows = data[link].shows \cup {c}
          /\ plan'[c].whole = data[link].whole

\* writes the temporary file or a part of it,
FillsTemp(c) ==
    /\ link' = link /\ plan' = plan /\ opened' = opened
    /\ callPc[c] = "write"
    /\ \/ callPc'[c] = "rename" /\ data' = [data EXCEPT ![c] = plan[c]]
       \/ callPc'[c] \in {"done", "dead"} /\ data' = [data EXCEPT ![c] = Writes!Empty]
    /\ callAnswer'[c] # "written"

\* puts it in the file's place,
TakesPlace(c) ==
    /\ link' = c /\ data' = data /\ plan' = plan /\ opened' = opened
    /\ callPc[c] = "rename" /\ callPc'[c] = "done" /\ callAnswer'[c] = "written"

\* empties the file,
Empties(c) ==
    /\ link' = link /\ plan' = plan /\ link # NoFile
    /\ callPc[c] = "open" /\ callPc'[c] = "put"
    /\ data' = [data EXCEPT ![link] = Writes!Empty]
    /\ opened'[c] = link

\* or fills what it had emptied.
Refills(c) ==
    /\ link' = link /\ plan' = plan /\ opened' = opened
    /\ callPc[c] = "put" /\ callPc'[c] = "done" /\ callAnswer'[c] = "written"
    /\ data' = [data EXCEPT ![opened[c]] = plan[c]]

Does(c) ==
    \/ Quiet(c) \/ Plans(c) \/ FillsTemp(c)
    \/ TakesPlace(c) \/ Empties(c) \/ Refills(c)

\* What an update of a function of the calls is.
LEMMA Updated ==
    ASSUME NEW S, NEW T, NEW f \in [S -> T], NEW x \in S, NEW v \in T
    PROVE  /\ [f EXCEPT ![x] = v] \in [S -> T]
           /\ [f EXCEPT ![x] = v][x] = v
           /\ \A y \in S \ {x} : [f EXCEPT ![x] = v][y] = f[y]
  OBVIOUS

\* Each action is one of these, and keeps the types.
LEMMA ChecksDo ==
    ASSUME NEW c \in Calls, Writes!TypeOK, Places, TempsOf,
           \/ Writes!Begin(c) \/ Writes!CheckWrite(c)
           \/ Writes!ReadForEdit(c) \/ Writes!ReadForRewrite(c)
    PROVE  Writes!TypeOK' /\ Steps(c) /\ Does(c)
  <1>a. /\ callAnswer[c] = "none" /\ c \notin temps
        /\ temps' = temps /\ tool' = tool
        /\ link' = link /\ data' = data /\ opened' = opened
    BY DEF Writes!Begin, Writes!CheckWrite, Writes!ReadForEdit, Writes!ReadForRewrite, Places, TempsOf
  <1>1. ASSUME NEW l \in {"read", "done"}, NEW a \in {"none", "refused", "rolled back"},
               plan' = plan, callPc' = [callPc EXCEPT ![c] = l],
               callAnswer' = [callAnswer EXCEPT ![c] = a], l = "done" <=> a # "none"
        PROVE  Writes!TypeOK' /\ Steps(c) /\ Does(c)
    <2>3. Writes!TypeOK'
      BY <1>1, <1>a DEF Writes!TypeOK
    <2>4. Steps(c)
      BY <1>1, <1>a DEF Writes!TypeOK, Steps
    <2>5. Quiet(c)
      BY <1>1, <1>a DEF Writes!TypeOK, Quiet
    <2> QED
      BY <2>3, <2>4, <2>5 DEF Does
  <1>2. ASSUME NEW t \in Writes!Texts, NEW l \in {"write", "open"},
               plan' = [plan EXCEPT ![c] = t], callPc' = [callPc EXCEPT ![c] = l],
               callAnswer' = callAnswer, callPc[c] = "read",
               l = "open" <=> tool[c] = "ast_replace",
               \/ t.shows = {c} /\ t.whole
               \/ link # NoFile /\ t.shows = data[link].shows \cup {c} /\ t.whole = data[link].whole
        PROVE  Writes!TypeOK' /\ Steps(c) /\ Does(c)
    <2>3. Writes!TypeOK'
      BY <1>2, <1>a DEF Writes!TypeOK
    <2>4. Steps(c)
      BY <1>2, <1>a DEF Writes!TypeOK, Steps
    <2>5. Plans(c)
      BY <1>2, <1>a DEF Writes!TypeOK, Plans
    <2> QED
      BY <2>3, <2>4, <2>5 DEF Does
  <1>3. ASSUME Writes!CheckWrite(c) PROVE Writes!TypeOK' /\ Steps(c) /\ Does(c)
    BY <1>3, <1>1, <1>2, TextsMade DEF Writes!CheckWrite, Writes!Goto, Writes!End
  <1>4. ASSUME Writes!ReadForEdit(c) \/ Writes!ReadForRewrite(c)
        PROVE  Writes!TypeOK' /\ Steps(c) /\ Does(c)
    <2>1. CASE /\ link # NoFile
               /\ plan' = [plan EXCEPT ![c] = [data[link] EXCEPT !.shows = @ \cup {c}]]
               /\ UNCHANGED callAnswer
      <3>1. data[link] \in Writes!Texts
        BY <2>1, WriteConstants DEF Writes!TypeOK
      <3> DEFINE t == [data[link] EXCEPT !.shows = @ \cup {c}]
      <3>2. t \in Writes!Texts /\ t.shows = data[link].shows \cup {c} /\ t.whole = data[link].whole
        BY <3>1, TextsMade
      <3>3. callAnswer # [callAnswer EXCEPT ![c] = "refused"]
            /\ callAnswer # [callAnswer EXCEPT ![c] = "rolled back"]
        BY <1>a DEF Writes!TypeOK
      <3>5. PICK l \in {"write", "open"} : /\ callPc' = [callPc EXCEPT ![c] = l]
                                           /\ l = "open" <=> tool[c] = "ast_replace"
        BY <1>4, <2>1, <3>3 DEF Writes!ReadForEdit, Writes!ReadForRewrite, Writes!Goto, Writes!End
      <3>4. callPc[c] = "read"
        BY <1>4 DEF Writes!ReadForEdit, Writes!ReadForRewrite
      <3>6. plan' = [plan EXCEPT ![c] = t] /\ callAnswer' = callAnswer
        BY <2>1
      <3> HIDE DEF t
      <3> QED
        BY <1>2, <2>1, <3>2, <3>4, <3>5, <3>6
    <2> QED
      BY <1>1, <1>4, <2>1 DEF Writes!ReadForEdit, Writes!ReadForRewrite, Writes!End, Writes!Goto
  <1>5. ASSUME Writes!Begin(c) PROVE Writes!TypeOK' /\ Steps(c) /\ Does(c)
    <2>1. callAnswer = [callAnswer EXCEPT ![c] = "none"]
      BY <1>a DEF Writes!TypeOK
    <2> QED
      BY <1>5, <1>1, <2>1 DEF Writes!Begin, Writes!Goto
  <1> QED
    BY <1>3, <1>4, <1>5

\* So is the writing of a temporary file, and a death.
LEMMA TempDoes ==
    ASSUME NEW c \in Calls, Writes!TypeOK, Places, TempsOf, Linked,
           Writes!WriteTemp(c) \/ Writes!Die(c)
    PROVE  Writes!TypeOK' /\ Steps(c) /\ Does(c)
  <1>a. /\ callAnswer[c] = "none"
        /\ tool' = tool /\ link' = link /\ plan' = plan /\ opened' = opened
    BY DEF Writes!WriteTemp, Writes!Die, Places
  <1>1. CASE temps' = temps /\ data' = data /\ Writes!Die(c)
    <2>1. callPc' = [callPc EXCEPT ![c] = "dead"] /\ callAnswer' = callAnswer
      BY <1>1 DEF Writes!Die, Writes!Goto
    <2>3. Writes!TypeOK'
      BY <1>1, <1>a, <2>1 DEF Writes!TypeOK
    <2>4. Steps(c)
      BY <1>1, <1>a, <2>1 DEF Writes!TypeOK, Steps
    <2>5. Quiet(c)
      BY <1>1, <1>a, <2>1 DEF Writes!TypeOK, Quiet
    <2> QED
      BY <2>3, <2>4, <2>5 DEF Does
  <1>2. ASSUME NEW x \in {plan[c], Writes!Empty}, NEW l \in {"rename", "done", "dead"},
               NEW a \in {"none", "failed"}, callPc[c] = "write",
               temps' = temps \cup {c}, data' = [data EXCEPT ![c] = x],
               callPc' = [callPc EXCEPT ![c] = l], callAnswer' = [callAnswer EXCEPT ![c] = a],
               l = "done" <=> a = "failed", x = IF l = "rename" THEN plan[c] ELSE Writes!Empty
        PROVE  Writes!TypeOK' /\ Steps(c) /\ Does(c)
    <2>0. plan[c] \in Writes!Texts /\ Writes!Empty \in Writes!Texts /\ c \in Writes!Inodes
      BY TextsMade, WriteConstants DEF Writes!TypeOK
    <2>3. Writes!TypeOK'
      BY <1>2, <1>a, <2>0 DEF Writes!TypeOK
    <2>4. Steps(c)
      BY <1>2, <1>a DEF Writes!TypeOK, Steps
    <2>5. FillsTemp(c)
      BY <1>2, <1>a DEF Writes!TypeOK, FillsTemp
    <2> QED
      BY <2>3, <2>4, <2>5 DEF Does
  <1>3. callAnswer = [callAnswer EXCEPT ![c] = "none"]
    BY <1>a DEF Writes!TypeOK
  <1>4. CASE Writes!WriteTemp(c)
    BY <1>2, <1>3, <1>4 DEF Writes!WriteTemp, Writes!Goto, Writes!End
  <1>5. CASE Writes!Die(c)
    BY <1>1, <1>2, <1>3, <1>5 DEF Writes!Die, Writes!Goto
  <1> QED
    BY <1>4, <1>5

\* So are the rename and both steps of a rewrite in place.
LEMMA PlacesDo ==
    ASSUME NEW c \in Calls, Writes!TypeOK, Places, TempsOf, Linked,
           Writes!Rename(c) \/ Writes!OpenInPlace(c) \/ Writes!PutInPlace(c)
    PROVE  Writes!TypeOK' /\ Steps(c) /\ Does(c)
  <1>a. /\ callAnswer[c] = "none"
        /\ tool' = tool /\ plan' = plan
    BY DEF Writes!Rename, Writes!OpenInPlace, Writes!PutInPlace, Places
  <1>b. c \in Writes!Inodes /\ Writes!Empty \in Writes!Texts
    BY WriteConstants, TextsMade
  <1>1. ASSUME NEW a \in {"refused", "rolled back"}, Writes!End(c, a),
               link' = link, data' = data, opened' = opened,
               temps' \subseteq temps, c \notin temps'
        PROVE  Writes!TypeOK' /\ Steps(c) /\ Does(c)
    <2>3. Writes!TypeOK'
      BY <1>1, <1>a DEF Writes!TypeOK, Writes!End, Writes!Goto
    <2>4. Steps(c)
      BY <1>1, <1>a DEF Writes!TypeOK, Steps, Writes!End, Writes!Goto
    <2>5. Quiet(c)
      BY <1>1, <1>a DEF Writes!TypeOK, Quiet, Writes!End, Writes!Goto
    <2> QED
      BY <2>3, <2>4, <2>5 DEF Does
  <1>2. CASE Writes!Rename(c) /\ link' = c /\ Writes!End(c, "written")
    <2> USE <1>2 DEF Writes!Rename, Writes!End, Writes!Goto
    <2>3. Writes!TypeOK'
      BY <1>a, <1>b DEF Writes!TypeOK
    <2>4. Steps(c)
      BY <1>a DEF Writes!TypeOK, Steps
    <2>5. TakesPlace(c)
      BY <1>a DEF Writes!TypeOK, TakesPlace
    <2> QED
      BY <2>3, <2>4, <2>5 DEF Does
  <1>3. CASE Writes!OpenInPlace(c) /\ Writes!Goto(c, "put") /\ link # NoFile
             /\ opened' = [opened EXCEPT ![c] = link]
             /\ data' = [data EXCEPT ![link] = Writes!Empty] /\ UNCHANGED callAnswer
    <2>1. link \in Writes!Inodes /\ c \notin temps
      BY <1>3 DEF Writes!TypeOK, Writes!OpenInPlace, TempsOf, Places
    <2>2. link' = link /\ temps' = temps /\ callPc[c] = "open"
          /\ callPc' = [callPc EXCEPT ![c] = "put"]
      BY <1>3 DEF Writes!OpenInPlace, Writes!Goto
    <2>3. Writes!TypeOK'
      BY <1>3, <2>1, <2>2, <1>a, <1>b DEF Writes!TypeOK
    <2>4. Steps(c)
      BY <1>3, <2>1, <2>2, <1>a DEF Writes!TypeOK, Steps
    <2>5. Empties(c)
      BY <1>3, <2>1, <2>2, <1>a DEF Writes!TypeOK, Empties
    <2> QED
      BY <2>3, <2>4, <2>5 DEF Does
  <1>4. CASE Writes!PutInPlace(c) /\ Writes!End(c, "written")
             /\ data' = [data EXCEPT ![opened[c]] = plan[c]]
    <2>1. /\ opened[c] \in Writes!Inodes /\ c \notin temps
          /\ plan[c] \in Writes!Texts
      BY <1>4 DEF Writes!TypeOK, Writes!PutInPlace, TempsOf, Places
    <2>2. link' = link /\ temps' = temps /\ callPc[c] = "put" /\ opened' = opened
          /\ callPc' = [callPc EXCEPT ![c] = "done"]
          /\ callAnswer' = [callAnswer EXCEPT ![c] = "written"]
      BY <1>4 DEF Writes!PutInPlace, Writes!Goto, Writes!End
    <2>3. Writes!TypeOK'
      BY <1>4, <2>1, <2>2, <1>a DEF Writes!TypeOK
    <2>4. Steps(c)
      BY <1>4, <2>1, <2>2, <1>a DEF Writes!TypeOK, Steps
    <2>5. Refills(c)
      BY <1>4, <2>1, <2>2, <1>a DEF Writes!TypeOK, Refills
    <2> QED
      BY <2>3, <2>4, <2>5 DEF Does
  <1>5. callPc[c] # "rename" => c \notin temps
    BY <1>a DEF Writes!Rename, Writes!OpenInPlace, Writes!PutInPlace, TempsOf
  <1>6. CASE Writes!Rename(c)
    BY <1>6, <1>1, <1>2 DEF Writes!Rename
  <1>7. CASE Writes!OpenInPlace(c)
    BY <1>7, <1>1, <1>3, <1>5 DEF Writes!OpenInPlace
  <1>8. CASE Writes!PutInPlace(c)
    BY <1>8, <1>1, <1>4, <1>5 DEF Writes!PutInPlace
  <1> QED
    BY <1>6, <1>7, <1>8

\* Where the calls are is kept by every step that does one of these.
LEMMA PlacesKept ==
    ASSUME NEW c \in Calls, PlaceInv, Writes!TypeOK', Steps(c), Does(c)
    PROVE  PlaceInv'
  <1> USE WriteConstants DEF PlaceInv
  <1>a. \A d \in Calls : callAnswer[d] = "written" => callAnswer'[d] = "written"
    BY DEF Steps
  <1>b. \/ link' = link
        \/ link' = c /\ callAnswer'[c] = "written"
    BY DEF Does, Quiet, Plans, FillsTemp, TakesPlace, Empties, Refills
  <1>c. \/ opened' = opened
        \/ opened'[c] = link /\ link # NoFile /\ link' = link
    BY DEF Does, Quiet, Plans, FillsTemp, TakesPlace, Empties, Refills
  <1>d. \A d \in Calls : opened'[d] = opened[d] \/ (opened'[d] = link /\ link # NoFile /\ link' = link)
    BY <1>c DEF Steps
  <1>1. Linked'
    <2>1. link' \in Calls => callAnswer'[link'] = "written"
      BY <1>a, <1>b DEF Linked
    <2>2. ASSUME NEW d \in Calls
          PROVE  /\ opened'[d] \in Calls => callAnswer'[opened'[d]] = "written"
                 /\ opened'[d] # NoFile => link' # NoFile
                 /\ opened'[d] \in Calls => link' # Original
      <3>1. CASE opened'[d] = opened[d]
        BY <3>1, <1>a, <1>b DEF Linked
      <3>2. CASE opened'[d] = link /\ link # NoFile /\ link' = link
        BY <3>2, <1>a DEF Linked
      <3> QED
        BY <1>d, <3>1, <3>2
    <2> QED
      BY <2>1, <2>2 DEF Linked
  <1>2. Places'
    BY DEF Places, Steps, Does, Quiet, Plans, FillsTemp, TakesPlace, Empties, Refills
  <1>3. TempsOf'
    <2>1. ASSUME NEW d \in temps', d # c
          PROVE  callPc'[d] \in {"rename", "dead"} \/ callAnswer'[d] = "failed"
      <3>1. d \in temps /\ d \in Calls
        BY <2>1 DEF Steps, Writes!TypeOK
      <3> QED
        BY <2>1, <3>1 DEF Steps, TempsOf
    <2> QED
      BY <2>1 DEF Steps, TempsOf
  <1> QED
    BY <1>1, <1>2, <1>3

\* Planned is kept.
LEMMA PlannedKept ==
    ASSUME NEW c \in Calls, PlaceInv, Planned, Steps(c), Does(c)
    PROVE  Planned'
  <1>1. SUFFICES ASSUME NEW d \in Calls
                 PROVE  /\ callPc'[d] \in {"write", "rename", "open", "put"} \/ callAnswer'[d] = "written"
                              => d \in plan'[d].shows
                        /\ callPc'[d] = "rename" => data'[d] = plan'[d]
    BY DEF Planned
  <1>2. CASE d = c
    <2>1. CASE Quiet(c) \/ TakesPlace(c) \/ Refills(c)
      BY <1>2, <2>1 DEF Quiet, TakesPlace, Refills, Planned
    <2>2. CASE Plans(c)
      BY <1>2, <2>2 DEF Plans, Steps
    <2>3. CASE FillsTemp(c)
      BY <1>2, <2>3, WriteConstants DEF Planned, FillsTemp, PlaceInv, Writes!TypeOK
    <2>4. CASE Empties(c)
      BY <1>2, <2>4 DEF Planned, Empties, Steps
    <2> QED
      BY <2>1, <2>2, <2>3, <2>4 DEF Does
  <1>3. CASE d # c
    <2>1. callPc'[d] = callPc[d] /\ plan'[d] = plan[d] /\ callAnswer'[d] = callAnswer[d]
      BY <1>3 DEF Steps
    <2>2. callPc[d] = "rename" => data'[d] = data[d]
      <3> SUFFICES ASSUME callPc[d] = "rename" PROVE data'[d] = data[d]
        OBVIOUS
      <3>1. callAnswer[d] = "none" /\ d \in Writes!Inodes /\ data \in [Writes!Inodes -> Writes!Texts]
        BY WriteConstants DEF PlaceInv, Places, Writes!TypeOK
      <3>2. link # d /\ opened[c] # d
        BY <3>1 DEF PlaceInv, Linked
      <3> QED
        BY <1>3, <3>1, <3>2 DEF Does, Quiet, Plans, FillsTemp, TakesPlace, Empties, Refills
    <2> QED
      BY <2>1, <2>2 DEF Planned
  <1> QED
    BY <1>2, <1>3

\* The file's text, whichever it is, stays what it is but where a call puts its own
\* in its place, or empties it.
LEMMA FileText ==
    ASSUME NEW c \in Calls, PlaceInv, Planned, Steps(c), Does(c), link' # NoFile
    PROVE  \/ link' = link /\ data'[link] = data[link]
           \/ /\ data'[link'] = plan'[c] /\ callAnswer'[c] = "written"
              /\ plan'[c] = plan[c]
              /\ TakesPlace(c) \/ (Refills(c) /\ link = opened[c])
           \/ Empties(c) /\ ~data'[link'].whole
  <1> USE WriteConstants
  <1>1. data \in [Writes!Inodes -> Writes!Texts] /\ link \in Writes!Inodes \cup {NoFile}
    BY DEF PlaceInv, Writes!TypeOK
  <1>2. CASE Quiet(c) \/ Plans(c)
    BY <1>2 DEF Quiet, Plans
  <1>3. CASE FillsTemp(c)
    <2>1. link # c
      BY <1>3 DEF FillsTemp, PlaceInv, Places, Linked
    <2> QED
      BY <1>1, <1>3, <2>1 DEF FillsTemp
  <1>4. CASE TakesPlace(c)
    BY <1>4 DEF TakesPlace, Planned
  <1>5. CASE Empties(c)
    <2>1. link \in Writes!Inodes /\ data'[link] = Writes!Empty /\ link' = link
      BY <1>1, <1>5 DEF Empties
    <2> QED
      BY <1>5, <2>1, TextsMade
  <1>6. CASE Refills(c)
    <2>1. /\ link' = link /\ plan' = plan /\ callAnswer'[c] = "written" /\ link \in Writes!Inodes
          /\ data' = [data EXCEPT ![opened[c]] = plan[c]]
      BY <1>1, <1>6 DEF Refills
    <2>2. CASE link = opened[c]
      BY <1>1, <1>6, <2>1, <2>2
    <2>3. CASE link # opened[c]
      BY <1>1, <2>1, <2>3
    <2> QED
      BY <2>2, <2>3
  <1> QED
    BY <1>2, <1>3, <1>4, <1>5, <1>6 DEF Does

\* A text that was reported as written has been planned for good.
LEMMA ToldStays ==
    ASSUME NEW c \in Calls, Steps(c), NEW d \in Calls, callAnswer[d] = "written"
    PROVE  d # c /\ callAnswer'[d] = "written" /\ plan'[d] = plan[d]
  BY DEF Steps

\* Whole texts stay whole where nothing is rewritten in place.
LEMMA PlannedWholeKept ==
    ASSUME NEW c \in Calls, PlaceInv, PlaceInv', PlannedWhole, Writes!FileWhole, Steps(c), Does(c)
    PROVE  PlannedWhole'
  <1>1. SUFFICES ASSUME Writes!Rewrites' = {} PROVE PlannedWhole'
    BY DEF PlannedWhole
  <1>2. \A d \in Calls : opened'[d] = NoFile
    <2>1. \A d \in Calls : tool'[d] = "ast_replace" => opened'[d] = NoFile
      BY <1>1 DEF Writes!Rewrites
    <2> QED
      BY <2>1 DEF PlaceInv, Places
  <1>3. ~Empties(c) /\ ~Refills(c)
    BY <1>2 DEF Empties, Refills, PlaceInv, Places
  <1>4. opened' = opened
    BY <1>3 DEF Does, Quiet, Plans, FillsTemp, TakesPlace
  <1>5. Writes!Rewrites = {}
    BY <1>2, <1>4 DEF Writes!Rewrites
  <1>6. /\ link # NoFile => data[link].whole
        /\ \A d \in Calls : callPc[d] \in {"write", "rename"} => plan[d].whole
    BY <1>5 DEF PlannedWhole, Writes!FileWhole
  <1>7. ASSUME NEW d \in Calls, callPc'[d] \in {"write", "rename"} PROVE plan'[d].whole
    <2>1. CASE d # c
      BY <1>6, <1>7, <2>1 DEF Steps
    <2>2. CASE d = c
      BY <1>3, <1>6, <1>7, <2>2 DEF Does, Quiet, Plans, FillsTemp, TakesPlace
    <2> QED
      BY <2>1, <2>2
  <1> QED
    BY <1>7 DEF PlannedWhole

\* A rewrite that is at the file, or was cut short there, is until it writes.
LEMMA RewriteStays ==
    ASSUME NEW c \in Calls, PlaceInv, Steps(c), Does(c), NEW d \in Writes!Rewrites
    PROVE  d \in Calls /\ d \in Writes!Rewrites' /\ (opened'[d] = opened[d] \/ Empties(c))
  <1>1. d \in Calls /\ tool'[d] = "ast_replace" /\ opened[d] # NoFile
    BY DEF Writes!Rewrites, Steps
  <1>2. opened'[d] = opened[d] \/ (Empties(c) /\ opened'[d] = link /\ link # NoFile)
    BY <1>1 DEF Steps, Does, Quiet, Plans, FillsTemp, TakesPlace, Empties, Refills
  <1> QED
    BY <1>1, <1>2 DEF Writes!Rewrites

\* A file is half written only where a rewrite in place left it so, or where a
\* text was that a call put in its place.
LEMMA FileWholeKept ==
    ASSUME NEW c \in Calls, PlaceInv, PlaceInv', Planned, PlannedWhole, Writes!FileWhole,
           Steps(c), Does(c)
    PROVE  Writes!FileWhole'
  <1> DEFINE AtIt == \E d \in Writes!Rewrites : opened[d] = link /\ callAnswer[d] # "written"
             Told1 == \E d \in Calls : callAnswer[d] = "written" /\ data[link] = plan[d]
  <1>1. SUFFICES ASSUME link' # NoFile, ~data'[link'].whole
                 PROVE  \/ \E d \in Writes!Rewrites' : opened'[d] = link' /\ callAnswer'[d] # "written"
                        \/ Writes!Rewrites' # {} /\ \E d \in Calls : callAnswer'[d] = "written" /\ data'[link'] = plan'[d]
    BY DEF Writes!FileWhole
  <1>2. CASE link' = link /\ data'[link] = data[link] /\ ~Empties(c) /\ ~(Refills(c) /\ link = opened[c])
    <2>1. AtIt \/ (Writes!Rewrites # {} /\ Told1)
      BY <1>1, <1>2 DEF Writes!FileWhole
    <2>2. ASSUME NEW d \in Writes!Rewrites, opened[d] = link, callAnswer[d] # "written"
          PROVE  d \in Writes!Rewrites' /\ opened'[d] = link' /\ callAnswer'[d] # "written"
      <3>1. d \in Calls /\ d \in Writes!Rewrites' /\ opened'[d] = opened[d] /\ tool[d] = "ast_replace"
        BY <1>2, RewriteStays DEF Writes!Rewrites
      <3>2. callAnswer'[d] # "written"
        BY <1>2, <2>2, <3>1 DEF Steps, PlaceInv, Places, Does, Quiet, Plans, FillsTemp, TakesPlace
      <3> QED
        BY <1>2, <2>2, <3>1, <3>2
    <2>3. ASSUME NEW d \in Calls, callAnswer[d] = "written", data[link] = plan[d]
          PROVE  callAnswer'[d] = "written" /\ data'[link'] = plan'[d]
      BY <1>2, <2>3, ToldStays
    <2>4. Writes!Rewrites # {} => Writes!Rewrites' # {}
      BY RewriteStays
    <2> QED
      BY <2>1, <2>2, <2>3, <2>4
  <1>3. CASE Empties(c)
    <2>1. callAnswer'[c] # "written" /\ opened'[c] = link' /\ c \in Writes!Rewrites'
      BY <1>1, <1>3 DEF Empties, Steps, PlaceInv, Places, Writes!Rewrites
    <2> QED
      BY <2>1
  <1>4. CASE TakesPlace(c) /\ data'[link'] = plan'[c] /\ callAnswer'[c] = "written" /\ plan'[c] = plan[c]
    <2>1. Writes!Rewrites # {}
      BY <1>1, <1>4 DEF PlannedWhole, TakesPlace
    <2>2. Writes!Rewrites' # {}
      BY <2>1, RewriteStays
    <2> QED
      BY <1>4, <2>2
  <1>5. CASE Refills(c) /\ data'[link'] = plan'[c] /\ callAnswer'[c] = "written"
    <2>1. c \in Writes!Rewrites'
      BY <1>5 DEF Refills, PlaceInv, Places, Steps, Writes!Rewrites
    <2> QED
      BY <1>5, <2>1
  <1>6. CASE Refills(c) /\ link = opened[c]
    <2>1. link' = link /\ link \in Writes!Inodes /\ data \in [Writes!Inodes -> Writes!Texts]
      BY <1>1, <1>6 DEF Refills, PlaceInv, Writes!TypeOK
    <2>2. data'[link'] = plan'[c] /\ callAnswer'[c] = "written"
      BY <1>6, <2>1 DEF Refills
    <2> QED
      BY <1>5, <1>6, <2>2
  <1> QED
    BY <1>1, <1>2, <1>3, <1>4, <1>5, <1>6, FileText

\* Told is kept.
LEMMA ToldKept ==
    ASSUME NEW c \in Calls, PlaceInv, Planned, Told, Steps(c), Does(c)
    PROVE  Told'
  <1>1. SUFFICES ASSUME link' # NoFile, data'[link'].whole,
                        NEW e \in Calls, callAnswer'[e] = "written"
                 PROVE  \E d \in Calls : callAnswer'[d] = "written" /\ data'[link'] = plan'[d]
    BY DEF Told
  <1>2. CASE data'[link'] = plan'[c] /\ callAnswer'[c] = "written"
    BY <1>2
  <1>3. CASE link' = link /\ data'[link] = data[link]
    <2>1. ASSUME NEW d \in Calls, callAnswer[d] = "written"
          PROVE  \E b \in Calls : callAnswer'[b] = "written" /\ data'[link'] = plan'[b]
      <3>1. PICK b \in Calls : callAnswer[b] = "written" /\ data[link] = plan[b]
        BY <1>1, <1>3, <2>1 DEF Told
      <3> QED
        BY <1>3, <3>1, ToldStays
    <2>2. CASE callAnswer[e] = "written"
      BY <2>1, <2>2
    <2>3. CASE callAnswer[e] # "written"
      <3>1. e = c /\ (TakesPlace(c) \/ Refills(c))
        BY <1>1, <2>3 DEF Steps, PlaceInv, Places, Does, Quiet, Plans, FillsTemp, Empties
      <3>2. CASE TakesPlace(c)
        BY <3>1, <3>2, <1>1 DEF TakesPlace, Planned
      <3>3. CASE Refills(c) /\ link \in Calls
        <4>1. callAnswer[link] = "written"
          BY <3>3 DEF PlaceInv, Linked
        <4> QED
          BY <2>1, <3>3, <4>1
      <3>4. CASE Refills(c) /\ link \notin Calls
        <4>1. /\ link = Original /\ opened[c] # NoFile /\ opened[c] \in Writes!Inodes \cup {NoFile}
              /\ data \in [Writes!Inodes -> Writes!Texts]
          BY <1>1, <1>3, <3>4, WriteConstants DEF PlaceInv, Places, Writes!TypeOK, Refills
        <4>2. opened[c] = link
          BY <4>1, WriteConstants DEF PlaceInv, Linked
        <4>3. data'[link] = plan[c] /\ plan' = plan
          BY <3>4, <4>1, <4>2, WriteConstants DEF Refills
        <4> QED
          BY <1>1, <1>3, <3>1, <4>3
      <3> QED
        BY <3>1, <3>2, <3>3, <3>4
    <2> QED
      BY <2>2, <2>3
  <1> QED
    BY <1>1, <1>2, <1>3, FileText

\* Both invariants are inductive.
LEMMA WriteStepKeeps == PlaceInv /\ TextInv /\ [Writes!Next]_writeVars => (PlaceInv /\ TextInv)'
  <1> SUFFICES ASSUME PlaceInv, TextInv, [Writes!Next]_writeVars PROVE (PlaceInv /\ TextInv)'
    OBVIOUS
  <1>1. CASE UNCHANGED writeVars
    BY <1>1 DEF writeVars, PlaceInv, TextInv, Writes!TypeOK, Linked, Places, TempsOf, Planned,
                PlannedWhole, Told, Writes!FileWhole, Writes!Rewrites
  <1>2. ASSUME NEW c \in Calls,
               \/ Writes!Begin(c) \/ Writes!CheckWrite(c) \/ Writes!ReadForEdit(c)
               \/ Writes!ReadForRewrite(c) \/ Writes!WriteTemp(c) \/ Writes!Rename(c)
               \/ Writes!OpenInPlace(c) \/ Writes!PutInPlace(c) \/ Writes!Die(c)
        PROVE  (PlaceInv /\ TextInv)'
    <2>1. Writes!TypeOK' /\ Steps(c) /\ Does(c)
      BY <1>2, ChecksDo, TempDoes, PlacesDo DEF PlaceInv
    <2>2. PlaceInv'
      BY <2>1, PlacesKept
    <2>3. Planned' /\ Told'
      BY <2>1, PlannedKept, ToldKept DEF TextInv
    <2>4. PlannedWhole'
      BY <2>1, <2>2, PlannedWholeKept DEF TextInv
    <2>5. Writes!FileWhole'
      BY <2>1, <2>2, FileWholeKept DEF TextInv
    <2> QED
      BY <2>2, <2>3, <2>4, <2>5 DEF TextInv
  <1> QED
    BY <1>1, <1>2 DEF Writes!Next

\* TempsGone and WrittenShows follow.
LEMMA WritesPromise == PlaceInv /\ TextInv => Writes!TempsGone /\ Writes!WrittenShows
  <1>1. PlaceInv => Writes!TempsGone
    BY DEF PlaceInv, TempsOf, Writes!TempsGone
  <1>2. Planned /\ Told => Writes!WrittenShows
    BY DEF Planned, Told, Writes!WrittenShows
  <1> QED
    BY <1>1, <1>2 DEF TextInv

-----------------------------------------------------------------------------
(* The extension servers of one dispatch                                   *)

\* A set of numbers that is not empty has a least element.
LEMMA LeastNat ==
    ASSUME NEW N \in SUBSET Nat, N # {}
    PROVE  \E n \in N : \A m \in N : n <= m
  <1> DEFINE R == OpToRel(<, Nat)
  <1>1. IsWellFoundedOn(R, Nat)
    BY NatLessThanWellFounded
  <1>2. \A m, n \in Nat : m < n => <<m, n>> \in R
    BY DEF OpToRel
  <1> HIDE DEF R
  <1>3. PICK n \in N : \A m \in N : ~ (<<m, n>> \in R)
    BY <1>1, WFMin
  <1>4. \A m \in N : ~(m < n)
    BY <1>2, <1>3
  <1> QED
    BY <1>4

\* The commands of a dispatch are distinct.
LEMMA BridgeConstants ==
    /\ Commands \in Seq(Bridge!Procs) /\ Len(Commands) \in Nat /\ MaxCalls \in Nat
    /\ DOMAIN Commands = 1..Len(Commands)
    /\ \A p \in Bridge!Procs : \E i \in 1..Len(Commands) : p = Commands[i]
    /\ \A i, j \in 1..Len(Commands) : Commands[i] = Commands[j] => i = j
  <1>1. /\ Commands \in Seq(DOMAIN NameOf) /\ MaxCalls \in Nat
        /\ \A i, j \in DOMAIN Commands : Commands[i] = Commands[j] => i = j
    BY PartsAssumption DEF Bridge!ExtensionAssumption
  <1>2. /\ Len(Commands) \in Nat /\ DOMAIN Commands = 1..Len(Commands)
        /\ Commands = [i \in 1..Len(Commands) |-> Commands[i]]
    BY <1>1
  <1>3. \A i \in 1..Len(Commands) : Commands[i] \in Bridge!Procs
    BY <1>2 DEF Bridge!Procs
  <1>4. Commands \in Seq(Bridge!Procs)
    BY <1>2, <1>3
  <1>5. \A p \in Bridge!Procs : \E i \in 1..Len(Commands) : p = Commands[i]
    BY <1>2 DEF Bridge!Procs
  <1> QED
    BY <1>1, <1>2, <1>4, <1>5

\* The place that Having finds is the first with the name.
LEMMA HavingIsFirst ==
    ASSUME NEW name, servers \in Seq(Bridge!Procs), Bridge!Having(name) # 0
    PROVE  /\ Bridge!Having(name) \in 1..Len(servers)
           /\ name \in Bridge!FullNames(servers[Bridge!Having(name)])
           /\ \A i \in 1..Bridge!Having(name) - 1 : name \notin Bridge!FullNames(servers[i])
  <1> DEFINE I == {i \in 1..Len(servers) : name \in Bridge!FullNames(servers[i])}
  <1>1. Bridge!Having(name) = IF I # {} THEN Bridge!Min(I) ELSE 0
    BY DEF Bridge!Having, Bridge!SelectInSeq
  <1>2. I \in SUBSET Nat /\ I # {} /\ Bridge!Having(name) = Bridge!Min(I)
    BY <1>1
  <1>3. \E k \in I : \A i \in I : k <= i
    BY <1>2, LeastNat
  <1>4. Bridge!Min(I) \in I /\ \A i \in I : Bridge!Min(I) <= i
    BY <1>3 DEF Bridge!Min
  <1>5. PICK k \in I : k = Bridge!Having(name) /\ \A i \in I : k <= i
    BY <1>2, <1>4
  <1>6. k \in 1..Len(servers) /\ name \in Bridge!FullNames(servers[k])
    OBVIOUS
  <1>7. ASSUME NEW i \in 1..k - 1, name \in Bridge!FullNames(servers[i]) PROVE FALSE
    <2>1. i \in 1..Len(servers) /\ i < k
      BY <1>6
    <2>2. i \in I
      BY <1>7, <2>1
    <2> QED
      BY <1>5, <2>1, <2>2
  <1> QED
    BY <1>5, <1>6, <1>7

\* BridgeInv holds before the first server is started.
LEMMA BridgeStarts == Bridge!Init => BridgeInv
  <1> SUFFICES ASSUME Bridge!Init PROVE BridgeInv
    OBVIOUS
  <1> USE BridgeConstants DEF Bridge!Init
  <1>1. Bridge!TypeOK
    <2>1. 1 \in 1..Len(Commands) + 1 /\ 0 \in 0..MaxCalls /\ DOMAIN servers = {}
      OBVIOUS
    <2>2. call.by = Unlisted
      BY DEF Bridge!NoCall
    <2> QED
      BY <2>1, <2>2 DEF Bridge!TypeOK
  <1>2. CameUp
    BY DEF CameUp
  <1>3. Tried /\ Reached /\ Ended
    BY DEF Tried, Reached, Ended
  <1> QED
    BY <1>1, <1>2, <1>3 DEF BridgeInv

\* Starting one more server keeps BridgeInv.
LEMMA SpawnKeeps == BridgeInv /\ Bridge!SpawnOne => BridgeInv'
  <1> SUFFICES ASSUME BridgeInv, Bridge!SpawnOne PROVE BridgeInv'
    OBVIOUS
  <1> USE DEF BridgeInv
  <1> DEFINE p == Commands[next]
  <1>1. /\ phase = "spawn" /\ phase' = "spawn" /\ next' = next + 1
        /\ next \in 1..Len(Commands) /\ call' = call /\ callResult' = callResult /\ calls' = calls
    BY BridgeConstants DEF Bridge!SpawnOne, Bridge!TypeOK
  <1>2. p \in Bridge!Procs
    BY <1>1, BridgeConstants
  <1>3. PICK s \in {"up", "unstarted", "gone", "hung"} :
            /\ server' = [server EXCEPT ![p] = s]
            /\ s = "up" => servers' = Append(servers, p) /\ failed' = failed
            /\ s # "up" => servers' = servers /\ failed' = TRUE
    BY DEF Bridge!SpawnOne, Bridge!Set
  <1>4. servers \in Seq(Bridge!Procs) /\ Len(servers) \in Nat /\ Len(servers) < next
    BY <1>1 DEF CameUp
  <1>5. /\ server' \in [Bridge!Procs -> {"unborn", "unstarted", "up", "hung", "gone"}]
        /\ server'[p] = s /\ \A q \in Bridge!Procs \ {p} : server'[q] = server[q]
    BY <1>2, <1>3 DEF Bridge!TypeOK
  <1> HIDE DEF p
  <1>6. \/ s # "up" /\ servers' = servers
        \/ /\ s = "up" /\ Len(servers') = Len(servers) + 1 /\ servers' \in Seq(Bridge!Procs)
           /\ servers'[Len(servers) + 1] = p
           /\ \A i \in 1..Len(servers) : servers'[i] = servers[i]
    <2>1. CASE s # "up"
      BY <2>1, <1>3
    <2>2. CASE s = "up"
      <3>1. servers' = Append(servers, p)
        BY <2>2, <1>3
      <3>2. /\ Append(servers, p) \in Seq(Bridge!Procs)
            /\ Len(Append(servers, p)) = Len(servers) + 1
            /\ \A i \in 1..Len(servers) : Append(servers, p)[i] = servers[i]
            /\ Append(servers, p)[Len(servers) + 1] = p
        BY <1>2, <1>4, AppendProperties
      <3> QED
        BY <2>2, <3>1, <3>2
    <2> QED
      BY <2>1, <2>2
  <1>d. DOMAIN servers = 1..Len(servers) /\ DOMAIN servers' = 1..Len(servers')
    BY <1>4, <1>6
  <1>7. \A i \in DOMAIN servers : servers[i] # p
    BY <1>1, <1>2, BridgeConstants DEF CameUp, p
  <1>8. Bridge!TypeOK'
    <2>1. next' \in 1..Len(Commands) + 1
      BY <1>1, BridgeConstants
    <2>3. failed' \in BOOLEAN
      BY <1>3 DEF Bridge!TypeOK
    <2>2. \A i \in DOMAIN servers' : servers'[i] \in Bridge!Procs
      <3>1. servers' \in Seq(Bridge!Procs)
        BY <1>4, <1>6
      <3> QED
        BY <3>1
    <2> QED
      BY <2>1, <2>2, <2>3, <1>1, <1>5 DEF Bridge!TypeOK
  <1>9. CameUp'
    <2>1. servers' \in Seq(Bridge!Procs) /\ Len(servers') < next' /\ Len(servers') <= Len(Commands)
      BY <1>1, <1>4, <1>6, BridgeConstants
    <2>2. \A i, j \in DOMAIN servers' : servers'[i] = servers'[j] => i = j
      <3>1. \A i, j \in 1..Len(servers) : servers[i] = servers[j] => i = j
        BY <1>d DEF CameUp
      <3>2. \A i \in 1..Len(servers) : servers[i] # p
        BY <1>d, <1>7
      <3>3. CASE s # "up"
        BY <1>d, <1>6, <3>1, <3>3
      <3>4. CASE s = "up"
        <4>1. \A i \in 1..Len(servers') : i \in 1..Len(servers) \/ i = Len(servers) + 1
          BY <1>4, <1>6, <3>4
        <4>2. \A i \in 1..Len(servers') :
                 \/ i \in 1..Len(servers) /\ servers'[i] = servers[i]
                 \/ i = Len(servers) + 1 /\ servers'[i] = p
          BY <4>1, <1>6, <3>4
        <4> QED
          BY <4>2, <1>d, <3>1, <3>2
      <3> QED
        BY <3>3, <3>4
    <2>3. \A i \in DOMAIN servers' : \E j \in 1..next' - 1 : servers'[i] = Commands[j]
      <3>1. \A i \in 1..Len(servers) : \E j \in 1..next - 1 : servers[i] = Commands[j]
        BY <1>1, <1>d DEF CameUp
      <3>2. next \in 1..next' - 1 /\ p = Commands[next] /\ \A j \in 1..next - 1 : j \in 1..next' - 1
        BY <1>1 DEF p
      <3>3. s = "up" => \A i \in 1..Len(servers') : i \in 1..Len(servers) \/ i = Len(servers) + 1
        BY <1>4, <1>6
      <3> QED
        BY <1>d, <1>6, <3>1, <3>2, <3>3
    <2> QED
      BY <2>1, <2>2, <2>3 DEF CameUp
  <1>10. Tried'
    <2>1. ASSUME NEW i \in DOMAIN Commands, i < next' PROVE server'[Commands[i]] # "unborn"
      <3>1. CASE Commands[i] = p
        BY <3>1, <1>5
      <3>2. CASE Commands[i] # p
        BY <3>2, <2>1, <1>1, <1>5, BridgeConstants DEF Tried, p
      <3> QED
        BY <3>1, <3>2
    <2>2. ASSUME NEW q \in Bridge!Procs, server'[q] = "up"
          PROVE  \E i \in DOMAIN servers' : servers'[i] = q
      <3>1. CASE q = p
        <4>1. Len(servers) + 1 \in 1..Len(servers') /\ servers'[Len(servers) + 1] = p
          BY <3>1, <2>2, <1>4, <1>5, <1>6
        <4> QED
          BY <3>1, <4>1, <1>d
      <3>2. CASE q # p
        <4>1. PICK i \in 1..Len(servers) : servers[i] = q
          BY <3>2, <2>2, <1>1, <1>5, <1>d DEF Tried
        <4>2. i \in 1..Len(servers') /\ servers'[i] = servers[i]
          BY <1>4, <1>6
        <4> QED
          BY <4>1, <4>2, <1>d
      <3> QED
        BY <3>1, <3>2
    <2> QED
      BY <1>1, <2>1, <2>2 DEF Tried
  <1>11. Reached' /\ Ended'
    BY <1>1 DEF Reached, Ended
  <1> QED
    BY <1>8, <1>9, <1>10, <1>11

\* A call and its end keep BridgeInv.
LEMMA CallKeeps ==
    BridgeInv /\ ((\E n \in Bridge!Names : Bridge!Call(n)) \/ Bridge!CallFails \/ Bridge!CallAnswered)
        => BridgeInv'
  <1> SUFFICES ASSUME BridgeInv,
                      (\E n \in Bridge!Names : Bridge!Call(n)) \/ Bridge!CallFails \/ Bridge!CallAnswered
               PROVE  BridgeInv'
    OBVIOUS
  <1> USE BridgeConstants DEF BridgeInv
  <1>1. ASSUME NEW n \in Bridge!Names, Bridge!Call(n) PROVE BridgeInv'
    <2>1. /\ phase = "open" /\ phase' \in {"open", "call"} /\ next' = next /\ failed' = failed
          /\ servers' = servers /\ server' = server /\ calls < MaxCalls /\ calls' = calls + 1
      BY <1>1 DEF Bridge!Call
    <2>2. servers \in Seq(Bridge!Procs)
      BY DEF CameUp
    <2>3. CASE Bridge!Having(n) = 0
      <3>1. phase' = "open" /\ call' = call /\ callResult' = "UnknownTool"
        BY <2>3, <2>1, <1>1 DEF Bridge!Call
      <3> QED
        BY <2>1, <3>1 DEF Bridge!TypeOK, CameUp, Tried, Reached, Ended
    <2>4. CASE Bridge!Having(n) # 0
      <3> DEFINE k == Bridge!Having(n)
      <3>1. /\ phase' = "call" /\ callResult' = "none"
            /\ call' = [name |-> n, by |-> servers[k]]
        BY <2>4, <1>1 DEF Bridge!Call
      <3>2. /\ k \in 1..Len(servers) /\ n \in Bridge!FullNames(servers[k])
            /\ \A i \in 1..k - 1 : n \notin Bridge!FullNames(servers[i])
        BY <2>2, <2>4, HavingIsFirst
      <3>3. call'.name = n /\ call'.by = servers[k]
        BY <3>1
      <3> HIDE DEF k
      <3>4. servers[k] \in Bridge!Procs /\ k \in DOMAIN servers
        BY <2>2, <3>2
      <3>5. Reached'
        <4>1. \E j \in DOMAIN servers' :
                 /\ call'.by = servers'[j]
                 /\ call'.name \in Bridge!FullNames(servers'[j])
                 /\ \A i \in 1..j - 1 : call'.name \notin Bridge!FullNames(servers'[i])
          BY <2>1, <3>2, <3>3, <3>4
        <4> QED
          BY <4>1 DEF Reached, Bridge!FullNames
      <3>6. Bridge!TypeOK'
        BY <2>1, <3>1, <3>3, <3>4 DEF Bridge!TypeOK
      <3> QED
        BY <2>1, <3>1, <3>5, <3>6 DEF CameUp, Tried, Ended
    <2> QED
      BY <2>3, <2>4
  <1>2. ASSUME Bridge!CallFails \/ Bridge!CallAnswered PROVE BridgeInv'
    <2>1. /\ phase = "call" /\ phase' = "open" /\ next' = next /\ failed' = failed
          /\ servers' = servers /\ server' = server /\ calls' = calls
          /\ call' = Bridge!NoCall /\ callResult' \in {"CallFailed", "result"}
      BY <1>2 DEF Bridge!CallFails, Bridge!CallAnswered
    <2>2. call'.by = Unlisted
      BY <2>1 DEF Bridge!NoCall
    <2> QED
      BY <2>1, <2>2 DEF Bridge!TypeOK, CameUp, Tried, Reached, Ended
  <1> QED
    BY <1>1, <1>2

\* The end of the spawning, and both ends of the bridge, keep BridgeInv.
LEMMA EndKeeps ==
    BridgeInv /\ (\/ Bridge!SpawnEnds \/ Bridge!BeginEnd \/ Bridge!ShutdownOne
                  \/ Bridge!ShutdownEnds \/ Bridge!DropOne)
        => BridgeInv'
  <1> SUFFICES ASSUME BridgeInv,
                      \/ Bridge!SpawnEnds \/ Bridge!BeginEnd \/ Bridge!ShutdownOne
                      \/ Bridge!ShutdownEnds \/ Bridge!DropOne
               PROVE  BridgeInv'
    OBVIOUS
  <1> USE BridgeConstants DEF BridgeInv
  <1>1. /\ failed' = failed /\ servers' = servers /\ calls' = calls
        /\ call' = call /\ callResult' = callResult /\ phase' # "spawn" /\ phase' # "call"
        /\ servers \in Seq(Bridge!Procs) /\ Len(servers) \in Nat /\ Len(servers) <= Len(Commands)
    BY DEF Bridge!SpawnEnds, Bridge!BeginEnd, Bridge!ShutdownOne, Bridge!ShutdownEnds,
           Bridge!DropOne, CameUp
  <1>2. CameUp' /\ Reached'
    BY <1>1 DEF CameUp, Reached
  <1>3. CASE Bridge!SpawnEnds
    <2>1. /\ phase = "spawn" /\ next > Len(Commands) /\ next' = next /\ server' = server
          /\ phase' \in {"refused", "open"}
          /\ phase' = "refused" => servers = <<>>
      BY <1>3 DEF Bridge!SpawnEnds
    <2>2. Bridge!TypeOK'
      BY <1>1, <2>1 DEF Bridge!TypeOK
    <2>3. Tried'
      BY <1>1, <2>1 DEF Tried, Bridge!TypeOK
    <2>4. Ended'
      BY <1>1, <2>1 DEF Ended
    <2> QED
      BY <1>2, <2>2, <2>3, <2>4
  <1>4. CASE Bridge!BeginEnd
    <2>1. phase = "open" /\ phase' \in {"close", "drop"} /\ next' = 1 /\ server' = server
      BY <1>4 DEF Bridge!BeginEnd
    <2>2. Bridge!TypeOK'
      <3>1. 1 \in 1..Len(Commands) + 1
        OBVIOUS
      <3> QED
        BY <1>1, <2>1, <3>1 DEF Bridge!TypeOK
    <2>3. Tried'
      BY <1>1, <2>1 DEF Tried
    <2>4. Ended'
      <3>1. 1 <= Len(servers) + 1 /\ \A i \in 1..Len(servers) : ~(i < 1)
        BY <1>1
      <3> QED
        BY <1>1, <2>1, <3>1 DEF Ended
    <2> QED
      BY <1>2, <2>2, <2>3, <2>4
  <1>5. CASE Bridge!ShutdownOne \/ Bridge!DropOne
    <2> DEFINE p == servers[next]
    <2>1. /\ phase' = phase /\ phase \in {"close", "drop"} /\ next' = next + 1 /\ next <= Len(servers)
          /\ next \in Nat /\ next > 0
          /\ \/ server' = [server EXCEPT ![p] = "gone"]
             \/ server' = server /\ phase = "drop"
      BY <1>5 DEF Bridge!ShutdownOne, Bridge!DropOne, Bridge!Set, Bridge!TypeOK
    <2>2. p \in Bridge!Procs
      BY <1>1, <2>1
    <2>3. /\ server' \in [Bridge!Procs -> {"unborn", "unstarted", "up", "hung", "gone"}]
          /\ \A q \in Bridge!Procs : server'[q] = server[q] \/ server'[q] = "gone"
          /\ phase = "close" => server'[p] = "gone"
      BY <2>1, <2>2 DEF Bridge!TypeOK
    <2>4. Bridge!TypeOK'
      BY <1>1, <2>1, <2>3 DEF Bridge!TypeOK
    <2>5. Tried'
      BY <1>1, <2>1, <2>3 DEF Tried
    <2>6. Ended'
      <3>1. next' <= Len(servers) + 1
        BY <1>1, <2>1
      <3>2. ASSUME phase = "close", NEW i \in DOMAIN servers, i < next'
            PROVE  server'[servers[i]] = "gone"
        <4>1. CASE i = next
          BY <3>2, <4>1, <2>3
        <4>2. CASE i < next
          <5>1. server[servers[i]] = "gone" /\ servers[i] \in Bridge!Procs
            BY <3>2, <4>2, <1>1 DEF Ended
          <5> QED
            BY <5>1, <2>3
        <4> QED
          BY <3>2, <4>1, <4>2, <1>1, <2>1
      <3> QED
        BY <1>1, <2>1, <3>1, <3>2 DEF Ended
    <2> QED
      BY <1>2, <2>4, <2>5, <2>6
  <1>6. CASE Bridge!ShutdownEnds
    <2>1. /\ phase = "close" /\ phase' = "done" /\ next > Len(servers)
          /\ next' = next /\ server' = server
      BY <1>6 DEF Bridge!ShutdownEnds
    <2> QED
      BY <1>1, <1>2, <2>1 DEF Bridge!TypeOK, Tried, Ended
  <1> QED
    BY <1>3, <1>4, <1>5, <1>6

\* A server that hangs or ends keeps BridgeInv: none that has ended comes back.
LEMMA FalterKeeps ==
    ASSUME NEW p \in Bridge!Procs
    PROVE  BridgeInv /\ Bridge!Falter(p) => BridgeInv'
  <1> SUFFICES ASSUME BridgeInv, Bridge!Falter(p) PROVE BridgeInv'
    OBVIOUS
  <1> USE DEF BridgeInv
  <1>1. PICK end \in {"hung", "gone"} : server' = [server EXCEPT ![p] = end]
    BY DEF Bridge!Falter, Bridge!Set
  <1>2. /\ phase' = phase /\ next' = next /\ failed' = failed /\ servers' = servers
        /\ call' = call /\ callResult' = callResult /\ calls' = calls /\ server[p] \in {"up", "hung"}
    BY DEF Bridge!Falter
  <1>3. /\ server' \in [Bridge!Procs -> {"unborn", "unstarted", "up", "hung", "gone"}]
        /\ server'[p] \in {"hung", "gone"} /\ \A q \in Bridge!Procs \ {p} : server'[q] = server[q]
    BY <1>1 DEF Bridge!TypeOK
  <1>4. Bridge!TypeOK'
    BY <1>2, <1>3 DEF Bridge!TypeOK
  <1>5. CameUp' /\ Reached'
    BY <1>2 DEF CameUp, Reached
  <1>6. Tried'
    <2>1. \A q \in Bridge!Procs :
            /\ server[q] # "unborn" => server'[q] # "unborn"
            /\ server'[q] = "up" => server[q] = "up"
      BY <1>3
    <2>2. \A i \in DOMAIN Commands : Commands[i] \in Bridge!Procs
      BY BridgeConstants
    <2> QED
      <3>1. ASSUME NEW i \in DOMAIN Commands, phase' # "spawn" \/ i < next'
            PROVE  server'[Commands[i]] # "unborn"
        <4>1. server[Commands[i]] # "unborn"
          BY <3>1, <1>2 DEF Tried
        <4> QED
          BY <4>1, <2>1, <2>2
      <3>2. \A q \in Bridge!Procs : server'[q] = "up" => \E i \in DOMAIN servers' : servers'[i] = q
        BY <1>2, <2>1 DEF Tried
      <3>3. phase' = "refused" => servers' = <<>>
        BY <1>2 DEF Tried
      <3> QED
        BY <3>1, <3>2, <3>3 DEF Tried
  <1>7. Ended'
    <2>1. \A q \in Bridge!Procs : server[q] = "gone" => server'[q] = "gone"
      BY <1>2, <1>3
    <2>2. \A i \in DOMAIN servers : servers[i] \in Bridge!Procs
      BY DEF CameUp
    <2> QED
      BY <1>2, <2>1, <2>2 DEF Ended
  <1> QED
    BY <1>4, <1>5, <1>6, <1>7

\* BridgeInv is inductive.
LEMMA BridgeStepKeeps == BridgeInv /\ [Bridge!Next]_bridgeVars => BridgeInv'
  <1> SUFFICES ASSUME BridgeInv, [Bridge!Next]_bridgeVars PROVE BridgeInv'
    OBVIOUS
  <1>1. CASE UNCHANGED bridgeVars
    BY <1>1 DEF bridgeVars, BridgeInv, Bridge!TypeOK, CameUp, Tried, Reached, Ended
  <1> QED
    BY <1>1, SpawnKeeps, CallKeeps, EndKeeps, FalterKeeps DEF Bridge!Next, Bridge!Bridge

\* EachTried, CallReaches and NoneLeft follow.
LEMMA BridgePromises ==
    BridgeInv => Bridge!TypeOK /\ Bridge!EachTried /\ Bridge!CallReaches /\ Bridge!NoneLeft
  <1> SUFFICES ASSUME BridgeInv PROVE Bridge!EachTried /\ Bridge!CallReaches /\ Bridge!NoneLeft
    BY DEF BridgeInv
  <1> USE DEF BridgeInv
  <1>1. Bridge!EachTried
    <2>1. ASSUME phase # "spawn", NEW p \in Bridge!Procs PROVE server[p] # "unborn"
      BY <2>1, BridgeConstants DEF Tried
    <2>2. ASSUME phase = "refused", NEW p \in Bridge!Procs PROVE server[p] # "up"
      BY <2>2, EmptySeq DEF Tried
    <2> QED
      BY <2>1, <2>2 DEF Bridge!EachTried
  <1>2. Bridge!CallReaches
    <2> SUFFICES ASSUME phase = "call" PROVE Bridge!CallReaches
      BY DEF Bridge!CallReaches
    <2>1. PICK k \in DOMAIN servers :
            /\ call.by = servers[k]
            /\ call.name \in Bridge!FullNames(servers[k])
            /\ \A i \in 1..k - 1 : call.name \notin Bridge!FullNames(servers[i])
      BY DEF Reached
    <2>2. servers \in Seq(Bridge!Procs) /\ \A i, j \in DOMAIN servers : servers[i] = servers[j] => i = j
      BY DEF CameUp
    <2>3. <<call.name, call.by>> \in Bridge!Offered
      BY <2>1 DEF Bridge!Offered
    <2>4. ASSUME NEW i \in DOMAIN servers, NEW j \in DOMAIN servers, servers[j] = call.by, i < j
          PROVE  call.name \notin Bridge!FullNames(servers[i])
      <3>1. j = k
        BY <2>1, <2>2, <2>4
      <3>2. i \in 1..k - 1
        BY <2>2, <2>4, <3>1
      <3> QED
        BY <2>1, <3>2
    <2> QED
      BY <2>3, <2>4 DEF Bridge!CallReaches
  <1>3. Bridge!NoneLeft
    <2> SUFFICES ASSUME phase = "done", NEW p \in Bridge!Procs
                 PROVE  \/ server[p] \in {"unstarted", "gone"}
                        \/ server[p] = "hung" /\ p \notin Bridge!ToSet(servers)
      BY DEF Bridge!NoneLeft
    <2>1. server[p] \in {"unborn", "unstarted", "up", "hung", "gone"} /\ server[p] # "unborn"
      BY BridgeConstants DEF Tried, Bridge!TypeOK
    <2>2. ASSUME NEW i \in DOMAIN servers, servers[i] = p PROVE server[p] = "gone"
      BY <2>2 DEF Ended
    <2>3. CASE p \in Bridge!ToSet(servers)
      BY <2>2, <2>3 DEF Bridge!ToSet
    <2>4. CASE p \notin Bridge!ToSet(servers)
      <3>1. server[p] # "up"
        BY <2>4 DEF Tried, Bridge!ToSet
      <3> QED
        BY <2>1, <2>4, <3>1
    <2> QED
      BY <2>3, <2>4
  <1> QED
    BY <1>1, <1>2, <1>3

-----------------------------------------------------------------------------
(* The runs that extend the evolution lineage                              *)

\* What LineageAssumption says.
LEMMA LineageConstants ==
    /\ Scores \subseteq Nat /\ MaxTime \in Nat /\ StallAge \in Nat
    /\ ImprovementWindow \in Nat /\ ImprovementWindow > 0
    /\ Evolution!Unscored = -1
  BY PartsAssumption DEF Evolution!LineageAssumption, Evolution!Unscored

\* What a commit holds.
LEMMA NodeHolds ==
    ASSUME NEW m \in Node
    PROVE  m.fitness \in Int /\ m.at \in Nat /\ m.id \in Nat \X Nat
  <1>1. m.fitness \in Scores \cup {Evolution!Unscored} /\ m.at \in Nat /\ m.id \in Nat \X Nat
    BY DEF Node
  <1>2. \A f \in Scores \cup {Evolution!Unscored} : f \in Int
    <2>1. -1 \in Int
      OBVIOUS
    <2>2. \A f \in Scores : f \in Int
      BY LineageConstants
    <2> QED
      BY <2>1, <2>2, LineageConstants
  <1> QED
    BY <1>1, <1>2

\* A scored commit that is no other's parent.
IsLeaf(ns, i, k) ==
    ns[i].fitness # Evolution!Unscored /\ \A l \in 1..k : ns[i].id \notin ns[l].parents

\* What Leaves chooses from are the commits at the places of leaves.
LEMMA LeavesArePlaces ==
    ASSUME NEW ns \in Seq(Node)
    PROVE  /\ \A i \in 1..Len(ns) : IsLeaf(ns, i, Len(ns)) => ns[i] \in Evolution!Leaves(ns)
           /\ \A m \in Evolution!Leaves(ns) :
                 \E i \in 1..Len(ns) : m = ns[i] /\ IsLeaf(ns, i, Len(ns))
  <1>1. DOMAIN ns = 1..Len(ns)
    OBVIOUS
  <1> QED
    BY <1>1 DEF IsLeaf, Evolution!Leaves, Evolution!Scored, Evolution!ParentIds, Evolution!ToSet

\* The last commit is the leaf of a lineage, if it is scored; there is no other.
LEMMA LeafIsLast ==
    ASSUME NEW ns, Descent(ns)
    PROVE  Evolution!Leaves(ns) =
              IF ns # <<>> /\ ns[Len(ns)].fitness # Evolution!Unscored THEN {ns[Len(ns)]} ELSE {}
  <1>1. /\ ns \in Seq(Node) /\ Len(ns) \in Nat /\ DOMAIN ns = 1..Len(ns)
        /\ \A i, j \in 1..Len(ns) : ns[i].id = ns[j].id => i = j
        /\ \A i \in 1..Len(ns) : ns[i].parents = Before(ns, i)
        /\ ns # <<>> <=> Len(ns) > 0
    BY EmptySeq DEF Descent
  <1>2. ASSUME NEW m \in Evolution!Leaves(ns)
        PROVE  ns # <<>> /\ m = ns[Len(ns)] /\ m.fitness # Evolution!Unscored
    <2>1. PICK i \in 1..Len(ns) : m = ns[i] /\ IsLeaf(ns, i, Len(ns))
      BY <1>1, LeavesArePlaces
    <2>2. ASSUME i # Len(ns) PROVE FALSE
      <3>a. \A k \in Nat : \A j \in 1..k : j # k => j + 1 \in 1..k /\ j + 1 > 1 /\ (j + 1) - 1 = j
        OBVIOUS
      <3>1. i + 1 \in 1..Len(ns) /\ i + 1 > 1 /\ (i + 1) - 1 = i
        BY <1>1, <2>2, <3>a, Zenon
      <3>2. ns[i + 1].parents = {ns[i].id}
        BY <1>1, <2>1, <3>1 DEF Before, IsLeaf
      <3> QED
        BY <2>1, <3>1, <3>2 DEF IsLeaf
    <2>3. i = Len(ns)
      BY <2>2
    <2>4. \A k \in Nat : i \in 1..k => k > 0
      OBVIOUS
    <2>5. ns # <<>>
      BY <1>1, <2>4, Zenon
    <2> QED
      BY <2>1, <2>3, <2>5, Zenon DEF IsLeaf
  <1>3. ASSUME ns # <<>>, ns[Len(ns)].fitness # Evolution!Unscored
        PROVE  ns[Len(ns)] \in Evolution!Leaves(ns)
    <2>1. Len(ns) \in 1..Len(ns)
      BY <1>1, <1>3
    <2>2. ASSUME NEW l \in 1..Len(ns) PROVE ns[Len(ns)].id \notin ns[l].parents
      <3>1. CASE l > 1
        <4>1. l - 1 \in 1..Len(ns) /\ l - 1 # Len(ns)
          BY <1>1, <3>1
        <4>2. ns[l].parents \subseteq {ns[l - 1].id}
          BY <1>1 DEF Before
        <4> QED
          BY <1>1, <2>1, <4>1, <4>2
      <3>2. CASE ~(l > 1)
        BY <1>1, <3>2 DEF Before
      <3> QED
        BY <3>1, <3>2
    <2> QED
      BY <1>1, <1>3, <2>1, <2>2, LeavesArePlaces DEF IsLeaf
  <1> QED
    BY <1>2, <1>3

\* The head is the leaf, if there is one: a new commit's parents are all leaves.
LEMMA HeadIsLeaf ==
    ASSUME NEW ns, Descent(ns)
    PROVE  Evolution!Head1(ns) = Evolution!Leaves(ns)
  <1>1. CASE Evolution!Leaves(ns) = {}
    BY <1>1 DEF Evolution!Head1
  <1>2. ASSUME NEW a \in Evolution!Leaves(ns) PROVE Evolution!Head1(ns) = Evolution!Leaves(ns)
    <2>1. Evolution!Leaves(ns) = {a}
      BY LeafIsLast
    <2>2. a.fitness \in Int /\ a.at \in Int /\ a.id[2] \in Int
      <3>1. ns \in Seq(Node) /\ \E i \in 1..Len(ns) : a = ns[i]
        BY LeavesArePlaces DEF Descent
      <3>2. a \in Node
        BY <3>1
      <3>3. a.fitness \in Int /\ a.at \in Nat /\ a.id \in Nat \X Nat
        BY <3>2, NodeHolds
      <3>4. \A p \in Nat \X Nat : p[2] \in Int
        OBVIOUS
      <3> QED
        BY <3>3, <3>4
    <2>3. ~Evolution!Better(a, a)
      BY <2>2 DEF Evolution!Better
    <2>4. Evolution!Best({a}) = a
      BY <2>3 DEF Evolution!Best
    <2> QED
      BY <2>1, <2>4 DEF Evolution!Head1
  <1> QED
    BY <1>1, <1>2

\* An empty lineage is one.
LEMMA EmptyDescent == Descent(<<>>)
  BY EmptySeq DEF Descent

\* A lineage with a commit that is added to it is one.
LEMMA DescentGrows ==
    ASSUME NEW ns, Descent(ns), NEW f \in Scores \cup {Evolution!Unscored}, NEW t \in Nat,
           Evolution!CanAdd(ns, Evolution!NewNode(ns, f, t))
    PROVE  Descent(Append(ns, Evolution!NewNode(ns, f, t)))
  <1>1. ns \in Seq(Node) /\ Len(ns) \in Nat /\ DOMAIN ns = 1..Len(ns)
    BY DEF Descent
  <1>2. PICK n : n = Evolution!NewNode(ns, f, t)
    OBVIOUS
  <1>3. /\ n = [id |-> <<t, Len(ns)>>, parents |-> {h.id : h \in Evolution!Leaves(ns)},
                fitness |-> f, at |-> t]
        /\ \A i \in 1..Len(ns) : n.id # ns[i].id
        /\ \A id \in n.parents : \E j \in 1..Len(ns) : ns[j].id = id
    BY <1>1, <1>2, HeadIsLeaf DEF Evolution!NewNode, Evolution!CanAdd, Evolution!Ids
  <1>4. n \in Node
    <2>1. \A j \in 1..Len(ns) : ns[j].id \in Nat \X Nat
      <3>1. \A j \in 1..Len(ns) : ns[j] \in Node
        BY <1>1
      <3> QED
        BY <3>1 DEF Node
    <2>2. n.parents \subseteq Nat \X Nat
      <3>1. ASSUME NEW id \in n.parents PROVE id \in Nat \X Nat
        <4>1. PICK j \in 1..Len(ns) : ns[j].id = id
          BY <1>3
        <4> QED
          BY <2>1, <4>1
      <3> QED
        BY <3>1
    <2>3. n.parents = {h.id : h \in Evolution!Leaves(ns)}
      BY <1>3
    <2>4. {h.id : h \in Evolution!Leaves(ns)} \in SUBSET (Nat \X Nat)
      BY <2>2, <2>3
    <2> QED
      BY <1>1, <1>3, <2>4 DEF Node
  <1>5. PICK ms : ms = Append(ns, n)
    OBVIOUS
  <1>6. /\ ms \in Seq(Node) /\ Len(ms) = Len(ns) + 1 /\ ms[Len(ns) + 1] = n
        /\ \A i \in 1..Len(ns) : ms[i] = ns[i]
    BY <1>1, <1>4, <1>5, AppendProperties
  <1>7. DOMAIN ms = 1..Len(ns) + 1 /\ \A i \in DOMAIN ms : i \in 1..Len(ns) \/ i = Len(ns) + 1
    BY <1>1, <1>6
  <1>8. \A i, j \in DOMAIN ms : ms[i].id = ms[j].id => i = j
    BY <1>1, <1>3, <1>6, <1>7 DEF Descent
  <1>9. ASSUME NEW i \in DOMAIN ms PROVE ms[i].parents = Before(ms, i)
    <2>1. CASE i = Len(ns) + 1
      <3>1. n.parents = Before(ms, i)
        <4>1. CASE ns = <<>>
          BY <1>1, <1>3, <2>1, <4>1, EmptySeq, LeafIsLast DEF Before
        <4>2. CASE ns # <<>>
          <5>1. i > 1 /\ i - 1 = Len(ns) /\ ms[i - 1] = ns[Len(ns)]
            BY <1>1, <1>6, <2>1, <4>2, EmptySeq
          <5> QED
            BY <1>3, <4>2, <5>1, LeafIsLast DEF Before
        <4> QED
          BY <4>1, <4>2
      <3> QED
        BY <1>6, <2>1, <3>1
    <2>2. CASE i \in 1..Len(ns)
      <3>1. ms[i] = ns[i] /\ (i > 1 => ms[i - 1] = ns[i - 1])
        BY <1>1, <1>6, <2>2
      <3>2. ns[i].parents = Before(ns, i)
        BY <1>1, <2>2 DEF Descent
      <3> QED
        BY <2>2, <3>1, <3>2 DEF Before
    <2> QED
      BY <1>7, <2>1, <2>2
  <1> QED
    BY <1>2, <1>5, <1>6, <1>8, <1>9 DEF Descent

\* What is left of a lineage when its last commits are lost is one.
LEMMA DescentShrinks ==
    ASSUME NEW ns, Descent(ns), NEW m \in 0..Len(ns)
    PROVE  Descent(SubSeq(ns, 1, m))
  <1>1. ns \in Seq(Node) /\ Len(ns) \in Nat /\ DOMAIN ns = 1..Len(ns) /\ m \in Nat /\ m <= Len(ns)
    BY DEF Descent
  <1>2. PICK ms : ms = SubSeq(ns, 1, m)
    OBVIOUS
  <1>3. /\ ms \in Seq(Node) /\ Len(ms) = m /\ DOMAIN ms = 1..m
        /\ \A i \in 1..m : ms[i] = ns[i]
    BY <1>1, <1>2
  <1>4. \A i \in 1..m : i \in 1..Len(ns)
    BY <1>1
  <1>5. \A i, j \in DOMAIN ms : ms[i].id = ms[j].id => i = j
    BY <1>1, <1>3, <1>4 DEF Descent
  <1>6. ASSUME NEW i \in DOMAIN ms PROVE ms[i].parents = Before(ms, i)
    <2>1. i \in 1..Len(ns) /\ ms[i] = ns[i] /\ (i > 1 => ms[i - 1] = ns[i - 1])
      BY <1>1, <1>3, <1>4
    <2>2. ns[i].parents = Before(ns, i)
      BY <1>1, <2>1 DEF Descent
    <2> QED
      BY <2>1, <2>2 DEF Before
  <1> QED
    BY <1>2, <1>3, <1>5, <1>6 DEF Descent

\* LineageInv holds of an empty file.
LEMMA LineageStarts == Evolution!Init => LineageInv
  BY EmptyDescent DEF Evolution!Init, LineageInv, Alone

\* LineageInv is inductive.
LEMMA LineageStepKeeps == LineageInv /\ [Evolution!Next]_lineageVars => LineageInv'
  <1> SUFFICES ASSUME LineageInv, [Evolution!Next]_lineageVars PROVE LineageInv'
    OBVIOUS
  <1> USE DEF LineageInv
  <1>1. ASSUME NEW r \in Runs, Evolution!Load(r) PROVE LineageInv'
    <2>1. /\ nodes' = [nodes EXCEPT ![r] = file] /\ runPc' = [runPc EXCEPT ![r] = "commit"]
          /\ overlapped' = overlapped \ {r} /\ file' = file /\ now' = now
      BY <1>1 DEF Evolution!Load
    <2>2. DOMAIN nodes' = Runs /\ \A q \in Runs : nodes'[q] = IF q = r THEN file ELSE nodes[q]
      BY <2>1
    <2>3. Alone'
      BY <2>1, <2>2 DEF Alone
    <2>4. \A q \in Runs : Descent(nodes'[q])
      BY <2>2
    <2>5. ~fileCut'
      BY <1>1 DEF Evolution!Load
    <2> QED
      BY <2>1, <2>2, <2>3, <2>4, <2>5
  <1>2. ASSUME NEW r \in Runs, Evolution!Commit(r) PROVE LineageInv'
    <2>1. /\ runPc[r] = "commit" /\ file' = file /\ now' = now /\ overlapped' = overlapped
          /\ fileCut' = fileCut
      BY <1>2 DEF Evolution!Commit
    <2>2. PICK f \in Scores \cup {Evolution!Unscored} :
             \/ /\ Evolution!CanAdd(nodes[r], Evolution!NewNode(nodes[r], f, now))
                /\ nodes' = [nodes EXCEPT ![r] = Append(@, Evolution!NewNode(nodes[r], f, now))]
                /\ runPc' = [runPc EXCEPT ![r] = "save"]
             \/ nodes' = nodes /\ runPc' = [runPc EXCEPT ![r] = "idle"]
      BY <1>2 DEF Evolution!Commit
    <2>3. CASE nodes' = nodes /\ runPc' = [runPc EXCEPT ![r] = "idle"]
      BY <2>1, <2>3 DEF Alone
    <2>4. CASE /\ Evolution!CanAdd(nodes[r], Evolution!NewNode(nodes[r], f, now))
               /\ nodes' = [nodes EXCEPT ![r] = Append(@, Evolution!NewNode(nodes[r], f, now))]
               /\ runPc' = [runPc EXCEPT ![r] = "save"]
      <3>1. PICK n : n = Evolution!NewNode(nodes[r], f, now)
        OBVIOUS
      <3>2. Descent(Append(nodes[r], n))
        BY <2>2, <2>4, <3>1, DescentGrows
      <3>3. nodes' = [nodes EXCEPT ![r] = Append(nodes[r], n)]
        BY <2>4, <3>1
      <3>4. DOMAIN nodes' = Runs /\ nodes'[r] = Append(nodes[r], n)
            /\ \A q \in Runs \ {r} : nodes'[q] = nodes[q]
        BY <3>3
      <3>5. \A q \in Runs : Descent(nodes'[q])
        BY <3>2, <3>4
      <3>6. file \in Seq(Node)
        BY DEF Descent
      <3>7. r \notin overlapped => /\ Len(nodes'[r]) = Len(file) + 1
                                   /\ SubSeq(nodes'[r], 1, Len(file)) = file
        <4>1. \A s : Len(Append(file, s)) = Len(file) + 1 /\ SubSeq(Append(file, s), 1, Len(file)) = file
          BY <3>6
        <4> QED
          BY <2>1, <3>4, <4>1 DEF Alone
      <3>8. Alone'
        BY <2>1, <2>4, <3>4, <3>7 DEF Alone
      <3> QED
        BY <2>1, <2>4, <3>4, <3>5, <3>8
    <2> QED
      BY <2>2, <2>3, <2>4
  <1>3. ASSUME NEW r \in Runs, Evolution!Save(r) \/ Evolution!DieInSave(r) PROVE LineageInv'
    <2>1. /\ runPc[r] = "save" /\ now' = now
          /\ nodes' = [nodes EXCEPT ![r] = <<>>]
          /\ \E l \in {"idle", "dead"} : runPc' = [runPc EXCEPT ![r] = l]
          /\ overlapped' = overlapped \cup {q \in Runs \ {r} : runPc[q] \in {"commit", "save"}}
      BY <1>3 DEF Evolution!Save, Evolution!DieInSave
    <2>2. Descent(file')
      <3>1. CASE Evolution!Save(r)
        BY <3>1 DEF Evolution!Save
      <3>2. CASE Evolution!DieInSave(r)
        <4>1. PICK m \in 0..Len(nodes[r]) - 1 : file' = SubSeq(nodes[r], 1, m)
          BY <3>2 DEF Evolution!DieInSave
        <4>2. m \in 0..Len(nodes[r])
          BY DEF Descent
        <4> QED
          BY <4>1, <4>2, DescentShrinks
      <3> QED
        BY <1>3, <3>1, <3>2
    <2>3. \A q \in Runs : Descent(nodes'[q])
      BY <2>1, EmptyDescent
    <2>4. Alone'
      BY <2>1 DEF Alone
    <2>5. fileCut' => \E q \in Runs : runPc'[q] = "dead"
      <3>1. CASE Evolution!Save(r)
        BY <3>1 DEF Evolution!Save
      <3>2. CASE Evolution!DieInSave(r)
        BY <3>2 DEF Evolution!DieInSave
      <3> QED
        BY <1>3, <3>1, <3>2
    <2> QED
      BY <2>1, <2>2, <2>3, <2>4, <2>5
  <1>4. CASE Evolution!Tick \/ UNCHANGED lineageVars
    <2>1. /\ file' = file /\ nodes' = nodes /\ runPc' = runPc /\ overlapped' = overlapped
          /\ fileCut' = fileCut
      BY <1>4 DEF Evolution!Tick, lineageVars
    <2>2. now' \in Nat
      BY <1>4 DEF Evolution!Tick, lineageVars
    <2> QED
      BY <2>1, <2>2 DEF Alone
  <1> QED
    BY <1>1, <1>2, <1>3, <1>4 DEF Evolution!Next, lineageVars

\* FileSound, LinesOfDescent and ImprovingIsHealthy follow.
LEMMA LineagePromises ==
    LineageInv => Evolution!FileSound /\ Evolution!LinesOfDescent /\ Evolution!ImprovingIsHealthy
  <1> SUFFICES ASSUME LineageInv
               PROVE  Evolution!FileSound /\ Evolution!LinesOfDescent /\ Evolution!ImprovingIsHealthy
    OBVIOUS
  <1>1. Descent(file) /\ file \in Seq(Node) /\ DOMAIN file = 1..Len(file) /\ Len(file) \in Nat
    BY DEF LineageInv, Descent
  <1>2. Evolution!FileSound
    <2>1. \A i, j \in DOMAIN file : file[i].id = file[j].id => i = j
      BY <1>1 DEF Descent
    <2>2. ASSUME NEW i \in DOMAIN file, NEW id \in file[i].parents
          PROVE  \E j \in 1..i - 1 : file[j].id = id
      <3>1. i > 1 /\ id = file[i - 1].id
        BY <1>1, <2>2 DEF Descent, Before
      <3>2. i - 1 \in 1..i - 1
        BY <1>1, <3>1
      <3> QED
        BY <3>1, <3>2
    <2>3. ASSUME NEW i \in DOMAIN file, NEW id \in file[i].parents
          PROVE  id \in Evolution!Ids(file) \ {file[i].id}
      <3>1. PICK j \in 1..i - 1 : file[j].id = id
        BY <2>2, <2>3
      <3>2. j \in DOMAIN file /\ j # i
        BY <1>1, <3>1
      <3> QED
        BY <2>1, <3>1, <3>2 DEF Evolution!Ids
    <2>4. Evolution!Loadable(file)
      BY <2>1, <2>3 DEF Evolution!Loadable
    <2>5. fileCut => \E r \in Runs : runPc[r] = "dead"
      BY DEF LineageInv
    <2> QED
      BY <2>2, <2>4, <2>5 DEF Evolution!FileSound
  <1>3. Evolution!LinesOfDescent
    BY <1>1 DEF Evolution!LinesOfDescent, Descent, Before
  <1>4. Evolution!ImprovingIsHealthy
    <2> SUFFICES ASSUME \A i, j \in DOMAIN file : i < j => file[i].fitness < file[j].fitness
                 PROVE  Evolution!Verdict(file, now) \in {"empty", "old", "healthy"}
      BY DEF Evolution!ImprovingIsHealthy
    <2> DEFINE from == IF Len(file) > ImprovementWindow THEN Len(file) - ImprovementWindow + 1 ELSE 1
               scored == {i \in from..Len(file) : file[i].fitness # Evolution!Unscored}
    <2>1. from \in Nat /\ from >= 1
      BY <1>1, LineageConstants
    <2>2. scored \subseteq DOMAIN file
      BY <1>1, <2>1
    <2>3. \A i \in DOMAIN file : file[i].fitness \in Int
      <3>1. \A i \in DOMAIN file : file[i] \in Node
        BY <1>1
      <3> QED
        BY <3>1, NodeHolds
    <2>4. ~ \E i, j \in scored :
              i < j /\ scored \subseteq i..j /\ file[j].fitness <= file[i].fitness
      BY <2>2, <2>3
    <2> QED
      BY <2>4 DEF Evolution!Verdict
  <1> QED
    BY <1>2, <1>3, <1>4

\* A run that no other overlapped adds one commit to the file.
LEMMA LineageGrows ==
    LineageInv /\ [Evolution!Next]_lineageVars =>
        \A r \in Runs \ overlapped :
            runPc[r] = "save" /\ runPc'[r] = "idle"
                => Evolution!IsPrefix(file, file') /\ Len(file') = Len(file) + 1
  <1> SUFFICES ASSUME LineageInv, [Evolution!Next]_lineageVars, NEW r \in Runs \ overlapped,
                      runPc[r] = "save", runPc'[r] = "idle"
               PROVE  Evolution!IsPrefix(file, file') /\ Len(file') = Len(file) + 1
    OBVIOUS
  <1>1. Evolution!Save(r)
    BY DEF Evolution!Next, Evolution!Load, Evolution!Commit, Evolution!Save, Evolution!DieInSave,
           Evolution!Tick, lineageVars, LineageInv
  <1>2. file' = nodes[r] /\ Len(nodes[r]) = Len(file) + 1 /\ SubSeq(nodes[r], 1, Len(file)) = file
    BY <1>1 DEF Evolution!Save, LineageInv, Alone
  <1>3. file \in Seq(Node) /\ Len(file) \in Nat
    BY DEF LineageInv, Descent
  <1>4. SubSeq(file, 1, Len(file)) = file
    BY <1>3
  <1> QED
    BY <1>2, <1>3, <1>4 DEF Evolution!IsPrefix

-----------------------------------------------------------------------------
(* The four side by side                                                   *)

\* A step of the composition is a step or a stutter of each machine.
LEMMA EachSteps ==
    [PartsNext]_partVars =>
        /\ [Shell!Next]_shellVars
        /\ [Writes!Next]_writeVars
        /\ [Bridge!Next]_bridgeVars
        /\ [Evolution!Next]_lineageVars
  <1> SUFFICES ASSUME [PartsNext]_partVars
               PROVE  /\ [Shell!Next]_shellVars
                      /\ [Writes!Next]_writeVars
                      /\ [Bridge!Next]_bridgeVars
                      /\ [Evolution!Next]_lineageVars
    OBVIOUS
  <1>1. CASE ShellStep(Shell!Next)
    BY <1>1 DEF ShellStep
  <1>2. CASE WriteStep
    BY <1>2 DEF WriteStep
  <1>3. CASE BridgeStep(Bridge!Next)
    BY <1>3 DEF BridgeStep
  <1>4. CASE LineageStep
    BY <1>4 DEF LineageStep
  <1>5. CASE UNCHANGED partVars
    BY <1>5 DEF partVars
  <1> QED
    BY <1>1, <1>2, <1>3, <1>4, <1>5 DEF PartsNext

\* What holds of the tools together, step by step.
ToolsInv == ShellInv /\ PlaceInv /\ TextInv /\ BridgeInv

\* The invariants of the tools are inductive, and say what is promised of them.
LEMMA ToolsHold ==
    /\ PartsInit => ToolsInv
    /\ ToolsInv /\ [PartsNext]_partVars => ToolsInv'
    /\ ToolsInv => ToolsSound
  <1>1. PartsInit => ToolsInv
    BY ShellStarts, WriteStarts, BridgeStarts DEF PartsInit, ToolsInv
  <1>2. ToolsInv /\ [PartsNext]_partVars => ToolsInv'
    <2> SUFFICES ASSUME ToolsInv, [PartsNext]_partVars PROVE ToolsInv'
      OBVIOUS
    <2>1. ShellInv'
      BY EachSteps, ShellStepKeeps DEF ToolsInv
    <2>2. (PlaceInv /\ TextInv)'
      BY EachSteps, WriteStepKeeps DEF ToolsInv
    <2>3. BridgeInv'
      BY EachSteps, BridgeStepKeeps DEF ToolsInv
    <2> QED
      BY <2>1, <2>2, <2>3 DEF ToolsInv
  <1>3. ToolsInv => ToolsSound
    <2> SUFFICES ASSUME ToolsInv PROVE ToolsSound
      OBVIOUS
    <2>1. Shell!TypeOK /\ Shell!OutputExact /\ Shell!GroupGone
      BY ShellPromises DEF ToolsInv
    <2>2. Writes!TypeOK /\ Writes!FileWhole /\ Writes!TempsGone /\ Writes!WrittenShows
      BY WritesPromise DEF ToolsInv, PlaceInv, TextInv
    <2>3. Bridge!TypeOK /\ Bridge!EachTried /\ Bridge!CallReaches /\ Bridge!NoneLeft
      BY BridgePromises DEF ToolsInv
    <2> QED
      BY <2>1, <2>2, <2>3 DEF ToolsSound, ToolTypes
  <1> QED
    BY <1>1, <1>2, <1>3

\* The answer of a shell command holds what was written up to the cap and says so,
\* and a timeout leaves nothing of its process group; the edited file is whole
\* whoever dies, but for a rewrite in place and what was read in the midst of one,
\* no call that returns leaves a temporary file unless the write of it failed, and
\* a text reported as written is there unless another reported text took its place
\* or a rewrite in place has the file half written; an extension that fails takes
\* no other down, a call goes to the first server that listed its name, and a
\* shutdown leaves no server but one that hung in its handshake.
THEOREM ToolsAreSound == PartsSpec => []ToolsSound
  BY ToolsHold, PTL DEF PartsSpec

\* The whole lines of the lineage file are a lineage without a cycle, and the file
\* is cut in a line only where a run died in its save; a run alone adds its commit
\* and loses none, each commit is built on the one before it if that was scored,
\* and no stall is seen where every commit improved.
THEOREM LineageIsSound == PartsSpec => LineageSound
  <1>1. PartsInit => LineageInv
    BY LineageStarts DEF PartsInit
  <1>2. LineageInv /\ [PartsNext]_partVars => LineageInv'
    BY EachSteps, LineageStepKeeps
  <1>3. LineageInv =>
            Evolution!FileSound /\ Evolution!LinesOfDescent /\ Evolution!ImprovingIsHealthy
    BY LineagePromises
  <1>4. LineageInv /\ [PartsNext]_partVars =>
            [\A r \in Runs \ overlapped :
                runPc[r] = "save" /\ runPc'[r] = "idle"
                    => Evolution!IsPrefix(file, file') /\ Len(file') = Len(file) + 1]_lineageVars
    BY EachSteps, LineageGrows
  <1>5. PartsSpec => []LineageInv
    BY <1>1, <1>2, PTL DEF PartsSpec
  <1>6. PartsSpec =>
            [](Evolution!FileSound /\ Evolution!LinesOfDescent /\ Evolution!ImprovingIsHealthy)
    BY <1>3, <1>5, PTL
  <1>7. PartsSpec => Evolution!GrowsAlone
    BY <1>4, <1>5, PTL DEF PartsSpec, Evolution!GrowsAlone, Evolution!vars, lineageVars
  <1> QED
    BY <1>6, <1>7 DEF LineageSound
=============================================================================
