----------------------- MODULE SessionRunner_proofs -----------------------
(***************************************************************************)
(* A session and the slot it runs in.  The session: for any budget, any    *)
(* tool calls, any window and threshold of the loop detector, and a ledger *)
(* that may fail.  The semaphore: for every set of callers, placement in   *)
(* processes and number of slots, its types, who owns the lease files of   *)
(* live processes, its queues, and the two rules it does enforce           *)
(* (SettledLeaseKept, AlienBlocks).                                        *)
(***************************************************************************)
EXTENDS SessionRunner, SlotSemaphore, SequenceTheorems, FiniteSetTheorems, TLAPS

(* The places where a final text may still be asked for.                    *)
Running == {"loop", "chat", "tools", "retry", "final"}

(* What each place in the code says of the status.  CeilingKept needs it:   *)
(* a turn that stops at the ceiling is the last one, and the steps that set *)
(* another status start from "completed".                                   *)
StatusAt ==
    /\ pc \in Running => status = "completed"
    /\ pc \in {"salvage", "salvageTools", "followUp"} =>
        status = "reasoning_budget_exhausted"
    /\ pc \notin {"return", "ended"} => error = "none"
    /\ pc = "final" => turns = budget
    /\ pc = "tools" => calls # <<>>
    /\ pc = "salvageTools" => calls # <<>>
    /\ pc = "close" =>
        /\ status = "completed" => (acted => text # "blank")
        /\ status = "completed_budget_exhausted" => turns = budget
    /\ pc \in {"return", "ended"} /\ error = "none" =>
        /\ status = "completed" => turns < budget /\ (acted => text # "blank")
        /\ status = "completed_budget_exhausted" => turns = budget
    /\ pc = "ended" /\ status = "failed" => task = "failed"

IInv == TypeOK /\ StatusAt /\ CeilingKept

CeilingHit == \E i \in 1..Len(ledger) : CeilingTurn(i)

-----------------------------------------------------------------------------
(* What the helpers of the actions do.                                     *)

(* The loop detector's state keeps its type.                                *)
LEMMA RecordType ==
    ASSUME Detector!TypeOK, NEW a \in Actions, Detector!Record(a)
    PROVE  (Detector!TypeOK)'
<1>w. Window \in Nat /\ Window > 0
  BY RunnerAssumption
<1>h. history \in Seq(Actions) /\ Len(history) \in Nat /\ Len(history) <= Window
  BY DEF Detector!TypeOK
<1>1. history' \in Seq(Actions) /\ Len(history') <= Window
  <2>1. CASE Len(history) = Window
    <3>1. history # <<>>
      BY <2>1, <1>w
    <3>2. Tail(history) \in Seq(Actions) /\ Len(Tail(history)) = Len(history) - 1
      BY <1>h, <3>1, HeadTailProperties
    <3>3. history' = Append(Tail(history), a)
      BY <2>1 DEF Detector!Record, Detector!Pushed
    <3> QED BY <3>2, <3>3, <1>h, <1>w, AppendProperties
  <2>2. CASE Len(history) # Window
    <3>1. history' = Append(history, a)
      BY <2>2 DEF Detector!Record, Detector!Pushed
    <3> QED BY <2>2, <3>1, <1>h, <1>w, AppendProperties
  <2> QED BY <2>1, <2>2
<1>2. advised' \in BOOLEAN /\ verdict' \in {"ok", "advisory", "loop"}
  BY DEF Detector!Record, Detector!TypeOK, Detector!Repeats
<1> QED BY <1>1, <1>2 DEF Detector!TypeOK, Detector!Verdicts

LEMMA DetectorSame ==
    ASSUME Detector!TypeOK, UNCHANGED detectorVars
    PROVE  (Detector!TypeOK)'
BY DEF Detector!TypeOK, detectorVars

(* Every event logged is an event.                                          *)
LEMMA EventType ==
    ASSUME NEW t \in Nat
    PROVE  /\ \A c \in Completion : Dispatched(t, c) \in Event
           /\ \A c \in Completion : Dispatched(t, [c EXCEPT !.calls = <<>>]) \in Event
           /\ \A a \in Actions : Returned(t, a) \in Event
           /\ Salvaged(t) \in Event /\ Final(t) \in Event
<1>e. <<>> \in Seq(Actions)
  BY EmptySeq
<1>1. ASSUME NEW c \in Completion
      PROVE  Dispatched(t, c) \in Event /\ Dispatched(t, [c EXCEPT !.calls = <<>>]) \in Event
  <2>1. c.calls \in Seq(Actions) /\ c.length \in BOOLEAN
    BY RunnerAssumption DEF Completion
  <2>2. [c EXCEPT !.calls = <<>>].calls = <<>> /\ [c EXCEPT !.calls = <<>>].length = c.length
    BY DEF Completion
  <2> QED BY <1>e, <2>1, <2>2 DEF Dispatched, Event
<1>2. ASSUME NEW a \in Actions PROVE Returned(t, a) \in Event
  <2>1. <<a>> \in Seq(Actions)
    OBVIOUS
  <2> QED BY <2>1 DEF Returned, Event
<1>3. Salvaged(t) \in Event /\ Final(t) \in Event
  BY <1>e DEF Salvaged, Final, Event
<1> QED BY <1>1, <1>2, <1>3

IsCeiling(e) ==
    e.type = "dispatch" /\ e.turn <= budget /\ e.calls = <<>> /\ e.length

(* The ledger keeps its type, and only an event that is one makes a ceiling *)
(* turn of it.                                                              *)
LEMMA LedgerStep ==
    ASSUME TypeOK, NEW e \in Event, ledger' = Append(ledger, e), budget' = budget
    PROVE  /\ ledger' \in Seq(Event)
           /\ CeilingHit' => CeilingHit \/ IsCeiling(e)
<1>1. /\ ledger \in Seq(Event) /\ Len(ledger) \in Nat
      /\ ledger' \in Seq(Event) /\ Len(ledger') = Len(ledger) + 1
      /\ \A i \in 1..Len(ledger) : ledger'[i] = ledger[i]
      /\ ledger'[Len(ledger) + 1] = e
  BY AppendProperties DEF TypeOK
<1>2. ASSUME NEW i \in 1..Len(ledger'), CeilingTurn(i)'
      PROVE  CeilingHit \/ IsCeiling(e)
  <2>1. CASE i \in 1..Len(ledger)
    BY <1>1, <1>2, <2>1 DEF CeilingHit, CeilingTurn
  <2>2. CASE i = Len(ledger) + 1
    BY <1>1, <1>2, <2>2 DEF CeilingTurn, IsCeiling
  <2> QED BY <1>1, <2>1, <2>2
<1> QED BY <1>1, <1>2 DEF CeilingHit

LEMMA LedgerSame ==
    ASSUME TypeOK, UNCHANGED <<ledger, budget>>
    PROVE  /\ ledger' \in Seq(Event)
           /\ CeilingHit' => CeilingHit
BY DEF TypeOK, CeilingHit, CeilingTurn

(* An event that is not a dispatch is no ceiling turn.                      *)
LEMMA NoCeiling ==
    /\ \A t, a : ~IsCeiling(Returned(t, a))
    /\ \A t : ~IsCeiling(Salvaged(t)) /\ ~IsCeiling(Final(t))
BY DEF IsCeiling, Returned, Salvaged, Final

LEMMA SaysType ==
    ASSUME TypeOK, NEW s \in Seq(Kinds), Says(s)
    PROVE  messages' \in Seq(Kinds)
BY ConcatProperties DEF TypeOK, Says

LEMMA KindsType ==
    /\ <<>> \in Seq(Kinds)
    /\ \A k \in Kinds : <<k>> \in Seq(Kinds)
    /\ \A k, l \in Kinds : <<k, l>> \in Seq(Kinds)
BY EmptySeq

LEMMA CallsType ==
    ASSUME NEW s \in Seq(Actions), s # <<>>
    PROVE  /\ Head(s) \in Actions /\ Tail(s) \in Seq(Actions)
           /\ Len(s) # 1 => Tail(s) # <<>>
<1>1. /\ Head(s) \in Actions /\ Tail(s) \in Seq(Actions)
      /\ Len(Tail(s)) = Len(s) - 1 /\ Len(s) \in Nat
  BY HeadTailProperties
<1>2. Len(s) # 1 => Len(Tail(s)) # 0
  BY <1>1
<1> QED BY <1>1, <1>2, EmptySeq

LEMMA LogsStep ==
    ASSUME TypeOK, NEW e \in Event, NEW next \in Labels, Logs(e, next), budget' = budget
    PROVE  /\ ledger' \in Seq(Event) /\ pc' \in Labels /\ error' \in Errors
           /\ \/ pc' = next /\ error' = error
              \/ pc' = "return" /\ error' = "io"
           /\ CeilingHit' => CeilingHit \/ (IsCeiling(e) /\ pc' = next /\ error' = error)
<1>1. CASE ledger' = Append(ledger, e) /\ pc' = next /\ error' = error
  BY <1>1, LedgerStep DEF TypeOK
<1>2. CASE LedgerFails /\ ledger' = ledger /\ pc' = "return" /\ error' = "io"
  BY <1>2, LedgerSame DEF Labels, Errors
<1> QED BY <1>1, <1>2 DEF Logs

LEMMA LogsIfItCanStep ==
    ASSUME TypeOK, NEW e \in Event, ~IsCeiling(e), LogsIfItCan(e), budget' = budget
    PROVE  /\ ledger' \in Seq(Event)
           /\ CeilingHit' => CeilingHit
BY LedgerStep, LedgerSame DEF LogsIfItCan

-----------------------------------------------------------------------------
(* IInv holds initially, and is kept by the loop over turns.               *)

LEMMA InitIInv == Init => IInv
<1> SUFFICES ASSUME Init PROVE IInv
  OBVIOUS
<1>1. budget \in Nat \ {0} /\ turns \in 0..budget
  BY RunnerAssumption DEF Init
<1>2. Detector!TypeOK
  <2>1. history = <<>> /\ advised = FALSE /\ verdict = "ok"
    BY DEF Init, Detector!Init
  <2>2. history \in Seq(Actions) /\ Len(history) <= Window
    BY <2>1, RunnerAssumption, EmptySeq
  <2> QED BY <2>1, <2>2 DEF Detector!TypeOK, Detector!Verdicts
<1>3. messages \in Seq(Kinds)
  BY KindsType DEF Init, Kinds
<1>4. TypeOK
  BY <1>1, <1>2, <1>3, EmptySeq DEF Init, TypeOK, Labels, Texts, Statuses, Errors
<1>5. StatusAt
  BY DEF Init, StatusAt, Running
<1>6. CeilingKept
  <2>1. Len(ledger) = 0
    BY EmptySeq DEF Init
  <2> QED BY <2>1 DEF CeilingKept
<1> QED BY <1>4, <1>5, <1>6 DEF IInv

LEMMA EngineFailsIInv ==
    ASSUME IInv, EngineFails, pc \in Running
    PROVE  IInv'
<1>1. TypeOK'
  BY DetectorSame DEF IInv, EngineFails, TypeOK, Labels, Errors
<1>2. StatusAt'
  BY DEF IInv, EngineFails, StatusAt, Running
<1>3. CeilingKept'
  BY LedgerSame DEF IInv, EngineFails, CeilingKept, CeilingHit
<1> QED BY <1>1, <1>2, <1>3 DEF IInv

LEMMA BeginTurnIInv == IInv /\ BeginTurn => IInv'
<1> SUFFICES ASSUME IInv, BeginTurn PROVE IInv'
  OBVIOUS
<1>1. messages' \in Seq(Kinds)
  <2>1. (IF Landing THEN <<"notice">> ELSE <<>>) \in Seq(Kinds)
    BY KindsType DEF Kinds
  <2> QED BY <2>1, SaysType DEF IInv, BeginTurn
<1>2. turns' \in 0..budget'
  BY DEF IInv, BeginTurn, TypeOK
<1>3. noticed' \in BOOLEAN
  BY DEF IInv, BeginTurn, TypeOK, Landing
<1>4. TypeOK'
  BY <1>1, <1>2, <1>3, DetectorSame DEF IInv, BeginTurn, TypeOK, Labels
<1>5. StatusAt'
  BY DEF IInv, BeginTurn, StatusAt, Running
<1>6. CeilingKept'
  BY LedgerSame DEF IInv, BeginTurn, CeilingKept, CeilingHit
<1> QED BY <1>4, <1>5, <1>6 DEF IInv

LEMMA AnswerIInv ==
    ASSUME IInv, pc = "chat", NEW c \in Completion, Answer(c),
           UNCHANGED <<budget, turns, noticed, acted, task, detectorVars>>
    PROVE  IInv'
<1>t. TypeOK /\ status = "completed" /\ error = "none" /\ turns \in Nat
  BY DEF IInv, StatusAt, Running, TypeOK
<1>n. AfterAnswer(c) \in {"salvage", "retry", "close"} /\ AfterAnswer(c) \in Labels
  BY DEF AfterAnswer, Labels
<1>e. Dispatched(turns, c) \in Event
  BY <1>t, EventType
<1>c. c.content \in Texts
  BY DEF Completion
<1>1. /\ ledger' \in Seq(Event) /\ pc' \in Labels /\ error' \in Errors
      /\ \/ pc' = AfterAnswer(c) /\ error' = error
         \/ pc' = "return" /\ error' = "io"
      /\ CeilingHit' => CeilingHit \/ (IsCeiling(Dispatched(turns, c))
                                       /\ pc' = AfterAnswer(c) /\ error' = error)
  <2>1. Logs(Dispatched(turns, c), AfterAnswer(c))
    BY DEF Answer
  <2> QED BY <2>1, <1>t, <1>n, <1>e, LogsStep
<1>2. messages' \in Seq(Kinds) /\ text' \in Texts /\ status' \in Statuses
  <2>1. CASE error' # "none"
    BY <2>1, <1>t DEF Answer, TypeOK
  <2>2. CASE error' = "none"
    <3>1. (IF AfterAnswer(c) = "close" THEN <<"assistant">> ELSE <<"assistant", "salvage">>)
             \in Seq(Kinds)
      BY KindsType DEF Kinds
    <3>2. messages' \in Seq(Kinds)
      BY <2>2, <3>1, <1>t, SaysType DEF Answer
    <3> QED BY <2>2, <3>2, <1>t, <1>c DEF Answer, Statuses, TypeOK
  <2> QED BY <2>1, <2>2
<1>3. TypeOK'
  BY <1>t, <1>1, <1>2, DetectorSame DEF TypeOK, Answer
<1>4. StatusAt'
  <2>1. CASE pc' = AfterAnswer(c) /\ error' = error
    BY <2>1, <1>t, <1>n DEF StatusAt, Running, Answer, AfterAnswer, Degenerate
  <2>2. CASE pc' = "return" /\ error' = "io"
    BY <2>2 DEF StatusAt, Running
  <2> QED BY <1>1, <2>1, <2>2
<1>5. CeilingKept'
  <2>1. ~CeilingHit
    BY <1>t DEF IInv, CeilingKept, CeilingHit
  <2>2. IsCeiling(Dispatched(turns, c)) => IsReasoningCeiling(c)
    BY DEF IsCeiling, Dispatched, IsReasoningCeiling
  <2>3. CeilingHit' => status' = "reasoning_budget_exhausted"
    BY <2>1, <2>2, <1>1, <1>t DEF Answer
  <2> QED BY <2>3 DEF CeilingKept, CeilingHit
<1> QED BY <1>3, <1>4, <1>5 DEF IInv

LEMMA CallToolsIInv ==
    ASSUME IInv, pc = "chat", NEW c \in Completion, CallTools(c),
           UNCHANGED <<budget, turns, noticed, acted, task, detectorVars>>
    PROVE  IInv'
<1>t. TypeOK /\ status = "completed" /\ error = "none" /\ turns \in Nat
  BY DEF IInv, StatusAt, Running, TypeOK
<1>e. Dispatched(turns, c) \in Event
  BY <1>t, EventType
<1>c. c.calls \in Seq(Actions)
  BY RunnerAssumption DEF Completion
<1>1. /\ ledger' \in Seq(Event) /\ pc' \in Labels /\ error' \in Errors
      /\ \/ pc' = "tools" /\ error' = error
         \/ pc' = "return" /\ error' = "io"
      /\ CeilingHit' => CeilingHit \/ IsCeiling(Dispatched(turns, c))
  <2>1. Logs(Dispatched(turns, c), "tools") /\ "tools" \in Labels
    BY DEF CallTools, Labels
  <2> QED BY <2>1, <1>t, <1>e, LogsStep
<1>2. messages' \in Seq(Kinds) /\ calls' \in Seq(Actions)
  <2>1. <<"assistant">> \in Seq(Kinds)
    BY KindsType DEF Kinds
  <2> QED BY <2>1, <1>t, <1>c, SaysType DEF CallTools, TypeOK
<1>3. TypeOK'
  BY <1>t, <1>1, <1>2, DetectorSame DEF TypeOK, CallTools
<1>4. StatusAt'
  BY <1>t, <1>1 DEF StatusAt, Running, CallTools
<1>5. CeilingKept'
  <2>1. ~CeilingHit
    BY <1>t DEF IInv, CeilingKept, CeilingHit
  <2>2. ~IsCeiling(Dispatched(turns, c))
    BY DEF IsCeiling, Dispatched, CallTools
  <2> QED BY <2>1, <2>2, <1>1 DEF CeilingKept, CeilingHit
<1> QED BY <1>3, <1>4, <1>5 DEF IInv

LEMMA ChatIInv == IInv /\ Chat => IInv'
BY EngineFailsIInv, AnswerIInv, CallToolsIInv DEF Chat, Running

LEMMA ExecuteIInv == IInv /\ Execute => IInv'
<1> SUFFICES ASSUME IInv, Execute PROVE IInv'
  OBVIOUS
<1> DEFINE a == Head(calls)
           next == IF Len(calls) = 1 THEN "loop" ELSE "tools"
<1>t. /\ TypeOK /\ status = "completed" /\ error = "none" /\ turns \in Nat
      /\ calls \in Seq(Actions) /\ calls # <<>>
  BY DEF IInv, StatusAt, Running, TypeOK, Execute
<1>a. a \in Actions /\ calls' \in Seq(Actions) /\ (Len(calls) # 1 => calls' # <<>>)
  BY <1>t, CallsType DEF Execute
<1>e. Returned(turns, a) \in Event /\ ~IsCeiling(Returned(turns, a))
  BY <1>t, <1>a, EventType, NoCeiling
<1>r. Result(a, next) /\ UNCHANGED <<budget, turns, noticed, text, status, task>> /\ acted'
  BY DEF Execute
<1>k. /\ <<"tool">> \in Seq(Kinds)
      /\ (IF verdict' = "advisory" THEN <<"tool", "advisory">> ELSE <<"tool">>) \in Seq(Kinds)
  BY KindsType DEF Kinds
<1> HIDE DEF a
<1>1. /\ ledger' \in Seq(Event) /\ (CeilingHit' => CeilingHit)
      /\ (Detector!TypeOK)' /\ messages' \in Seq(Kinds)
      /\ \/ pc' = next /\ error' = error
         \/ pc' = "return" /\ error' \in {"loop", "io"}
  <2>d. Detector!TypeOK
    BY <1>t DEF TypeOK
  <2>1. CASE /\ ledger' = Append(ledger, Returned(turns, a))
             /\ Detector!Record(a)
             /\ Says(IF verdict' = "advisory" THEN <<"tool", "advisory">> ELSE <<"tool">>)
             /\ error' = IF verdict' = "loop" THEN "loop" ELSE error
             /\ pc' = IF verdict' = "loop" THEN "return" ELSE next
    BY <2>1, <2>d, <1>t, <1>a, <1>e, <1>r, <1>k, LedgerStep, RecordType, SaysType
  <2>2. CASE /\ LedgerFails
             /\ Says(<<"tool">>)
             /\ error' = "io" /\ pc' = "return"
             /\ UNCHANGED <<ledger, detectorVars>>
    BY <2>2, <2>d, <1>t, <1>r, <1>k, LedgerSame, DetectorSame, SaysType
  <2> QED BY <1>r, <2>1, <2>2 DEF Result
<1>2. TypeOK'
  BY <1>t, <1>a, <1>r, <1>1 DEF TypeOK, Labels, Errors, Execute
<1>3. StatusAt'
  BY <1>t, <1>a, <1>r, <1>1 DEF StatusAt, Running
<1>4. CeilingKept'
  BY <1>t, <1>1 DEF IInv, CeilingKept, CeilingHit
<1> QED BY <1>2, <1>3, <1>4 DEF IInv

-----------------------------------------------------------------------------
(* IInv is kept by the salvage passes and by the end of the session.       *)

LEMMA RetryIInv == IInv /\ Retry => IInv'
<1> SUFFICES ASSUME IInv, Retry PROVE IInv'
  OBVIOUS
<1>t. /\ TypeOK /\ status = "completed" /\ error = "none" /\ turns \in Nat
      /\ pc \in Running
  BY DEF IInv, StatusAt, Running, TypeOK, Retry
<1>1. CASE EngineFails
  BY <1>1, <1>t, EngineFailsIInv
<1>2. ASSUME NEW c \in Completion, Logs(Salvaged(turns), "close"),
             status' = IF error' = "none" /\ c.content = "blank" THEN "failed" ELSE status,
             text' = IF error' = "none" THEN "text" ELSE text,
             UNCHANGED <<budget, turns, messages, noticed, calls, acted, task, detectorVars>>
      PROVE  IInv'
  <2>1. /\ ledger' \in Seq(Event) /\ pc' \in Labels /\ error' \in Errors
        /\ \/ pc' = "close" /\ error' = error
           \/ pc' = "return" /\ error' = "io"
        /\ CeilingHit' => CeilingHit
    <3>1. "close" \in Labels /\ Salvaged(turns) \in Event
      BY <1>t, EventType DEF Labels
    <3> QED BY <3>1, <1>t, <1>2, LogsStep, NoCeiling
  <2>2. TypeOK'
    BY <2>1, <1>2, <1>t, DetectorSame DEF TypeOK, Texts, Statuses
  <2>3. StatusAt'
    BY <2>1, <1>2, <1>t DEF StatusAt, Running
  <2>4. CeilingKept'
    BY <2>1, <1>t DEF IInv, CeilingKept, CeilingHit
  <2> QED BY <2>2, <2>3, <2>4 DEF IInv
<1> QED BY <1>1, <1>2 DEF Retry

LEMMA SalvageEndsIInv ==
    ASSUME IInv, pc \in {"salvage", "followUp"}, SalvageEnds,
           UNCHANGED <<budget, turns, messages, noticed, calls, acted, status, error, task,
                       detectorVars>>
    PROVE  IInv'
<1>t. TypeOK /\ error = "none" /\ turns + 1 \in Nat
  BY DEF IInv, StatusAt, TypeOK
<1>1. ledger' \in Seq(Event) /\ (CeilingHit' => CeilingHit)
  <2>1. Salvaged(turns + 1) \in Event
    BY <1>t, EventType
  <2> QED BY <2>1, <1>t, NoCeiling, LogsIfItCanStep DEF SalvageEnds
<1>2. TypeOK'
  BY <1>1, <1>t, DetectorSame DEF SalvageEnds, TypeOK, Labels, Texts
<1>3. StatusAt'
  BY <1>t DEF IInv, StatusAt, Running, SalvageEnds
<1>4. CeilingKept'
  BY <1>1 DEF IInv, CeilingKept, CeilingHit
<1> QED BY <1>2, <1>3, <1>4 DEF IInv

LEMMA SalvageIInv == IInv /\ Salvage => IInv'
<1> SUFFICES ASSUME IInv, Salvage PROVE IInv'
  OBVIOUS
<1>1. CASE SalvageEnds /\ UNCHANGED <<messages, calls>>
  BY <1>1, SalvageEndsIInv DEF Salvage
<1>2. ASSUME NEW c \in Completion, c.calls # <<>>, Says(<<"assistant">>), calls' = c.calls,
             pc' = "salvageTools", UNCHANGED <<ledger, text>>
      PROVE  IInv'
  <2>1. TypeOK /\ error = "none" /\ status = "reasoning_budget_exhausted"
    BY DEF IInv, StatusAt, Salvage
  <2>2. messages' \in Seq(Kinds) /\ calls' \in Seq(Actions) /\ calls' # <<>>
    <3>1. <<"assistant">> \in Seq(Kinds) /\ c.calls \in Seq(Actions)
      BY KindsType, RunnerAssumption DEF Kinds, Completion
    <3> QED BY <3>1, <2>1, <1>2, SaysType
  <2>3. TypeOK'
    BY <2>1, <2>2, <1>2, DetectorSame DEF Salvage, TypeOK, Labels
  <2>4. StatusAt'
    BY <2>1, <2>2, <1>2 DEF StatusAt, Running, Salvage
  <2>5. CeilingKept'
    BY <2>1, <1>2, LedgerSame DEF IInv, CeilingKept, CeilingHit, Salvage
  <2> QED BY <2>3, <2>4, <2>5 DEF IInv
<1> QED BY <1>1, <1>2 DEF Salvage

LEMMA SalvageExecuteIInv == IInv /\ SalvageExecute => IInv'
<1> SUFFICES ASSUME IInv, SalvageExecute PROVE IInv'
  OBVIOUS
<1>t. /\ TypeOK /\ error = "none" /\ status = "reasoning_budget_exhausted"
      /\ turns + 1 \in Nat
      /\ calls \in Seq(Actions) /\ calls # <<>>
  BY DEF IInv, StatusAt, TypeOK, SalvageExecute
<1>a. /\ Head(calls) \in Actions /\ calls' \in Seq(Actions)
      /\ Len(calls) # 1 => calls' # <<>>
  BY <1>t, CallsType DEF SalvageExecute
<1>1. ledger' \in Seq(Event) /\ (CeilingHit' => CeilingHit)
  <2>1. Returned(turns + 1, Head(calls)) \in Event
    BY <1>t, <1>a, EventType
  <2> QED BY <2>1, <1>t, NoCeiling, LogsIfItCanStep DEF SalvageExecute
<1>2. messages' \in Seq(Kinds)
  BY <1>t, KindsType, SaysType DEF SalvageExecute, Kinds
<1>3. TypeOK'
  BY <1>t, <1>a, <1>1, <1>2, DetectorSame DEF SalvageExecute, TypeOK, Labels
<1>4. StatusAt'
  BY <1>t, <1>a DEF StatusAt, Running, SalvageExecute
<1>5. CeilingKept'
  BY <1>1 DEF IInv, CeilingKept, CeilingHit, SalvageExecute
<1> QED BY <1>3, <1>4, <1>5 DEF IInv

LEMMA FollowUpIInv == IInv /\ FollowUp => IInv'
BY SalvageEndsIInv DEF FollowUp

LEMMA BudgetExhaustedIInv == IInv /\ BudgetExhausted => IInv'
<1> SUFFICES ASSUME IInv, BudgetExhausted PROVE IInv'
  OBVIOUS
<1>1. messages' \in Seq(Kinds)
  BY KindsType, SaysType DEF IInv, BudgetExhausted, Kinds
<1>2. TypeOK'
  BY <1>1, DetectorSame DEF IInv, BudgetExhausted, TypeOK, Labels
<1>3. turns = budget
  BY DEF IInv, TypeOK, BudgetExhausted
<1>4. StatusAt'
  BY <1>3 DEF IInv, StatusAt, Running, BudgetExhausted
<1>5. CeilingKept'
  BY LedgerSame DEF IInv, BudgetExhausted, CeilingKept, CeilingHit
<1> QED BY <1>2, <1>4, <1>5 DEF IInv

LEMMA SynthesizeIInv == IInv /\ Synthesize => IInv'
<1> SUFFICES ASSUME IInv, Synthesize PROVE IInv'
  OBVIOUS
<1>t. /\ TypeOK /\ status = "completed" /\ error = "none" /\ pc \in Running
      /\ turns = budget /\ turns \in Nat /\ turns + 1 \in Nat
  BY DEF IInv, StatusAt, Running, TypeOK, Synthesize
<1>1. CASE EngineFails
  BY <1>1, <1>t, EngineFailsIInv
<1>2. ASSUME NEW c \in Completion,
             Logs(Dispatched(turns + 1, [c EXCEPT !.calls = <<>>]), "close"),
             IF error' # "none" THEN UNCHANGED <<text, status>>
             ELSE text' = c.content /\ status' = "completed_budget_exhausted",
             UNCHANGED <<budget, turns, messages, noticed, calls, acted, task, detectorVars>>
      PROVE  IInv'
  <2> DEFINE e == Dispatched(turns + 1, [c EXCEPT !.calls = <<>>])
  <2>1. e \in Event /\ "close" \in Labels
    BY <1>t, EventType DEF Labels
  <2>2. ~IsCeiling(e)
    <3>1. e.turn = turns + 1
      BY DEF Dispatched
    <3>2. ~(turns + 1 <= budget)
      BY <1>t
    <3> QED BY <3>1, <3>2 DEF IsCeiling
  <2>3. Logs(e, "close")
    BY <1>2
  <2> HIDE DEF e
  <2>4. /\ ledger' \in Seq(Event) /\ pc' \in Labels /\ error' \in Errors
        /\ \/ pc' = "close" /\ error' = error
           \/ pc' = "return" /\ error' = "io"
        /\ CeilingHit' => CeilingHit
    BY <2>1, <2>2, <2>3, <1>t, <1>2, LogsStep
  <2>5. c.content \in Texts
    BY DEF Completion
  <2>6. TypeOK'
    BY <2>4, <2>5, <1>2, <1>t, DetectorSame DEF TypeOK, Statuses
  <2>7. StatusAt'
    BY <2>4, <1>2, <1>t DEF StatusAt, Running
  <2>8. CeilingKept'
    BY <2>4, <1>t DEF IInv, CeilingKept, CeilingHit
  <2> QED BY <2>6, <2>7, <2>8 DEF IInv
<1> QED BY <1>1, <1>2 DEF Synthesize

LEMMA CloseIInv == IInv /\ Close => IInv'
<1> SUFFICES ASSUME IInv, Close PROVE IInv'
  OBVIOUS
<1>t. /\ TypeOK /\ error = "none" /\ turns \in 0..budget /\ turns \in Nat
      /\ budget \in Nat /\ status \in Statuses
  BY DEF IInv, StatusAt, Close, TypeOK
<1>1. /\ ledger' \in Seq(Event) /\ pc' = "return" /\ error' \in {"none", "io"}
      /\ CeilingHit' => CeilingHit
  <2>1. Final(turns) \in Event /\ "return" \in Labels
    BY <1>t, EventType DEF Labels
  <2> QED BY <2>1, <1>t, NoCeiling, LogsStep DEF Close
<1>2. TypeOK'
  BY <1>t, <1>1, DetectorSame DEF Close, ClosingStatus, TypeOK, Labels, Statuses, Errors
<1>3. StatusAt'
  <2>1. status' = "completed" => status = "completed" /\ turns < budget
    BY <1>t DEF Close, ClosingStatus
  <2>2. status' = "completed_budget_exhausted" => turns = budget
    BY <1>t DEF IInv, StatusAt, Close, ClosingStatus
  <2> QED BY <1>1, <2>1, <2>2 DEF IInv, StatusAt, Running, Close
<1>4. CeilingKept'
  BY <1>1 DEF IInv, CeilingKept, CeilingHit, Close, ClosingStatus
<1> QED BY <1>2, <1>3, <1>4 DEF IInv

LEMMA WorkerEndsIInv == IInv /\ WorkerEnds => IInv'
<1> SUFFICES ASSUME IInv, WorkerEnds PROVE IInv'
  OBVIOUS
<1>1. TypeOK'
  BY DetectorSame DEF IInv, WorkerEnds, Terminal, TypeOK, Labels
<1>2. StatusAt'
  BY DEF IInv, StatusAt, Running, WorkerEnds, Terminal
<1>3. CeilingKept'
  BY LedgerSame DEF IInv, WorkerEnds, CeilingKept, CeilingHit
<1> QED BY <1>1, <1>2, <1>3 DEF IInv

LEMMA NextIInv == IInv /\ [Next]_vars => IInv'
<1> SUFFICES ASSUME IInv, [Next]_vars PROVE IInv'
  OBVIOUS
<1>1. CASE Next
  BY <1>1, BeginTurnIInv, ChatIInv, ExecuteIInv, RetryIInv, SalvageIInv, SalvageExecuteIInv,
     FollowUpIInv, BudgetExhaustedIInv, SynthesizeIInv, CloseIInv, WorkerEndsIInv DEF Next
<1>2. CASE UNCHANGED vars
  <2>1. UNCHANGED sessionVars /\ UNCHANGED detectorVars
    BY <1>2 DEF vars
  <2>2. TypeOK'
    BY <2>1, DetectorSame DEF IInv, TypeOK, sessionVars
  <2>3. StatusAt'
    BY <2>1 DEF IInv, StatusAt, sessionVars
  <2>4. CeilingKept'
    BY <2>1, LedgerSame DEF IInv, CeilingKept, CeilingHit, sessionVars
  <2> QED BY <2>2, <2>3, <2>4 DEF IInv
<1> QED BY <1>1, <1>2

-----------------------------------------------------------------------------

(* The inductive invariant holds in every reachable state of a session.     *)
THEOREM IInvCorrect == Spec => []IInv
BY InitIInv, NextIInv, PTL DEF Spec

(* The session's state keeps its type; no more turns than the budget begin. *)
THEOREM TypeCorrect == Spec => []TypeOK
BY IInvCorrect, PTL DEF IInv

(* A session a turn of which stopped at the reasoning ceiling is never      *)
(* reported with another status (runner/mod.rs:129-132).                    *)
THEOREM CeilingIsKept == Spec => []CeilingKept
BY IInvCorrect, PTL DEF IInv

(* "completed" is a session that stopped by itself within its budget, with  *)
(* a text if it used tools; one that failed is a failed task.               *)
THEOREM CompletedMeansDone == Spec => []CompletedIsDone
<1>1. IInv => CompletedIsDone
  BY DEF IInv, StatusAt, CompletedIsDone
<1> QED BY <1>1, IInvCorrect, PTL

-----------------------------------------------------------------------------
(* ResultsFollow.  Between the tool calls of a completion the latest        *)
(* dispatch still owes the results of the calls that are left, and nothing  *)
(* else can be logged; everywhere else no dispatch owes any.                *)
Complete == \A i \in Events("dispatch") : i + Len(ledger[i].calls) <= Len(ledger)

Serving(d) ==
    /\ d \in Events("dispatch")
    /\ ledger[d].turn = turns
    /\ d + Len(ledger[d].calls) = Len(ledger) + Len(calls)
    /\ \A k \in 1..Len(calls) : ledger[d].calls[Len(ledger) - d + k] = calls[k]
    /\ \A i \in Events("dispatch") \ {d} : i + Len(ledger[i].calls) <= Len(ledger)

Following ==
    /\ ResultsFollow
    /\ pc \notin {"tools", "return", "ended"} => Complete
    /\ pc = "tools" => \E d : Serving(d)

LEMMA LedgerType ==
    ASSUME TypeOK
    PROVE  /\ ledger \in Seq(Event) /\ Len(ledger) \in Nat
           /\ \A i \in 1..Len(ledger) :
                 /\ ledger[i] \in Event
                 /\ ledger[i].calls \in Seq(Actions) /\ Len(ledger[i].calls) \in Nat
<1>1. ledger \in Seq(Event) /\ Len(ledger) \in Nat
  BY DEF TypeOK
<1>2. \A i \in 1..Len(ledger) : ledger[i] \in Event
  BY <1>1, ElementOfSeq
<1>3. \A v \in Event : v.calls \in Seq(Actions) /\ Len(v.calls) \in Nat
  BY DEF Event
<1> QED BY <1>1, <1>2, <1>3

LEMMA LedgerSameFollows ==
    ASSUME Following, ledger' = ledger, pc \notin {"tools", "return", "ended"} \/ pc' \in {"return", "ended"},
           pc' # "tools"
    PROVE  Following'
BY DEF Following, ResultsFollow, Complete, Events

\* What is logged where no dispatch owes a result.
LEMMA AppendFollows ==
    ASSUME TypeOK, ResultsFollow, Complete, NEW e \in Event, ledger' = Append(ledger, e)
    PROVE  /\ ResultsFollow'
           /\ Len(ledger') = Len(ledger) + 1 /\ ledger'[Len(ledger')] = e
           /\ \A i \in Events("dispatch")' :
                 i # Len(ledger') => i + Len(ledger'[i].calls) <= Len(ledger)
           /\ e.type # "dispatch" \/ e.calls = <<>> => Complete'
<1>1. /\ Len(ledger) \in Nat
      /\ ledger' \in Seq(Event) /\ Len(ledger') = Len(ledger) + 1
      /\ \A i \in 1..Len(ledger) : ledger'[i] = ledger[i]
      /\ ledger'[Len(ledger) + 1] = e
  BY AppendProperties, LedgerType
<1>2. \A i \in Events("dispatch")' : i # Len(ledger) + 1 => i \in Events("dispatch")
  BY <1>1 DEF Events
<1>3. \A i \in Events("dispatch")' :
          i # Len(ledger') => i + Len(ledger'[i].calls) <= Len(ledger)
  BY <1>1, <1>2, LedgerType DEF Complete, Events
<1>4. ResultsFollow'
  <2> SUFFICES ASSUME NEW i \in Events("dispatch")', NEW k \in 1..Len(ledger'[i].calls),
                      i + k <= Len(ledger')
               PROVE  ledger'[i + k] = Returned(ledger'[i].turn, ledger'[i].calls[k])
    BY DEF ResultsFollow
  <2>1. i \in 1..Len(ledger') /\ i # Len(ledger) + 1
    BY <1>1 DEF Events
  <2>2. i \in Events("dispatch") /\ ledger'[i] = ledger[i] /\ Len(ledger[i].calls) \in Nat
    BY <1>1, <1>2, <2>1, LedgerType
  <2>3. i + k <= Len(ledger) /\ ledger'[i + k] = ledger[i + k]
    BY <1>1, <1>3, <2>1, <2>2
  <2> QED BY <2>2, <2>3 DEF ResultsFollow
<1>5. e.type # "dispatch" \/ e.calls = <<>> => Complete'
  <2>1. Len(<<>>) = 0
    BY EmptySeq
  <2>2. ASSUME e.type # "dispatch" \/ e.calls = <<>>, NEW i \in Events("dispatch")'
        PROVE  i + Len(ledger'[i].calls) <= Len(ledger')
    <3>1. CASE i = Len(ledger')
      <4>1. ledger'[i] = e /\ ledger'[i].type = "dispatch"
        BY <1>1, <3>1 DEF Events
      <4>2. Len(ledger'[i].calls) = 0
        BY <2>1, <2>2, <4>1
      <4> QED BY <1>1, <3>1, <4>2
    <3>2. CASE i # Len(ledger')
      <4>1. i \in 1..Len(ledger) /\ ledger'[i] = ledger[i]
        BY <1>1, <3>2 DEF Events
      <4>2. i + Len(ledger'[i].calls) <= Len(ledger)
        BY <1>3, <3>2
      <4>3. i \in Nat /\ Len(ledger'[i].calls) \in Nat
        BY <1>1, <4>1, LedgerType
      <4>4. Len(ledger') = Len(ledger) + 1 /\ Len(ledger) \in Nat
        BY <1>1
      <4>5. \A k, m, n \in Nat : k + m <= n => k + m <= n + 1
        OBVIOUS
      <4> QED BY <4>2, <4>3, <4>4, <4>5
    <3> QED BY <3>1, <3>2
  <2> QED BY <2>2 DEF Complete
<1> QED BY <1>1, <1>3, <1>4, <1>5

LEMMA InitFollows == Init => Following
<1> SUFFICES ASSUME Init PROVE Following
  OBVIOUS
<1>1. Events("dispatch") = {}
  BY EmptySeq DEF Init, Events
<1> QED BY <1>1 DEF Init, Following, ResultsFollow, Complete

LEMMA LogsFollows ==
    ASSUME TypeOK, Following, NEW e \in Event, NEW next \in Labels \ {"tools"}, Logs(e, next),
           pc \notin {"tools", "return", "ended"},
           e.type # "dispatch" \/ e.calls = <<>>
    PROVE  Following'
<1>1. CASE ledger' = Append(ledger, e) /\ pc' = next
  BY <1>1, AppendFollows DEF Following
<1>2. CASE ledger' = ledger /\ pc' = "return"
  BY <1>2, LedgerSameFollows
<1> QED BY <1>1, <1>2 DEF Logs

LEMMA LogsIfItCanFollows ==
    ASSUME TypeOK, Following, NEW e \in Event, LogsIfItCan(e), e.type # "dispatch",
           pc \notin {"tools", "return", "ended"}, pc' # "tools"
    PROVE  Following'
<1>1. CASE ledger' = Append(ledger, e)
  BY <1>1, AppendFollows DEF Following
<1>2. CASE ledger' = ledger
  BY <1>2, LedgerSameFollows
<1> QED BY <1>1, <1>2 DEF LogsIfItCan

\* A completion with tool calls: its dispatch owes the results of all of them.
LEMMA CallToolsFollows ==
    ASSUME IInv, Following, pc = "chat", NEW c \in Completion, CallTools(c), UNCHANGED turns
    PROVE  Following'
<1> DEFINE e == Dispatched(turns, c)
<1>t. TypeOK /\ turns \in Nat /\ error = "none"
  BY DEF IInv, TypeOK, StatusAt
<1>e. e \in Event /\ e.calls = c.calls /\ e.turn = turns /\ e.type = "dispatch"
  BY <1>t, EventType DEF Dispatched
<1>c. c.calls \in Seq(Actions) /\ Len(c.calls) \in Nat
  BY RunnerAssumption DEF Completion
<1> HIDE DEF e
<1>1. CASE ledger' = Append(ledger, e) /\ pc' = "tools" /\ error' = error
  <2>1. /\ ResultsFollow'
        /\ Len(ledger) \in Nat /\ Len(ledger') = Len(ledger) + 1 /\ ledger'[Len(ledger')] = e
        /\ \A i \in Events("dispatch")' :
              i # Len(ledger') => i + Len(ledger'[i].calls) <= Len(ledger)
    BY <1>1, <1>t, <1>e, AppendFollows, LedgerType DEF Following
  <2>2. calls' = c.calls /\ turns' = turns
    BY <1>1, <1>t DEF CallTools
  <2>3. ASSUME NEW d, d = Len(ledger')
        PROVE  Serving(d)'
    <3>1. d \in Events("dispatch")'
      BY <2>1, <2>3, <1>e DEF Events
    <3>2. \A v \in Event : Len(v.calls) \in Nat
      BY DEF Event
    <3>3. ledger' \in Seq(Event)
      BY <1>1, <1>t, <1>e, LedgerType, AppendProperties
    <3>4. \A i \in Events("dispatch")' : i \in 1..Len(ledger') /\ Len(ledger'[i].calls) \in Nat
      BY <3>2, <3>3, ElementOfSeq DEF Events
    <3>5. \A i \in Events("dispatch")' \ {d} : i + Len(ledger'[i].calls) <= Len(ledger')
      BY <2>1, <2>3, <3>4
    <3>6. \A k \in 1..Len(calls') : ledger'[d].calls[Len(ledger') - d + k] = calls'[k]
      BY <2>1, <2>2, <2>3, <1>e, <1>c
    <3> QED BY <2>1, <2>2, <2>3, <3>1, <3>5, <3>6, <1>e, <1>c DEF Serving
  <2> QED BY <1>1, <2>1, <2>3 DEF Following
<1>2. CASE ledger' = ledger /\ pc' = "return"
  BY <1>2, LedgerSameFollows
<1> QED BY <1>1, <1>2 DEF CallTools, Logs, e

\* The next call is executed: its result is the next one owed.
LEMMA ExecuteFollows == IInv /\ Following /\ Execute => Following'
<1> SUFFICES ASSUME IInv, Following, Execute PROVE Following'
  OBVIOUS
<1> DEFINE next == IF Len(calls) = 1 THEN "loop" ELSE "tools"
<1>t. /\ TypeOK /\ turns \in Nat /\ pc = "tools"
      /\ calls \in Seq(Actions) /\ calls # <<>> /\ Len(calls) \in Nat \ {0}
  BY EmptySeq DEF IInv, TypeOK, StatusAt, Execute
<1>c. /\ Head(calls) = calls[1] /\ Head(calls) \in Actions
      /\ Len(calls') = Len(calls) - 1
      /\ \A k \in 1..Len(calls') : calls'[k] = calls[k + 1]
  BY <1>t, HeadTailProperties DEF Execute
<1>1. CASE ledger' = ledger /\ pc' = "return"
  BY <1>1, <1>t DEF Following, ResultsFollow, Complete, Events
<1>2. ASSUME ledger' = Append(ledger, Returned(turns, Head(calls)))
      PROVE  /\ ResultsFollow'
             /\ Len(calls) = 1 => Complete'
             /\ Len(calls) # 1 => \E d : Serving(d)'
  <2>1. Returned(turns, Head(calls)) \in Event
    BY <1>t, <1>c, EventType
  <2>2. /\ Len(ledger) \in Nat
        /\ ledger' \in Seq(Event) /\ Len(ledger') = Len(ledger) + 1
        /\ \A i \in 1..Len(ledger) : ledger'[i] = ledger[i]
        /\ ledger'[Len(ledger) + 1] = Returned(turns, calls[1])
    BY <1>2, <1>c, <1>t, <2>1, LedgerType, AppendProperties
  <2>3. Events("dispatch")' = Events("dispatch")
    BY <2>2 DEF Events, Returned
  <2>4. PICK d \in Events("dispatch") : Serving(d)
    BY <1>t DEF Following, Serving
  <2>5. \A i \in Events("dispatch") :
           /\ i \in 1..Len(ledger) /\ ledger'[i] = ledger[i] /\ Len(ledger[i].calls) \in Nat
    BY <2>2, <1>t, LedgerType DEF Events
  <2>6. /\ d + Len(ledger[d].calls) = Len(ledger) + Len(calls)
        /\ ledger[d].turn = turns
        /\ \A k \in 1..Len(calls) : ledger[d].calls[Len(ledger) - d + k] = calls[k]
        /\ \A i \in Events("dispatch") \ {d} : i + Len(ledger[i].calls) <= Len(ledger)
    BY <2>4 DEF Serving
  <2>7. ResultsFollow'
    <3> SUFFICES ASSUME NEW i \in Events("dispatch"), NEW k \in 1..Len(ledger[i].calls),
                        i + k <= Len(ledger')
                 PROVE  ledger'[i + k] = Returned(ledger[i].turn, ledger[i].calls[k])
      BY <2>3, <2>5 DEF ResultsFollow
    <3>1. CASE i + k <= Len(ledger)
      <4>1. ledger[i + k] = Returned(ledger[i].turn, ledger[i].calls[k])
        BY <3>1 DEF Following, ResultsFollow
      <4>2. i + k \in 1..Len(ledger)
        BY <3>1, <2>2, <2>5
      <4> QED BY <4>1, <4>2, <2>2
    <3>2. CASE i + k = Len(ledger) + 1
      <4>1. i = d
        BY <3>2, <2>2, <2>5, <2>6
      <4>2. k = Len(ledger) - d + 1
        BY <3>2, <4>1, <2>2, <2>5
      <4>3. ledger[d].calls[k] = calls[1]
        <5>1. 1 \in 1..Len(calls)
          BY <1>t
        <5>2. ledger[d].calls[Len(ledger) - d + 1] = calls[1]
          BY <5>1, <2>6
        <5> QED BY <4>2, <5>2
      <4> QED BY <3>2, <4>1, <4>3, <2>2, <2>6
    <3> QED BY <3>1, <3>2, <2>2, <2>5
  <2>8. CASE Len(calls) = 1
    <3>1. \A i \in Events("dispatch") : i + Len(ledger[i].calls) <= Len(ledger) + 1
      BY <2>8, <2>2, <2>5, <2>6
    <3> QED BY <2>8, <3>1, <2>2, <2>3, <2>5, <2>7 DEF Complete
  <2>9. CASE Len(calls) # 1
    <3>1. d + Len(ledger'[d].calls) = Len(ledger') + Len(calls')
      BY <2>2, <2>5, <2>6, <1>c, <1>t
    <3>2. ASSUME NEW k \in 1..Len(calls')
          PROVE  ledger'[d].calls[Len(ledger') - d + k] = calls'[k]
      <4>1. Len(ledger') - d + k = Len(ledger) - d + (k + 1)
        <5>1. d \in Nat /\ k \in Nat
          BY <2>2, <2>5
        <5> QED BY <2>2, <5>1
      <4>2. k + 1 \in 1..Len(calls)
        BY <1>c, <1>t
      <4> QED BY <4>1, <4>2, <2>5, <2>6, <1>c
    <3>3. \A i \in Events("dispatch")' \ {d} : i + Len(ledger'[i].calls) <= Len(ledger')
      BY <2>2, <2>3, <2>5, <2>6
    <3>4. turns' = turns
      BY DEF Execute
    <3>5. Serving(d)'
      BY <3>1, <3>2, <3>3, <3>4, <2>3, <2>5, <2>6 DEF Serving
    <3> QED BY <2>7, <2>9, <3>5
  <2> QED BY <2>7, <2>8, <2>9
<1>3. CASE ledger' = Append(ledger, Returned(turns, Head(calls))) /\ pc' \in {next, "return"}
  BY <1>2, <1>3 DEF Following
<1> QED BY <1>1, <1>3 DEF Execute, Result

LEMMA NextFollows == IInv /\ Following /\ [Next]_vars => Following'
<1> SUFFICES ASSUME IInv, Following, [Next]_vars PROVE Following'
  OBVIOUS
<1>t. /\ TypeOK /\ turns \in Nat /\ turns + 1 \in Nat
      /\ calls \in Seq(Actions) /\ (pc = "salvageTools" => calls # <<>>)
  BY DEF IInv, TypeOK, StatusAt
<1>l. /\ {"retry", "close", "salvage", "followUp", "return"} \subseteq Labels \ {"tools"}
      /\ \A t : Salvaged(t).type # "dispatch" /\ Final(t).type # "dispatch"
      /\ \A t, a : Returned(t, a).type # "dispatch"
  BY DEF Labels, Salvaged, Final, Returned
<1>1. CASE BeginTurn \/ BudgetExhausted \/ EngineFails
  BY <1>1, LedgerSameFollows DEF BeginTurn, BudgetExhausted, EngineFails
<1>2. CASE Chat
  <2>1. CASE EngineFails
    BY <1>1, <2>1
  <2>2. ASSUME NEW c \in Completion, Answer(c)
        PROVE  Following'
    <3>1. /\ AfterAnswer(c) \in Labels \ {"tools"}
          /\ Logs(Dispatched(turns, c), AfterAnswer(c))
      BY <2>2, <1>l DEF Answer, AfterAnswer
    <3>2. Dispatched(turns, c) \in Event /\ Dispatched(turns, c).calls = <<>>
      BY <2>2, <1>t, EventType DEF Answer, Dispatched
    <3> QED BY <1>2, <3>1, <3>2, <1>t, LogsFollows DEF Chat
  <2>3. ASSUME NEW c \in Completion, CallTools(c), UNCHANGED turns
        PROVE  Following'
    BY <1>2, <2>3, CallToolsFollows DEF Chat
  <2> QED BY <1>2, <2>1, <2>2, <2>3 DEF Chat
<1>3. CASE Execute
  BY <1>3, ExecuteFollows
<1>4. CASE Retry
  <2>1. Salvaged(turns) \in Event
    BY <1>t, EventType
  <2> QED BY <1>1, <1>4, <1>t, <1>l, <2>1, LogsFollows DEF Retry
<1>5. CASE Salvage
  <2>1. Salvaged(turns + 1) \in Event
    BY <1>t, EventType
  <2>2. CASE SalvageEnds
    BY <1>5, <2>1, <2>2, <1>t, <1>l, LogsIfItCanFollows DEF Salvage, SalvageEnds
  <2>3. CASE ledger' = ledger /\ pc' = "salvageTools"
    BY <1>5, <2>3, LedgerSameFollows DEF Salvage
  <2> QED BY <1>5, <2>2, <2>3 DEF Salvage
<1>6. CASE SalvageExecute
  <2>1. Returned(turns + 1, Head(calls)) \in Event
    BY <1>6, <1>t, CallsType, EventType DEF SalvageExecute
  <2> QED BY <1>6, <2>1, <1>t, <1>l, LogsIfItCanFollows DEF SalvageExecute
<1>7. CASE FollowUp
  <2>1. Salvaged(turns + 1) \in Event
    BY <1>t, EventType
  <2> QED BY <1>7, <2>1, <1>t, <1>l, LogsIfItCanFollows DEF FollowUp, SalvageEnds
<1>8. CASE Synthesize
  <2>1. ASSUME NEW c \in Completion,
               Logs(Dispatched(turns + 1, [c EXCEPT !.calls = <<>>]), "close")
        PROVE  Following'
    <3>1. /\ Dispatched(turns + 1, [c EXCEPT !.calls = <<>>]) \in Event
          /\ Dispatched(turns + 1, [c EXCEPT !.calls = <<>>]).calls = <<>>
      BY <1>t, EventType DEF Dispatched, Completion
    <3> QED BY <1>8, <2>1, <3>1, <1>t, <1>l, LogsFollows DEF Synthesize
  <2> QED BY <1>1, <1>8, <2>1 DEF Synthesize
<1>9. CASE Close
  <2>1. Final(turns) \in Event
    BY <1>t, EventType
  <2> QED BY <1>9, <2>1, <1>t, <1>l, LogsFollows DEF Close
<1>10. CASE WorkerEnds \/ UNCHANGED vars
  <2>1. /\ ledger' = ledger /\ turns' = turns /\ calls' = calls
        /\ pc' = pc \/ pc' = "ended"
    BY <1>10 DEF WorkerEnds, vars, sessionVars
  <2>2. Events("dispatch")' = Events("dispatch")
    BY <2>1 DEF Events
  <2>3. Complete' = Complete /\ ResultsFollow' = ResultsFollow /\ \A d : Serving(d)' = Serving(d)
    BY <2>1, <2>2 DEF Complete, ResultsFollow, Serving
  <2> QED BY <2>1, <2>3 DEF Following
<1> QED BY <1>1, <1>2, <1>3, <1>4, <1>5, <1>6, <1>7, <1>8, <1>9, <1>10 DEF Next

(* The ledger of a session, of any budget and with any completions, can be   *)
(* replayed: a dispatch is followed by the results of its tool calls, in     *)
(* their order, and by nothing else before them (runner/mod.rs:395-470).     *)
THEOREM ResultsDoFollow == Spec => []ResultsFollow
<1>1. Init => IInv /\ Following
  BY InitIInv, InitFollows
<1>2. IInv /\ Following /\ [Next]_vars => IInv' /\ Following'
  BY NextIInv, NextFollows
<1>3. Following => ResultsFollow
  BY DEF Following
<1> QED BY <1>1, <1>2, <1>3, PTL DEF Spec

-----------------------------------------------------------------------------
(* NoticesDue, first half: the landing notice.  The flag noticed is set     *)
(* exactly in the landing window, and says whether the notice is there.     *)
Advisory == \E i \in 1..Len(messages) : messages[i] = "advisory"

Told ==
    /\ noticed => \E i \in 1..Len(messages) : Notices = {i}
    /\ ~noticed => Notices = {}
    /\ turns = 0 => ~noticed
    /\ turns > 0 => (noticed <=> budget - turns < LandingWindow)
    /\ pc = "chat" => turns > 0
    /\ advised => Advisory

LEMMA SaysStep ==
    ASSUME TypeOK, NEW s \in Seq(Kinds), Says(s)
    PROVE  /\ Len(messages) \in Nat /\ Len(s) \in Nat
           /\ Len(messages') = Len(messages) + Len(s)
           /\ \A i \in 1..Len(messages) : messages'[i] = messages[i]
           /\ \A i \in 1..Len(s) : messages'[Len(messages) + i] = s[i]
<1>1. messages \in Seq(Kinds)
  BY DEF TypeOK
<1>2. Len(messages) \in Nat /\ Len(s) \in Nat
  BY <1>1
<1>3. \A i \in 1..Len(messages) + Len(s) : messages'[i] =
          IF i <= Len(messages) THEN messages[i] ELSE s[i - Len(messages)]
  BY <1>1, ConcatProperties DEF Says
<1>4. Len(messages') = Len(messages) + Len(s)
  BY <1>1, ConcatProperties DEF Says
<1>5. ASSUME NEW i \in 1..Len(s)
      PROVE  messages'[Len(messages) + i] = s[i]
  <2>1. /\ Len(messages) + i \in 1..Len(messages) + Len(s)
        /\ ~(Len(messages) + i <= Len(messages))
        /\ (Len(messages) + i) - Len(messages) = i
    BY <1>2
  <2> QED BY <1>3, <2>1
<1>6. ASSUME NEW i \in 1..Len(messages)
      PROVE  messages'[i] = messages[i]
  <2>1. i \in 1..Len(messages) + Len(s) /\ i <= Len(messages)
    BY <1>2
  <2> QED BY <1>3, <2>1
<1> QED BY <1>2, <1>4, <1>5, <1>6

\* Messages are only added, and none of them is a notice.
Mute ==
    \/ UNCHANGED messages
    \/ \E s \in Seq(Kinds) : Says(s) /\ \A i \in 1..Len(s) : s[i] # "notice"

LEMMA MuteStep ==
    ASSUME TypeOK, Mute
    PROVE  /\ Notices' = Notices
           /\ \A i \in 1..Len(messages) : i \in 1..Len(messages')
           /\ Advisory => Advisory'
<1>1. CASE UNCHANGED messages
  BY <1>1 DEF Notices, Advisory
<1>2. ASSUME NEW s \in Seq(Kinds), Says(s), \A i \in 1..Len(s) : s[i] # "notice"
      PROVE  /\ Notices' = Notices
             /\ \A i \in 1..Len(messages) : i \in 1..Len(messages')
             /\ Advisory => Advisory'
  <2>1. /\ Len(messages) \in Nat /\ Len(s) \in Nat
        /\ Len(messages') = Len(messages) + Len(s)
        /\ \A i \in 1..Len(messages) : messages'[i] = messages[i]
        /\ \A i \in 1..Len(s) : messages'[Len(messages) + i] = s[i]
    BY <1>2, SaysStep
  <2>2. \A i \in 1..Len(messages') : i \in 1..Len(messages) \/ \E k \in 1..Len(s) : i = Len(messages) + k
    <3>1. ASSUME NEW i \in 1..Len(messages'), i \notin 1..Len(messages)
          PROVE  i - Len(messages) \in 1..Len(s) /\ i = Len(messages) + (i - Len(messages))
      BY <2>1, <3>1
    <3> QED BY <3>1
  <2>3. \A i \in 1..Len(messages) : i \in 1..Len(messages')
    BY <2>1
  <2>4. Notices' = Notices
    BY <1>2, <2>1, <2>2, <2>3 DEF Notices
  <2> QED BY <2>1, <2>3, <2>4 DEF Advisory
<1> QED BY <1>1, <1>2 DEF Mute

LEMMA InitTold == Init => Told
<1> SUFFICES ASSUME Init PROVE Told
  OBVIOUS
<1>1. messages = <<"system", "prompt">> /\ turns = 0 /\ ~noticed /\ ~advised /\ pc = "loop"
  BY DEF Init, Detector!Init
<1>2. Notices = {}
  BY <1>1 DEF Notices
<1> QED BY <1>1, <1>2 DEF Told

\* The turn in which the notice is due is the one that gives it.
LEMMA BeginTurnTold == IInv /\ Told /\ BeginTurn => Told'
<1> SUFFICES ASSUME IInv, Told, BeginTurn PROVE Told'
  OBVIOUS
<1>t. /\ TypeOK /\ turns \in Nat /\ budget \in Nat /\ LandingWindow \in Nat
      /\ turns' = turns + 1 /\ budget' = budget /\ turns < budget
      /\ noticed \in BOOLEAN /\ noticed' = (noticed \/ Landing)
      /\ advised' = advised /\ pc' = "chat"
  BY RunnerAssumption DEF IInv, TypeOK, BeginTurn, detectorVars
<1>1. noticed' <=> budget' - turns' < LandingWindow
  <2>1. CASE noticed
    <3>1. turns > 0 /\ budget - turns < LandingWindow
      BY <2>1, <1>t DEF Told
    <3>2. noticed'
      BY <1>t, <2>1
    <3>3. budget' - turns' < LandingWindow
      BY <1>t, <3>1
    <3> QED BY <3>2, <3>3
  <2>2. CASE ~noticed
    <3>1. noticed' <=> budget - turns <= LandingWindow
      BY <1>t, <2>2 DEF Landing
    <3> QED BY <1>t, <3>1
  <2> QED BY <1>t, <2>1, <2>2
<1>2. CASE Landing
  <2>1. Says(<<"notice">>) /\ <<"notice">> \in Seq(Kinds) /\ Notices = {} /\ noticed'
    <3>1. ~noticed /\ Notices = {}
      BY <1>2 DEF Landing, Told
    <3>2. noticed'
      BY <1>2, <1>t
    <3>3. Says(<<"notice">>)
      BY <1>2 DEF BeginTurn
    <3> QED BY <3>1, <3>2, <3>3, KindsType DEF Kinds
  <2>2. /\ Len(messages) \in Nat
        /\ Len(messages') = Len(messages) + 1
        /\ \A i \in 1..Len(messages) : messages'[i] = messages[i]
        /\ messages'[Len(messages) + 1] = "notice"
    <3>1. Len(<<"notice">>) = 1 /\ <<"notice">>[1] = "notice" /\ 1 \in 1..1
      OBVIOUS
    <3> QED BY <2>1, <1>t, <3>1, SaysStep
  <2>3. Notices' = {Len(messages')} /\ Len(messages') \in 1..Len(messages')
    BY <2>1, <2>2 DEF Notices
  <2>4. Advisory => Advisory'
    BY <2>2 DEF Advisory
  <2> QED BY <1>1, <1>t, <2>1, <2>3, <2>4 DEF Told
<1>3. CASE ~Landing
  <2>1. Says(<<>>) /\ noticed' = noticed
    BY <1>3, <1>t DEF BeginTurn
  <2>2. Mute
    <3>1. <<>> \in Seq(Kinds) /\ \A i \in 1..Len(<<>>) : FALSE
      BY EmptySeq
    <3> QED BY <2>1, <3>1 DEF Mute
  <2> QED BY <1>1, <1>t, <2>1, <2>2, MuteStep DEF Told
<1> QED BY <1>2, <1>3

\* The lists of messages a step may add, but for the notice.
LEMMA SaidLists ==
    /\ \A s \in {<<"assistant">>, <<"assistant", "salvage">>, <<"tool">>,
                 <<"tool", "advisory">>, <<"final">>} :
          /\ s \in Seq(Kinds)
          /\ \A i \in 1..Len(s) : s[i] # "notice"
    /\ Len(<<"tool", "advisory">>) = 2 /\ <<"tool", "advisory">>[2] = "advisory"
    /\ 2 \in 1..2
BY DEF Kinds

LEMMA ExecuteTold == IInv /\ Told /\ Execute => Told'
<1> SUFFICES ASSUME IInv, Told, Execute PROVE Told'
  OBVIOUS
<1>t. TypeOK /\ UNCHANGED <<noticed, turns, budget>> /\ pc' # "chat"
  BY DEF IInv, Execute, Result
<1>m. Mute
  BY SaidLists DEF Execute, Result, Mute
<1>1. advised' => Advisory'
  <2>1. CASE advised
    BY <1>t, <1>m, <2>1, MuteStep DEF Told
  <2>2. CASE ~advised /\ advised'
    <3>1. Says(<<"tool", "advisory">>)
      BY <2>2 DEF Execute, Result, Detector!Record, detectorVars
    <3>2. /\ messages'[Len(messages) + 2] = "advisory"
          /\ Len(messages) \in Nat /\ Len(messages') = Len(messages) + 2
      BY <3>1, <1>t, SaidLists, SaysStep
    <3> QED BY <3>2 DEF Advisory
  <2> QED BY <2>1, <2>2
<1> QED BY <1>1, <1>t, <1>m, MuteStep DEF Told

LEMMA NextTold == IInv /\ Told /\ [Next]_vars => Told'
<1> SUFFICES ASSUME IInv, Told, [Next]_vars PROVE Told'
  OBVIOUS
<1>1. ASSUME Mute, UNCHANGED <<noticed, turns, budget, advised>>, pc' = "chat" => pc = "chat"
      PROVE  Told'
  BY <1>1, MuteStep DEF IInv, Told
<1>2. CASE Chat
  <2>1. UNCHANGED <<noticed, turns, budget, advised>>
    BY <1>2 DEF Chat, EngineFails, detectorVars
  <2>2. Mute
    BY <1>2, SaidLists DEF Chat, EngineFails, Answer, CallTools, Mute
  <2>3. pc = "chat"
    BY <1>2 DEF Chat
  <2> QED BY <1>1, <2>1, <2>2, <2>3
<1>3. CASE Salvage \/ SalvageExecute
  BY <1>1, <1>3, SaidLists DEF Salvage, SalvageEnds, SalvageExecute, Mute, detectorVars
<1>4. CASE Retry \/ FollowUp \/ Synthesize \/ Close
  BY <1>1, <1>4 DEF Retry, FollowUp, SalvageEnds, Synthesize, Close, EngineFails, Logs, Mute,
                    detectorVars
<1>5. CASE BudgetExhausted \/ WorkerEnds
  BY <1>1, <1>5, SaidLists DEF BudgetExhausted, WorkerEnds, Mute, detectorVars
<1>6. CASE UNCHANGED vars
  BY <1>1, <1>6 DEF vars, sessionVars, detectorVars, Mute
<1> QED BY <1>2, <1>3, <1>4, <1>5, <1>6, BeginTurnTold, ExecuteTold DEF Next


(* NoticesDue, the second half: a session stopped as a loop shows the loop  *)
(* in its ledger.  While the loop over turns runs, the window of the        *)
(* detector is the end of the tool results in the ledger: p tells at which  *)
(* event each of its entries is.                                            *)
Results == Events("tool_result")

Shown(p) ==
    /\ p \in [1..Len(history) -> Results]
    /\ \A k \in 1..Len(history) : ledger[p[k]].calls = <<history[k]>>
    /\ \A j, k \in 1..Len(history) : j < k => p[j] < p[k]
    /\ \A i \in Results : (\A k \in 1..Len(history) : i < p[k])
                          \/ \E k \in 1..Len(history) : p[k] = i

Looped ==
    \E run \in SUBSET Results, a \in Actions :
        /\ Cardinality(run) = Threshold
        /\ \A i \in run : ledger[i].calls = <<a>>
        /\ \A i \in Results \ run : \A j \in run : i < j

Turning == {"loop", "chat", "tools"}

Seen ==
    /\ pc \in Turning => \E p : Shown(p)
    /\ error = "loop" => Advisory /\ Looped /\ pc \in {"return", "ended"}

(* The members of a set, counted.                                           *)
LEMMA CountSet ==
    ASSUME NEW S, NEW n \in Nat, NEW f \in [1..n -> S],
           \A j, k \in 1..n : f[j] = f[k] => j = k,
           \A s \in S : \E k \in 1..n : f[k] = s
    PROVE  Cardinality(S) = n
<1>1. f \in Bijection(1..n, S)
  BY DEF Bijection, Injection, Surjection, IsInjective
<1> QED BY <1>1, FS_CountingElements DEF ExistsBijection

LEMMA InitSeen == Init => Seen
<1> SUFFICES ASSUME Init PROVE Seen
  OBVIOUS
<1>1. ledger = <<>> /\ history = <<>> /\ error # "loop" /\ Len(<<>>) = 0 /\ 1..0 = {}
  BY DEF Init, Detector!Init
<1>2. Results = {}
  BY <1>1 DEF Results, Events
<1>3. Shown([k \in 1..0 |-> k])
  BY <1>1, <1>2 DEF Shown
<1> QED BY <1>1, <1>3 DEF Seen

(* A step that adds no tool result and lets the detector alone.             *)
LEMMA SameSeen ==
    ASSUME NEW p, Shown(p), history' = history, Results' = Results,
           \A i \in Results : ledger'[i] = ledger[i]
    PROVE  Shown(p)'
BY DEF Shown

(* A tool result is logged and its action pushed to the window: the window  *)
(* still is the end of the results.                                         *)
LEMMA PushSeen ==
    ASSUME TypeOK, NEW p, Shown(p), NEW a \in Actions,
           ledger' = Append(ledger, Returned(turns, a)),
           history' = Detector!Pushed(history, a)
    PROVE  \E q : Shown(q)'
<1> DEFINE n == Len(ledger) + 1
           m == Len(history)
<1>l. /\ Len(ledger) \in Nat
      /\ Len(ledger') = n
      /\ \A i \in 1..Len(ledger) : ledger'[i] = ledger[i]
      /\ ledger'[n] = Returned(turns, a)
  <2>1. turns \in Nat
    BY DEF TypeOK
  <2>2. Returned(turns, a) \in Event
    BY <2>1, EventType
  <2> QED BY <2>2, LedgerType, AppendProperties
<1>r. /\ Results' = Results \cup {n}
      /\ \A i \in Results : i \in 1..Len(ledger) /\ i < n /\ ledger'[i] = ledger[i]
      /\ n \notin Results /\ n \in Nat
      /\ ledger'[n].calls = <<a>>
  BY <1>l DEF Results, Events, Returned
<1>h. history \in Seq(Actions) /\ m \in Nat /\ m <= Window /\ Window \in Nat \ {0}
  BY RunnerAssumption DEF TypeOK, Detector!TypeOK
<1>p. /\ p \in [1..m -> Results]
      /\ \A k \in 1..m : ledger[p[k]].calls = <<history[k]>>
      /\ \A j, k \in 1..m : j < k => p[j] < p[k]
      /\ \A i \in Results : (\A k \in 1..m : i < p[k]) \/ \E k \in 1..m : p[k] = i
  BY DEF Shown
<1>1. CASE m # Window
  <2> DEFINE q == [k \in 1..m + 1 |-> IF k = m + 1 THEN n ELSE p[k]]
  <2>1. /\ Len(history') = m + 1
        /\ \A k \in 1..m : history'[k] = history[k]
        /\ history'[m + 1] = a
    BY <1>1, <1>h, AppendProperties DEF Detector!Pushed
  <2>2. /\ q[m + 1] = n /\ m + 1 \in 1..m + 1
        /\ \A k \in 1..m : k \in 1..m + 1 /\ q[k] = p[k] /\ q[k] \in Results
        /\ \A k \in 1..m + 1 : k \in 1..m \/ k = m + 1
        /\ \A k \in 1..m : ~(m + 1 < k)
    BY <1>h, <1>p
  <2> HIDE DEF q
  <2>3. q \in [1..m + 1 -> Results']
    BY <1>r, <2>2 DEF q
  <2>4. \A k \in 1..m + 1 : ledger'[q[k]].calls = <<history'[k]>>
    BY <1>r, <1>p, <2>1, <2>2
  <2>5. ASSUME NEW j \in 1..m + 1, NEW k \in 1..m + 1, j < k
        PROVE  q[j] < q[k]
    <3>1. j \in 1..m
      BY <1>h, <2>5
    <3>2. CASE k \in 1..m
      BY <3>1, <3>2, <2>2, <2>5, <1>p
    <3>3. CASE k = m + 1
      BY <3>1, <3>3, <2>2, <1>r
    <3> QED BY <2>2, <3>2, <3>3
  <2>6. ASSUME NEW i \in Results'
        PROVE  (\A k \in 1..m + 1 : i < q[k]) \/ \E k \in 1..m + 1 : q[k] = i
    <3>1. CASE i = n
      BY <3>1, <2>2
    <3>2. CASE i \in Results /\ \A k \in 1..m : i < p[k]
      BY <3>2, <2>2, <1>r
    <3>3. CASE i \in Results /\ \E k \in 1..m : p[k] = i
      BY <3>3, <2>2
    <3> QED BY <3>1, <3>2, <3>3, <1>r, <1>p
  <2>7. PICK x : x = q
    OBVIOUS
  <2>8. Shown(x)'
    BY <2>1, <2>3, <2>4, <2>5, <2>6, <2>7 DEF Shown
  <2> QED BY <2>8
<1>2. CASE m = Window
  <2> DEFINE q == [k \in 1..m |-> IF k = m THEN n ELSE p[k + 1]]
  <2>1. /\ Len(history') = m
        /\ \A k \in 1..m - 1 : history'[k] = history[k + 1]
        /\ history'[m] = a
    <3>1. history # <<>>
      BY <1>2, <1>h
    <3> DEFINE t == Tail(history)
    <3>2. /\ t \in Seq(Actions) /\ Len(t) = m - 1
          /\ \A k \in 1..Len(t) : t[k] = history[k + 1]
      BY <3>1, <1>h, HeadTailProperties
    <3>3. history' = Append(t, a)
      BY <1>2 DEF Detector!Pushed
    <3> HIDE DEF t
    <3>4. /\ Len(history') = Len(t) + 1
          /\ \A k \in 1..Len(t) : history'[k] = t[k]
          /\ history'[Len(t) + 1] = a
      BY <3>2, <3>3, AppendProperties
    <3>5. (m - 1) + 1 = m
      BY <1>h
    <3> QED BY <3>2, <3>4, <3>5
  <2>2. /\ q[m] = n /\ m \in 1..m /\ m \in Nat \ {0} /\ 1 \in 1..m
        /\ \A k \in 1..m - 1 : k \in 1..m /\ k + 1 \in 1..m /\ q[k] = p[k + 1] /\ q[k] \in Results
        /\ \A k \in 1..m : k \in 1..m - 1 \/ k = m
        /\ \A k \in 1..m : k = 1 \/ (k - 1 \in 1..m - 1 /\ (k - 1) + 1 = k)
    BY <1>h, <1>2, <1>p
  <2> HIDE DEF q
  <2>3. q \in [1..m -> Results']
    BY <1>r, <2>2 DEF q
  <2>4. ASSUME NEW k \in 1..m
        PROVE  ledger'[q[k]].calls = <<history'[k]>>
    <3>1. CASE k \in 1..m - 1
      <4>1. ledger[p[k + 1]].calls = <<history[k + 1]>> /\ p[k + 1] \in Results
        BY <3>1, <2>2, <1>p
      <4>2. q[k] = p[k + 1] /\ history'[k] = history[k + 1]
        BY <3>1, <2>1, <2>2
      <4>3. ledger'[p[k + 1]] = ledger[p[k + 1]]
        BY <4>1, <1>r
      <4> QED BY <4>1, <4>2, <4>3
    <3>2. CASE k = m
      BY <3>2, <2>1, <2>2, <1>r
    <3> QED BY <2>2, <3>1, <3>2
  <2>5. ASSUME NEW j \in 1..m, NEW k \in 1..m, j < k
        PROVE  q[j] < q[k]
    <3>1. j \in 1..m - 1
      BY <1>h, <2>5
    <3>2. CASE k \in 1..m - 1
      <4>1. j + 1 \in 1..m /\ k + 1 \in 1..m /\ j + 1 < k + 1
        BY <3>1, <3>2, <2>2, <2>5
      <4>2. p[j + 1] < p[k + 1]
        BY <4>1, <1>p
      <4> QED BY <4>2, <3>1, <3>2, <2>2
    <3>3. CASE k = m
      <4>1. q[j] \in Results /\ q[k] = n
        BY <3>1, <3>3, <2>2
      <4>2. \A i \in Results : i < n
        BY <1>r
      <4> QED BY <4>1, <4>2
    <3> QED BY <2>2, <3>2, <3>3
  <2>6. ASSUME NEW i \in Results'
        PROVE  (\A k \in 1..m : i < q[k]) \/ \E k \in 1..m : q[k] = i
    <3>1. CASE i = n
      BY <3>1, <2>2
    <3>2. CASE i \in Results /\ \A k \in 1..m : i < p[k]
      <4>1. i < n
        BY <3>2, <1>r
      <4>2. \A k \in 1..m - 1 : i < q[k]
        BY <3>2, <2>2
      <4>3. \A k \in 1..m : i < q[k]
        BY <4>1, <4>2, <2>2
      <4> QED BY <4>3
    <3>3. ASSUME i \in Results, NEW k \in 1..m, p[k] = i
          PROVE  (\A j \in 1..m : i < q[j]) \/ \E j \in 1..m : q[j] = i
      <4>1. CASE k = 1
        <5>1. \A j \in 1..m - 1 : 1 < j + 1 /\ j + 1 \in 1..m
          BY <2>2
        <5>2. \A j \in 1..m - 1 : i < q[j]
          BY <5>1, <4>1, <3>3, <2>2, <1>p
        <5> QED BY <5>2, <3>3, <2>2, <1>r
      <4>2. CASE k - 1 \in 1..m - 1 /\ (k - 1) + 1 = k
        <5>1. q[k - 1] = i /\ k - 1 \in 1..m
          BY <4>2, <3>3, <2>2
        <5> QED BY <5>1
      <4> QED BY <4>1, <4>2, <2>2
    <3> QED BY <3>1, <3>2, <3>3, <1>r, <1>p
  <2>7. PICK x : x = q
    OBVIOUS
  <2>8. Shown(x)'
    BY <2>1, <2>3, <2>4, <2>5, <2>6, <2>7 DEF Shown
  <2> QED BY <2>8
<1> QED BY <1>1, <1>2

(* A window that ends in a run shows it in the ledger.                      *)
LEMMA RunSeen == TypeOK /\ (\E p : Shown(p)) /\ Detector!Repeats(history) => Looped
<1> SUFFICES ASSUME TypeOK, NEW p, Shown(p), Detector!Repeats(history) PROVE Looped
  OBVIOUS
<1> DEFINE m == Len(history)
           from == m - Threshold
           f == [k \in 1..Threshold |-> p[from + k]]
           run == {f[k] : k \in 1..Threshold}
<1>h. /\ history \in Seq(Actions) /\ m \in Nat /\ Threshold \in Nat \ {0} /\ m >= Threshold
      /\ \A i \in 0..(Threshold - 1) : history[m - i] = history[m]
  BY RunnerAssumption DEF TypeOK, Detector!TypeOK, Detector!Repeats
<1>p. /\ p \in [1..m -> Results]
      /\ \A k \in 1..m : ledger[p[k]].calls = <<history[k]>>
      /\ \A j, k \in 1..m : j < k => p[j] < p[k]
      /\ \A i \in Results : (\A k \in 1..m : i < p[k]) \/ \E k \in 1..m : p[k] = i
      /\ \A i \in Results : i \in Nat
  BY DEF Shown, Results, Events
<1>k. \A k \in 1..Threshold : from + k \in 1..m /\ f[k] = p[from + k] /\ f[k] \in Results
  BY <1>h, <1>p
<1> HIDE DEF f
<1>1. run \in SUBSET Results /\ f \in [1..Threshold -> run]
  BY <1>k DEF f
<1>2. Cardinality(run) = Threshold
  <2>1. ASSUME NEW j \in 1..Threshold, NEW k \in 1..Threshold, f[j] = f[k]
        PROVE  j = k
    <3>1. \A v, w \in 1..Threshold : v < w => from + v < from + w
      BY <1>h
    <3>2. \A v, w \in 1..Threshold : v < w => f[v] < f[w]
      BY <3>1, <1>k, <1>p
    <3>3. f[j] \in Nat /\ f[k] \in Nat
      BY <1>k, <1>p
    <3>4. ~(j < k) /\ ~(k < j)
      BY <3>2, <3>3, <2>1
    <3> QED BY <3>4
  <2>2. \A s \in run : \E k \in 1..Threshold : f[k] = s
    OBVIOUS
  <2> HIDE DEF run
  <2> QED BY <1>1, <1>h, <2>1, <2>2, CountSet
<1>3. m \in 1..m /\ history[m] \in Actions
  BY <1>h, ElementOfSeq
<1>4. \A i \in run : ledger[i].calls = <<history[m]>>
  <2>1. ASSUME NEW k \in 1..Threshold
        PROVE  history[from + k] = history[m]
    <3>1. Threshold - k \in 0..(Threshold - 1) /\ m - (Threshold - k) = from + k
      BY <1>h
    <3>2. history[m - (Threshold - k)] = history[m]
      BY <1>h, <3>1
    <3> QED BY <3>1, <3>2
  <2> QED BY <2>1, <1>k, <1>p
<1>5. ASSUME NEW i \in Results \ run, NEW j \in run
      PROVE  i < j
  <2>1. PICK k \in 1..Threshold : j = f[k]
    OBVIOUS
  <2>2. CASE \A l \in 1..m : i < p[l]
    BY <2>1, <2>2, <1>k
  <2>3. ASSUME NEW l \in 1..m, p[l] = i
        PROVE  i < j
    <3>1. ~(from < l)
      <4>1. ASSUME from < l PROVE FALSE
        <5>1. l - from \in 1..Threshold /\ from + (l - from) = l
          BY <1>h, <4>1
        <5>2. f[l - from] = i
          BY <5>1, <2>3, <1>k
        <5> QED BY <5>1, <5>2
      <4> QED BY <4>1
    <3>2. l < from + k
      BY <3>1, <1>h
    <3> QED BY <3>2, <2>1, <2>3, <1>k, <1>p
  <2> QED BY <2>2, <2>3, <1>p
<1> QED BY <1>1, <1>2, <1>3, <1>4, <1>5 DEF Looped

LEMMA ExecuteSeen == IInv /\ Told /\ Seen /\ Execute => Seen'
<1> SUFFICES ASSUME IInv, Told, Seen, Execute PROVE Seen'
  OBVIOUS
<1>t. /\ TypeOK /\ TypeOK' /\ pc = "tools" /\ error # "loop"
      /\ calls \in Seq(Actions) /\ calls # <<>>
  BY ExecuteIInv, EmptySeq DEF IInv, TypeOK, StatusAt, Execute, Seen
<1>a. Head(calls) \in Actions
  BY <1>t, HeadTailProperties
<1>1. CASE error' = "io" /\ pc' = "return"
  BY <1>1 DEF Seen, Turning
<1>2. ASSUME ledger' = Append(ledger, Returned(turns, Head(calls))),
             Detector!Record(Head(calls)),
             error' = IF verdict' = "loop" THEN "loop" ELSE error,
             pc' = IF verdict' = "loop" THEN "return"
                   ELSE IF Len(calls) = 1 THEN "loop" ELSE "tools"
      PROVE  Seen'
  <2>1. PICK q : Shown(q)'
    <3>1. history' = Detector!Pushed(history, Head(calls))
      BY <1>2 DEF Detector!Record
    <3>2. PICK p : Shown(p)
      BY <1>t DEF Seen, Turning
    <3> QED BY <1>2, <1>t, <1>a, <3>1, <3>2, PushSeen
  <2>2. CASE verdict' # "loop"
    BY <1>2, <1>t, <2>1, <2>2 DEF Seen
  <2>3. CASE verdict' = "loop"
    <3>1. advised' /\ Detector!Repeats(history')
      BY <1>2, <2>3 DEF Detector!Record
    <3>2. Advisory'
      BY <3>1, ExecuteTold DEF Told
    <3>3. (\E p : Shown(p))' /\ Detector!Repeats(history)'
      BY <3>1, <2>1 DEF Detector!Repeats
    <3>4. Looped'
      BY <3>3, <1>t, RunSeen, PTL
    <3> QED BY <1>2, <2>3, <3>2, <3>4 DEF Seen, Turning
  <2> QED BY <2>2, <2>3
<1> QED BY <1>1, <1>2 DEF Execute, Result

LEMMA NextSeen == IInv /\ Told /\ Seen /\ [Next]_vars => Seen'
<1> SUFFICES ASSUME IInv, Told, Seen, [Next]_vars PROVE Seen'
  OBVIOUS
<1>t. TypeOK
  BY DEF IInv
<1>1. ASSUME pc \notin {"return", "ended"}, error' \in {error, "engine", "io"}, pc' \notin Turning
      PROVE  Seen'
  BY <1>1 DEF Seen
<1>2. ASSUME UNCHANGED <<history, ledger, error>>,
             pc' \in Turning => pc \in Turning,
             pc \in {"return", "ended"} => pc' \in {"return", "ended"},
             Advisory => Advisory'
      PROVE  Seen'
  BY <1>2 DEF Seen, Shown, Looped, Results, Events
<1>3. ASSUME NEW c \in Completion, CallTools(c), pc = "chat", UNCHANGED <<turns, history>>
      PROVE  Seen'
  <2>1. CASE error' = "io" /\ pc' = "return"
    BY <1>1, <1>3, <2>1 DEF Turning
  <2>2. CASE ledger' = Append(ledger, Dispatched(turns, c)) /\ pc' = "tools" /\ error' = error
    <3>1. Dispatched(turns, c) \in Event /\ Dispatched(turns, c).type # "tool_result"
      <4>1. turns \in Nat
        BY <1>t DEF TypeOK
      <4> QED BY <1>3, <4>1, EventType DEF Dispatched
    <3>2. /\ Len(ledger) \in Nat /\ Len(ledger') = Len(ledger) + 1
          /\ \A i \in 1..Len(ledger) : ledger'[i] = ledger[i]
          /\ ledger'[Len(ledger) + 1] = Dispatched(turns, c)
      BY <1>t, <2>2, <3>1, LedgerType, AppendProperties
    <3>3. Results' = Results /\ \A i \in Results : ledger'[i] = ledger[i]
      BY <3>1, <3>2 DEF Results, Events
    <3>4. \E p : Shown(p)'
      BY <1>3, <3>3, SameSeen DEF Seen, Turning
    <3> QED BY <1>3, <2>2, <3>4 DEF Seen
  <2> QED BY <1>3, <2>1, <2>2 DEF CallTools, Logs
<1>4. CASE Chat
  <2>1. ASSUME NEW c \in Completion, Answer(c), pc = "chat"
        PROVE  Seen'
    BY <1>1, <2>1 DEF Answer, AfterAnswer, Logs, Turning
  <2>2. CASE EngineFails
    BY <1>1, <1>4, <2>2 DEF Chat, EngineFails, Turning
  <2> QED BY <1>3, <1>4, <2>1, <2>2 DEF Chat, detectorVars
<1>5. CASE BeginTurn
  <2>1. /\ ledger' = ledger /\ history' = history /\ error' = error
        /\ pc = "loop" /\ pc' = "chat"
    BY <1>5 DEF BeginTurn, detectorVars
  <2>2. Results' = Results
    BY <2>1 DEF Results, Events
  <2>3. \E p : Shown(p)'
    BY <2>1, <2>2, SameSeen DEF Seen, Turning
  <2> QED BY <2>1, <2>3 DEF Seen, Turning
<1>6. CASE Salvage \/ SalvageExecute \/ Retry \/ FollowUp \/ Synthesize \/ Close \/ BudgetExhausted
  BY <1>1, <1>6 DEF Salvage, SalvageEnds, SalvageExecute, Retry, FollowUp, Synthesize, Close,
                    BudgetExhausted, EngineFails, Logs, Turning
<1>7. CASE WorkerEnds \/ UNCHANGED vars
  BY <1>2, <1>7 DEF WorkerEnds, vars, sessionVars, detectorVars, Turning, Advisory
<1> QED BY <1>4, <1>5, <1>6, <1>7, ExecuteSeen DEF Next

(* In every turn of the landing window the model has been told so in one    *)
(* notice, and before it has not; a session is stopped as a loop only after *)
(* an advisory and when its ledger ends in as many results of one action as *)
(* the threshold says, for any window and any threshold.                    *)
THEOREM NoticesAreDue == Spec => []NoticesDue
<1>1. Init => IInv /\ Told /\ Seen
  BY InitIInv, InitTold, InitSeen
<1>2. IInv /\ Told /\ Seen /\ [Next]_vars => (IInv /\ Told /\ Seen)'
  BY NextIInv, NextTold, NextSeen
<1>3. IInv /\ Told /\ Seen => NoticesDue
  BY DEF Told, Seen, Looped, Results, Advisory, NoticesDue
<1> QED BY <1>1, <1>2, <1>3, PTL DEF Spec

-----------------------------------------------------------------------------
(* The slot semaphore                                                      *)

USE SemaphoreAssumption

\* Leaving the wait-queue keeps it a sequence of callers.
LEMMA LeaveType ==
    ASSUME NEW q \in Seq(Callers), NEW c
    PROVE  Leave(q, c) \in Seq(Callers)
<1>1. CASE \E k \in 1 .. Len(q) : q[k] = c
  <2>1. PICK k \in 1 .. Len(q) : k = CHOOSE j \in 1 .. Len(q) : q[j] = c
    BY <1>1
  <2>2. SubSeq(q, 1, k - 1) \in Seq(Callers) /\ SubSeq(q, k + 1, Len(q)) \in Seq(Callers)
    OBVIOUS
  <2>. QED BY <1>1, <2>1, <2>2 DEF Leave, RemoveAt
<1>2. CASE ~ \E k \in 1 .. Len(q) : q[k] = c
  BY <1>2 DEF Leave
<1>. QED BY <1>1, <1>2

\* The slots are numbered from 0, and each caller's process is a process.
LEMMA Basics ==
    /\ 0 \in Slots
    /\ \A i \in Slots : i \in Nat
    /\ \A c \in Callers : ProcOf[c] \in Procs
BY DEF Slots

-----------------------------------------------------------------------------
(* Every step has the types it should.                                     *)

LEMMA GotoType ==
    ASSUME SlotsTypeOK, NEW c \in Callers, NEW l \in SlotLabels, Goto(c, l)
    PROVE  at' \in [Callers -> SlotLabels]
BY DEF SlotsTypeOK, Goto

LEMMA NextSlotType ==
    ASSUME SlotsTypeOK, NEW c \in Callers, NEW l \in SlotLabels, NEW end \in SlotLabels,
           NextSlot(c, l, end)
    PROVE  at' \in [Callers -> SlotLabels] /\ idx' \in [Callers -> Slots]
<1>1. at' \in [Callers -> SlotLabels]
  BY GotoType DEF NextSlot
<1>2. idx' \in [Callers -> Slots]
  BY Basics DEF NextSlot, SlotsTypeOK
<1>. QED BY <1>1, <1>2

\* The variables that count and remember failed calls have their types.
ErrorsType ==
    faults \in 0 .. MaxFaults /\ torn \in SUBSET Callers /\ stuck \in SUBSET Callers

\* A failed call is counted up to the bound.
LEMMA FaultType ==
    ASSUME SlotsTypeOK, Fault
    PROVE  faults' \in 0 .. MaxFaults
<1>1. PICK n \in Nat : n = MaxFaults
  OBVIOUS
<1>2. faults \in 0 .. n /\ faults < n /\ faults' = faults + 1
  BY <1>1 DEF Fault, SlotsTypeOK
<1>3. faults' \in 0 .. n
  BY <1>2
<1>. QED BY <1>1, <1>3

\* Nothing failed: what was remembered stays as it was.
LEMMA NoFaultType ==
    ASSUME SlotsTypeOK, UNCHANGED errorVars
    PROVE  ErrorsType'
BY DEF SlotsTypeOK, errorVars, ErrorsType

LEMMA UnlinkType ==
    ASSUME SlotsTypeOK, NEW i \in Slots, Unlink(i)
    PROVE  /\ file' \in [Slots -> Callers \cup {None}] /\ written' \in SUBSET Slots
           /\ ErrorsType'
BY DEF SlotsTypeOK, Unlink, ErrorsType, errorVars

LEMMA TryUnlinkType ==
    ASSUME SlotsTypeOK, NEW i \in Slots, TryUnlink(i)
    PROVE  /\ file' \in [Slots -> Callers \cup {None}] /\ written' \in SUBSET Slots
           /\ ErrorsType'
<1>1. CASE Unlink(i)
  BY <1>1, UnlinkType
<1>2. CASE ~Unlink(i)
  BY <1>2, FaultType DEF TryUnlink, SlotsTypeOK, ErrorsType
<1>. QED BY <1>1, <1>2

\* A create that fails moves its caller on and leaves the files alone.
LEMMA CreateFailsType ==
    ASSUME SlotsTypeOK, NEW c \in Callers, CreateFails(c)
    PROVE  /\ file' \in [Slots -> Callers \cup {None}] /\ written' \in SUBSET Slots
           /\ at' \in [Callers -> SlotLabels] /\ idx' \in [Callers -> Slots]
           /\ ErrorsType'
<1>1. at' \in [Callers -> SlotLabels] /\ idx' \in [Callers -> Slots]
  BY NextSlotType DEF CreateFails, SlotLabels
<1>. QED BY <1>1, FaultType DEF CreateFails, SlotsTypeOK, ErrorsType

LEMMA CreateType ==
    ASSUME SlotsTypeOK, NEW c \in Callers, Create(c)
    PROVE  /\ file' \in [Slots -> Callers \cup {None}] /\ written' \in SUBSET Slots
           /\ at' \in [Callers -> SlotLabels] /\ idx' \in [Callers -> Slots]
<1>1. at' \in [Callers -> SlotLabels]
  BY GotoType DEF Create, SlotLabels, Handle
<1>2. file' \in [Slots -> Callers \cup {None}]
  BY DEF SlotsTypeOK, Create
<1>. QED BY <1>1, <1>2 DEF SlotsTypeOK, Create

LEMMA TypeStep == SlotsTypeOK /\ [SlotsNext]_slotVars => SlotsTypeOK'
<1> SUFFICES ASSUME SlotsTypeOK, [SlotsNext]_slotVars PROVE SlotsTypeOK'
  OBVIOUS
<1>l. \A l \in {"idle", "sweep", "sweepRemove", "scan", "claim", "inspect",
           "reclaim", "recreate", "enqueue", "wait", "write", "held",
           "release", "unlink", "wake", "done"} : l \in SlotLabels
  BY DEF SlotLabels, Handle
<1>i. \A c \in Callers : idx[c] \in Slots
  BY DEF SlotsTypeOK
<1> USE DEF errorVars, ErrorsType
<1>1. ASSUME NEW c \in Callers, StartSweep(c) PROVE SlotsTypeOK'
  BY <1>1, <1>l, GotoType, Basics DEF StartSweep, SlotsTypeOK
<1>2. ASSUME NEW c \in Callers, SweepStep(c) PROVE SlotsTypeOK'
  <2>1. CASE SweepRead(c)
    <3>1. at' \in [Callers -> SlotLabels] /\ idx' \in [Callers -> Slots]
      BY <2>1, <1>l, GotoType, NextSlotType DEF SweepRead, SlotsTypeOK
    <3>. QED BY <2>1, <3>1 DEF SweepRead, SlotsTypeOK
  <2>2. CASE SweepRemove(c)
    BY <2>2, <1>l, <1>i, NextSlotType, TryUnlinkType DEF SweepRemove, SlotsTypeOK
  <2>. QED BY <1>2, <2>1, <2>2 DEF SweepStep
<1>3. ASSUME NEW c \in Callers, StartAcquire(c) PROVE SlotsTypeOK'
  BY <1>3, <1>l, GotoType, Basics DEF StartAcquire, SlotsTypeOK
<1>4. ASSUME NEW c \in Callers, AcquireStep(c) PROVE SlotsTypeOK'
  <2>1. CASE Scan(c)
    <3>1. at' \in [Callers -> SlotLabels] /\ idx' \in [Callers -> Slots]
      BY <2>1, <1>l, GotoType, NextSlotType DEF Scan, SlotsTypeOK
    <3>. QED BY <2>1, <3>1 DEF Scan, SlotsTypeOK
  <2>2. CASE TryClaim(c)
    BY <2>2, <1>l, GotoType, CreateType, CreateFailsType DEF TryClaim, Create, SlotsTypeOK
  <2>3. CASE Inspect(c)
    <3>1. at' \in [Callers -> SlotLabels] /\ idx' \in [Callers -> Slots]
      BY <2>3, <1>l, GotoType, NextSlotType DEF Inspect, SlotsTypeOK
    <3>. QED BY <2>3, <3>1 DEF Inspect, SlotsTypeOK
  <2>4. CASE Reclaim(c)
    BY <2>4, <1>l, <1>i, GotoType, TryUnlinkType DEF Reclaim, SlotsTypeOK
  <2>5. CASE Recreate(c)
    BY <2>5, <1>l, NextSlotType, CreateType, CreateFailsType DEF Recreate, Create, SlotsTypeOK
  <2>6. CASE WriteLease(c)
    BY <2>6, <1>l, <1>i, GotoType, FaultType DEF WriteLease, SlotsTypeOK
  <2>7. CASE Enqueue(c)
    BY <2>7, <1>l, Basics, GotoType DEF Enqueue, SlotsTypeOK
  <2>8. CASE Resume(c)
    BY <2>8, <1>l, Basics, GotoType, LeaveType DEF Resume, SlotsTypeOK
  <2>. QED BY <1>4, <2>1, <2>2, <2>3, <2>4, <2>5, <2>6, <2>7, <2>8 DEF AcquireStep
<1>5. ASSUME NEW c \in Callers, StartRelease(c) PROVE SlotsTypeOK'
  BY <1>5, <1>l, GotoType DEF StartRelease, SlotsTypeOK
<1>6. ASSUME NEW c \in Callers, ReleaseStep(c) PROVE SlotsTypeOK'
  <2>1. CASE CheckOwner(c)
    BY <2>1, <1>l, GotoType DEF CheckOwner, SlotsTypeOK
  <2>2. CASE UnlinkLease(c)
    BY <2>2, <1>l, <1>i, GotoType, UnlinkType, FaultType DEF UnlinkLease, SlotsTypeOK
  <2>3. CASE WakeHead(c)
    BY <2>3, <1>l, Basics, GotoType DEF WakeHead, SlotsTypeOK
  <2>. QED BY <1>6, <2>1, <2>2, <2>3 DEF ReleaseStep
<1>7. ASSUME NEW p \in Procs, Crash(p) PROVE SlotsTypeOK'
  BY <1>7 DEF Crash, SlotsTypeOK
<1>8. CASE UNCHANGED slotVars
  BY <1>8 DEF slotVars, SlotsTypeOK
<1>. QED BY <1>1, <1>2, <1>3, <1>4, <1>5, <1>6, <1>7, <1>8 DEF SlotsNext, Step

\* Type correctness of the semaphore: the variables of SlotSemaphore keep
\* their types in every reachable state.
THEOREM SlotsTypeCorrect == SlotsSpec => []SlotsTypeOK
<1>1. SlotsInit => SlotsTypeOK
  BY Basics DEF SlotsInit, SlotsTypeOK, SlotLabels
<1>. QED BY <1>1, TypeStep, PTL DEF SlotsSpec

-----------------------------------------------------------------------------
(* Who owns the lease files.                                               *)

Owning == {"write", "held", "release", "unlink", "wake", "done"}

\* A caller whose write failed has its handle, for good.
TornHeld == \A c \in torn : at[c] \in Owning \ {"write"}

\* LeaseOwned needs to know that a fresh file is not yet marked as written.
SlotsIInv == SlotsTypeOK /\ LeaseOwned /\ WrittenExists /\ TornHeld

\* What LeaseOwned says of the file of caller o in slot i.
Owned(i, o) ==
    /\ idx[o] = i
    /\ at[o] \in Owning
    /\ at[o] \in {"wake", "done"} => o \in stuck
    /\ i \in written <=> at[o] # "write" /\ o \notin torn

\* LeaseOwned in terms of Owned.
LEMMA OwnedMeans ==
    LeaseOwned <=> \A i \in Slots : file[i] # None /\ ProcOf[file[i]] \in alive
                                       => Owned(i, file[i])
BY DEF LeaseOwned, Owned, Owning

\* The same of the next state.
LEMMA OwnedNext ==
    ASSUME SlotsTypeOK',
           \A i \in Slots, o \in Callers :
              file'[i] = o /\ ProcOf[o] \in alive' => Owned(i, o)'
    PROVE  LeaseOwned'
BY DEF LeaseOwned, Owned, Owning, SlotsTypeOK

\* A step of c leaves the other callers where they are, and every process
\* that was alive.
LEMMA StepFrame ==
    ASSUME SlotsTypeOK, NEW c \in Callers, Step(c)
    PROVE  /\ alive' = alive /\ ProcOf[c] \in alive
           /\ \A d \in Callers \ {c} : at'[d] = at[d] /\ idx'[d] = idx[d]
<1> USE DEF At, Goto, NextSlot, SlotsTypeOK
<1>1. CASE StartSweep(c) BY <1>1 DEF StartSweep
<1>2. CASE SweepRead(c) BY <1>2 DEF SweepRead
<1>3. CASE SweepRemove(c) BY <1>3 DEF SweepRemove
<1>4. CASE StartAcquire(c) BY <1>4 DEF StartAcquire
<1>5. CASE Scan(c) BY <1>5 DEF Scan
<1>6. CASE TryClaim(c) BY <1>6 DEF TryClaim, Create, CreateFails
<1>7. CASE Inspect(c) BY <1>7 DEF Inspect
<1>8. CASE Reclaim(c) BY <1>8 DEF Reclaim
<1>9. CASE Recreate(c) BY <1>9 DEF Recreate, Create, CreateFails
<1>10. CASE WriteLease(c) BY <1>10 DEF WriteLease
<1>11. CASE Enqueue(c) BY <1>11 DEF Enqueue
<1>12. CASE Resume(c) BY <1>12 DEF Resume
<1>13. CASE StartRelease(c) BY <1>13 DEF StartRelease
<1>14. CASE CheckOwner(c) BY <1>14 DEF CheckOwner
<1>15. CASE UnlinkLease(c) BY <1>15 DEF UnlinkLease
<1>16. CASE WakeHead(c) BY <1>16 DEF WakeHead
<1>. QED BY <1>1, <1>2, <1>3, <1>4, <1>5, <1>6, <1>7, <1>8, <1>9, <1>10, <1>11,
            <1>12, <1>13, <1>14, <1>15, <1>16
         DEF Step, SweepStep, AcquireStep, ReleaseStep

\* A step that only moves c, from a place where c owns no file.
LEMMA MoveKeepsOwned ==
    ASSUME SlotsIInv, NEW c \in Callers, Step(c), at[c] \notin Owning,
           UNCHANGED <<file, written, torn, stuck>>
    PROVE  SlotsIInv'
<1>1. SlotsTypeOK'
  BY TypeStep DEF SlotsIInv, SlotsNext
<1>2. \A i \in Slots : file[i] # c
  BY StepFrame, OwnedMeans DEF SlotsIInv, Owned, SlotsTypeOK
<1>3. ASSUME NEW i \in Slots, NEW o \in Callers, file'[i] = o, ProcOf[o] \in alive'
      PROVE  Owned(i, o)'
  BY <1>2, <1>3, StepFrame, OwnedMeans DEF SlotsIInv, Owned, SlotsTypeOK
<1>4. LeaseOwned'
  BY <1>1, <1>3, OwnedNext
<1>5. TornHeld'
  BY StepFrame DEF TornHeld, SlotsIInv, SlotsTypeOK
<1>. QED BY <1>1, <1>4, <1>5 DEF SlotsIInv, WrittenExists, SlotsTypeOK

\* Unlinking slot idx[c], whoever's file it is, from a place where c owns no
\* other file.
LEMMA UnlinkKeepsOwned ==
    ASSUME SlotsIInv, NEW c \in Callers, Step(c), Unlink(idx[c]),
           at[c] \in {"sweepRemove", "reclaim", "unlink"},
           at[c] = "unlink" => at'[c] = "wake"
    PROVE  SlotsIInv'
<1>1. SlotsTypeOK'
  BY TypeStep DEF SlotsIInv, SlotsNext
<1>2. \A i \in Slots : file'[i] # c
  BY StepFrame, OwnedMeans DEF SlotsIInv, Owned, Owning, Unlink, SlotsTypeOK
<1>u. torn' = torn /\ stuck' = stuck
  BY DEF Unlink, errorVars
<1>3. ASSUME NEW i \in Slots, file'[i] # None
      PROVE  file'[i] = file[i] /\ i # idx[c] /\ (i \in written' <=> i \in written)
  BY <1>3 DEF SlotsIInv, Unlink, SlotsTypeOK
<1>4. ASSUME NEW i \in Slots, NEW o \in Callers, file'[i] = o, ProcOf[o] \in alive'
      PROVE  Owned(i, o)'
  <2>1. file[i] = o /\ o # c /\ (i \in written' <=> i \in written) /\ o # None
    BY <1>2, <1>3, <1>4, SemaphoreAssumption
  <2>2. alive' = alive /\ at'[o] = at[o] /\ idx'[o] = idx[o]
    BY <2>1, StepFrame DEF SlotsIInv
  <2>3. Owned(i, o)
    BY <1>4, <2>1, <2>2, OwnedMeans DEF SlotsIInv
  <2>. QED BY <1>u, <2>1, <2>2, <2>3 DEF Owned
<1>5. WrittenExists'
  BY DEF SlotsIInv, WrittenExists, Unlink, SlotsTypeOK
<1>6. TornHeld'
  BY <1>u, StepFrame DEF TornHeld, SlotsIInv, SlotsTypeOK, Owning
<1>. QED BY <1>1, <1>4, <1>5, <1>6, OwnedNext DEF SlotsIInv

\* An O_EXCL create gives c an empty file in a slot that had none.
LEMMA CreateKeepsOwned ==
    ASSUME SlotsIInv, NEW c \in Callers, Step(c), Create(c), at[c] \notin Owning
    PROVE  SlotsIInv'
<1>1. SlotsTypeOK'
  BY TypeStep DEF SlotsIInv, SlotsNext
<1>2. \A i \in Slots : file[i] # c
  BY StepFrame, OwnedMeans DEF SlotsIInv, Owned, SlotsTypeOK
<1>u. torn' = torn /\ stuck' = stuck /\ written' = written /\ idx' = idx /\ at'[c] = "write"
  BY DEF Create, errorVars, Goto, SlotsIInv, SlotsTypeOK
<1>3. ASSUME NEW i \in Slots, NEW o \in Callers, file'[i] = o, ProcOf[o] \in alive'
      PROVE  Owned(i, o)'
  <2>1. CASE i = idx[c]
    BY <2>1, <1>3, <1>u DEF Create, SlotsIInv, SlotsTypeOK, WrittenExists, Owning, Owned
  <2>2. CASE i # idx[c]
    BY <2>2, <1>2, <1>3, <1>u, StepFrame, OwnedMeans DEF Create, SlotsIInv, SlotsTypeOK, Owned
  <2>. QED BY <2>1, <2>2
<1>5. WrittenExists'
  BY DEF SlotsIInv, WrittenExists, Create, SlotsTypeOK
<1>6. TornHeld'
  BY <1>u, StepFrame DEF TornHeld, SlotsIInv, SlotsTypeOK
<1>. QED BY <1>1, <1>3, <1>5, <1>6, OwnedNext DEF SlotsIInv

\* A step of c that leaves all files and only moves c among the places where
\* it may own one.
LEMMA HoldKeepsOwned ==
    ASSUME SlotsIInv, NEW c \in Callers, Step(c), file' = file, idx' = idx,
           at[c] \in Owning, at'[c] \in Owning \ {"write"},
           torn \subseteq torn', torn' \subseteq torn \cup {c},
           stuck \subseteq stuck',
           \A i \in Slots : i # idx[c] \/ file[i] # c => (i \in written' <=> i \in written),
           file[idx[c]] = c => (idx[c] \in written' <=> c \notin torn'),
           file[idx[c]] = c /\ at'[c] \in {"wake", "done"} => c \in stuck',
           written' \subseteq written \cup {i \in Slots : file[i] = c}
    PROVE  SlotsIInv'
<1>1. SlotsTypeOK'
  BY TypeStep DEF SlotsIInv, SlotsNext
<1>3. ASSUME NEW i \in Slots, NEW o \in Callers, file'[i] = o, ProcOf[o] \in alive'
      PROVE  Owned(i, o)'
  <2>f. alive' = alive /\ \A d \in Callers \ {c} : at'[d] = at[d]
    BY StepFrame DEF SlotsIInv
  <2>o. Owned(i, file[i]) /\ file[i] = o
    BY <1>3, <2>f, OwnedMeans DEF SlotsIInv, SlotsTypeOK
  <2>1. CASE file[i] = c
    <3>1. i = idx[c]
      BY <2>o, <2>1 DEF Owned
    <3>. QED BY <2>1, <2>o, <3>1 DEF Owned
  <2>2. CASE file[i] # c
    BY <2>2, <2>f, <2>o DEF Owned
  <2>. QED BY <2>1, <2>2
<1>5. WrittenExists'
  BY DEF SlotsIInv, WrittenExists, SlotsTypeOK
<1>6. TornHeld'
  BY StepFrame DEF TornHeld, SlotsIInv, SlotsTypeOK
<1>. QED BY <1>1, <1>3, <1>5, <1>6, OwnedNext DEF SlotsIInv

LEMMA OwnedStep == SlotsIInv /\ [SlotsNext]_slotVars => SlotsIInv'
<1> SUFFICES ASSUME SlotsIInv, [SlotsNext]_slotVars PROVE SlotsIInv'
  OBVIOUS
<1>t. SlotsTypeOK'
  BY TypeStep DEF SlotsIInv
<1>1. ASSUME NEW c \in Callers, Step(c) PROVE SlotsIInv'
  <2>f. /\ alive' = alive /\ ProcOf[c] \in alive
        /\ \A d \in Callers \ {c} : at'[d] = at[d] /\ idx'[d] = idx[d]
    BY <1>1, StepFrame DEF SlotsIInv
  <2>y. at[c] \in SlotLabels /\ idx[c] \in Slots
    BY DEF SlotsIInv, SlotsTypeOK
  <2>o. \A i \in Slots : file[i] = c => Owned(i, c)
    BY <2>f, OwnedMeans DEF SlotsIInv, SlotsTypeOK
  <2>s. \A i \in Slots : file[i] = c => i = idx[c]
    BY <2>o DEF Owned
  <2>w. file[idx[c]] = c /\ at[c] # "write" => (idx[c] \in written <=> c \notin torn)
    BY <2>o, <2>y DEF Owned
  <2>e. UNCHANGED errorVars => torn' = torn /\ stuck' = stuck
    BY DEF errorVars
  <2> USE <1>1
  <2> USE DEF Step, SweepStep, AcquireStep, ReleaseStep, At, Owning
  <2>1. CASE StartSweep(c) \/ SweepRead(c) \/ StartAcquire(c) \/ Scan(c)
    BY <2>1, <2>e, MoveKeepsOwned DEF StartSweep, SweepRead, StartAcquire, Scan
  <2>2. CASE Inspect(c) \/ Enqueue(c) \/ Resume(c)
    BY <2>2, <2>e, MoveKeepsOwned DEF Inspect, Enqueue, Resume
  <2>3. CASE SweepRemove(c) \/ Reclaim(c)
    BY <2>3, UnlinkKeepsOwned, MoveKeepsOwned DEF SweepRemove, Reclaim, TryUnlink
  <2>4. CASE TryClaim(c)
    BY <2>4, <2>e, CreateKeepsOwned, MoveKeepsOwned DEF TryClaim, CreateFails
  <2>5. CASE Recreate(c)
    BY <2>5, <2>e, CreateKeepsOwned, MoveKeepsOwned DEF Recreate, CreateFails
  <2>6. CASE WriteLease(c)
    <3>1. at'[c] = "held" /\ idx' = idx /\ file' = file /\ at[c] = "write"
      BY <2>6 DEF WriteLease, Goto, SlotsIInv, SlotsTypeOK
    <3>2. c \notin torn
      BY <3>1 DEF SlotsIInv, TornHeld
    <3>3. CASE UNCHANGED errorVars
      <4>1. written' = IF file[idx[c]] = c THEN written \cup {idx[c]} ELSE written
        BY <2>6, <3>3, <2>e DEF WriteLease, Fault, errorVars, SlotsIInv, SlotsTypeOK
      <4>2. torn' = torn /\ stuck' = stuck
        BY <3>3, <2>e
      <4>. QED BY <3>1, <3>2, <4>1, <4>2, <2>s, <2>y, HoldKeepsOwned
    <3>4. CASE torn' = torn \cup {c} /\ UNCHANGED <<written, stuck>>
      <4>1. file[idx[c]] = c => idx[c] \notin written
        BY <2>o, <2>y, <3>1 DEF Owned
      <4>. QED BY <3>1, <3>4, <4>1, HoldKeepsOwned
    <3>. QED BY <2>6, <3>3, <3>4 DEF WriteLease
  <2>7. CASE StartRelease(c)
    <3>1. at'[c] = "release" /\ idx' = idx /\ file' = file /\ written' = written
          /\ at[c] \in {"held", "done"} /\ torn' = torn /\ stuck' = stuck
      BY <2>7, <2>e DEF StartRelease, Goto, SlotsIInv, SlotsTypeOK
    <3>. QED BY <3>1, <2>w, HoldKeepsOwned
  <2>8. CASE CheckOwner(c)
    <3>1. idx' = idx /\ file' = file /\ written' = written
          /\ at[c] = "release" /\ torn' = torn /\ stuck' = stuck
      BY <2>8, <2>e DEF CheckOwner
    <3>2. file[idx[c]] = c => at'[c] = "unlink"
      BY <2>8 DEF CheckOwner, AlienLease, Tenant, Goto, SlotsIInv, SlotsTypeOK
    <3>3. at'[c] \in {"done", "unlink"}
      BY <2>8 DEF CheckOwner, Goto, SlotsIInv, SlotsTypeOK
    <3>. QED BY <3>1, <3>2, <3>3, <2>w, HoldKeepsOwned
  <2>9. CASE UnlinkLease(c)
    <3>1. at'[c] = "wake" /\ at[c] = "unlink" /\ idx' = idx
      BY <2>9 DEF UnlinkLease, Goto, SlotsIInv, SlotsTypeOK
    <3>2. CASE Unlink(idx[c])
      BY <3>1, <3>2, UnlinkKeepsOwned
    <3>3. CASE stuck' = stuck \cup {c} /\ UNCHANGED <<file, written, torn>>
      BY <3>1, <3>3, <2>w, HoldKeepsOwned
    <3>. QED BY <2>9, <3>2, <3>3 DEF UnlinkLease
  <2>10. CASE WakeHead(c)
    <3>1. at'[c] = "done" /\ at[c] = "wake" /\ idx' = idx /\ file' = file
          /\ written' = written /\ torn' = torn /\ stuck' = stuck
      BY <2>10, <2>e DEF WakeHead, Goto, SlotsIInv, SlotsTypeOK
    <3>2. file[idx[c]] = c => c \in stuck
      BY <2>o, <2>y, <3>1 DEF Owned
    <3>. QED BY <3>1, <3>2, <2>w, HoldKeepsOwned
  <2>. QED BY <2>1, <2>2, <2>3, <2>4, <2>5, <2>6, <2>7, <2>8, <2>9, <2>10
<1>2. ASSUME NEW p \in Procs, Crash(p) PROVE SlotsIInv'
  BY <1>t, <1>2 DEF SlotsIInv, Crash, LeaseOwned, WrittenExists, TornHeld, errorVars
<1>3. CASE UNCHANGED slotVars
  BY <1>t, <1>3 DEF slotVars, SlotsIInv, LeaseOwned, WrittenExists, TornHeld
<1>. QED BY <1>1, <1>2, <1>3 DEF SlotsNext

LEMMA SlotsIInvCorrect == SlotsSpec => []SlotsIInv
<1>1. SlotsInit => SlotsIInv
  BY Basics DEF SlotsInit, SlotsIInv, SlotsTypeOK, LeaseOwned, WrittenExists, TornHeld, SlotLabels
<1>. QED BY <1>1, OwnedStep, PTL DEF SlotsSpec

\* LeaseOwned: every lease file of a live process is held by a caller that
\* has a handle for that slot, or whose removal failed, and is there to be
\* read unless the write of it failed: no race in acquire or release leaks or
\* hides a lease, only a failed call of the file system does.
THEOREM NoLeakedLease == SlotsSpec => []LeaseOwned
<1>1. SlotsIInv => LeaseOwned
  BY DEF SlotsIInv
<1>. QED BY <1>1, SlotsIInvCorrect, PTL

-----------------------------------------------------------------------------
(* A settled lease is kept.                                                *)

\* A caller other than the owner can neither take the file away nor come to
\* the point of removing it, nor get a second handle in the owner's process.
LEMMA OtherKeepsSettled ==
    ASSUME SlotsIInv, NEW i \in Slots, Settled(i),
           NEW c \in Callers, Step(c), c # file[i]
    PROVE  file'[i] = file[i] /\ Settled(i)'
<1>f. /\ alive' = alive /\ ProcOf[c] \in alive
      /\ \A d \in Callers \ {c} : at'[d] = at[d] /\ idx'[d] = idx[d]
  BY StepFrame DEF SlotsIInv
<1>o. file[i] \in Callers /\ i \in written /\ LiveLease(i)
  BY DEF Settled, LiveLease, Readable, SlotsIInv, SlotsTypeOK
<1>r. idx[c] = i => /\ at[c] \notin {"reclaim", "unlink", "sweepRemove"}
                    /\ ProcOf[c] = Tenant(i) => at[c] \notin Handle
  BY <1>f DEF Settled, Removing
<1>n. file[i] # None
  BY <1>o
<1>1. /\ file'[i] = file[i] /\ i \in written'
      /\ idx'[c] = i => /\ at'[c] \notin {"reclaim", "unlink", "sweepRemove"}
                        /\ ProcOf[c] = Tenant(i) => at'[c] \notin Handle
  <2> USE <1>o, <1>r, <1>n
  <2> USE DEF SlotsIInv, SlotsTypeOK, At, Goto, NextSlot, Handle, Reclaimable
  <2>1. CASE StartSweep(c) BY <2>1 DEF StartSweep
  <2>2. CASE SweepRead(c) BY <2>2 DEF SweepRead
  <2>3. CASE SweepRemove(c) BY <2>3 DEF SweepRemove, TryUnlink, Unlink
  <2>4. CASE StartAcquire(c) BY <2>4 DEF StartAcquire
  <2>5. CASE Scan(c) BY <2>5 DEF Scan
  <2>6. CASE TryClaim(c) BY <2>6 DEF TryClaim, Create, CreateFails
  <2>7. CASE Inspect(c) BY <2>7 DEF Inspect
  <2>8. CASE Reclaim(c) BY <2>8 DEF Reclaim, TryUnlink, Unlink
  <2>9. CASE Recreate(c) BY <2>9 DEF Recreate, Create, CreateFails
  <2>10. CASE WriteLease(c) BY <2>10 DEF WriteLease
  <2>11. CASE Enqueue(c) BY <2>11 DEF Enqueue
  <2>12. CASE Resume(c) BY <2>12 DEF Resume
  <2>13. CASE StartRelease(c) BY <2>13 DEF StartRelease
  <2>14. CASE CheckOwner(c) BY <2>14 DEF CheckOwner, AlienLease
  <2>15. CASE UnlinkLease(c) BY <2>15 DEF UnlinkLease, Unlink
  <2>16. CASE WakeHead(c) BY <2>16 DEF WakeHead
  <2>. QED BY <2>1, <2>2, <2>3, <2>4, <2>5, <2>6, <2>7, <2>8, <2>9, <2>10,
              <2>11, <2>12, <2>13, <2>14, <2>15, <2>16
           DEF Step, SweepStep, AcquireStep, ReleaseStep
<1>2. LiveLease(i)' /\ Tenant(i)' = Tenant(i)
  BY <1>1, <1>f, <1>o DEF LiveLease, Readable, Tenant
<1>3. ASSUME NEW d \in Callers \ {file'[i]}
      PROVE  /\ ~Removing(d, i)'
             /\ ProcOf[d] = Tenant(i)' /\ idx'[d] = i => at'[d] \notin Handle
  <2>1. CASE d = c
    BY <2>1, <1>1, <1>2 DEF Removing
  <2>2. CASE d # c
    BY <2>2, <1>1, <1>2, <1>f DEF Removing, Settled
  <2>. QED BY <2>1, <2>2
<1>. QED BY <1>1, <1>2, <1>3 DEF Settled

\* The owner itself only moves on to its unlink.
LEMMA OwnerKeepsSettled ==
    ASSUME SlotsIInv, NEW i \in Slots, Settled(i), Step(file[i]), ~GivenUp(i)
    PROVE  file'[i] = file[i] /\ Settled(i)'
<1> DEFINE o == file[i]
<1>o. o \in Callers /\ i \in written /\ LiveLease(i)
  BY DEF Settled, LiveLease, Readable, SlotsIInv, SlotsTypeOK
<1>p. at[o] \in {"held", "release", "unlink", "wake", "done"} /\ idx[o] = i
  BY <1>o DEF LiveLease, Readable, Tenant, SlotsIInv, LeaseOwned
<1>f. /\ alive' = alive
      /\ \A d \in Callers \ {o} : at'[d] = at[d] /\ idx'[d] = idx[d]
  BY <1>o, StepFrame DEF SlotsIInv
<1>1. StartRelease(o) \/ CheckOwner(o) \/ UnlinkLease(o) \/ WakeHead(o)
  BY <1>p DEF Step, SweepStep, AcquireStep, ReleaseStep, At, StartSweep, SweepRead,
       SweepRemove, StartAcquire, Scan, TryClaim, Inspect, Reclaim, Recreate,
       WriteLease, Enqueue, Resume
<1>2. ~UnlinkLease(o)
  BY <1>o DEF UnlinkLease, GivenUp, At, Goto, SlotsIInv, SlotsTypeOK
<1>3. file' = file /\ written' = written
  BY <1>1, <1>2 DEF StartRelease, CheckOwner, WakeHead
<1>. QED BY <1>3, <1>f DEF Settled, LiveLease, Readable, Tenant, Removing

\* SettledLeaseKept: once a live process's lease is readable and no earlier
\* reclaimer is about to act on its slot, only its owner can end it.
THEOREM SettledIsKept == SlotsSpec => SettledLeaseKept
<1>1. ASSUME SlotsIInv, [SlotsNext]_slotVars, NEW i \in Slots, Settled(i), ~GivenUp(i)
      PROVE  file'[i] = file[i] /\ Settled(i)'
  <2> USE <1>1
  <2>1. ASSUME NEW c \in Callers, Step(c) PROVE file'[i] = file[i] /\ Settled(i)'
    BY <2>1, OtherKeepsSettled, OwnerKeepsSettled
  <2>2. ASSUME NEW p \in Procs, Crash(p) PROVE file'[i] = file[i] /\ Settled(i)'
    BY <2>2 DEF Crash, Settled, LiveLease, Readable, Tenant, Removing, GivenUp
  <2>3. CASE UNCHANGED slotVars
    BY <2>3 DEF slotVars, Settled, LiveLease, Readable, Tenant, Removing
  <2>. QED BY <2>1, <2>2, <2>3 DEF SlotsNext
<1>2. SlotsIInv /\ [SlotsNext]_slotVars =>
        [\A i \in Slots : Settled(i) =>
            GivenUp(i) \/ (file'[i] = file[i] /\ Settled(i)')]_slotVars
  BY <1>1
<1>. QED BY <1>2, SlotsIInvCorrect, PTL DEF SlotsSpec, SettledLeaseKept

-----------------------------------------------------------------------------
(* A live alien lease blocks.                                              *)

\* AlienBlocks: a caller that has not scanned a slot holding a live lease of
\* another process does not get past it in this step, whatever it does.
THEOREM AliensBlock == SlotsSpec => AlienBlocks
<1>1. ASSUME SlotsTypeOK, [SlotsNext]_slotVars, NEW i \in Slots, NEW c \in Callers,
             LiveLease(i), Tenant(i) # ProcOf[c], NotPast(c, i)
      PROVE  NotPast(c, i)'
  <2> USE <1>1
  <2>1. CASE Step(c)
    <3> USE DEF NotPast, At, Goto, SlotsTypeOK, NextSlot, Slots
    <3>1. CASE StartSweep(c) BY <3>1 DEF StartSweep
    <3>2. CASE SweepRead(c) BY <3>2 DEF SweepRead
    <3>3. CASE SweepRemove(c) BY <3>3 DEF SweepRemove
    <3>4. CASE StartAcquire(c) BY <3>4 DEF StartAcquire
    <3>5. CASE Scan(c) BY <3>5 DEF Scan, AlienLease
    <3>6. CASE Enqueue(c) BY <3>6 DEF Enqueue
    <3>7. CASE Resume(c) BY <3>7 DEF Resume
    <3>. QED BY <2>1, <3>1, <3>2, <3>3, <3>4, <3>5, <3>6, <3>7
             DEF Step, SweepStep, AcquireStep, ReleaseStep, TryClaim, Inspect, Reclaim,
                 Recreate, WriteLease, StartRelease, CheckOwner, UnlinkLease, WakeHead
  <2>2. ASSUME NEW d \in Callers, d # c, Step(d) PROVE NotPast(c, i)'
    BY <2>2, StepFrame DEF NotPast
  <2>3. ASSUME NEW p \in Procs, Crash(p) PROVE NotPast(c, i)'
    BY <2>3 DEF Crash, NotPast
  <2>4. CASE UNCHANGED slotVars
    BY <2>4 DEF slotVars, NotPast
  <2>. QED BY <2>1, <2>2, <2>3, <2>4 DEF SlotsNext
<1>2. SlotsTypeOK /\ [SlotsNext]_slotVars =>
        [\A i \in Slots, c \in Callers :
            LiveLease(i) /\ Tenant(i) # ProcOf[c] /\ NotPast(c, i) => NotPast(c, i)']_slotVars
  BY <1>1
<1>. QED BY <1>2, SlotsTypeCorrect, PTL DEF SlotsSpec, AlienBlocks

-----------------------------------------------------------------------------
(* The wait-queues.                                                        *)

Distinct(q) == \A k, l \in 1 .. Len(q) : q[k] = q[l] => k = l

\* q holds waiting callers of the live process p, once each, where f gives
\* every caller's label and a is the set of live processes.
Sound(q, p, f, a) ==
    /\ Distinct(q)
    /\ \A k \in 1 .. Len(q) : f[q[k]] = "wait" /\ ProcOf[q[k]] \in a /\ ProcOf[q[k]] = p

\* QueueSound says that every queue is sound.
LEMMA SoundQueues ==
    /\ QueueSound => \A p \in Procs : Sound(queue[p], p, at, alive)
    /\ (\A p \in Procs : Sound(queue'[p], p, at', alive')) => QueueSound'
BY DEF QueueSound, At, Sound, Distinct

\* Leaving a queue that holds its members once removes exactly the leaver.
LEMMA LeaveSound ==
    ASSUME NEW q \in Seq(Callers), Distinct(q), NEW c
    PROVE  /\ Distinct(Leave(q, c))
           /\ \A k \in 1 .. Len(Leave(q, c)) :
                 Leave(q, c)[k] # c /\ \E l \in 1 .. Len(q) : Leave(q, c)[k] = q[l]
<1>1. CASE \E k \in 1 .. Len(q) : q[k] = c
  <2>1. PICK k \in 1 .. Len(q) : k = (CHOOSE j \in 1 .. Len(q) : q[j] = c) /\ q[k] = c
    BY <1>1
  <2> DEFINE a == SubSeq(q, 1, k - 1)
             b == SubSeq(q, k + 1, Len(q))
             r == a \o b
  <2>2. Leave(q, c) = r
    BY <1>1, <2>1 DEF Leave, RemoveAt
  <2>a. a \in Seq(Callers) /\ Len(a) = k - 1 /\ \A j \in 1 .. k - 1 : a[j] = q[j]
    OBVIOUS
  <2>b. /\ b \in Seq(Callers) /\ Len(b) = Len(q) - k
        /\ \A j \in 1 .. Len(q) - k : b[j] = q[k + j]
    OBVIOUS
  <2> HIDE DEF a, b
  <2>3. /\ Len(r) = Len(q) - 1
        /\ \A j \in 1 .. Len(q) - 1 : r[j] = IF j < k THEN q[j] ELSE q[j + 1]
    <3>t. a \in Seq(Callers) /\ b \in Seq(Callers)
      BY <2>a, <2>b
    <3>1. Len(r) = Len(a) + Len(b)
      BY <3>t
    <3>2. ASSUME NEW j \in 1 .. Len(a) + Len(b)
          PROVE  r[j] = IF j <= Len(a) THEN a[j] ELSE b[j - Len(a)]
      BY <3>t
    <3>3. ASSUME NEW j \in 1 .. Len(q) - 1 PROVE r[j] = IF j < k THEN q[j] ELSE q[j + 1]
      <4>1. CASE j < k BY <2>a, <2>b, <3>2, <4>1
      <4>2. CASE ~(j < k)
        <5>1. r[j] = b[j - (k - 1)] BY <2>a, <2>b, <3>2, <4>2
        <5>2. j - (k - 1) \in 1 .. Len(q) - k /\ k + (j - (k - 1)) = j + 1
          BY <4>2
        <5>3. b[j - (k - 1)] = q[k + (j - (k - 1))]
          BY <2>b, <5>2
        <5>. QED BY <4>2, <5>1, <5>2, <5>3
      <4>. QED BY <4>1, <4>2
    <3>. QED BY <2>a, <2>b, <3>1, <3>3
  <2> HIDE DEF r
  <2>4. \A j \in 1 .. Len(r) : r[j] # c
    <3>1. ASSUME NEW j \in 1 .. Len(q), q[j] = c PROVE j = k
      BY <2>1, <3>1 DEF Distinct
    <3>. QED BY <2>3, <3>1
  <2>5. \A j \in 1 .. Len(r) : \E l \in 1 .. Len(q) : r[j] = q[l]
    <3> TAKE j \in 1 .. Len(r)
    <3>1. CASE j < k BY <2>3, <3>1
    <3>2. CASE ~(j < k) BY <2>3, <3>2
    <3>. QED BY <3>1, <3>2
  <2>6. Distinct(r)
    <3>1. ASSUME NEW j \in 1 .. Len(r), NEW l \in 1 .. Len(r), r[j] = r[l] PROVE j = l
      BY <2>3, <3>1 DEF Distinct
    <3>. QED BY <3>1 DEF Distinct
  <2>. QED BY <2>2, <2>4, <2>5, <2>6
<1>2. CASE ~ \E k \in 1 .. Len(q) : q[k] = c
  BY <1>2 DEF Leave
<1>. QED BY <1>1, <1>2

\* QueueSound: a waiter is in its process's queue at most once, and only
\* while it waits, so each wake-up reaches somebody who is waiting.
THEOREM QueuesAreSound == SlotsSpec => []QueueSound
<1>1. SlotsInit => QueueSound
  BY DEF SlotsInit, QueueSound
<1>2. ASSUME SlotsTypeOK, QueueSound, [SlotsNext]_slotVars PROVE QueueSound'
  <2> USE <1>2
  <2> SUFFICES ASSUME NEW p \in Procs PROVE Sound(queue'[p], p, at', alive')
    BY SoundQueues
  <2> DEFINE q == queue[p]
  <2>q. q \in Seq(Callers) /\ Sound(q, p, at, alive)
    BY SoundQueues DEF SlotsTypeOK
  <2>1. ASSUME NEW c \in Callers, Step(c) PROVE Sound(queue'[p], p, at', alive')
    <3>f. /\ alive' = alive /\ ProcOf[c] \in alive
          /\ \A d \in Callers \ {c} : at'[d] = at[d] /\ idx'[d] = idx[d]
      BY <2>1, StepFrame
    <3>1. CASE (at[c] # "wait" \/ ProcOf[c] # p) /\ queue'[p] = q
      BY <3>1, <3>f, <2>q DEF Sound
    <3>2. CASE Enqueue(c) /\ ProcOf[c] = p
      <4>1. queue'[p] = Append(q, c) /\ at'[c] = "wait" /\ at[c] # "wait"
        BY <3>2 DEF Enqueue, Goto, At, SlotsTypeOK
      <4>2. \A k \in 1 .. Len(q) : q[k] # c /\ q[k] \in Callers
        BY <4>1, <2>q DEF Sound
      <4>3. /\ Len(Append(q, c)) = Len(q) + 1 /\ Len(q) \in Nat
            /\ \A k \in 1 .. Len(q) : Append(q, c)[k] = q[k]
            /\ Append(q, c)[Len(q) + 1] = c
        BY <2>q
      <4>4. Distinct(Append(q, c))
        BY <2>q, <4>2, <4>3 DEF Sound, Distinct
      <4>5. \A k \in 1 .. Len(Append(q, c)) :
               k = Len(q) + 1 \/ k \in 1 .. Len(q)
        BY <4>3
      <4>. QED BY <2>q, <3>2, <3>f, <4>1, <4>2, <4>3, <4>4, <4>5 DEF Sound
    <3>3. CASE Resume(c) /\ ProcOf[c] = p
      <4>1. queue'[p] = Leave(q, c)
        BY <3>3 DEF Resume, SlotsTypeOK
      <4>2. /\ Distinct(Leave(q, c))
            /\ \A k \in 1 .. Len(Leave(q, c)) :
                  Leave(q, c)[k] # c /\ \E l \in 1 .. Len(q) : Leave(q, c)[k] = q[l]
        BY <2>q, LeaveSound DEF Sound
      <4>3. ASSUME NEW k \in 1 .. Len(Leave(q, c))
            PROVE  /\ at'[Leave(q, c)[k]] = "wait" /\ ProcOf[Leave(q, c)[k]] \in alive'
                   /\ ProcOf[Leave(q, c)[k]] = p
        <5>1. PICK l \in 1 .. Len(q) : Leave(q, c)[k] = q[l] /\ q[l] # c
          BY <4>2
        <5>. QED BY <5>1, <2>q, <3>f DEF Sound
      <4>. QED BY <4>1, <4>2, <4>3 DEF Sound
    <3>4. CASE WakeHead(c) /\ ProcOf[c] = p /\ q # <<>>
      <4>1. queue'[p] = Tail(q) /\ at[c] # "wait"
        BY <3>4 DEF WakeHead, At, SlotsTypeOK
      <4>2. /\ Len(Tail(q)) = Len(q) - 1 /\ Len(q) \in Nat
            /\ \A k \in 1 .. Len(q) - 1 : Tail(q)[k] = q[k + 1]
        BY <2>q, <3>4
      <4>3. \A k \in 1 .. Len(q) - 1 : k + 1 \in 1 .. Len(q)
        BY <4>2
      <4>4. Distinct(Tail(q))
        BY <2>q, <4>2, <4>3 DEF Sound, Distinct
      <4>. QED BY <2>q, <3>f, <4>1, <4>2, <4>3, <4>4 DEF Sound
    <3>5. \/ (at[c] # "wait" \/ ProcOf[c] # p) /\ queue'[p] = q
          \/ Enqueue(c) /\ ProcOf[c] = p
          \/ Resume(c) /\ ProcOf[c] = p
          \/ WakeHead(c) /\ ProcOf[c] = p /\ q # <<>>
      <4>1. CASE Enqueue(c) \/ Resume(c) \/ WakeHead(c)
        BY <4>1 DEF Enqueue, Resume, WakeHead, SlotsTypeOK, At
      <4>2. CASE ~(Enqueue(c) \/ Resume(c) \/ WakeHead(c))
        BY <2>1, <4>2 DEF Step, SweepStep, AcquireStep, ReleaseStep, At, StartSweep,
           SweepRead, SweepRemove, StartAcquire, Scan, TryClaim, Inspect, Reclaim,
           Recreate, WriteLease, StartRelease, CheckOwner, UnlinkLease
      <4>. QED BY <4>1, <4>2
    <3>. QED BY <3>1, <3>2, <3>3, <3>4, <3>5
  <2>2. ASSUME NEW r \in Procs, Crash(r) PROVE Sound(queue'[p], p, at', alive')
    <3>1. CASE r = p
      BY <2>2, <3>1 DEF Crash, Sound, Distinct, SlotsTypeOK
    <3>2. CASE r # p
      BY <2>2, <2>q, <3>2 DEF Crash, Sound, SlotsTypeOK
    <3>. QED BY <3>1, <3>2
  <2>3. CASE UNCHANGED slotVars
    BY <2>3, <2>q DEF slotVars
  <2>. QED BY <2>1, <2>2, <2>3 DEF SlotsNext
<1>. QED BY <1>1, <1>2, SlotsTypeCorrect, PTL DEF SlotsSpec

=============================================================================
