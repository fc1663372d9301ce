---------------------------- MODULE LoopDetector ----------------------------
(***************************************************************************)
(* The sliding-window detector of repeated actions (runner/loop_detector)  *)
(* the session runner consults after each tool call.  An action is the     *)
(* tool's name with its arguments; its hash is taken to be injective.      *)
(***************************************************************************)
EXTENDS Naturals, Sequences, FiniteSets

CONSTANTS
    Actions,     \* tool calls a model makes, by name and arguments
    Window,      \* how many actions are remembered
    Threshold    \* how many identical actions in a row are a loop

\* LoopDetector::new raises both numbers to at least 1.
ASSUME DetectorAssumption == Window \in Nat \ {0} /\ Threshold \in Nat \ {0}

VARIABLES
    history,     \* the most recent actions, oldest first
    advised,     \* whether an advisory has been given in this session
    verdict      \* what the latest record() returned

detectorVars == <<history, advised, verdict>>

Verdicts == {"ok", "advisory", "loop"}

TypeOK ==
    /\ history \in Seq(Actions)
    /\ Len(history) <= Window
    /\ advised \in BOOLEAN
    /\ verdict \in Verdicts

Init ==
    /\ history = <<>>
    /\ advised = FALSE
    /\ verdict = "ok"

\* The history after an action: the oldest one leaves a full window.
Pushed(h, a) ==
    IF Len(h) = Window THEN Append(Tail(h), a) ELSE Append(h, a)

\* Mutant of Repeats: the latest action is counted anywhere in the window.
RepeatsAnywhere(h) ==
    Cardinality({i \in 1..Len(h) : h[i] = h[Len(h)]}) >= Threshold

\* The run of equal actions at the end of the window reaches the threshold.
Repeats(h) ==
    /\ Len(h) >= Threshold
    /\ \A i \in 0..(Threshold - 1) : h[Len(h) - i] = h[Len(h)]

Record(a) ==
    /\ history' = Pushed(history, a)
    /\ advised' = (advised \/ Repeats(history'))
    /\ verdict' = IF ~Repeats(history') THEN "ok"
                  ELSE IF advised THEN "loop" ELSE "advisory"

=============================================================================
