--------------------------- MODULE Streams_proofs ---------------------------
(***************************************************************************)
(* TLAPS proofs about the streams and the detectors, for any window, any   *)
(* limits and units, any text and any bytes, cut into chunks in any way:   *)
(* of the loop detector beside the list of all actions; of the folds and   *)
(* the flattened sequences the models are written with; of the repetition  *)
(* detector, whose window is the end of the text; of the client, whose     *)
(* completion is what the lines of the proxy's stream say; and of this     *)
(* stream, which is the abstract one, line by line.                        *)
(***************************************************************************)
EXTENDS Streams, SequencesExt, FiniteSetTheorems, SequenceTheorems, TLAPS

-----------------------------------------------------------------------------
(* The loop detector                                                       *)

(* The window is the end of the session: without it nothing relates what    *)
(* the detector remembers to what happened.                                 *)
WindowIsEnd ==
    /\ trace \in Seq(Actions)
    /\ Len(history) = IF Len(trace) < Window THEN Len(trace) ELSE Window
    /\ \A i \in 0..(Len(history) - 1) :
          history[Len(history) - i] = trace[Len(trace) - i]

(* The detector has advised exactly when a beginning of the session, or all  *)
(* of it, ended in a loop.                                                   *)
AdvisedIsPast ==
    advised <=>
        /\ Threshold <= Window
        /\ \E n \in 1..Len(trace) : Looping(SubSeq(trace, 1, n))

IInv == TypeOK /\ WindowIsEnd /\ AdvisedIsPast /\ TripsExactly

-----------------------------------------------------------------------------
(* Pushed keeps the type of the window; its result ends in the action, and  *)
(* the rest is the end of the window before.                                *)
LEMMA PushedType ==
    ASSUME NEW h \in Seq(Actions), Len(h) <= Window, NEW a \in Actions
    PROVE  /\ Pushed(h, a) \in Seq(Actions)
           /\ Len(Pushed(h, a)) = IF Len(h) = Window THEN Window ELSE Len(h) + 1
           /\ Pushed(h, a)[Len(Pushed(h, a))] = a
           /\ \A i \in 1..(Len(Pushed(h, a)) - 1) :
                 Pushed(h, a)[Len(Pushed(h, a)) - i] = h[Len(h) - i + 1]
<1>w. Window \in Nat /\ Window > 0 /\ Len(h) \in Nat
  BY DetectorAssumption
<1>1. CASE Len(h) = Window
  <2>1. h # <<>>
    BY <1>1, <1>w
  <2>2. /\ Tail(h) \in Seq(Actions) /\ Len(Tail(h)) = Len(h) - 1
        /\ \A i \in 1..Len(Tail(h)) : Tail(h)[i] = h[i + 1]
    BY <2>1, HeadTailProperties
  <2> DEFINE t == Tail(h)
  <2>3. /\ Append(t, a) \in Seq(Actions) /\ Len(Append(t, a)) = Len(t) + 1
        /\ \A i \in 1..Len(t) : Append(t, a)[i] = t[i]
        /\ Append(t, a)[Len(t) + 1] = a
    BY <2>2, AppendProperties
  <2>4. Pushed(h, a) = Append(t, a)
    BY <1>1 DEF Pushed
  <2>5. ASSUME NEW i \in 1..(Len(h) - 1)
        PROVE  Append(t, a)[Len(h) - i] = h[Len(h) - i + 1]
    <3>1. Len(h) - i \in 1..Len(t)
      BY <2>2, <1>w
    <3>2. Append(t, a)[Len(h) - i] = t[Len(h) - i]
      BY <3>1, <2>3
    <3> QED BY <3>1, <3>2, <2>2
  <2> QED BY <1>1, <1>w, <2>2, <2>3, <2>4, <2>5
<1>2. CASE Len(h) # Window
  <2>1. /\ Append(h, a) \in Seq(Actions) /\ Len(Append(h, a)) = Len(h) + 1
        /\ \A i \in 1..Len(h) : Append(h, a)[i] = h[i]
        /\ Append(h, a)[Len(h) + 1] = a
    BY AppendProperties
  <2>2. Pushed(h, a) = Append(h, a)
    BY <1>2 DEF Pushed
  <2> DEFINE g == Append(h, a)
  <2>3. g \in Seq(Actions) /\ Len(g) = Len(h) + 1 /\ g[Len(g)] = a
    BY <2>1
  <2>4. ASSUME NEW i \in 1..(Len(g) - 1) PROVE g[Len(g) - i] = h[Len(h) - i + 1]
    <3>1. Len(g) - i \in 1..Len(h) /\ Len(g) - i = Len(h) - i + 1
      BY <2>3, <1>w
    <3> QED BY <3>1, <2>1
  <2> HIDE DEF g
  <2>5. Pushed(h, a) = g
    BY <2>2 DEF g
  <2> QED BY <1>2, <2>3, <2>4, <2>5
<1> QED BY <1>1, <1>2

(* When the window is the end of the session, the end of the window repeats *)
(* exactly when the end of the session does and the window can hold it.     *)
LEMMA RepeatsIsLooping ==
    ASSUME NEW h \in Seq(Actions), NEW t \in Seq(Actions),
           Len(h) = IF Len(t) < Window THEN Len(t) ELSE Window,
           \A i \in 0..(Len(h) - 1) : h[Len(h) - i] = t[Len(t) - i]
    PROVE  Repeats(h) <=> (Threshold <= Window /\ Looping(t))
<1>w. /\ Window \in Nat /\ Window > 0 /\ Threshold \in Nat /\ Threshold > 0
      /\ Len(h) \in Nat /\ Len(t) \in Nat
  BY DetectorAssumption
<1>1. ASSUME Repeats(h) PROVE Threshold <= Window /\ Looping(t)
  <2>1. Len(h) >= Threshold /\ Threshold <= Window /\ Len(t) >= Threshold
    BY <1>1, <1>w DEF Repeats
  <2>2. t[Len(t)] \in Actions
    BY <2>1, <1>w
  <2>3. ASSUME NEW i \in (Len(t) - Threshold + 1)..Len(t) PROVE t[i] = t[Len(t)]
    <3> DEFINE k == Len(t) - i
    <3>1. k \in 0..(Threshold - 1) /\ k \in 0..(Len(h) - 1) /\ 0 \in 0..(Len(h) - 1)
      BY <2>1, <1>w
    <3>2. h[Len(h) - k] = h[Len(h)]
      BY <1>1, <3>1 DEF Repeats
    <3>3. h[Len(h) - k] = t[Len(t) - k] /\ h[Len(h) - 0] = t[Len(t) - 0]
      BY <3>1
    <3>4. Len(t) - k = i /\ Len(h) - 0 = Len(h) /\ Len(t) - 0 = Len(t)
      BY <1>w
    <3> QED BY <3>2, <3>3, <3>4
  <2> QED BY <2>1, <2>2, <2>3 DEF Looping
<1>2. ASSUME Threshold <= Window, Looping(t) PROVE Repeats(h)
  <2>1. Len(t) >= Threshold /\ Len(h) >= Threshold
    BY <1>2, <1>w DEF Looping
  <2>2. PICK x \in Actions : \A i \in (Len(t) - Threshold + 1)..Len(t) : t[i] = x
    BY <1>2 DEF Looping
  <2>3. ASSUME NEW k \in 0..(Threshold - 1) PROVE h[Len(h) - k] = x
    <3>1. k \in 0..(Len(h) - 1) /\ Len(t) - k \in (Len(t) - Threshold + 1)..Len(t)
      BY <2>1, <1>w
    <3> QED BY <3>1, <2>2
  <2>4. h[Len(h)] = x
    <3>1. 0 \in 0..(Threshold - 1) /\ Len(h) - 0 = Len(h)
      BY <1>w
    <3> QED BY <3>1, <2>3
  <2> QED BY <2>1, <2>3, <2>4 DEF Repeats
<1> QED BY <1>1, <1>2

(* The beginnings of a longer list are those of the list, and the list.      *)
LEMMA Beginnings ==
    ASSUME NEW t \in Seq(Actions), NEW x \in Actions
    PROVE  /\ \A n \in 1..Len(t) : SubSeq(Append(t, x), 1, n) = SubSeq(t, 1, n)
           /\ SubSeq(Append(t, x), 1, Len(t) + 1) = Append(t, x)
<1> DEFINE u == Append(t, x)
<1>1. /\ u \in Seq(Actions) /\ Len(u) = Len(t) + 1 /\ Len(t) \in Nat
      /\ \A i \in 1..Len(t) : u[i] = t[i]
  BY AppendProperties
<1> HIDE DEF u
<1>2. ASSUME NEW n \in 1..Len(t) PROVE SubSeq(u, 1, n) = SubSeq(t, 1, n)
  <2>1. /\ n \in 1..(Len(u) + 1) /\ n \in Int /\ 1 \in 1..(Len(u) + 1) /\ 1 \in 1..(Len(t) + 1)
        /\ n \in 0..Len(u) /\ n \in 0..Len(t)
    BY <1>1
  <2>2. /\ SubSeq(u, 1, n) \in Seq(Actions) /\ Len(SubSeq(u, 1, n)) = n
        /\ \A i \in 1..n : SubSeq(u, 1, n)[i] = u[i]
    BY <1>1, <2>1
  <2>3. /\ SubSeq(t, 1, n) \in Seq(Actions) /\ Len(SubSeq(t, 1, n)) = n
        /\ \A i \in 1..n : SubSeq(t, 1, n)[i] = t[i]
    BY <1>1, <2>1
  <2>4. \A i \in 1..n : SubSeq(u, 1, n)[i] = SubSeq(t, 1, n)[i]
    BY <2>2, <2>3, <1>1
  <2> QED BY <2>2, <2>3, <2>4, SeqEqual
<1>3. SubSeq(u, 1, Len(t) + 1) = u
  <2>1. /\ SubSeq(u, 1, Len(u)) \in Seq(Actions) /\ Len(SubSeq(u, 1, Len(u))) = Len(u)
        /\ \A i \in 1..Len(u) : SubSeq(u, 1, Len(u))[i] = u[i]
    BY <1>1
  <2> QED BY <2>1, <1>1, SeqEqual
<1> QED BY <1>2, <1>3 DEF u

-----------------------------------------------------------------------------

\* A new detector has seen nothing, as its session has.
LEMMA InitIInv == TraceInit => IInv
<1> SUFFICES ASSUME TraceInit PROVE IInv
  OBVIOUS
<1>1. /\ history = <<>> /\ trace = <<>> /\ advised = FALSE /\ verdict = "ok"
      /\ Len(history) = 0 /\ Len(trace) = 0
  BY DEF TraceInit, Init
<1>2. TypeOK
  <2>1. history \in Seq(Actions) /\ Len(history) <= Window
    BY <1>1, DetectorAssumption, EmptySeq
  <2> QED BY <1>1, <2>1 DEF TypeOK, Verdicts
<1>3. WindowIsEnd
  BY <1>1, DetectorAssumption DEF WindowIsEnd
<1>4. TripsExactly
  BY <1>1, DetectorAssumption DEF TripsExactly, Looping
<1>5. AdvisedIsPast
  BY <1>1 DEF AdvisedIsPast
<1> QED BY <1>2, <1>3, <1>4, <1>5 DEF IInv

\* One action more: the window moves on with the list of all actions.
LEMMA RecordIInv ==
    ASSUME IInv, NEW x \in Actions, Record(x), trace' = Append(trace, x)
    PROVE  IInv'
<1>w. /\ Window \in Nat /\ Window > 0
      /\ history \in Seq(Actions) /\ Len(history) <= Window /\ Len(history) \in Nat
      /\ trace \in Seq(Actions) /\ Len(trace) \in Nat
      /\ Len(history) = IF Len(trace) < Window THEN Len(trace) ELSE Window
      /\ \A i \in 0..(Len(history) - 1) :
            history[Len(history) - i] = trace[Len(trace) - i]
  BY DetectorAssumption DEF IInv, TypeOK, WindowIsEnd
<1>h. history' = Pushed(history, x)
  BY DEF Record
<1>1. /\ history' \in Seq(Actions)
      /\ Len(history') = IF Len(history) = Window THEN Window ELSE Len(history) + 1
      /\ history'[Len(history')] = x
      /\ \A i \in 1..(Len(history') - 1) :
            history'[Len(history') - i] = history[Len(history) - i + 1]
  BY <1>w, <1>h, PushedType
<1>2. /\ trace' \in Seq(Actions) /\ Len(trace') = Len(trace) + 1
      /\ \A i \in 1..Len(trace) : trace'[i] = trace[i]
      /\ trace'[Len(trace) + 1] = x
  BY <1>w, AppendProperties
<1>3. Len(history') = IF Len(trace') < Window THEN Len(trace') ELSE Window
  BY <1>w, <1>1, <1>2
<1>4. ASSUME NEW i \in 0..(Len(history') - 1)
      PROVE  history'[Len(history') - i] = trace'[Len(trace') - i]
  <2>1. CASE i = 0
    BY <2>1, <1>w, <1>1, <1>2
  <2>2. CASE i # 0
    <3> DEFINE j == i - 1
    <3>1. i \in 1..(Len(history') - 1) /\ j \in 0..(Len(history) - 1)
      BY <2>2, <1>w, <1>1
    <3>2. history'[Len(history') - i] = history[Len(history) - i + 1]
      BY <3>1, <1>1
    <3>3. Len(history) - i + 1 = Len(history) - j
      BY <1>w, <3>1
    <3>4. history[Len(history) - j] = trace[Len(trace) - j]
      BY <3>1, <1>w
    <3>5. Len(trace) - j \in 1..Len(trace) /\ Len(trace) - j = Len(trace') - i
      BY <1>w, <1>2, <3>1
    <3> QED BY <3>2, <3>3, <3>4, <3>5, <1>2
  <2> QED BY <2>1, <2>2
<1>5. TypeOK'
  <2>1. Len(history') <= Window
    BY <1>w, <1>3
  <2>2. advised' \in BOOLEAN /\ verdict' \in Verdicts
    BY DEF Record, IInv, TypeOK, Verdicts, Repeats
  <2> QED BY <1>1, <2>1, <2>2 DEF TypeOK
<1>6. WindowIsEnd'
  BY <1>2, <1>3, <1>4 DEF WindowIsEnd
<1>7. Repeats(history') <=> (Threshold <= Window /\ Looping(trace'))
  BY <1>1, <1>2, <1>3, <1>4, RepeatsIsLooping
<1>8. /\ \A n \in 1..Len(trace) : SubSeq(trace', 1, n) = SubSeq(trace, 1, n)
      /\ SubSeq(trace', 1, Len(trace')) = trace'
      /\ Len(trace') - 1 = Len(trace)
  BY <1>w, <1>2, Beginnings
<1>9. advised <=> /\ Threshold <= Window
                  /\ \E n \in 1..(Len(trace') - 1) : Looping(SubSeq(trace', 1, n))
  BY <1>8 DEF IInv, AdvisedIsPast
<1>10. AdvisedIsPast'
  <2>1. 1..Len(trace') = 1..(Len(trace') - 1) \cup {Len(trace')}
    BY <1>w, <1>2
  <2>2. advised' <=> advised \/ Repeats(history')
    BY DEF Record
  <2>3. Looping(SubSeq(trace', 1, Len(trace'))) <=> Looping(trace')
    BY <1>8
  <2> QED BY <2>1, <2>2, <2>3, <1>7, <1>9 DEF AdvisedIsPast
<1>11. TripsExactly'
  <2>1. verdict' # "ok" <=> Repeats(history')
    BY DEF Record
  <2>2. verdict' = "loop" <=> Repeats(history') /\ advised
    BY DEF Record
  <2> QED BY <2>1, <2>2, <1>7, <1>9 DEF TripsExactly
<1> QED BY <1>5, <1>6, <1>10, <1>11 DEF IInv

\* Recording is all that changes the detector.
LEMMA NextIInv == IInv /\ [TraceNext]_traceVars => IInv'
<1> SUFFICES ASSUME IInv, [TraceNext]_traceVars PROVE IInv'
  OBVIOUS
<1>1. CASE TraceNext
  BY <1>1, RecordIInv DEF TraceNext
<1>2. CASE UNCHANGED traceVars
  <2>1. history' = history /\ advised' = advised /\ verdict' = verdict /\ trace' = trace
    BY <1>2 DEF traceVars
  <2>2. TypeOK' /\ WindowIsEnd'
    BY <2>1 DEF IInv, TypeOK, WindowIsEnd
  <2>3. \A n \in 1..Len(trace) :
            Looping(SubSeq(trace, 1, n))' <=> Looping(SubSeq(trace, 1, n))
    BY <2>1 DEF Looping
  <2>4. Looping(trace)' <=> Looping(trace)
    BY <2>1 DEF Looping
  <2>5. AdvisedIsPast'
    BY <2>1, <2>3 DEF IInv, AdvisedIsPast
  <2>6. TripsExactly'
    BY <2>1, <2>3, <2>4 DEF IInv, TripsExactly
  <2> QED BY <2>2, <2>5, <2>6 DEF IInv
<1> QED BY <1>1, <1>2

(* The window is the end of the session after any list of actions.          *)
THEOREM IInvCorrect == TraceSpec => []IInv
BY InitIInv, NextIInv, PTL DEF TraceSpec

(* The detector's state keeps its type: the window is never overfull.       *)
THEOREM TypeCorrect == TraceSpec => []TypeOK
BY IInvCorrect, PTL DEF IInv

(* LoopDetector::record reports a loop exactly when the last Threshold      *)
(* actions of the whole session are the same, and it stops the session      *)
(* exactly when it has advised before.                                      *)
THEOREM TripsExactlyCorrect == TraceSpec => []TripsExactly
BY IInvCorrect, PTL DEF IInv

-----------------------------------------------------------------------------
\* A set of numbers that is not empty has a least one.
LEMMA LeastNat ==
    ASSUME NEW N \in SUBSET Nat, N # {}
    PROVE  \E n \in N : \A m \in N : n <= m
  <1> DEFINE R == OpToRel(<, Nat)
  <1>1. IsWellFoundedOn(R, Nat)
    BY NatLessThanWellFounded
  <1>2. \A m, n \in Nat : m < n => <<m, n>> \in R
    BY DEF OpToRel
  <1> HIDE DEF R
  <1>3. PICK n \in N : \A m \in N : ~ (<<m, n>> \in R)
    BY <1>1, WFMin
  <1>4. \A m \in N : ~(m < n)
    BY <1>2, <1>3
  <1> QED
    BY <1>4

\* The same as an induction: what holds at 0 and is kept from each number to the
\* next holds of all, P being the set of the numbers of which it holds.
LEMMA Induction ==
    ASSUME NEW P, NEW n \in Nat, 0 \in P, \A k \in 0..n : k < n /\ k \in P => k + 1 \in P
    PROVE  \A k \in 0..n : k \in P
  <1> DEFINE N == {k \in 0..n : k \notin P}
  <1> SUFFICES ASSUME N # {} PROVE FALSE
    OBVIOUS
  <1>0. N \in SUBSET Nat
    OBVIOUS
  <1>1. PICK k \in N : \A m \in N : k <= m
    BY <1>0, LeastNat
  <1>2. k # 0
    OBVIOUS
  <1>3. k - 1 \in 0..n /\ k - 1 < n /\ ~(k <= k - 1) /\ (k - 1) + 1 = k
    BY <1>2
  <1>4. k - 1 \in P
    BY <1>1, <1>3
  <1> QED
    BY <1>3, <1>4

-----------------------------------------------------------------------------
(* FlattenSeq                                                              *)

\* The equation that its function solves, for the first k elements.
Flat(g, s, k) == g = [i \in 1..k |-> IF i = 1 THEN s[i] ELSE g[i - 1] \o s[i]]

\* The equation has a solution.
LEMMA FlatExists ==
    ASSUME NEW s, NEW n \in Nat
    PROVE  \E g : Flat(g, s, n)
  <1> DEFINE P == {k \in 0..n : \E g : Flat(g, s, k)}
  <1>1. 0 \in P
    <2>1. Flat([i \in 1..0 |-> s], s, 0)
      BY DEF Flat
    <2> QED
      BY <2>1
  <1>2. ASSUME NEW k \in 0..n, k < n, k \in P PROVE k + 1 \in P
    <2>1. PICK g : Flat(g, s, k)
      BY <1>2
    <2> DEFINE h == [i \in 1..k + 1 |-> IF i = 1 THEN s[i] ELSE g[i - 1] \o s[i]]
    <2>2. \A i \in 1..k : g[i] = IF i = 1 THEN s[i] ELSE g[i - 1] \o s[i]
      BY <2>1 DEF Flat
    <2>3. \A i \in 1..k : h[i] = g[i]
      <3>1. \A i \in 1..k : i \in 1..k + 1
        BY <1>2
      <3> QED
        BY <2>2, <3>1
    <2>4. \A i \in 1..k + 1 : i # 1 => i - 1 \in 1..k
      BY <1>2
    <2>5. \A i \in 1..k + 1 :
              (IF i = 1 THEN s[i] ELSE g[i - 1] \o s[i]) = (IF i = 1 THEN s[i] ELSE h[i - 1] \o s[i])
      BY <2>3, <2>4
    <2>6. h = [i \in 1..k + 1 |-> IF i = 1 THEN s[i] ELSE h[i - 1] \o s[i]]
      BY <2>5
    <2>7. Flat(h, s, k + 1)
      BY <2>6 DEF Flat
    <2> QED
      BY <1>2, <2>7
  <1> HIDE DEF P
  <1>3. n \in P
    BY <1>1, <1>2, Induction
  <1> QED
    BY <1>3 DEF P

\* Any of its solutions goes through the elements one by one.
LEMMA FlatSteps ==
    ASSUME NEW A, NEW s \in Seq(Seq(A)), NEW n \in Nat, NEW k \in 1..n, k <= Len(s),
           NEW g, Flat(g, s, n)
    PROVE  /\ g[k] \in Seq(A)
           /\ g[k] = IF k = 1 THEN s[k] ELSE g[k - 1] \o s[k]
  <1>1. \A i \in 1..n : g[i] = IF i = 1 THEN s[i] ELSE g[i - 1] \o s[i]
    BY DEF Flat
  <1> DEFINE P == {i \in 0..k : i = 0 \/ g[i] \in Seq(A)}
  <1>2. \A i \in 0..k : i < k /\ i \in P => i + 1 \in P
    <2> SUFFICES ASSUME NEW i \in 0..k, i < k, i = 0 \/ g[i] \in Seq(A)
                 PROVE  g[i + 1] \in Seq(A)
      OBVIOUS
    <2>1. i + 1 \in 1..n /\ i + 1 \in 1..Len(s) /\ (i + 1) - 1 = i
      <3>1. Len(s) \in Nat /\ i \in Nat
        OBVIOUS
      <3> QED
        BY <3>1
    <2>2. s[i + 1] \in Seq(A)
      BY <2>1
    <2>3. CASE i = 0
      BY <1>1, <2>1, <2>2, <2>3
    <2>4. CASE i # 0
      <3>0. i + 1 # 1
        BY <2>4
      <3>1. g[i + 1] = g[(i + 1) - 1] \o s[i + 1]
        BY <1>1, <2>1, <3>0
      <3> QED
        BY <2>1, <2>2, <2>4, <3>1
    <2> QED
      BY <2>3, <2>4
  <1>3. 0 \in P
    OBVIOUS
  <1> HIDE DEF P
  <1>4. k \in P
    <2>1. k \in Nat /\ k \in 0..k
      OBVIOUS
    <2>2. \A i \in 0..k : i \in P
      BY <1>2, <1>3, <2>1, Induction
    <2> QED
      BY <2>1, <2>2
  <1> QED
    BY <1>1, <1>4 DEF P

\* What the equation makes of the first n elements.
Solves(s, n, v) == IF n = 0 THEN v = <<>> ELSE \E g : Flat(g, s, n) /\ v = g[n]

\* One sequence is another with one more element.
Grown(s, t, n, x) == (\A i \in 1..n : t[i] = s[i]) /\ t[n + 1] = x

Joined(v, x) == v \o x

\* With one more element it is what it was before and that element.
LEMMA SolvesGrown ==
    ASSUME NEW s, NEW t, NEW x, NEW v, NEW w, NEW n \in Nat,
           Solves(s, n, v), Solves(t, n + 1, w), Grown(s, t, n, x)
    PROVE  w = IF n = 0 THEN x ELSE Joined(v, x)
  <1>1. PICK h : Flat(h, t, n + 1) /\ w = h[n + 1]
    BY DEF Solves
  <1>2. /\ \A i \in 1..n + 1 : h[i] = IF i = 1 THEN t[i] ELSE h[i - 1] \o t[i]
        /\ \A i \in 1..n : t[i] = s[i]
        /\ t[n + 1] = x
    BY <1>1 DEF Flat, Grown
  <1>3. CASE n = 0
    BY <1>1, <1>2, <1>3
  <1>4. CASE n # 0
    <2>1. PICK g : Flat(g, s, n) /\ v = g[n]
      BY <1>4 DEF Solves
    <2>2. \A i \in 1..n : g[i] = IF i = 1 THEN s[i] ELSE g[i - 1] \o s[i]
      BY <2>1 DEF Flat
    <2> DEFINE P == {i \in 0..n : i = 0 \/ g[i] = h[i]}
    <2>3. \A i \in 0..n : i < n /\ i \in P => i + 1 \in P
      <3> SUFFICES ASSUME NEW i \in 0..n, i < n, i = 0 \/ g[i] = h[i]
                   PROVE  g[i + 1] = h[i + 1]
        OBVIOUS
      <3>1. i + 1 \in 1..n /\ i + 1 \in 1..n + 1 /\ (i + 1) - 1 = i
        OBVIOUS
      <3> QED
        BY <1>2, <2>2, <3>1
    <2>4. 0 \in P
      OBVIOUS
    <2> HIDE DEF P
    <2>5. \A i \in 0..n : i \in P
      BY <2>3, <2>4, Induction
    <2>6. g[n] = h[n]
      BY <1>4, <2>5 DEF P
    <2>7. n + 1 \in 1..n + 1 /\ n + 1 # 1 /\ (n + 1) - 1 = n
      BY <1>4
    <2>8. h[n + 1] = h[n] \o t[n + 1]
      BY <1>2, <2>7
    <2> QED
      BY <1>1, <1>2, <1>4, <2>1, <2>6, <2>8 DEF Joined
  <1> QED
    BY <1>3, <1>4

\* FlattenSeq is what it makes of all elements.
LEMMA FlattenSolves ==
    ASSUME NEW A, NEW s \in Seq(Seq(A))
    PROVE  FlattenSeq(s) \in Seq(A) /\ Solves(s, Len(s), FlattenSeq(s))
  <1>1. CASE s = <<>>
    <2>1. FlattenSeq(s) = <<>> /\ Len(s) = 0
      BY <1>1 DEF FlattenSeq
    <2> QED
      BY <2>1 DEF Solves
  <1>2. CASE s # <<>>
    <2>1. Len(s) \in Nat /\ Len(s) # 0 /\ Len(s) \in 1..Len(s) /\ Len(s) <= Len(s)
      BY <1>2, EmptySeq
    <2>2. FlattenSeq(s) = (CHOOSE g : Flat(g, s, Len(s)))[Len(s)]
      BY <2>1 DEF FlattenSeq, Flat
    <2>3. PICK g : g = CHOOSE h : Flat(h, s, Len(s))
      OBVIOUS
    <2>4. Flat(g, s, Len(s))
      BY <2>1, <2>3, FlatExists
    <2>5. FlattenSeq(s) = g[Len(s)]
      BY <2>2, <2>3
    <2>6. g[Len(s)] \in Seq(A)
      BY <2>1, <2>4, FlatSteps
    <2> QED
      BY <2>1, <2>4, <2>5, <2>6 DEF Solves
  <1> QED
    BY <1>1, <1>2

\* FlattenSeq of one more.
LEMMA FlattenAppend ==
    ASSUME NEW A, NEW s \in Seq(Seq(A)), NEW x \in Seq(A)
    PROVE  /\ FlattenSeq(s) \in Seq(A)
           /\ FlattenSeq(Append(s, x)) = FlattenSeq(s) \o x
  <1> DEFINE n == Len(s)
  <1> DEFINE t == Append(s, x)
  <1>1. n \in Nat /\ t \in Seq(Seq(A)) /\ Len(t) = n + 1 /\ Grown(s, t, n, x)
    BY AppendProperties DEF Grown
  <1>2. FlattenSeq(s) \in Seq(A) /\ Solves(s, n, FlattenSeq(s))
    BY FlattenSolves
  <1> HIDE DEF t
  <1>3. Solves(t, n + 1, FlattenSeq(t))
    BY <1>1, FlattenSolves
  <1> HIDE DEF n
  <1>4. FlattenSeq(t) = IF n = 0 THEN x ELSE Joined(FlattenSeq(s), x)
    BY <1>1, <1>2, <1>3, SolvesGrown
  <1>5. n = 0 => FlattenSeq(s) = <<>>
    BY <1>2 DEF Solves
  <1>6. FlattenSeq(t) = FlattenSeq(s) \o x
    <2>1. CASE n = 0
      BY <1>2, <1>4, <1>5, <2>1
    <2>2. CASE n # 0
      <3>1. FlattenSeq(t) = Joined(FlattenSeq(s), x)
        BY <1>4, <2>2
      <3> QED
        BY <3>1 DEF Joined
    <2> QED
      BY <2>1, <2>2
  <1> QED
    BY <1>2, <1>6 DEF t

-----------------------------------------------------------------------------
(* The folds                                                               *)

\* One step of each fold over a sequence: at its i-th element.
\* A line of the abstract stream, if there is a whole one and the stream goes on.
PassLine(s) ==
    LET end == Chat!Lines!NewlineAt(s.rest)
        p == Chat!Lines!ProcessLine(s.det, SubSeq(s.rest, 1, end - 1))
    IN IF s.open /\ end # 0
       THEN [rest |-> SubSeq(s.rest, end + 1, Len(s.rest)), det |-> p.det,
             out |-> s.out \o p.text, open |-> ~p.ends]
       ELSE s

Op(fold, s, i, acc) ==
    CASE fold = "scan" ->
            IF Spot!Tripped(acc) THEN acc ELSE Spot!Counted(acc, s[i])
      [] fold = "take" -> Chat!TakeLine(acc)
      [] fold = "pass" -> PassLine(acc)
      [] fold = "read" ->
            IF s[i] = "nl" THEN [buf |-> <<>>, got |-> Chat!ReadLine(acc.got, acc.buf)]
            ELSE [acc EXCEPT !.buf = Append(@, s[i])]

\* The equation that the function of a fold solves, for the subsets of D.
Iter(fold, g, b, s, D) ==
    g = [S \in SUBSET D |->
            IF S = {} THEN b ELSE Op(fold, s, Max(S), g[S \ {Max(S)}])]

\* Max is the greatest.
LEMMA MaxIs ==
    ASSUME NEW S, NEW m \in S, m \in Nat, \A y \in S : y \in Nat /\ y <= m
    PROVE  Max(S) = m
  <1>1. PICK x : x = CHOOSE y \in S : \A z \in S : y >= z
    OBVIOUS
  <1>2. x \in S /\ \A z \in S : x >= z
    BY <1>1
  <1>3. x = m
    BY <1>2
  <1> QED
    BY <1>1, <1>3 DEF Max

\* The equation has a solution.
LEMMA IterExists ==
    ASSUME NEW fold, NEW b, NEW s, NEW n \in Nat
    PROVE  \E g : Iter(fold, g, b, s, 1..n)
  <1> DEFINE P == {k \in 0..n : \E g : Iter(fold, g, b, s, 1..k)}
  <1>1. 0 \in P
    <2> DEFINE h == [S \in SUBSET (1..0) |-> b]
    <2>1. SUBSET (1..0) = {{}}
      OBVIOUS
    <2>2. Iter(fold, h, b, s, 1..0)
      BY <2>1 DEF Iter
    <2> QED
      BY <2>2
  <1>2. ASSUME NEW k \in 0..n, k < n, k \in P PROVE k + 1 \in P
    <2>1. PICK g : Iter(fold, g, b, s, 1..k)
      BY <1>2
    <2>2. g = [S \in SUBSET (1..k) |->
                  IF S = {} THEN b ELSE Op(fold, s, Max(S), g[S \ {Max(S)}])]
      BY <2>1 DEF Iter
    <2> DEFINE h == [S \in SUBSET (1..k + 1) |->
                        IF k + 1 \in S THEN Op(fold, s, k + 1, g[S \ {k + 1}]) ELSE g[S]]
    <2>3. ASSUME NEW S \in SUBSET (1..k + 1)
          PROVE  h[S] = IF S = {} THEN b ELSE Op(fold, s, Max(S), h[S \ {Max(S)}])
      <3>1. CASE k + 1 \in S
        <4>1. S \ {k + 1} \in SUBSET (1..k) /\ S \ {k + 1} \in SUBSET (1..k + 1)
          OBVIOUS
        <4>2. Max(S) = k + 1
          <5>1. k + 1 \in Nat /\ \A y \in S : y \in Nat /\ y <= k + 1
            OBVIOUS
          <5> QED
            BY <3>1, <5>1, MaxIs
        <4>3. h[S \ {k + 1}] = g[S \ {k + 1}]
          BY <4>1
        <4>4. h[S] = Op(fold, s, k + 1, g[S \ {k + 1}])
          BY <3>1
        <4> QED
          BY <3>1, <4>2, <4>3, <4>4
      <3>2. CASE k + 1 \notin S
        <4>1. S \in SUBSET (1..k)
          BY <3>2
        <4>2. h[S] = g[S] /\ h[S \ {Max(S)}] = g[S \ {Max(S)}]
          BY <3>2, <4>1
        <4> QED
          BY <2>2, <4>1, <4>2
      <3> QED
        BY <3>1, <3>2
    <2>4. Iter(fold, h, b, s, 1..k + 1)
      BY <2>3 DEF Iter
    <2> QED
      BY <1>2, <2>4
  <1> HIDE DEF P
  <1>3. n \in P
    BY <1>1, <1>2, Induction
  <1> QED
    BY <1>3 DEF P

\* A fold gets from b to z in n steps.
Runs(fold, b, s, n, z) ==
    \E r : /\ r[0] = b /\ r[n] = z
          /\ \A i \in 1..n : r[i] = Op(fold, s, i, r[i - 1])

\* Any solution goes through the elements one by one.
LEMMA IterSteps ==
    ASSUME NEW fold, NEW b, NEW s, NEW n \in Nat, NEW g, Iter(fold, g, b, s, 1..n)
    PROVE  Runs(fold, b, s, n, g[1..n])
  <1>1. \A S \in SUBSET (1..n) :
            g[S] = IF S = {} THEN b ELSE Op(fold, s, Max(S), g[S \ {Max(S)}])
    BY DEF Iter
  <1> DEFINE r == [i \in 0..n |-> g[1..i]]
  <1>2. r[0] = b /\ r[n] = g[1..n]
    <2>1. 1..0 = {} /\ 1..0 \in SUBSET (1..n) /\ 0 \in 0..n /\ n \in 0..n
      OBVIOUS
    <2> QED
      BY <1>1, <2>1
  <1>3. ASSUME NEW i \in 1..n PROVE r[i] = Op(fold, s, i, r[i - 1])
    <2>1. i - 1 \in Nat /\ i - 1 \in 0..n /\ (i - 1) + 1 = i
      OBVIOUS
    <2>2. i \in Nat /\ i \in 1..i /\ \A y \in 1..i : y \in Nat /\ y <= i
      OBVIOUS
    <2>3. Max(1..i) = i
      BY <2>2, MaxIs
    <2>4. 1..i # {} /\ 1..i \in SUBSET (1..n) /\ (1..i) \ {i} = 1..(i - 1)
      OBVIOUS
    <2>5. g[1..i] = Op(fold, s, i, g[1..i - 1])
      BY <1>1, <2>3, <2>4
    <2> QED
      BY <2>1, <2>5
  <1> HIDE DEF r
  <1> QED
    BY <1>2, <1>3 DEF Runs

-----------------------------------------------------------------------------
(* Scan                                                                    *)

IterScan(g, b, s) ==
    g = [S \in SUBSET DOMAIN s |->
            IF S = {} THEN b
            ELSE IF Spot!Tripped(g[S \ {Max(S)}]) THEN g[S \ {Max(S)}]
                 ELSE Spot!Counted(g[S \ {Max(S)}], s[Max(S)])]

\* Scan goes through the text character by character.
LEMMA ScanSteps ==
    ASSUME NEW b, NEW A, NEW s \in Seq(A)
    PROVE  Runs("scan", b, s, Len(s), Spot!Scan(b, s))
  <1>1. DOMAIN s = 1..Len(s) /\ Len(s) \in Nat
    OBVIOUS
  <1>2. Spot!Scan(b, s) = (CHOOSE g : IterScan(g, b, s))[DOMAIN s]
    BY DEF Spot!Scan, Spot!FoldLeft, Spot!MapThenFoldSet, Spot!Max, Max, IterScan
  <1>3. \A g : IterScan(g, b, s) <=> Iter("scan", g, b, s, DOMAIN s)
    BY DEF IterScan, Iter, Op
  <1>4. \E g : Iter("scan", g, b, s, DOMAIN s)
    BY <1>1, IterExists
  <1>5. PICK g : g = CHOOSE h : IterScan(h, b, s)
    OBVIOUS
  <1>6. Iter("scan", g, b, s, DOMAIN s)
    BY <1>3, <1>4, <1>5
  <1> DEFINE n == Len(s)
  <1>7. n \in Nat /\ Iter("scan", g, b, s, 1..n)
    BY <1>1, <1>6
  <1> HIDE DEF n
  <1>8. Runs("scan", b, s, n, g[1..n])
    BY <1>7, IterSteps
  <1> QED
    BY <1>1, <1>2, <1>5, <1>8 DEF n

-----------------------------------------------------------------------------
(* The run of one character                                                *)

\* Spot!RunEnds of any text.
RunAt(u, i) ==
    LET n == LimitFor[u[i]]
    IN i >= n /\ \A j \in i - n + 1..i : u[j] = u[i]

\* The detector has the last character of the first m, and how often it repeats.
EndsAt(d, u, m) ==
    IF m = 0 THEN d.last = "nul" /\ d.run = 0
    ELSE /\ d.last = u[m] /\ d.run \in 1..m
         /\ \A j \in m - d.run + 1..m : u[j] = u[m]
         /\ d.run < m => u[m - d.run] # u[m]

\* It trips where a run ends, and only there.
LEMMA TripsWhereRunEnds ==
    ASSUME Spot!DetectorAssumption, NEW u \in Seq(Chars), NEW m \in 0..Len(u), NEW d, EndsAt(d, u, m)
    PROVE  Spot!Tripped(d) <=> m # 0 /\ RunAt(u, m)
  <1>1. CASE m = 0
    BY <1>1 DEF EndsAt, Spot!Tripped
  <1>2. CASE m # 0
    <2>1. m \in 1..Len(u) /\ u[m] \in Chars
      BY <1>2
    <2>2. PICK n \in Nat : n = LimitFor[u[m]] /\ n > 1
      BY <2>1 DEF Spot!DetectorAssumption
    <2>3. PICK k \in 1..m : k = d.run
      BY <1>2 DEF EndsAt
    <2>4. /\ d.last = u[m]
          /\ \A j \in m - k + 1..m : u[j] = u[m]
          /\ k < m => u[m - k] # u[m]
      BY <1>2, <2>3 DEF EndsAt
    <2>5. Spot!Tripped(d) <=> k >= n
      BY <2>2, <2>3, <2>4 DEF Spot!Tripped
    <2>6. RunAt(u, m) <=> m >= n /\ \A j \in m - n + 1..m : u[j] = u[m]
      BY <2>2 DEF RunAt
    <2>7. ASSUME k >= n PROVE RunAt(u, m)
      <3>1. m >= n /\ \A j \in m - n + 1..m : j \in m - k + 1..m
        BY <2>7
      <3> QED
        BY <2>4, <2>6, <3>1
    <2>8. ASSUME ~(k >= n), RunAt(u, m) PROVE FALSE
      <3>1. k < m /\ m - k \in m - n + 1..m
        BY <2>6, <2>8
      <3> QED
        BY <2>4, <2>6, <2>8, <3>1
    <2> QED
      BY <1>2, <2>5, <2>7, <2>8
  <1> QED
    BY <1>1, <1>2

Bytes == [char : Chars, at : Nat]
Detectors == [last : Chars \cup {"nul"}, run : Nat, rolling : Seq(Bytes)]

\* Counted goes on to the next character.
LEMMA CountedEnds ==
    ASSUME NEW u \in Seq(Chars), NEW m \in 0..Len(u), m < Len(u), NEW d \in Detectors,
           EndsAt(d, u, m)
    PROVE  /\ EndsAt(Spot!Counted(d, u[m + 1]), u, m + 1)
           /\ Spot!Counted(d, u[m + 1]).rolling = d.rolling
           /\ Spot!Counted(d, u[m + 1]) \in Detectors
  <1> DEFINE c == u[m + 1]
  <1>0. Len(u) \in Nat /\ m \in Nat /\ m + 1 \in 1..Len(u) /\ c \in Chars
    OBVIOUS
  <1> HIDE DEF c
  <1>1. PICK e : e = Spot!Counted(d, c)
    OBVIOUS
  <1>2. e = [last |-> c, run |-> IF c = d.last THEN d.run + 1 ELSE 1, rolling |-> d.rolling]
    BY <1>1 DEF Spot!Counted, Detectors
  <1>3. d.run \in Nat /\ d.rolling \in Seq(Bytes)
    BY DEF Detectors
  <1>4. e \in Detectors /\ e.rolling = d.rolling
    BY <1>0, <1>2, <1>3 DEF Detectors
  <1>5. EndsAt(e, u, m + 1)
    <2>1. CASE m = 0
      <3>1. d.run = 0
        BY <2>1 DEF EndsAt
      <3>2. e.run = 1 /\ e.last = c
        BY <1>2, <3>1
      <3>3. m + 1 # 0 /\ m + 1 = 1
        BY <2>1
      <3> QED
        BY <3>2, <3>3 DEF EndsAt, c
    <2>2. CASE m # 0
      <3>1. PICK k \in 1..m : k = d.run
        BY <2>2 DEF EndsAt
      <3>2. /\ d.last = u[m]
            /\ \A j \in m - k + 1..m : u[j] = u[m]
            /\ k < m => u[m - k] # u[m]
        BY <2>2, <3>1 DEF EndsAt
      <3>3. CASE c = d.last
        <4>1. e.run = k + 1 /\ e.last = c
          BY <1>2, <3>1, <3>3
        <4>2. k + 1 \in 1..m + 1 /\ (k + 1 < m + 1 => k < m /\ (m + 1) - (k + 1) = m - k)
          OBVIOUS
        <4>3. ASSUME NEW j \in (m + 1) - (k + 1) + 1..m + 1 PROVE u[j] = u[m + 1]
          <5>1. j = m + 1 \/ j \in m - k + 1..m
            OBVIOUS
          <5> QED
            BY <3>2, <3>3, <5>1 DEF c
        <4> QED
          BY <1>0, <3>2, <3>3, <4>1, <4>2, <4>3 DEF EndsAt, c
      <3>4. CASE c # d.last
        <4>1. e.run = 1 /\ e.last = c
          BY <1>2, <3>4
        <4>2. m + 1 # 0 /\ 1 \in 1..m + 1 /\ (m + 1) - 1 = m /\ \A j \in (m + 1) - 1 + 1..m + 1 : j = m + 1
          BY <1>0
        <4> QED
          BY <3>2, <3>4, <4>1, <4>2 DEF EndsAt, c
      <3> QED
        BY <3>3, <3>4
    <2> QED
      BY <2>1, <2>2
  <1> QED
    BY <1>1, <1>4, <1>5 DEF c

-----------------------------------------------------------------------------
\* Only the characters so far matter.
LEMMA EndsAtAgrees ==
    ASSUME NEW u \in Seq(Chars), NEW v \in Seq(Chars), NEW d, NEW m \in Nat,
           m <= Len(u), m <= Len(v), \A i \in 1..m : u[i] = v[i], EndsAt(d, u, m)
    PROVE  EndsAt(d, v, m)
  <1>1. CASE m = 0
    BY <1>1 DEF EndsAt
  <1>2. CASE m # 0
    <2>1. PICK k \in 1..m : k = d.run
      BY <1>2 DEF EndsAt
    <2>2. /\ d.last = u[m]
          /\ \A j \in m - k + 1..m : u[j] = u[m]
          /\ k < m => u[m - k] # u[m]
      BY <1>2, <2>1 DEF EndsAt
    <2>3. m \in 1..m /\ (\A j \in m - k + 1..m : j \in 1..m) /\ (k < m => m - k \in 1..m)
      BY <1>2
    <2>4. u[m] = v[m]
      BY <2>3
    <2>5. \A j \in m - k + 1..m : v[j] = v[m]
      BY <2>2, <2>3, <2>4
    <2>6. k < m => v[m - k] # v[m]
      BY <2>2, <2>3, <2>4
    <2> QED
      BY <1>2, <2>1, <2>2, <2>4, <2>5, <2>6 DEF EndsAt
  <1> QED
    BY <1>1, <1>2

\* The limit of a character.
LEMMA LimitIs ==
    ASSUME Spot!DetectorAssumption, NEW c \in Chars
    PROVE  LimitFor[c] \in Nat /\ LimitFor[c] > 1
  <1>1. LimitFor \in [Chars -> Nat \ {0, 1}]
    BY DEF Spot!DetectorAssumption
  <1> QED
    BY <1>1

\* Whether a run ends at a place depends on the text up to it only.
LEMMA RunAtAgrees ==
    ASSUME Spot!DetectorAssumption, NEW u \in Seq(Chars), NEW v \in Seq(Chars), NEW i \in Nat,
           i > 0, i <= Len(u), i <= Len(v), \A j \in 1..i : u[j] = v[j]
    PROVE  RunAt(u, i) <=> RunAt(v, i)
  <1>1. i \in 1..i /\ u[i] = v[i] /\ u[i] \in Chars
    OBVIOUS
  <1>2. PICK n \in Nat : n = LimitFor[u[i]] /\ n > 1
    BY <1>1, LimitIs
  <1>3. /\ RunAt(u, i) <=> i >= n /\ \A j \in i - n + 1..i : u[j] = u[i]
        /\ RunAt(v, i) <=> i >= n /\ \A j \in i - n + 1..i : v[j] = v[i]
    BY <1>1, <1>2 DEF RunAt
  <1>4. i >= n => \A j \in i - n + 1..i : j \in 1..i
    OBVIOUS
  <1> QED
    BY <1>1, <1>3, <1>4

\* Scan trips exactly where the text it reads has the end of a run.
LEMMA ScanTrips ==
    ASSUME Spot!DetectorAssumption, NEW t \in Seq(Chars), NEW text \in Seq(Chars),
           NEW d \in Detectors, EndsAt(d, t, Len(t)), ~Spot!Tripped(d)
    PROVE  LET u == t \o text
               e == Spot!Scan(d, text)
           IN /\ e \in Detectors /\ e.rolling = d.rolling
              /\ Spot!Tripped(e) <=> \E i \in Len(t) + 1..Len(u) : RunAt(u, i)
              /\ ~Spot!Tripped(e) => EndsAt(e, u, Len(u))
  <1>1. PICK u : u = t \o text
    OBVIOUS
  <1>2. PICK m \in Nat : m = Len(t)
    OBVIOUS
  <1>3. PICK n \in Nat : n = Len(text)
    OBVIOUS
  <1>4. /\ u \in Seq(Chars) /\ Len(u) = m + n
        /\ \A i \in 1..m : u[i] = t[i]
        /\ \A i \in 1..n : u[m + i] = text[i]
    BY <1>1, <1>2, <1>3
  <1>5. PICK r : /\ r[0] = d /\ r[n] = Spot!Scan(d, text)
                 /\ \A i \in 1..n : r[i] = Op("scan", text, i, r[i - 1])
    <2>1. Runs("scan", d, text, n, Spot!Scan(d, text))
      BY <1>3, ScanSteps
    <2> QED
      BY <2>1 DEF Runs
  <1> DEFINE Good(i) ==
        /\ r[i] \in Detectors /\ r[i].rolling = d.rolling
        /\ \/ /\ EndsAt(r[i], u, m + i)
              /\ \A k \in 1..i - 1 : ~RunAt(u, m + k)
              /\ i = 0 => ~Spot!Tripped(d)
           \/ /\ Spot!Tripped(r[i])
              /\ \E k \in 1..i : RunAt(u, m + k)
  <1> DEFINE P == {i \in 0..n : Good(i)}
  <1>6. 0 \in P
    <2>1. EndsAt(d, u, m)
      <3>1. m <= Len(t) /\ m <= Len(u) /\ u \in Seq(Chars) /\ EndsAt(d, t, m)
        BY <1>2, <1>4
      <3>2. \A i \in 1..m : t[i] = u[i]
        BY <1>4
      <3> QED
        BY <3>1, <3>2, EndsAtAgrees
    <2> QED
      BY <1>5, <2>1
  <1>7. ASSUME NEW i \in 0..n, i < n, i \in P PROVE i + 1 \in P
    <2>1. /\ i + 1 \in 1..n /\ (i + 1) - 1 = i /\ m + i \in 0..Len(u) /\ m + i < Len(u)
          /\ m + (i + 1) = (m + i) + 1 /\ i + 1 \in 0..n
      <3>1. \A a, b, c \in Nat : \A z \in 0..b :
                z < b => /\ z + 1 \in 1..b /\ (z + 1) - 1 = z /\ a + z \in 0..a + b /\ a + z < a + b
                         /\ a + (z + 1) = (a + z) + 1 /\ z + 1 \in 0..b
        OBVIOUS
      <3>2. Len(u) = m + n
        BY <1>4
      <3> QED
        BY <1>7, <3>1, <3>2
    <2>2. text[i + 1] = u[(m + i) + 1]
      <3>1. text[i + 1] = u[m + (i + 1)]
        BY <1>4, <2>1
      <3> QED
        BY <2>1, <3>1
    <2>3. r[i + 1] = IF Spot!Tripped(r[i]) THEN r[i] ELSE Spot!Counted(r[i], text[i + 1])
      BY <1>5, <2>1 DEF Op
    <2>4. Good(i)
      BY <1>7
    <2>5. CASE Spot!Tripped(r[i])
      <3>1. r[i + 1] = r[i]
        BY <2>3, <2>5
      <3>2. \E k \in 1..i : RunAt(u, m + k)
        <4>1. SUFFICES ASSUME EndsAt(r[i], u, m + i), i = 0 => ~Spot!Tripped(d)
                       PROVE  \E k \in 1..i : RunAt(u, m + k)
          BY <2>4
        <4>2. RunAt(u, m + i)
          BY <1>4, <2>1, <2>5, <4>1, TripsWhereRunEnds
        <4>3. i # 0
          BY <1>5, <2>5, <4>1
        <4>4. i \in 1..i
          BY <4>3
        <4> QED
          BY <4>2, <4>4
      <3>3. \A k \in 1..i : k \in 1..i + 1
        OBVIOUS
      <3>4. \E k \in 1..i + 1 : RunAt(u, m + k)
        BY <3>2, <3>3
      <3>5. r[i + 1] \in Detectors /\ r[i + 1].rolling = d.rolling /\ Spot!Tripped(r[i + 1])
        BY <2>4, <2>5, <3>1
      <3>6. Good(i + 1)
        BY <3>4, <3>5
      <3> QED
        BY <2>1, <3>6
    <2>6. CASE ~Spot!Tripped(r[i])
      <3>1. r[i + 1] = Spot!Counted(r[i], u[(m + i) + 1])
        BY <2>2, <2>3, <2>6
      <3>2. EndsAt(r[i], u, m + i) /\ (\A k \in 1..i - 1 : ~RunAt(u, m + k))
        BY <2>4, <2>6
      <3>3. /\ EndsAt(r[i + 1], u, m + (i + 1)) /\ r[i + 1].rolling = d.rolling
            /\ r[i + 1] \in Detectors
        <4>1. r[i] \in Detectors /\ r[i].rolling = d.rolling
          BY <2>4
        <4>2. PICK j \in 0..Len(u) : j = m + i
          BY <2>1
        <4>3. j < Len(u) /\ EndsAt(r[i], u, j) /\ r[i + 1] = Spot!Counted(r[i], u[j + 1])
          BY <2>1, <3>1, <3>2, <4>2
        <4>4. /\ EndsAt(r[i + 1], u, j + 1) /\ r[i + 1].rolling = r[i].rolling
              /\ r[i + 1] \in Detectors
          <5>1. PICK q \in Detectors : q = r[i]
            BY <4>1
          <5>2. u \in Seq(Chars) /\ EndsAt(q, u, j) /\ j < Len(u)
            BY <1>4, <4>3, <5>1
          <5>3. PICK e : e = Spot!Counted(q, u[j + 1])
            OBVIOUS
          <5>4. EndsAt(e, u, j + 1) /\ e.rolling = q.rolling /\ e \in Detectors
            BY <5>2, <5>3, CountedEnds
          <5> QED
            BY <4>3, <5>1, <5>3, <5>4
        <4> QED
          BY <2>1, <4>1, <4>2, <4>4
      <3>4. ASSUME NEW k \in 1..(i + 1) - 1 PROVE ~RunAt(u, m + k)
        <4>1. k \in 1..i - 1 \/ k = i
          OBVIOUS
        <4>2. k = i => ~RunAt(u, m + k)
          <5>1. k = i => m + i # 0
            OBVIOUS
          <5>2. Spot!Tripped(r[i]) <=> m + i # 0 /\ RunAt(u, m + i)
            BY <1>4, <2>1, <3>2, TripsWhereRunEnds
          <5> QED
            BY <2>6, <5>1, <5>2
        <4> QED
          BY <3>2, <4>1, <4>2
      <3>5. i + 1 # 0
        OBVIOUS
      <3>6. Good(i + 1)
        BY <3>3, <3>4, <3>5
      <3> QED
        BY <2>1, <3>6
    <2> QED
      BY <2>5, <2>6
  <1> HIDE DEF P
  <1>8. n \in P
    <2>1. n \in 0..n
      OBVIOUS
    <2> QED
      BY <1>6, <1>7, <2>1, Induction
  <1>9. Good(n)
    BY <1>8 DEF P
  <1> DEFINE e == r[n]
  <1>10. e \in Detectors /\ e.rolling = d.rolling
    BY <1>9
  <1>11. Spot!Tripped(e) => \E k \in 1..n : RunAt(u, m + k)
    <2> SUFFICES ASSUME Spot!Tripped(e), EndsAt(e, u, m + n), n = 0 => ~Spot!Tripped(d)
                 PROVE  \E k \in 1..n : RunAt(u, m + k)
      BY <1>9
    <2>1. n # 0
      BY <1>5
    <2>2. m + n \in 0..Len(u)
      BY <1>4
    <2>3. RunAt(u, m + n)
      BY <1>4, <2>2, TripsWhereRunEnds
    <2>4. n \in 1..n
      BY <2>1
    <2> QED
      BY <2>3, <2>4
  <1>12. ~Spot!Tripped(e) => EndsAt(e, u, m + n) /\ \A k \in 1..n : ~RunAt(u, m + k)
    <2> SUFFICES ASSUME ~Spot!Tripped(e)
                 PROVE  EndsAt(e, u, m + n) /\ \A k \in 1..n : ~RunAt(u, m + k)
      OBVIOUS
    <2>1. EndsAt(e, u, m + n) /\ \A k \in 1..n - 1 : ~RunAt(u, m + k)
      BY <1>9
    <2>2. m + n \in 0..Len(u)
      BY <1>4
    <2>3. n # 0 => ~RunAt(u, m + n)
      <3>1. n # 0 => m + n # 0
        OBVIOUS
      <3>2. Spot!Tripped(e) <=> m + n # 0 /\ RunAt(u, m + n)
        BY <1>4, <2>1, <2>2, TripsWhereRunEnds
      <3> QED
        BY <3>1, <3>2
    <2>4. \A k \in 1..n : k \in 1..n - 1 \/ (k = n /\ n # 0)
      OBVIOUS
    <2> QED
      BY <2>1, <2>3, <2>4
  <1>13. (\E k \in 1..n : RunAt(u, m + k)) <=> \E i \in m + 1..Len(u) : RunAt(u, i)
    <2>1. \A k \in 1..n : m + k \in m + 1..Len(u)
      BY <1>4
    <2>2. \A i \in m + 1..Len(u) : i - m \in 1..n /\ m + (i - m) = i
      BY <1>4
    <2> QED
      BY <2>1, <2>2
  <1> HIDE DEF e
  <1>14. Spot!Tripped(e) <=> \E i \in m + 1..Len(u) : RunAt(u, i)
    BY <1>11, <1>12, <1>13
  <1>15. ~Spot!Tripped(e) => EndsAt(e, u, Len(u))
    BY <1>4, <1>12
  <1>16. e = Spot!Scan(d, text)
    BY <1>5 DEF e
  <1> QED
    BY <1>1, <1>2, <1>10, <1>14, <1>15, <1>16

-----------------------------------------------------------------------------
\* What holds of the empty sequence and is kept by one more element holds of
\* every sequence, P being the set of the sequences of which it holds.
LEMMA SeqInduction ==
    ASSUME NEW A, NEW P, <<>> \in P,
           \A s \in Seq(A) : \A x \in A : s \in P => Append(s, x) \in P,
           NEW z \in Seq(A)
    PROVE  z \in P
  <1> DEFINE Q == {k \in 0..Len(z) : \A s \in Seq(A) : Len(s) = k => s \in P}
  <1>1. 0 \in Q
    <2>1. \A s \in Seq(A) : Len(s) = 0 => s = <<>>
      OBVIOUS
    <2>2. 0 \in 0..Len(z)
      OBVIOUS
    <2> QED
      BY <2>1, <2>2
  <1>2. ASSUME NEW k \in 0..Len(z), k < Len(z), k \in Q PROVE k + 1 \in Q
    <2> SUFFICES ASSUME NEW s \in Seq(A), Len(s) = k + 1 PROVE s \in P
      BY <1>2
    <2>1. s # <<>>
      <3>1. Len(s) # 0
        OBVIOUS
      <3> QED
        BY <3>1
    <2>2. PICK t \in Seq(A), x \in A : s = Append(t, x)
      BY <2>1, SequenceEmptyOrAppend
    <2>3. Len(t) = k
      BY <2>2
    <2>4. t \in P
      BY <1>2, <2>3
    <2> QED
      BY <2>2, <2>4
  <1> HIDE DEF Q
  <1>3. Len(z) \in Q
    <2>1. Len(z) \in Nat /\ Len(z) \in 0..Len(z)
      OBVIOUS
    <2>2. \A k \in 0..Len(z) : k \in Q
      BY <1>1, <1>2, <2>1, Induction
    <2> QED
      BY <2>1, <2>2
  <1> QED
    BY <1>3 DEF Q

\* FlattenSeq of the two parts of a sequence.
LEMMA FlattenCat ==
    ASSUME NEW A, NEW s \in Seq(Seq(A)), NEW t \in Seq(Seq(A))
    PROVE  /\ FlattenSeq(s) \in Seq(A) /\ FlattenSeq(t) \in Seq(A)
           /\ FlattenSeq(s \o t) = FlattenSeq(s) \o FlattenSeq(t)
  <1>0. FlattenSeq(<<>>) = <<>> /\ <<>> \in Seq(Seq(A)) /\ <<>> \in Seq(A)
    <2>1. Len(<<>>) = 0
      OBVIOUS
    <2> QED
      BY <2>1 DEF FlattenSeq
  <1>1. \A z \in Seq(Seq(A)) : FlattenSeq(z) \in Seq(A)
    BY FlattenSolves
  <1> DEFINE P == {z \in Seq(Seq(A)) : FlattenSeq(s \o z) = FlattenSeq(s) \o FlattenSeq(z)}
  <1>2. <<>> \in P
    <2>1. s \o <<>> = s /\ FlattenSeq(s) \o <<>> = FlattenSeq(s)
      BY <1>1, ConcatEmptySeq
    <2> QED
      BY <1>0, <2>1
  <1>3. ASSUME NEW z \in Seq(Seq(A)), NEW x \in Seq(A), z \in P PROVE Append(z, x) \in P
    <2>1. FlattenSeq(Append(z, x)) = FlattenSeq(z) \o x
      BY FlattenAppend
    <2>2. s \o Append(z, x) = Append(s \o z, x) /\ s \o z \in Seq(Seq(A)) /\ Append(z, x) \in Seq(Seq(A))
      <3>1. /\ Append(z, x) = z \o <<x>> /\ <<x>> \in Seq(Seq(A))
            /\ s \o z \in Seq(Seq(A)) /\ Append(s \o z, x) = (s \o z) \o <<x>>
        BY AppendIsConcat
      <3>2. <<x>> \in Seq(Seq(A))
        BY <3>1
      <3>3. (s \o z) \o <<x>> = s \o (z \o <<x>>)
        BY <3>2, ConcatAssociative, SMTT(60)
      <3> QED
        BY <3>1, <3>3
    <2>3. FlattenSeq(Append(s \o z, x)) = FlattenSeq(s \o z) \o x
      BY <2>2, FlattenAppend
    <2>4. FlattenSeq(s \o z) = FlattenSeq(s) \o FlattenSeq(z)
      BY <1>3
    <2>5. (FlattenSeq(s) \o FlattenSeq(z)) \o x = FlattenSeq(s) \o (FlattenSeq(z) \o x)
      <3>1. FlattenSeq(s) \in Seq(A) /\ FlattenSeq(z) \in Seq(A)
        BY <1>1
      <3> QED
        BY <3>1, ConcatAssociative, SMTT(60)
    <2> QED
      BY <2>1, <2>2, <2>3, <2>4, <2>5
  <1> HIDE DEF P
  <1>4. t \in P
    BY <1>2, <1>3, SeqInduction
  <1> QED
    BY <1>1, <1>4 DEF P

-----------------------------------------------------------------------------
(* Bytes                                                                   *)

\* The bytes of one character.
BytesOf(c) == [k \in 1..Width[c] |-> [char |-> c, at |-> k]]

\* They are bytes, one of them for a narrow character.
LEMMA BytesOfType ==
    ASSUME Spot!DetectorAssumption, NEW c \in Chars
    PROVE  /\ BytesOf(c) \in Seq(Bytes)
           /\ Width[c] = 1 => BytesOf(c) = <<[char |-> c, at |-> 1]>>
  <1>1. Width \in [Chars -> Nat \ {0}]
    BY DEF Spot!DetectorAssumption
  <1>2. PICK n \in Nat : n = Width[c]
    BY <1>1
  <1>3. \A k \in 1..n : [char |-> c, at |-> k] \in Bytes
    BY DEF Bytes
  <1>4. [k \in 1..n |-> [char |-> c, at |-> k]] \in Seq(Bytes)
    BY <1>3
  <1> QED
    BY <1>2, <1>4 DEF BytesOf

\* Encode puts the bytes of the characters one after the other.
LEMMA EncodeIs ==
    ASSUME Spot!DetectorAssumption, NEW t \in Seq(Chars)
    PROVE  LET z == [i \in 1..Len(t) |-> BytesOf(t[i])]
           IN z \in Seq(Seq(Bytes)) /\ Len(z) = Len(t) /\ Spot!Encode(t) = FlattenSeq(z)
  <1>1. PICK z : z = [i \in 1..Len(t) |-> BytesOf(t[i])]
    OBVIOUS
  <1>2. DOMAIN t = 1..Len(t) /\ Len(t) \in Nat
    OBVIOUS
  <1>3. \A i \in 1..Len(t) : BytesOf(t[i]) \in Seq(Bytes)
    BY BytesOfType
  <1>4. z \in Seq(Seq(Bytes)) /\ Len(z) = Len(t)
    BY <1>1, <1>2, <1>3
  <1>5. Spot!Encode(t) = Spot!FlattenSeq([i \in DOMAIN t |-> BytesOf(t[i])])
    BY DEF Spot!Encode, BytesOf
  <1>6. [i \in DOMAIN t |-> BytesOf(t[i])] = z
    BY <1>1, <1>2
  <1>7. Spot!FlattenSeq(z) = FlattenSeq(z)
    BY DEF Spot!FlattenSeq, FlattenSeq
  <1> QED
    BY <1>1, <1>4, <1>5, <1>6, <1>7

\* The bytes of a longer text are those of its parts.
LEMMA EncodeCat ==
    ASSUME Spot!DetectorAssumption, NEW t \in Seq(Chars), NEW s \in Seq(Chars)
    PROVE  /\ Spot!Encode(t) \in Seq(Bytes) /\ Spot!Encode(s) \in Seq(Bytes)
           /\ Spot!Encode(t \o s) = Spot!Encode(t) \o Spot!Encode(s)
  <1>1. PICK y : y = [i \in 1..Len(t) |-> BytesOf(t[i])]
    OBVIOUS
  <1>2. PICK z : z = [i \in 1..Len(s) |-> BytesOf(s[i])]
    OBVIOUS
  <1>0. /\ t \o s \in Seq(Chars) /\ Len(t \o s) = Len(t) + Len(s)
        /\ \A i \in 1..Len(t) + Len(s) : (t \o s)[i] = IF i <= Len(t) THEN t[i] ELSE s[i - Len(t)]
    BY ConcatProperties
  <1>3. PICK u \in Seq(Chars) : u = t \o s
    BY <1>0
  <1>4. PICK x : x = [i \in 1..Len(u) |-> BytesOf(u[i])]
    OBVIOUS
  <1>5. /\ y \in Seq(Seq(Bytes)) /\ Len(y) = Len(t) /\ Spot!Encode(t) = FlattenSeq(y)
        /\ z \in Seq(Seq(Bytes)) /\ Len(z) = Len(s) /\ Spot!Encode(s) = FlattenSeq(z)
        /\ x \in Seq(Seq(Bytes)) /\ Len(x) = Len(u) /\ Spot!Encode(u) = FlattenSeq(x)
    BY <1>1, <1>2, <1>4, EncodeIs
  <1>6. x = y \o z
    <2>1. /\ y \o z \in Seq(Seq(Bytes)) /\ Len(y \o z) = Len(t) + Len(s) /\ Len(x) = Len(t) + Len(s)
          /\ \A i \in 1..Len(t) + Len(s) : (y \o z)[i] = IF i <= Len(t) THEN y[i] ELSE z[i - Len(t)]
      <3>1. Len(x) = Len(t) + Len(s) /\ Len(y) = Len(t) /\ Len(z) = Len(s)
        BY <1>0, <1>3, <1>5
      <3> QED
        <4>1. y \in Seq(Seq(Bytes)) /\ z \in Seq(Seq(Bytes))
          BY <1>5
        <4>2. /\ y \o z \in Seq(Seq(Bytes)) /\ Len(y \o z) = Len(y) + Len(z)
              /\ \A i \in 1..Len(y) + Len(z) : (y \o z)[i] = IF i <= Len(y) THEN y[i] ELSE z[i - Len(y)]
          BY <4>1, ConcatProperties
        <4> QED
          BY <3>1, <4>2
    <2>2. ASSUME NEW i \in 1..Len(x) PROVE x[i] = (y \o z)[i]
      <3>1. i \in 1..Len(u) /\ x[i] = BytesOf(u[i])
        BY <1>4, <1>5
      <3>2. CASE i <= Len(t)
        <4>1. i \in 1..Len(t) /\ u[i] = t[i]
          BY <1>0, <1>3, <3>1, <3>2
        <4>2. y[i] = BytesOf(t[i]) /\ (y \o z)[i] = y[i]
          BY <1>1, <1>0, <1>3, <2>1, <3>1, <3>2, <4>1
        <4> QED
          BY <3>1, <4>1, <4>2
      <3>3. CASE ~(i <= Len(t))
        <4>1. i - Len(t) \in 1..Len(s) /\ u[i] = s[i - Len(t)]
          BY <1>0, <1>3, <3>1, <3>3
        <4>2. z[i - Len(t)] = BytesOf(s[i - Len(t)])
          BY <1>2, <4>1
        <4>3. (y \o z)[i] = z[i - Len(t)]
          BY <1>0, <1>3, <2>1, <3>1, <3>3
        <4> QED
          BY <3>1, <4>1, <4>2, <4>3
      <3> QED
        BY <3>2, <3>3
    <2> QED
      BY <1>5, <2>1, <2>2, SeqEqual
  <1>7. FlattenSeq(x) = FlattenSeq(y) \o FlattenSeq(z) /\ FlattenSeq(y) \in Seq(Bytes) /\ FlattenSeq(z) \in Seq(Bytes)
    BY <1>5, <1>6, FlattenCat
  <1> QED
    BY <1>3, <1>5, <1>7

-----------------------------------------------------------------------------
\* A beginning of a sequence, and the one that is one longer.
LEMMA PrefixGrows ==
    ASSUME NEW A, NEW s \in Seq(A), NEW k \in Nat, k < Len(s)
    PROVE  /\ SubSeq(s, 1, k) \in Seq(A) /\ Len(SubSeq(s, 1, k)) = k
           /\ SubSeq(s, 1, k + 1) = Append(SubSeq(s, 1, k), s[k + 1])
  <1>1. /\ SubSeq(s, 1, k) \in Seq(A) /\ Len(SubSeq(s, 1, k)) = k
        /\ SubSeq(s, 1, k + 1) \in Seq(A) /\ Len(SubSeq(s, 1, k + 1)) = k + 1
        /\ \A i \in 1..k : SubSeq(s, 1, k)[i] = s[i]
        /\ \A i \in 1..k + 1 : SubSeq(s, 1, k + 1)[i] = s[i]
        /\ s[k + 1] \in A
    OBVIOUS
  <1> DEFINE p == SubSeq(s, 1, k)
  <1> DEFINE q == SubSeq(s, 1, k + 1)
  <1> HIDE DEF p, q
  <1>2. /\ p \in Seq(A) /\ Len(p) = k /\ q \in Seq(A) /\ Len(q) = k + 1
        /\ \A i \in 1..k : p[i] = s[i]
        /\ \A i \in 1..k + 1 : q[i] = s[i]
        /\ s[k + 1] \in A
    BY <1>1 DEF p, q
  <1>3. /\ Append(p, s[k + 1]) \in Seq(A) /\ Len(Append(p, s[k + 1])) = k + 1
        /\ \A i \in 1..k : Append(p, s[k + 1])[i] = p[i]
        /\ Append(p, s[k + 1])[k + 1] = s[k + 1]
    BY <1>2, AppendProperties
  <1>4. \A i \in 1..k + 1 : q[i] = Append(p, s[k + 1])[i]
    <2>1. \A i \in 1..k + 1 : i \in 1..k \/ i = k + 1
      OBVIOUS
    <2> QED
      BY <1>2, <1>3, <2>1
  <1>5. q = Append(p, s[k + 1])
    BY <1>2, <1>3, <1>4, SeqEqual
  <1> QED
    BY <1>1, <1>5 DEF p, q

\* The offsets of the characters are offsets; where each byte is a character, all.
LEMMA StartsAre ==
    ASSUME NEW b \in Seq(Bytes)
    PROVE  /\ Spot!Starts(b) \in Seq(0..Len(b) - 1)
           /\ (\A i \in 1..Len(b) : b[i].at = 1) =>
                 /\ Len(Spot!Starts(b)) = Len(b)
                 /\ \A i \in 1..Len(b) : Spot!Starts(b)[i] = i - 1
  <1>1. PICK n \in Nat : n = Len(b)
    OBVIOUS
  <1> DEFINE O == 0..n - 1
  <1>2. PICK z : z = [i \in 1..n |-> IF b[i].at = 1 THEN <<i - 1>> ELSE <<>>]
    OBVIOUS
  <1>3. z \in Seq(Seq(O)) /\ Len(z) = n
    <2>1. \A i \in 1..n : i - 1 \in O
      OBVIOUS
    <2> HIDE DEF O
    <2>2. \A i \in 1..n : <<i - 1>> \in Seq(O)
      BY <2>1
    <2>3. <<>> \in Seq(O)
      OBVIOUS
    <2>4. \A i \in 1..n : (IF b[i].at = 1 THEN <<i - 1>> ELSE <<>>) \in Seq(O)
      BY <2>2, <2>3
    <2> QED
      BY <1>2, <2>4
  <1>4. Spot!Starts(b) = FlattenSeq(z)
    <2>1. DOMAIN b = 1..n
      BY <1>1
    <2>2. Spot!Starts(b) = Spot!FlattenSeq([i \in DOMAIN b |-> IF b[i].at = 1 THEN <<i - 1>> ELSE <<>>])
      BY DEF Spot!Starts
    <2>3. [i \in DOMAIN b |-> IF b[i].at = 1 THEN <<i - 1>> ELSE <<>>] = z
      BY <1>2, <2>1
    <2>4. Spot!FlattenSeq(z) = FlattenSeq(z)
      BY DEF Spot!FlattenSeq, FlattenSeq
    <2> QED
      BY <2>2, <2>3, <2>4
  <1>5. FlattenSeq(z) \in Seq(O)
    BY <1>3, FlattenSolves
  <1>6. ASSUME \A i \in 1..n : b[i].at = 1
        PROVE  Len(FlattenSeq(z)) = n /\ \A i \in 1..n : FlattenSeq(z)[i] = i - 1
    <2> DEFINE Right(f, k) == Len(f) = k /\ \A i \in 1..k : f[i] = i - 1
    <2> DEFINE P == {k \in 0..n : Right(FlattenSeq(SubSeq(z, 1, k)), k)}
    <2>1. 0 \in P
      <3>1. SubSeq(z, 1, 0) = <<>>
        BY <1>3
      <3>2. FlattenSeq(<<>>) = <<>> /\ Len(<<>>) = 0
        <4>1. Len(<<>>) = 0
          OBVIOUS
        <4> QED
          BY <4>1 DEF FlattenSeq
      <3>3. Right(<<>>, 0) /\ 0 \in 0..n
        BY <3>2
      <3> HIDE DEF Right
      <3> QED
        BY <3>1, <3>2, <3>3
    <2>2. ASSUME NEW k \in 0..n, k < n, k \in P PROVE k + 1 \in P
      <3>1. k \in Nat /\ k + 1 \in 1..n /\ k + 1 \in 0..n /\ (k + 1) - 1 = k
        BY <2>2
      <3>2. z[k + 1] = <<k>>
        <4>1. b[k + 1].at = 1
          BY <1>6, <3>1
        <4>2. z[k + 1] = <<(k + 1) - 1>>
          BY <1>2, <3>1, <4>1
        <4> QED
          BY <3>1, <4>2
      <3>3. PICK p \in Seq(Seq(O)) : p = SubSeq(z, 1, k) /\ SubSeq(z, 1, k + 1) = Append(p, <<k>>)
        <4>1. k < Len(z)
          BY <1>3, <2>2
        <4>2. SubSeq(z, 1, k) \in Seq(Seq(O)) /\ SubSeq(z, 1, k + 1) = Append(SubSeq(z, 1, k), z[k + 1])
          BY <1>3, <3>1, <4>1, PrefixGrows
        <4> QED
          BY <3>2, <4>2
      <3>4. PICK f \in Seq(O) : f = FlattenSeq(p)
        BY <3>3, FlattenSolves
      <3>5. FlattenSeq(Append(p, <<k>>)) = f \o <<k>>
        <4>1. k \in O
          BY <3>1
        <4>2. <<k>> \in Seq(O)
          BY <4>1
        <4> QED
          BY <3>4, <4>2, FlattenAppend
      <3>6. Len(f) = k /\ \A i \in 1..k : f[i] = i - 1
        BY <2>2, <3>3, <3>4
      <3>7. Right(f \o <<k>>, k + 1)
        <4>1. k \in O
          BY <3>1
        <4> HIDE DEF O
        <4>2. f \o <<k>> = Append(f, k)
          BY <4>1, AppendIsConcat
        <4>3. /\ Len(Append(f, k)) = k + 1
              /\ \A i \in 1..k : Append(f, k)[i] = f[i]
              /\ Append(f, k)[k + 1] = k
          <5>1. /\ Len(Append(f, k)) = Len(f) + 1
                /\ \A i \in 1..Len(f) : Append(f, k)[i] = f[i]
                /\ Append(f, k)[Len(f) + 1] = k
            BY <4>1, AppendProperties
          <5>2. Len(f) = k
            BY <3>6
          <5> QED
            BY <5>1, <5>2
        <4>4. \A i \in 1..k + 1 : i \in 1..k \/ i = k + 1
          BY <3>1
        <4>5. \A i \in 1..k + 1 : Append(f, k)[i] = i - 1
          BY <3>1, <3>6, <4>3, <4>4
        <4> QED
          BY <4>2, <4>3, <4>5
      <3> HIDE DEF Right
      <3> QED
        BY <3>1, <3>3, <3>5, <3>7
    <2> HIDE DEF P
    <2>3. n \in P
      <3>1. n \in 0..n
        OBVIOUS
      <3> QED
        BY <2>1, <2>2, <3>1, Induction
    <2>4. SubSeq(z, 1, n) = z
      BY <1>3, SubSeqFull
    <2> QED
      BY <2>3, <2>4 DEF P
  <1> QED
    BY <1>1, <1>4, <1>5, <1>6

\* One sequence is the end of another.
EndOf(r, b) ==
    Len(r) <= Len(b) /\ \A k \in 0..Len(r) - 1 : r[Len(r) - k] = b[Len(b) - k]

\* What Cut leaves is the end; where each byte is a character it leaves a window.
LEMMA CutLeaves ==
    ASSUME Spot!DetectorAssumption, NEW b \in Seq(Bytes)
    PROVE  /\ Spot!Cut(b) \in Seq(Bytes) /\ EndOf(Spot!Cut(b), b)
           /\ (\A i \in 1..Len(b) : b[i].at = 1) =>
                 Len(Spot!Cut(b)) >= Len(b) \/ Len(Spot!Cut(b)) >= Rolling
  <1>0. Rolling \in Nat /\ Len(b) \in Nat
    BY DEF Spot!DetectorAssumption
  <1>1. PICK s \in Seq(0..Len(b) - 1) : s = Spot!Starts(b)
    BY StartsAre
  <1>2. PICK e \in Int : e = Len(b) - Rolling
    BY <1>0
  <1>3. CASE Len(b) <= Rolling \/ e >= Len(s)
    <2>1. Spot!Cut(b) = b
      BY <1>1, <1>2, <1>3 DEF Spot!Cut
    <2> QED
      BY <1>0, <2>1 DEF EndOf
  <1>4. CASE ~(Len(b) <= Rolling \/ e >= Len(s))
    <2>1. Spot!Cut(b) = SubSeq(b, s[e + 1] + 1, Len(b))
      BY <1>1, <1>2, <1>4 DEF Spot!Cut
    <2>2. e + 1 \in 1..Len(s)
      BY <1>0, <1>2, <1>4
    <2>3. PICK m \in 0..Len(b) - 1 : m = s[e + 1]
      BY <2>2
    <2>4. PICK c : c = SubSeq(b, m + 1, Len(b))
      OBVIOUS
    <2>5. /\ c \in Seq(Bytes) /\ Len(c) = Len(b) - m
          /\ \A i \in 1..Len(b) - m : c[i] = b[m + i]
      <3>1. m + 1 \in 1..Len(b) /\ m \in Nat
        BY <1>0
      <3>2. /\ c \in Seq(Bytes) /\ Len(c) = (IF m + 1 <= Len(b) THEN Len(b) - (m + 1) + 1 ELSE 0)
            /\ \A i \in 1..Len(b) - (m + 1) + 1 : c[i] = b[(m + 1) + i - 1]
        BY <1>0, <2>4, <3>1, SubSeqProperties
      <3>3. \A l \in Nat : l - (m + 1) + 1 = l - m /\ \A i \in Nat : (m + 1) + i - 1 = m + i
        BY <3>1
      <3> QED
        BY <1>0, <3>1, <3>2, <3>3
    <2>6. EndOf(c, b)
      <3>1. ASSUME NEW k \in 0..Len(c) - 1 PROVE c[Len(c) - k] = b[Len(b) - k]
        <4>1. Len(c) - k \in 1..Len(b) - m /\ m + (Len(c) - k) = Len(b) - k
          BY <1>0, <2>5
        <4> QED
          BY <2>5, <4>1
      <3> QED
        BY <1>0, <2>5, <3>1 DEF EndOf
    <2>7. (\A i \in 1..Len(b) : b[i].at = 1) => Len(c) >= Rolling
      <3> SUFFICES ASSUME \A i \in 1..Len(b) : b[i].at = 1 PROVE Len(c) >= Rolling
        OBVIOUS
      <3>1. Len(s) = Len(b) /\ \A i \in 1..Len(b) : s[i] = i - 1
        BY <1>1, StartsAre
      <3>2. m = e
        BY <1>2, <2>2, <2>3, <3>1
      <3> QED
        BY <1>0, <1>2, <2>5, <3>2
    <2> QED
      BY <2>1, <2>3, <2>4, <2>5, <2>6, <2>7
  <1> QED
    BY <1>3, <1>4

-----------------------------------------------------------------------------
\* Multiplication keeps the order.
LEMMA TimesKeeps ==
    ASSUME NEW a \in Nat, NEW b \in Nat, NEW c \in Nat
    PROVE  /\ a * c \in Nat /\ c * a = a * c /\ (a + 1) * c = a * c + c
           /\ a <= b => a * c <= b * c
  OBVIOUS

\* Every number has a quotient and a remainder.
LEMMA Divides ==
    ASSUME NEW u \in Nat \ {0}, NEW n \in Nat
    PROVE  \E r \in Nat : \E m \in 0..u - 1 : n = r * u + m
  <1> DEFINE P == {k \in 0..n : \E r \in Nat : \E m \in 0..u - 1 : k = r * u + m}
  <1>1. 0 \in P
    <2>1. 0 = 0 * u + 0 /\ 0 \in 0..u - 1 /\ 0 \in 0..n
      OBVIOUS
    <2> QED
      BY <2>1
  <1>2. ASSUME NEW k \in 0..n, k < n, k \in P PROVE k + 1 \in P
    <2>1. PICK r \in Nat, m \in 0..u - 1 : k = r * u + m
      BY <1>2
    <2>2. PICK p \in Nat : p = r * u /\ (r + 1) * u = p + u
      BY TimesKeeps
    <2>3. k + 1 \in 0..n /\ k + 1 = p + m + 1
      BY <1>2, <2>1, <2>2
    <2>4. CASE m + 1 = u
      <3>1. k + 1 = (r + 1) * u + 0 /\ r + 1 \in Nat /\ 0 \in 0..u - 1
        BY <2>2, <2>3, <2>4
      <3> QED
        BY <2>3, <3>1
    <2>5. CASE m + 1 # u
      <3>1. m + 1 \in 0..u - 1 /\ k + 1 = r * u + (m + 1)
        BY <2>2, <2>3, <2>5
      <3> QED
        BY <2>3, <3>1
    <2> QED
      BY <2>4, <2>5
  <1> HIDE DEF P
  <1>3. n \in P
    <2>1. n \in 0..n
      OBVIOUS
    <2> QED
      BY <1>1, <1>2, <2>1, Induction
  <1> QED
    BY <1>3 DEF P

\* The bytes of a segment, from its end.
LEMMA SegmentIs ==
    ASSUME NEW b \in Seq(Bytes), NEW u \in Nat \ {0}, NEW r \in Nat, r * u + u <= Len(b)
    PROVE  /\ Spot!Segment(b, u, r) \in Seq(Bytes) /\ Len(Spot!Segment(b, u, r)) = u
           /\ \A m \in 0..u - 1 : Spot!Segment(b, u, r)[u - m] = b[Len(b) - (r * u + m)]
  <1>1. PICK p \in Nat : p = r * u /\ (r + 1) * u = p + u
    BY TimesKeeps
  <1>2. PICK n \in Nat : n = Len(b)
    OBVIOUS
  <1>3. PICK s : s = SubSeq(b, n - (p + u) + 1, n - p)
    OBVIOUS
  <1>4. s = Spot!Segment(b, u, r)
    BY <1>1, <1>2, <1>3 DEF Spot!Segment
  <1>5. /\ n - (p + u) + 1 \in 1..n /\ n - p \in 1..n /\ n - (p + u) + 1 <= n - p
        /\ (n - p) - (n - (p + u) + 1) + 1 = u
    BY <1>1, <1>2
  <1>6. PICK l \in 1..n, h \in 1..n : l = n - (p + u) + 1 /\ h = n - p
    BY <1>5
  <1>7. /\ s \in Seq(Bytes) /\ Len(s) = u
        /\ \A i \in 1..u : s[i] = b[l + i - 1]
    <2>1. l \in Int /\ h \in Int /\ \A i \in l..h : b[i] \in Bytes
      BY <1>2, <1>6
    <2>2. s = SubSeq(b, l, h) /\ l <= h /\ h - l + 1 = u
      BY <1>3, <1>5, <1>6
    <2>3. /\ s \in Seq(Bytes) /\ Len(s) = (IF l <= h THEN h - l + 1 ELSE 0)
          /\ \A i \in 1..h - l + 1 : s[i] = b[l + i - 1]
      BY <2>1, <2>2, SubSeqProperties
    <2> QED
      BY <2>2, <2>3
  <1>8. ASSUME NEW m \in 0..u - 1 PROVE s[u - m] = b[n - (p + m)]
    <2>1. u - m \in 1..u /\ l + (u - m) - 1 = n - (p + m)
      BY <1>6
    <2> QED
      BY <1>7, <2>1
  <1> QED
    BY <1>1, <1>2, <1>4, <1>7, <1>8

\* The end of a sequence of bytes repeats a unit that is not pure.
Periodic(b, u) ==
    /\ Len(b) >= u * Repeat
    /\ \A k \in 0..u * (Repeat - 1) - 1 : b[Len(b) - k] = b[Len(b) - k - u]
    /\ ~Spot!IsPure(Spot!Segment(b, u, 0))

\* The repetitions of a unit that fit into a sequence.
LEMMA Fits ==
    ASSUME NEW u \in Nat \ {0}, NEW R \in Nat \ {0}, NEW n \in Nat, n >= u * R
    PROVE  /\ \A r \in 0..R - 1 : r * u + u <= n
           /\ \A k \in 0..u * (R - 1) - 1 : k \in Nat /\ k + u < u * R
           /\ \A r \in 0..R - 1 : r < R - 1 =>
                 \A m \in 0..u - 1 : r * u + m \in 0..u * (R - 1) - 1
           /\ \A r \in Nat : \A m \in 0..u - 1 :
                 r * u + m \in 0..u * (R - 1) - 1 => r < R - 1
  <1>1. PICK q \in Nat : q = u * (R - 1) /\ u * R = q + u
    <2>1. R - 1 \in Nat /\ (R - 1) + 1 = R
      OBVIOUS
    <2>2. PICK t \in Nat : t = R - 1
      BY <2>1
    <2>3. t * u \in Nat /\ u * t = t * u /\ (t + 1) * u = t * u + u /\ u * (t + 1) = (t + 1) * u
      BY TimesKeeps
    <2> QED
      BY <2>1, <2>2, <2>3
  <1>2. \A r \in 0..R - 1 : r * u \in Nat /\ r * u <= q
    <2>1. SUFFICES ASSUME NEW r \in 0..R - 1 PROVE r * u \in Nat /\ r * u <= q
      OBVIOUS
    <2>2. r \in Nat /\ R - 1 \in Nat /\ r <= R - 1
      OBVIOUS
    <2>3. r * u <= (R - 1) * u /\ (R - 1) * u = u * (R - 1) /\ r * u \in Nat
      BY <2>2, TimesKeeps
    <2> QED
      BY <1>1, <2>3
  <1>3. \A r \in 0..R - 1 : r < R - 1 => r * u + u <= q
    <2>1. SUFFICES ASSUME NEW r \in 0..R - 1, r < R - 1 PROVE r * u + u <= q
      OBVIOUS
    <2>2. r \in Nat /\ r + 1 \in 0..R - 1
      <3>1. \A y \in Int : \A x \in 0..y : x < y => x \in Nat /\ x + 1 \in 0..y
        OBVIOUS
      <3>2. R - 1 \in Int
        OBVIOUS
      <3> QED
        BY <2>1, <3>1, <3>2
    <2>3. (r + 1) * u <= q
      BY <1>2, <2>2
    <2>4. (r + 1) * u = r * u + u
      BY <2>2, TimesKeeps
    <2> QED
      BY <2>3, <2>4
  <1>4. \A r \in Nat : r >= R - 1 => r * u \in Nat /\ r * u >= q
    <2>1. SUFFICES ASSUME NEW r \in Nat, r >= R - 1 PROVE r * u \in Nat /\ r * u >= q
      OBVIOUS
    <2>2. R - 1 \in Nat /\ R - 1 <= r
      BY <2>1
    <2>3. (R - 1) * u <= r * u /\ (R - 1) * u = u * (R - 1) /\ r * u \in Nat
      BY <2>2, TimesKeeps
    <2> QED
      BY <1>1, <2>3
  <1>5. \A r \in 0..R - 1 : r * u + u <= n
    BY <1>1, <1>2
  <1>6. \A k \in 0..u * (R - 1) - 1 : k \in Nat /\ k + u < u * R
    BY <1>1
  <1>7. \A r \in 0..R - 1 : r < R - 1 => \A m \in 0..u - 1 : r * u + m \in 0..q - 1
    <2> SUFFICES ASSUME NEW r \in 0..R - 1, r < R - 1, NEW m \in 0..u - 1 PROVE r * u + m \in 0..q - 1
      OBVIOUS
    <2>1. PICK p \in Nat : p = r * u /\ p + u <= q
      BY <1>2, <1>3
    <2> QED
      BY <2>1
  <1>8. \A r \in Nat : \A m \in 0..u - 1 : r * u + m \in 0..q - 1 => r < R - 1
    <2> SUFFICES ASSUME NEW r \in Nat, NEW m \in 0..u - 1, r * u + m \in 0..q - 1, r >= R - 1
                 PROVE  FALSE
      OBVIOUS
    <2>1. PICK p \in Nat : p = r * u /\ p >= q
      BY <1>4
    <2> QED
      BY <2>1
  <1> QED
    BY <1>1, <1>5, <1>6, <1>7, <1>8

\* Equal segments make a period, and a period makes equal segments.
LEMMA SegmentsEqual ==
    ASSUME Spot!DetectorAssumption, NEW b \in Seq(Bytes), NEW u \in Nat \ {0}, Len(b) >= u * Repeat
    PROVE  (\A r \in 1..Repeat - 1 : Spot!Segment(b, u, r) = Spot!Segment(b, u, 0)) <=>
           \A k \in 0..u * (Repeat - 1) - 1 : b[Len(b) - k] = b[Len(b) - k - u]
  <1>1. PICK n \in Nat : n = Len(b)
    OBVIOUS
  <1>2. PICK R \in Nat \ {0} : R = Repeat
    BY DEF Spot!DetectorAssumption
  <1>3. /\ \A r \in 0..R - 1 : r * u + u <= n
        /\ \A k \in 0..u * (R - 1) - 1 : k \in Nat /\ k + u < u * R
        /\ \A r \in 0..R - 1 : r < R - 1 =>
              \A m \in 0..u - 1 : r * u + m \in 0..u * (R - 1) - 1
        /\ \A r \in Nat : \A m \in 0..u - 1 :
              r * u + m \in 0..u * (R - 1) - 1 => r < R - 1
    BY <1>1, <1>2, Fits
  <1>4. \A r \in 0..R - 1 :
            /\ Spot!Segment(b, u, r) \in Seq(Bytes) /\ Len(Spot!Segment(b, u, r)) = u
            /\ \A m \in 0..u - 1 : Spot!Segment(b, u, r)[u - m] = b[n - (r * u + m)]
    <2> SUFFICES ASSUME NEW r \in 0..R - 1
                 PROVE  /\ Spot!Segment(b, u, r) \in Seq(Bytes) /\ Len(Spot!Segment(b, u, r)) = u
                        /\ \A m \in 0..u - 1 : Spot!Segment(b, u, r)[u - m] = b[n - (r * u + m)]
      OBVIOUS
    <2>1. r \in Nat /\ r * u + u <= Len(b)
      BY <1>1, <1>3
    <2>2. /\ Spot!Segment(b, u, r) \in Seq(Bytes) /\ Len(Spot!Segment(b, u, r)) = u
          /\ \A m \in 0..u - 1 : Spot!Segment(b, u, r)[u - m] = b[Len(b) - (r * u + m)]
      BY <2>1, SegmentIs
    <2> QED
      BY <1>1, <2>2
  <1>5. \A r \in 0..R - 1 : r < R - 1 =>
            /\ r + 1 \in 0..R - 1 /\ r * u \in Nat
            /\ \A m \in 0..u - 1 : n - ((r + 1) * u + m) = n - (r * u + m) - u
    <2> SUFFICES ASSUME NEW r \in 0..R - 1, r < R - 1
                 PROVE  /\ r + 1 \in 0..R - 1 /\ r * u \in Nat
                        /\ \A m \in 0..u - 1 : n - ((r + 1) * u + m) = n - (r * u + m) - u
      OBVIOUS
    <2>1. r \in Nat /\ r + 1 \in 0..R - 1
      OBVIOUS
    <2>2. PICK p \in Nat : p = r * u /\ (r + 1) * u = p + u
      BY <2>1, TimesKeeps
    <2>3. \A m \in 0..u - 1 : n - ((p + u) + m) = n - (p + m) - u
      OBVIOUS
    <2> QED
      BY <2>1, <2>2, <2>3
  <1>6. ASSUME \A r \in 1..R - 1 : Spot!Segment(b, u, r) = Spot!Segment(b, u, 0),
               NEW k \in 0..u * (R - 1) - 1
        PROVE  b[n - k] = b[n - k - u]
    <2>1. k \in Nat
      OBVIOUS
    <2>2. PICK r \in Nat, m \in 0..u - 1 : k = r * u + m
      BY <2>1, Divides
    <2>3. r < R - 1 /\ r \in 0..R - 1
      BY <1>3, <2>2
    <2>4. r + 1 \in 1..R - 1 /\ r + 1 \in 0..R - 1
      BY <2>3
    <2>5. Spot!Segment(b, u, r) = Spot!Segment(b, u, 0)
      <3>1. r = 0 \/ r \in 1..R - 1
        BY <2>3
      <3> QED
        BY <1>6, <3>1
    <2>6. Spot!Segment(b, u, r + 1) = Spot!Segment(b, u, 0)
      BY <1>6, <2>4
    <2>7. b[n - k] = Spot!Segment(b, u, r)[u - m]
      BY <1>4, <2>2, <2>3
    <2>8. b[n - ((r + 1) * u + m)] = Spot!Segment(b, u, r + 1)[u - m]
      BY <1>4, <2>4
    <2>9. n - ((r + 1) * u + m) = n - k - u
      BY <1>5, <2>2, <2>3
    <2> QED
      BY <2>5, <2>6, <2>7, <2>8, <2>9
  <1>7. ASSUME \A k \in 0..u * (R - 1) - 1 : b[n - k] = b[n - k - u]
        PROVE  \A r \in 0..R - 1 : Spot!Segment(b, u, r) = Spot!Segment(b, u, 0)
    <2> DEFINE P == {r \in 0..R - 1 : Spot!Segment(b, u, r) = Spot!Segment(b, u, 0)}
    <2>1. 0 \in P
      OBVIOUS
    <2>2. ASSUME NEW r \in 0..R - 1, r < R - 1, r \in P PROVE r + 1 \in P
      <3>1. r + 1 \in 0..R - 1
        BY <2>2
      <3>2. ASSUME NEW m \in 0..u - 1
            PROVE  Spot!Segment(b, u, r + 1)[u - m] = Spot!Segment(b, u, r)[u - m]
        <4>1. Spot!Segment(b, u, r + 1)[u - m] = b[n - ((r + 1) * u + m)]
          BY <1>4, <3>1
        <4>2. Spot!Segment(b, u, r)[u - m] = b[n - (r * u + m)]
          BY <1>4, <2>2
        <4>3. r * u + m \in 0..u * (R - 1) - 1
          BY <1>3, <2>2
        <4>4. b[n - (r * u + m)] = b[n - (r * u + m) - u]
          BY <1>7, <4>3
        <4>5. n - ((r + 1) * u + m) = n - (r * u + m) - u
          BY <1>5, <2>2
        <4> QED
          BY <4>1, <4>2, <4>4, <4>5
      <3>3. PICK s \in Seq(Bytes), t \in Seq(Bytes) :
                /\ s = Spot!Segment(b, u, r + 1) /\ t = Spot!Segment(b, u, r)
                /\ Len(s) = u /\ Len(t) = u
        BY <1>4, <2>2, <3>1
      <3>4. \A i \in 1..u : s[i] = t[i]
        <4>1. \A i \in 1..u : u - i \in 0..u - 1 /\ u - (u - i) = i
          OBVIOUS
        <4> QED
          BY <3>2, <3>3, <4>1
      <3>5. s = t
        BY <3>3, <3>4, SeqEqual
      <3> QED
        BY <2>2, <3>1, <3>3, <3>5
    <2> HIDE DEF P
    <2>3. R - 1 \in Nat
      OBVIOUS
    <2>4. \A r \in 0..R - 1 : r \in P
      BY <2>1, <2>2, <2>3, Induction
    <2> QED
      BY <2>4 DEF P
  <1>8. \A r \in 1..R - 1 : r \in 0..R - 1
    OBVIOUS
  <1> QED
    BY <1>1, <1>2, <1>6, <1>7, <1>8

-----------------------------------------------------------------------------
\* The end of a sequence of bytes repeats what the whole sequence repeats.
LEMMA PeriodOfEnd ==
    ASSUME Spot!DetectorAssumption, NEW b \in Seq(Bytes), NEW c \in Seq(Bytes), EndOf(c, b),
           NEW u \in Nat \ {0}, Len(c) >= u * Repeat
    PROVE  Periodic(c, u) <=> Periodic(b, u)
  <1>1. PICK n \in Nat, m \in Nat : n = Len(b) /\ m = Len(c)
    OBVIOUS
  <1>2. PICK R \in Nat \ {0} : R = Repeat
    BY DEF Spot!DetectorAssumption
  <1>3. m <= n /\ \A k \in 0..m - 1 : c[m - k] = b[n - k]
    BY <1>1 DEF EndOf
  <1>4. PICK q \in Nat : q = u * R
    OBVIOUS
  <1>5. m >= q /\ n >= q
    BY <1>1, <1>2, <1>3, <1>4
  <1>6. \A k \in 0..u * (R - 1) - 1 : k \in Nat /\ k + u < q
    BY <1>1, <1>4, <1>5, Fits
  <1>7. ASSUME NEW k \in 0..u * (R - 1) - 1
        PROVE  c[m - k] = b[n - k] /\ c[m - k - u] = b[n - k - u]
    <2>1. k \in Nat /\ k + u < q
      BY <1>6
    <2>2. k \in 0..m - 1 /\ k + u \in 0..m - 1 /\ m - (k + u) = m - k - u /\ n - (k + u) = n - k - u
      BY <1>5, <2>1
    <2> QED
      BY <1>3, <2>2
  <1>8. Spot!Segment(c, u, 0) = Spot!Segment(b, u, 0)
    <2>1. 0 * u = 0 /\ 0 * u + u <= m /\ 0 * u + u <= n
      <3>1. 0 \in 0..R - 1
        OBVIOUS
      <3>2. 0 * u + u <= m /\ 0 * u + u <= n
        BY <1>4, <1>5, <3>1, Fits
      <3> QED
        BY <3>2
    <2>2. PICK s \in Seq(Bytes) : s = Spot!Segment(c, u, 0) /\ Len(s) = u
                                  /\ \A i \in 0..u - 1 : s[u - i] = c[m - (0 * u + i)]
      <3>1. 0 * u + u <= Len(c) /\ 0 \in Nat
        BY <1>1, <2>1
      <3>2. /\ Spot!Segment(c, u, 0) \in Seq(Bytes) /\ Len(Spot!Segment(c, u, 0)) = u
            /\ \A i \in 0..u - 1 : Spot!Segment(c, u, 0)[u - i] = c[Len(c) - (0 * u + i)]
        BY <3>1, SegmentIs
      <3> QED
        BY <1>1, <3>2
    <2>3. PICK t \in Seq(Bytes) : t = Spot!Segment(b, u, 0) /\ Len(t) = u
                                  /\ \A i \in 0..u - 1 : t[u - i] = b[n - (0 * u + i)]
      <3>1. 0 * u + u <= Len(b) /\ 0 \in Nat
        BY <1>1, <2>1
      <3>2. /\ Spot!Segment(b, u, 0) \in Seq(Bytes) /\ Len(Spot!Segment(b, u, 0)) = u
            /\ \A i \in 0..u - 1 : Spot!Segment(b, u, 0)[u - i] = b[Len(b) - (0 * u + i)]
        BY <3>1, SegmentIs
      <3> QED
        BY <1>1, <3>2
    <2>4. ASSUME NEW i \in 1..u PROVE s[i] = t[i]
      <3>1. PICK j \in 0..u - 1 : j = u - i /\ u - j = i
        OBVIOUS
      <3>2. 0 * u + j = j /\ j \in 0..m - 1
        BY <2>1
      <3> QED
        BY <1>3, <2>2, <2>3, <3>1, <3>2
    <2> QED
      BY <2>2, <2>3, <2>4, SeqEqual
  <1>9. Periodic(c, u) <=>
            /\ \A k \in 0..u * (R - 1) - 1 : c[m - k] = c[m - k - u]
            /\ ~Spot!IsPure(Spot!Segment(c, u, 0))
    BY <1>1, <1>2 DEF Periodic
  <1>10. Periodic(b, u) <=>
            /\ \A k \in 0..u * (R - 1) - 1 : b[n - k] = b[n - k - u]
            /\ ~Spot!IsPure(Spot!Segment(b, u, 0))
    BY <1>1, <1>2, <1>4, <1>5 DEF Periodic
  <1> QED
    BY <1>7, <1>8, <1>9, <1>10

\* A pattern is reported for a period, and for each one where every byte is a
\* character; then no slice is a panic.
LEMMA VerdictOfUnit ==
    ASSUME Spot!DetectorAssumption, NEW b \in Seq(Bytes), NEW u \in Nat \ {0}
    PROVE  /\ Spot!UnitVerdict(b, u) \in {"none", "panic", "pattern"}
           /\ Spot!UnitVerdict(b, u) = "pattern" => Len(b) >= u * Repeat /\ Periodic(b, u)
           /\ (\A i \in 1..Len(b) : b[i].at = 1) =>
                 /\ Spot!UnitVerdict(b, u) # "panic"
                 /\ Periodic(b, u) => Spot!UnitVerdict(b, u) = "pattern"
  <1> DEFINE Cuts(r) == ~Spot!Boundary(b, Len(b) - (r + 1) * u)
  <1> DEFINE Differs(r) == Spot!Segment(b, u, r) # Spot!Segment(b, u, 0)
  <1> DEFINE stop == {r \in 1..Repeat - 1 : Cuts(r) \/ Differs(r)}
  <1> DEFINE short == Len(b) < u * Repeat
  <1> DEFINE pure == Spot!IsPure(Spot!Segment(b, u, 0))
  <1>0. PICK R \in Nat \ {0} : R = Repeat
    BY DEF Spot!DetectorAssumption
  <1>1. Spot!UnitVerdict(b, u) =
            CASE Len(b) < u * Repeat -> "none"
              [] Len(b) >= u * Repeat /\ Cuts(0) -> "panic"
              [] OTHER -> IF pure THEN "none"
                          ELSE IF stop = {} THEN "pattern"
                          ELSE IF Cuts(Spot!Min(stop)) THEN "panic" ELSE "none"
    BY DEF Spot!UnitVerdict
  <1>2. short <=> ~(Len(b) >= u * Repeat)
    BY <1>0
  <1>3. stop = {} => \A r \in 1..Repeat - 1 : ~Differs(r)
    OBVIOUS
  <1>4. (\A i \in 1..Len(b) : b[i].at = 1) /\ ~short => \A r \in 0..Repeat - 1 : ~Cuts(r)
    <2> SUFFICES ASSUME \A i \in 1..Len(b) : b[i].at = 1, ~short, NEW r \in 0..Repeat - 1
                 PROVE  ~Cuts(r)
      OBVIOUS
    <2>1. r * u + u <= Len(b) /\ r \in Nat
      BY <1>0, <1>2, Fits
    <2>2. PICK p \in Nat : p = (r + 1) * u /\ p <= Len(b)
      BY <2>1, TimesKeeps
    <2>3. Len(b) - p + 1 \in 1..Len(b) \/ Len(b) - p = Len(b)
      BY <2>2
    <2> QED
      BY <2>2, <2>3 DEF Spot!Boundary
  <1>5. stop # {} => Spot!Min(stop) \in stop
    <2>1. stop \in SUBSET Nat
      BY <1>0
    <2> HIDE DEF stop
    <2>2. stop # {} => \E n \in stop : \A m \in stop : n <= m
      BY <2>1, LeastNat
    <2>3. PICK n : n = CHOOSE x \in stop : \A y \in stop : x =< y
      OBVIOUS
    <2>4. stop # {} => n \in stop
      BY <2>2, <2>3
    <2> QED
      BY <2>3, <2>4 DEF Spot!Min
  <1>6. \A r \in stop : r \in 0..Repeat - 1
    BY <1>0
  <1>7. ~short /\ (\A r \in 1..Repeat - 1 : ~Differs(r)) <=>
        ~short /\ \A k \in 0..u * (Repeat - 1) - 1 : b[Len(b) - k] = b[Len(b) - k - u]
    BY <1>2, SegmentsEqual
  <1>8. Periodic(b, u) <=> ~short /\ (\A r \in 1..Repeat - 1 : ~Differs(r)) /\ ~pure
    BY <1>2, <1>7 DEF Periodic
  <1>9. (\A r \in 0..Repeat - 1 : ~Cuts(r)) /\ (\A r \in 1..Repeat - 1 : ~Differs(r)) => stop = {}
    <2> HIDE DEF Cuts, Differs
    <2>1. \A r \in 1..Repeat - 1 : r \in 0..Repeat - 1
      BY <1>0
    <2> QED
      BY <2>1
  <1>10. 0 \in 0..Repeat - 1
    BY <1>0
  <1> DEFINE v == Spot!UnitVerdict(b, u)
  <1> DEFINE cutMin == Cuts(Spot!Min(stop))
  <1>11. v = IF short THEN "none" ELSE IF Cuts(0) THEN "panic" ELSE IF pure THEN "none"
             ELSE IF stop = {} THEN "pattern" ELSE IF cutMin THEN "panic" ELSE "none"
    BY <1>1, <1>2
  <1> HIDE DEF v, cutMin, stop, short, pure, Cuts, Differs
  <1>12. v \in {"none", "panic", "pattern"}
    BY <1>11
  <1>13. v = "pattern" => Periodic(b, u) /\ ~short
    BY <1>3, <1>8, <1>11
  <1>14. (\A i \in 1..Len(b) : b[i].at = 1) => v # "panic"
    BY <1>4, <1>5, <1>6, <1>10, <1>11 DEF cutMin
  <1>15. (\A i \in 1..Len(b) : b[i].at = 1) /\ Periodic(b, u) => v = "pattern"
    BY <1>4, <1>8, <1>9, <1>10, <1>11
  <1> QED
    BY <1>2, <1>12, <1>13, <1>14, <1>15 DEF v

\* What pattern_verdict says of all the units together: with "pattern" one of
\* them repeats, and where all bytes start characters one that repeats is found.
LEMMA VerdictOfPattern ==
    ASSUME Spot!DetectorAssumption, NEW b \in Seq(Bytes)
    PROVE  /\ Spot!PatternVerdict(b) \in {"none", "panic", "pattern"}
           /\ Spot!PatternVerdict(b) = "pattern" =>
                 \E u \in Units : Len(b) >= u * Repeat /\ Periodic(b, u)
           /\ (\A i \in 1..Len(b) : b[i].at = 1) /\ (\E u \in Units : Periodic(b, u)) =>
                 Spot!PatternVerdict(b) = "pattern"
  <1>0. Units \subseteq Nat \ {0}
    BY DEF Spot!DetectorAssumption
  <1>1. \A u \in Units :
           /\ Spot!UnitVerdict(b, u) \in {"none", "panic", "pattern"}
           /\ Spot!UnitVerdict(b, u) = "pattern" => Len(b) >= u * Repeat /\ Periodic(b, u)
           /\ (\A i \in 1..Len(b) : b[i].at = 1) =>
                 /\ Spot!UnitVerdict(b, u) # "panic"
                 /\ Periodic(b, u) => Spot!UnitVerdict(b, u) = "pattern"
    BY <1>0, VerdictOfUnit
  <1> DEFINE deciding == {u \in Units : Spot!UnitVerdict(b, u) # "none"}
  <1>2. Spot!PatternVerdict(b) = IF deciding = {} THEN "none" ELSE Spot!UnitVerdict(b, Spot!Min(deciding))
    BY DEF Spot!PatternVerdict
  <1>3. deciding # {} => Spot!Min(deciding) \in deciding
    <2>1. deciding \in SUBSET Nat
      BY <1>0
    <2> HIDE DEF deciding
    <2>2. deciding # {} => \E n \in deciding : \A m \in deciding : n <= m
      BY <2>1, LeastNat
    <2>3. PICK n : n = CHOOSE x \in deciding : \A y \in deciding : x =< y
      OBVIOUS
    <2>4. deciding # {} => n \in deciding
      BY <2>2, <2>3
    <2> QED
      BY <2>3, <2>4 DEF Spot!Min
  <1>4. PICK w : w = Spot!Min(deciding)
    OBVIOUS
  <1>5. deciding # {} => w \in Units /\ Spot!UnitVerdict(b, w) # "none"
    BY <1>3, <1>4
  <1>6. Spot!PatternVerdict(b) = IF deciding = {} THEN "none" ELSE Spot!UnitVerdict(b, w)
    BY <1>2, <1>4
  <1>7. (\E u \in Units : Spot!UnitVerdict(b, u) = "pattern") => deciding # {}
    OBVIOUS
  <1> HIDE DEF deciding
  <1> QED
    BY <1>1, <1>5, <1>6, <1>7

-----------------------------------------------------------------------------
\* Every character of the text is one byte.
Narrow(t) == \A i \in 1..Len(t) : Width[t[i]] = 1
AllStarts(b) == \A i \in 1..Len(b) : b[i].at = 1

\* No text has no bytes.
LEMMA EncodeEmpty == ASSUME Spot!DetectorAssumption PROVE Spot!Encode(<<>>) = <<>>
  <1>1. <<>> \in Seq(Chars) /\ Len(<<>>) = 0
    OBVIOUS
  <1>2. PICK z : z = [i \in 1..Len(<<>>) |-> BytesOf(<<>>[i])]
    OBVIOUS
  <1>3. z \in Seq(Seq(Bytes)) /\ Len(z) = 0 /\ Spot!Encode(<<>>) = FlattenSeq(z)
    BY <1>1, <1>2, EncodeIs
  <1>4. z = <<>>
    BY <1>3
  <1>5. FlattenSeq(<<>>) = <<>>
    BY <1>1 DEF FlattenSeq
  <1> QED
    BY <1>3, <1>4, <1>5

\* Then every byte is a character.
LEMMA NarrowStarts ==
    ASSUME Spot!DetectorAssumption, NEW t \in Seq(Chars), Narrow(t)
    PROVE  AllStarts(Spot!Encode(t))
  <1> DEFINE P == {s \in Seq(Chars) : Narrow(s) => AllStarts(Spot!Encode(s))}
  <1>1. <<>> \in P
    <2>1. AllStarts(<<>>)
      BY DEF AllStarts
    <2> QED
      BY <2>1, EncodeEmpty
  <1>2. ASSUME NEW s \in Seq(Chars), NEW c \in Chars, s \in P PROVE Append(s, c) \in P
    <2> SUFFICES ASSUME Narrow(Append(s, c)) PROVE AllStarts(Spot!Encode(Append(s, c)))
      BY AppendProperties
    <2>1. /\ Len(Append(s, c)) = Len(s) + 1 /\ Len(s) \in Nat
          /\ \A i \in 1..Len(s) : Append(s, c)[i] = s[i]
          /\ Append(s, c)[Len(s) + 1] = c
      BY AppendProperties
    <2>2. (\A i \in 1..Len(s) : i \in 1..Len(s) + 1) /\ Len(s) + 1 \in 1..Len(s) + 1
      BY <2>1
    <2>3. Narrow(s) /\ Width[c] = 1
      BY <2>1, <2>2 DEF Narrow
    <2>4. PICK e \in Seq(Bytes) : e = Spot!Encode(s) /\ AllStarts(e)
      BY <1>2, <2>3, EncodeCat
    <2>5. Spot!Encode(<<c>>) = <<[char |-> c, at |-> 1]>>
      <3>1. PICK x \in Seq(Bytes) : x = BytesOf(c) /\ x = <<[char |-> c, at |-> 1]>>
        BY <2>3, BytesOfType
      <3>2. <<c>> \in Seq(Chars) /\ Len(<<c>>) = 1
        OBVIOUS
      <3>3. PICK z : z = [i \in 1..Len(<<c>>) |-> BytesOf(<<c>>[i])]
        OBVIOUS
      <3>4. z \in Seq(Seq(Bytes)) /\ Len(z) = 1 /\ Spot!Encode(<<c>>) = FlattenSeq(z)
        BY <3>2, <3>3, EncodeIs
      <3>5. z[1] = x
        <4>1. PICK y : y = <<c>>
          OBVIOUS
        <4>2. Len(y) = 1 /\ y[1] = c /\ 1 \in 1..1
          BY <4>1
        <4>3. z = [i \in 1..Len(y) |-> BytesOf(y[i])]
          BY <3>3, <4>1
        <4>4. z[1] = BytesOf(y[1])
          BY <4>2, <4>3
        <4> QED
          BY <3>1, <4>2, <4>4
      <3>6. z = Append(<<>>, x)
        BY <3>4, <3>5
      <3>7. FlattenSeq(<<>>) = <<>> /\ <<>> \in Seq(Seq(Bytes))
        <4>1. Len(<<>>) = 0
          OBVIOUS
        <4> QED
          BY <4>1 DEF FlattenSeq
      <3>8. FlattenSeq(Append(<<>>, x)) = <<>> \o x
        BY <3>7, FlattenAppend
      <3> QED
        BY <3>1, <3>4, <3>6, <3>8
    <2>6. PICK y \in Bytes : y = [char |-> c, at |-> 1]
      BY DEF Bytes
    <2>7. Spot!Encode(Append(s, c)) = Append(e, y)
      <3>1. Append(s, c) = s \o <<c>> /\ <<c>> \in Seq(Chars)
        BY AppendIsConcat
      <3>2. Spot!Encode(s \o <<c>>) = Spot!Encode(s) \o Spot!Encode(<<c>>)
        BY <3>1, EncodeCat
      <3>3. e \o <<y>> = Append(e, y)
        BY AppendIsConcat
      <3> QED
        BY <2>4, <2>5, <2>6, <3>1, <3>2, <3>3
    <2>8. /\ Len(Append(e, y)) = Len(e) + 1 /\ Len(e) \in Nat
          /\ \A i \in 1..Len(e) : Append(e, y)[i] = e[i]
          /\ Append(e, y)[Len(e) + 1] = y
      BY AppendProperties
    <2>9. \A i \in 1..Len(e) + 1 : i \in 1..Len(e) \/ i = Len(e) + 1
      BY <2>8
    <2> QED
      BY <2>4, <2>6, <2>7, <2>8, <2>9 DEF AllStarts
  <1> HIDE DEF P
  <1>3. t \in P
    BY <1>1, <1>2, SeqInduction
  <1> QED
    BY <1>3 DEF P

\* What follows both is at the end of both.
LEMMA EndOfCat ==
    ASSUME NEW r \in Seq(Bytes), NEW b \in Seq(Bytes), NEW e \in Seq(Bytes), EndOf(r, b)
    PROVE  EndOf(r \o e, b \o e)
  <1>1. PICK x \in Nat, y \in Nat, n \in Nat : x = Len(r) /\ y = Len(b) /\ n = Len(e)
    OBVIOUS
  <1>2. x <= y /\ \A k \in 0..x - 1 : r[x - k] = b[y - k]
    BY <1>1 DEF EndOf
  <1>3. /\ Len(r \o e) = x + n /\ \A i \in 1..x + n : (r \o e)[i] = IF i <= x THEN r[i] ELSE e[i - x]
        /\ Len(b \o e) = y + n /\ \A i \in 1..y + n : (b \o e)[i] = IF i <= y THEN b[i] ELSE e[i - y]
    BY <1>1, ConcatProperties
  <1>4. ASSUME NEW k \in 0..(x + n) - 1 PROVE (r \o e)[(x + n) - k] = (b \o e)[(y + n) - k]
    <2>1. (x + n) - k \in 1..x + n /\ (y + n) - k \in 1..y + n
      BY <1>2
    <2>2. CASE k < n
      <3>1. ~((x + n) - k <= x) /\ ~((y + n) - k <= y) /\ (x + n) - k - x = (y + n) - k - y
        BY <2>2
      <3> QED
        BY <1>3, <2>1, <3>1
    <2>3. CASE ~(k < n)
      <3>1. /\ (x + n) - k <= x /\ (y + n) - k <= y /\ k - n \in 0..x - 1
            /\ (x + n) - k = x - (k - n) /\ (y + n) - k = y - (k - n)
        BY <2>3
      <3>2. r[x - (k - n)] = b[y - (k - n)]
        BY <1>2, <3>1
      <3> QED
        BY <1>3, <2>1, <3>1, <3>2
    <2> QED
      BY <2>2, <2>3
  <1> QED
    BY <1>2, <1>3, <1>4 DEF EndOf

\* The end of the end is at the end.
LEMMA EndOfEnd ==
    ASSUME NEW c \in Seq(Bytes), NEW r \in Seq(Bytes), NEW b \in Seq(Bytes), EndOf(c, r), EndOf(r, b)
    PROVE  EndOf(c, b)
  <1>1. PICK x \in Nat, y \in Nat, z \in Nat : x = Len(c) /\ y = Len(r) /\ z = Len(b)
    OBVIOUS
  <1>2. /\ x <= y /\ \A k \in 0..x - 1 : c[x - k] = r[y - k]
        /\ y <= z /\ \A k \in 0..y - 1 : r[y - k] = b[z - k]
    BY <1>1 DEF EndOf
  <1>3. \A k \in 0..x - 1 : k \in 0..y - 1
    BY <1>2
  <1> QED
    BY <1>1, <1>2, <1>3 DEF EndOf

\* If all bytes start characters, so do those at the end.
LEMMA EndOfStarts ==
    ASSUME NEW r \in Seq(Bytes), NEW b \in Seq(Bytes), EndOf(r, b), AllStarts(b)
    PROVE  AllStarts(r)
  <1>1. PICK x \in Nat, y \in Nat : x = Len(r) /\ y = Len(b)
    OBVIOUS
  <1>2. x <= y /\ \A k \in 0..x - 1 : r[x - k] = b[y - k]
    BY <1>1 DEF EndOf
  <1>3. ASSUME NEW i \in 1..x PROVE r[i].at = 1
    <2>1. x - i \in 0..x - 1 /\ x - (x - i) = i /\ y - (x - i) \in 1..y
      BY <1>2
    <2>2. r[i] = b[y - (x - i)]
      BY <1>2, <2>1
    <2> QED
      BY <1>1, <2>1, <2>2 DEF AllStarts
  <1> QED
    BY <1>1, <1>3 DEF AllStarts

\* The window of the detector is the end of the bytes; all of them that it can
\* hold, where each character is one byte.
WindowHolds(r, t) ==
    /\ EndOf(r, Spot!Encode(t))
    /\ Narrow(t) => Len(r) >= Len(Spot!Encode(t)) \/ Len(r) >= Rolling

\* The window stays the end of the text when more text comes.
LEMMA WindowGoesOn ==
    ASSUME Spot!DetectorAssumption, NEW t \in Seq(Chars), NEW s \in Seq(Chars),
           NEW r \in Seq(Bytes), WindowHolds(r, t)
    PROVE  LET w == Spot!Cut(r \o Spot!Encode(s))
           IN w \in Seq(Bytes) /\ WindowHolds(w, t \o s)
  <1>1. PICK b \in Seq(Bytes), e \in Seq(Bytes) :
            b = Spot!Encode(t) /\ e = Spot!Encode(s) /\ Spot!Encode(t \o s) = b \o e
    BY EncodeCat
  <1>2. PICK q \in Seq(Bytes) : q = r \o e
    BY ConcatProperties
  <1>3. EndOf(q, b \o e) /\ b \o e \in Seq(Bytes)
    BY <1>1, <1>2, EndOfCat, ConcatProperties DEF WindowHolds
  <1>4. PICK w \in Seq(Bytes) : w = Spot!Cut(q) /\ EndOf(w, q)
    BY <1>2, CutLeaves
  <1>5. EndOf(w, b \o e)
    BY <1>3, <1>4, EndOfEnd
  <1>6. ASSUME Narrow(t \o s) PROVE Len(w) >= Len(b \o e) \/ Len(w) >= Rolling
    <2>1. t \o s \in Seq(Chars) /\ Len(t \o s) = Len(t) + Len(s)
          /\ \A i \in 1..Len(t) + Len(s) : (t \o s)[i] = IF i <= Len(t) THEN t[i] ELSE s[i - Len(t)]
      BY ConcatProperties
    <2>2. \A i \in 1..Len(t) : i \in 1..Len(t) + Len(s) /\ (t \o s)[i] = t[i]
      BY <2>1
    <2>3. Narrow(t)
      BY <1>6, <2>1, <2>2 DEF Narrow
    <2>4. Len(r) >= Len(b) \/ Len(r) >= Rolling
      BY <1>1, <2>3 DEF WindowHolds
    <2>5. Len(q) = Len(r) + Len(e) /\ Len(b \o e) = Len(b) + Len(e)
      BY <1>2, ConcatProperties
    <2>6. AllStarts(b \o e)
      BY <1>1, <1>6, <2>1, NarrowStarts
    <2>7. AllStarts(q)
      BY <1>3, <2>6, EndOfStarts
    <2>8. Len(w) >= Len(q) \/ Len(w) >= Rolling
      BY <1>4, <2>7, CutLeaves DEF AllStarts
    <2>9. Rolling \in Nat /\ Len(w) \in Nat /\ Len(q) \in Nat /\ Len(r) \in Nat /\ Len(b) \in Nat /\ Len(e) \in Nat
      BY DEF Spot!DetectorAssumption
    <2> QED
      BY <2>4, <2>5, <2>8, <2>9
  <1> QED
    BY <1>1, <1>2, <1>4, <1>5, <1>6 DEF WindowHolds

-----------------------------------------------------------------------------
(* The detector is in its place, and its window is the end of the text.     *)
SpotIInv ==
    /\ spotDet \in Detectors
    /\ fed \in Seq(Chars) /\ fresh \in 0..Len(fed)
    /\ spotVerdict = "none" =>
          /\ EndsAt(spotDet, fed, Len(fed)) /\ ~Spot!Tripped(spotDet)
          /\ WindowHolds(spotDet.rolling, fed)
    /\ Spot!RunExact /\ Spot!PatternSound /\ Spot!PatternFound

\* A new detector has seen no text.
LEMMA SpotInit == Spot!DetectorAssumption /\ Spot!TraceInit => SpotIInv
  <1> SUFFICES ASSUME Spot!DetectorAssumption, Spot!TraceInit PROVE SpotIInv
    OBVIOUS
  <1>1. /\ spotDet = [last |-> "nul", run |-> 0, rolling |-> <<>>]
        /\ fed = <<>> /\ fresh = 0 /\ spotVerdict = "none" /\ Len(fed) = 0
    BY DEF Spot!TraceInit, Spot!NewDetector
  <1>2. spotDet \in Detectors /\ fed \in Seq(Chars) /\ fresh \in 0..Len(fed)
    <2>1. <<>> \in Seq(Bytes) /\ <<>> \in Seq(Chars)
      OBVIOUS
    <2> QED
      BY <1>1, <2>1 DEF Detectors
  <1>3. EndsAt(spotDet, fed, Len(fed)) /\ ~Spot!Tripped(spotDet)
    BY <1>1 DEF EndsAt, Spot!Tripped
  <1>4. WindowHolds(spotDet.rolling, fed)
    <2>1. Spot!Encode(fed) = <<>> /\ spotDet.rolling = <<>> /\ Len(<<>>) = 0
      BY <1>1, EncodeEmpty
    <2>2. EndOf(<<>>, <<>>)
      BY <2>1 DEF EndOf
    <2> QED
      BY <2>1, <2>2 DEF WindowHolds
  <1>5. Spot!RunExact
    BY <1>1 DEF Spot!RunExact
  <1>6. Spot!PatternSound
    BY <1>1 DEF Spot!PatternSound
  <1>7. Spot!PatternFound
    <2> SUFFICES ASSUME NEW u \in Units, Spot!EndsInUnit(u) PROVE FALSE
      BY DEF Spot!PatternFound
    <2>1. Len(Spot!Encode(fed)) = 0
      <3>1. Len(<<>>) = 0
        OBVIOUS
      <3> QED
        BY <1>1, <3>1, EncodeEmpty
    <2>2. 0 >= u * Repeat
      BY <2>1 DEF Spot!EndsInUnit
    <2>3. PICK x \in Nat \ {0}, y \in Nat \ {0} : x = u /\ y = Repeat
      BY DEF Spot!DetectorAssumption
    <2>4. x * y \in Nat /\ x <= x * y
      OBVIOUS
    <2> QED
      BY <2>2, <2>3, <2>4
  <1> QED
    BY <1>2, <1>3, <1>4, <1>5, <1>6, <1>7 DEF SpotIInv

\* What feed returns, for a text that is not empty.
LEMMA FeedIs ==
    ASSUME NEW d, NEW text
    PROVE  LET e == Spot!Scan(d, text)
               w == Spot!Cut(d.rolling \o Spot!Encode(text))
           IN Spot!Feed(d, text) =
                 IF text = <<>> THEN [det |-> d, verdict |-> "none"]
                 ELSE IF Spot!Tripped(e) THEN [det |-> e, verdict |-> "character"]
                 ELSE [det |-> [e EXCEPT !.rolling = w], verdict |-> Spot!PatternVerdict(w)]
  BY DEF Spot!Feed

\* A chunk of text: what the scan and the window say of it is said of all the
\* text, since both know its end.
LEMMA SpotNext ==
    ASSUME Spot!DetectorAssumption, SpotIInv, NEW text \in Seq(Chars), Spot!FeedChunk(text)
    PROVE  SpotIInv'
  <1>1. /\ spotDet \in Detectors /\ fed \in Seq(Chars) /\ fresh \in 0..Len(fed)
        /\ spotVerdict = "none"
        /\ EndsAt(spotDet, fed, Len(fed)) /\ ~Spot!Tripped(spotDet)
        /\ WindowHolds(spotDet.rolling, fed)
        /\ Spot!PatternFound
    BY DEF SpotIInv, Spot!FeedChunk
  <1>2. /\ spotDet' = Spot!Feed(spotDet, text).det /\ spotVerdict' = Spot!Feed(spotDet, text).verdict
        /\ fed' = fed \o text /\ fresh' = Len(text)
    BY DEF Spot!FeedChunk
  <1>3. PICK m \in Nat, n \in Nat : m = Len(fed) /\ n = Len(text)
    BY <1>1
  <1>4. /\ fed' \in Seq(Chars) /\ Len(fed') = m + n
        /\ fresh' \in 0..Len(fed') /\ Len(fed') - fresh' + 1 = m + 1
    <2>1. fed \o text \in Seq(Chars) /\ Len(fed \o text) = m + n
      BY <1>1, <1>3, ConcatProperties
    <2> QED
      BY <1>2, <1>3, <2>1
  <1>5. Spot!RunExact' <=> (spotVerdict' = "character" <=> \E i \in m + 1..m + n : RunAt(fed', i))
    <2>1. \A i : Spot!RunEnds(i)' <=> RunAt(fed', i)
      BY DEF Spot!RunEnds, RunAt
    <2> QED
      BY <1>4, <2>1 DEF Spot!RunExact
  <1>6. \A u : Spot!EndsInUnit(u)' <=> Periodic(Spot!Encode(fed'), u)
    BY DEF Spot!EndsInUnit, Periodic
  <1>7. Spot!PatternSound' <=> (spotVerdict' = "pattern" => \E u \in Units : Periodic(Spot!Encode(fed'), u))
    BY <1>6 DEF Spot!PatternSound
  <1>8. Spot!PatternFound' <=> (Narrow(fed') /\ (\E u \in Units : Periodic(Spot!Encode(fed'), u))
                                   => spotVerdict' \in {"character", "pattern"})
    <2>1. (\A i \in DOMAIN fed' : Width[fed'[i]] = 1) <=> Narrow(fed')
      BY <1>4 DEF Narrow
    <2> QED
      BY <1>6, <2>1 DEF Spot!PatternFound
  <1>9. CASE text = <<>>
    <2>1. spotDet' = spotDet /\ spotVerdict' = "none"
      BY <1>2, <1>9, FeedIs
    <2>2. n = 0 /\ fed' = fed
      BY <1>1, <1>2, <1>3, <1>9, ConcatEmptySeq
    <2>3. Spot!RunExact'
      BY <1>5, <2>1, <2>2
    <2>4. Spot!PatternSound'
      BY <2>1 DEF Spot!PatternSound
    <2>5. Spot!PatternFound'
      <3>1. \A u : Spot!EndsInUnit(u) <=> Periodic(Spot!Encode(fed), u)
        BY DEF Spot!EndsInUnit, Periodic
      <3>2. (\A i \in DOMAIN fed : Width[fed[i]] = 1) <=> Narrow(fed)
        BY <1>1 DEF Narrow
      <3>3. ~(Narrow(fed) /\ \E u \in Units : Periodic(Spot!Encode(fed), u))
        BY <1>1, <3>1, <3>2 DEF Spot!PatternFound
      <3> QED
        BY <1>8, <2>2, <3>3
    <2> QED
      BY <1>1, <1>4, <2>1, <2>2, <2>3, <2>4, <2>5 DEF SpotIInv
  <1>10. CASE text # <<>>
    <2>1. PICK e : e = Spot!Scan(spotDet, text)
      OBVIOUS
    <2>2. /\ e \in Detectors /\ e.rolling = spotDet.rolling
          /\ Spot!Tripped(e) <=> \E i \in m + 1..m + n : RunAt(fed', i)
          /\ ~Spot!Tripped(e) => EndsAt(e, fed', m + n)
      BY <1>1, <1>2, <1>3, <1>4, <2>1, ScanTrips
    <2>3. PICK w : w = Spot!Cut(spotDet.rolling \o Spot!Encode(text))
      OBVIOUS
    <2>4. w \in Seq(Bytes) /\ WindowHolds(w, fed')
      <3>1. spotDet.rolling \in Seq(Bytes)
        BY <1>1 DEF Detectors
      <3> QED
        BY <1>1, <1>2, <2>3, <3>1, WindowGoesOn
    <2>5. CASE Spot!Tripped(e)
      <3>1. spotDet' = e /\ spotVerdict' = "character"
        BY <1>2, <1>10, <2>1, <2>5, FeedIs
      <3> QED
        BY <1>4, <1>5, <1>7, <1>8, <2>2, <2>5, <3>1 DEF SpotIInv
    <2>6. CASE ~Spot!Tripped(e)
      <3>1. spotDet' = [e EXCEPT !.rolling = w] /\ spotVerdict' = Spot!PatternVerdict(w)
        BY <1>2, <1>10, <2>1, <2>3, <2>6, FeedIs
      <3>2. /\ spotDet' \in Detectors /\ spotDet'.rolling = w
            /\ spotDet'.last = e.last /\ spotDet'.run = e.run
        BY <2>2, <2>4, <3>1 DEF Detectors
      <3>3. EndsAt(spotDet', fed', Len(fed')) /\ ~Spot!Tripped(spotDet')
        BY <1>4, <2>2, <2>6, <3>2 DEF EndsAt, Spot!Tripped
      <3>4. WindowHolds(spotDet'.rolling, fed')
        BY <2>4, <3>2
      <3>5. /\ spotVerdict' \in {"none", "panic", "pattern"}
            /\ spotVerdict' = "pattern" => \E u \in Units : Len(w) >= u * Repeat /\ Periodic(w, u)
            /\ AllStarts(w) /\ (\E u \in Units : Periodic(w, u)) => spotVerdict' = "pattern"
        BY <2>4, <3>1, VerdictOfPattern DEF AllStarts
      <3>6. Spot!RunExact'
        BY <1>5, <2>2, <2>6, <3>5
      <3>7. PICK b \in Seq(Bytes) : b = Spot!Encode(fed')
        BY <1>4, EncodeCat
      <3>8. Units \subseteq Nat \ {0} /\ \A u \in Units : u * Repeat <= Rolling /\ u * Repeat \in Nat
        <4>1. /\ Units \subseteq Nat \ {0} /\ Repeat \in Nat
              /\ \A u \in Units : u * Repeat <= Rolling
          BY DEF Spot!DetectorAssumption
        <4>2. \A u \in Units : u \in Nat
          BY <4>1
        <4>3. \A u \in Units : u * Repeat \in Nat
          BY <4>1, <4>2, TimesKeeps
        <4> QED
          BY <4>1, <4>3
      <3>9. \A u \in Units : Len(w) >= u * Repeat => (Periodic(w, u) <=> Periodic(b, u))
        BY <2>4, <3>7, <3>8, PeriodOfEnd DEF WindowHolds
      <3>10. Spot!PatternSound'
        BY <1>7, <3>5, <3>7, <3>9
      <3>11. Spot!PatternFound'
        <4> SUFFICES ASSUME Narrow(fed'), NEW u \in Units, Periodic(b, u)
                     PROVE  spotVerdict' = "pattern"
          BY <1>8, <3>7
        <4>1. AllStarts(b)
          BY <1>4, <3>7, NarrowStarts
        <4>2. AllStarts(w)
          BY <2>4, <3>7, <4>1, EndOfStarts DEF WindowHolds
        <4>3. Len(w) >= Len(b) \/ Len(w) >= Rolling
          BY <2>4, <3>7 DEF WindowHolds
        <4>4. Len(b) >= u * Repeat
          BY DEF Periodic
        <4>5. Len(w) >= u * Repeat
          <5>1. Len(w) \in Nat /\ Len(b) \in Nat /\ Rolling \in Nat
            BY <2>4 DEF Spot!DetectorAssumption
          <5>2. PICK q \in Nat : q = u * Repeat /\ q <= Rolling
            BY <3>8
          <5> QED
            BY <4>3, <4>4, <5>1, <5>2
        <4>6. Periodic(w, u)
          BY <3>9, <4>5
        <4> QED
          BY <3>5, <4>2, <4>6
      <3> QED
        BY <1>4, <3>2, <3>3, <3>4, <3>6, <3>10, <3>11 DEF SpotIInv
    <2> QED
      BY <2>5, <2>6
  <1> QED
    BY <1>9, <1>10

\* Nothing else changes it.
LEMMA SpotStutter == SpotIInv /\ UNCHANGED spotVars => SpotIInv'
  <1> SUFFICES ASSUME SpotIInv, UNCHANGED spotVars PROVE SpotIInv'
    OBVIOUS
  <1>1. spotDet' = spotDet /\ fed' = fed /\ fresh' = fresh /\ spotVerdict' = spotVerdict
    BY DEF spotVars
  <1>2. \A i : Spot!RunEnds(i)' <=> Spot!RunEnds(i)
    BY <1>1 DEF Spot!RunEnds
  <1>3. \A u : Spot!EndsInUnit(u)' <=> Spot!EndsInUnit(u)
    BY <1>1 DEF Spot!EndsInUnit
  <1>4. Spot!RunExact' /\ Spot!PatternSound' /\ Spot!PatternFound'
    BY <1>1, <1>2, <1>3 DEF SpotIInv, Spot!RunExact, Spot!PatternSound, Spot!PatternFound
  <1> QED
    BY <1>1, <1>4 DEF SpotIInv

-----------------------------------------------------------------------------
(* The proxy's buffer                                                       *)

\* NewlineAt is the first newline, or 0.
LEMMA NewlineIs ==
    ASSUME NEW t \in Seq(Pieces)
    PROVE  LET a == Chat!Lines!NewlineAt(t)
           IN /\ a \in 0..Len(t)
              /\ a = 0 => \A i \in 1..Len(t) : t[i] # "nl"
              /\ a # 0 => t[a] = "nl" /\ \A i \in 1..a - 1 : t[i] # "nl"
  <1>1. PICK E : E = {i \in DOMAIN t : t[i] = "nl"}
    OBVIOUS
  <1>2. E \in SUBSET Nat /\ \A i : i \in E <=> i \in 1..Len(t) /\ t[i] = "nl"
    BY <1>1
  <1>3. PICK a : a = IF E = {} THEN 0 ELSE CHOOSE x \in E : \A y \in E : x =< y
    OBVIOUS
  <1>4. E # {} => \E n \in E : \A m \in E : n <= m
    BY <1>2, LeastNat
  <1>5. E # {} => a \in E /\ \A y \in E : a =< y
    BY <1>3, <1>4
  <1>6. a = Chat!Lines!NewlineAt(t)
    BY <1>1, <1>3 DEF Chat!Lines!NewlineAt, Chat!Lines!Min
  <1>7. CASE E = {}
    <2>1. a = 0
      BY <1>3, <1>7
    <2> QED
      BY <1>2, <1>6, <1>7, <2>1
  <1>8. CASE E # {}
    <2>1. a \in 1..Len(t) /\ t[a] = "nl" /\ \A i \in 1..a - 1 : t[i] # "nl"
      <3>1. a \in 1..Len(t) /\ t[a] = "nl"
        BY <1>2, <1>5, <1>8
      <3>2. \A i \in 1..a - 1 : i \in 1..Len(t) /\ ~(a <= i)
        BY <3>1
      <3> QED
        BY <1>2, <1>5, <1>8, <3>1, <3>2
    <2> QED
      BY <1>6, <2>1
  <1> QED
    BY <1>7, <1>8

\* What process_line makes of a line: pieces, and whether it ends the stream.
LEMMA LineMakes ==
    ASSUME NEW d, NEW line \in Seq(Pieces)
    PROVE  /\ Chat!Lines!ProcessLine(d, line).text \in Seq(Pieces)
           /\ Chat!Lines!ProcessLine(d, line).ends \in BOOLEAN
  <1>1. PICK p : p = Chat!Lines!ProcessLine(d, line)
    OBVIOUS
  <1>2. PICK fed1 : fed1 = IF Chat!Lines!IsDelta(line) THEN Chat!Lines!Feed(d, Chat!Lines!DeltaText(line))
                           ELSE [det |-> d, verdict |-> "none"]
    OBVIOUS
  <1>3. \/ p = [det |-> d, text |-> <<"do", "ne", "nl", "nl">>, ends |-> TRUE]
        \/ p = [det |-> d, text |-> <<"ev", "nl", "er", "ror", "nl", "nl">>, ends |-> TRUE]
        \/ p = [det |-> fed1.det, text |-> line \o <<"nl">>, ends |-> FALSE]
        \/ p = [det |-> fed1.det, text |-> <<"guard", "nl", "nl", "do", "ne", "nl", "nl">>, ends |-> TRUE]
    BY <1>1, <1>2 DEF Chat!Lines!ProcessLine, Chat!Lines!DoneEvent, Chat!Lines!ErrorEvent, Chat!Lines!Breaker
  <1>0. {"do", "ne", "nl", "ev", "er", "ror", "guard"} \subseteq Pieces
    BY DEF Pieces
  <1>4. line \o <<"nl">> \in Seq(Pieces)
    <2>1. <<"nl">> \in Seq(Pieces)
      BY <1>0
    <2> QED
      BY <2>1, ConcatProperties
  <1>5. /\ <<"do", "ne", "nl", "nl">> \in Seq(Pieces)
        /\ <<"ev", "nl", "er", "ror", "nl", "nl">> \in Seq(Pieces)
        /\ <<"guard", "nl", "nl", "do", "ne", "nl", "nl">> \in Seq(Pieces)
    BY <1>0
  <1>6. p.text \in Seq(Pieces) /\ p.ends \in BOOLEAN
    <2>1. CASE p = [det |-> d, text |-> <<"do", "ne", "nl", "nl">>, ends |-> TRUE]
      <3>1. p.text = <<"do", "ne", "nl", "nl">> /\ p.ends = TRUE
        BY <2>1
      <3> QED
        BY <1>5, <3>1
    <2>2. CASE p = [det |-> d, text |-> <<"ev", "nl", "er", "ror", "nl", "nl">>, ends |-> TRUE]
      <3>1. p.text = <<"ev", "nl", "er", "ror", "nl", "nl">> /\ p.ends = TRUE
        BY <2>2
      <3> QED
        BY <1>5, <3>1
    <2>3. CASE p = [det |-> fed1.det, text |-> line \o <<"nl">>, ends |-> FALSE]
      <3>1. p.text = line \o <<"nl">> /\ p.ends = FALSE
        BY <2>3
      <3> QED
        BY <1>4, <3>1
    <2>4. CASE p = [det |-> fed1.det, text |-> <<"guard", "nl", "nl", "do", "ne", "nl", "nl">>, ends |-> TRUE]
      <3>1. p.text = <<"guard", "nl", "nl", "do", "ne", "nl", "nl">> /\ p.ends = TRUE
        BY <2>4
      <3> QED
        BY <1>5, <3>1
    <2> QED
      BY <1>3, <2>1, <2>2, <2>3, <2>4
  <1> QED
    BY <1>1, <1>6

\* A buffer and its record in the fold.
Buffered(s) ==
    s.buf \in Seq(Pieces) /\ s.out \in Seq(Pieces) /\ s.done \in BOOLEAN

\* One sequence begins with another.
Begins(a, b) == Len(a) <= Len(b) /\ \A i \in 1..Len(a) : b[i] = a[i]

\* One line is taken: the buffer gets shorter, or there is nothing to take.
LEMMA TakeLineMakes ==
    ASSUME NEW s, Buffered(s)
    PROVE  LET z == Chat!TakeLine(s)
           IN /\ Buffered(z) /\ Begins(s.out, z.out)
              /\ \/ z = s /\ (s.done \/ Chat!Lines!NewlineAt(s.buf) = 0)
                 \/ Len(z.buf) < Len(s.buf)
  <1>1. PICK b \in Seq(Pieces), o \in Seq(Pieces) : b = s.buf /\ o = s.out
    BY DEF Buffered
  <1>2. PICK a \in 0..Len(b) : a = Chat!Lines!NewlineAt(b)
    BY NewlineIs
  <1>3. PICK z : z = Chat!TakeLine(s)
    OBVIOUS
  <1>4. CASE s.done \/ a = 0
    <2>1. z = s
      BY <1>1, <1>2, <1>3, <1>4 DEF Chat!TakeLine
    <2>2. Begins(o, o)
      BY DEF Begins
    <2> QED
      BY <1>1, <1>2, <1>3, <1>4, <2>1, <2>2
  <1>5. CASE ~(s.done \/ a = 0)
    <2>1. PICK line : line = SubSeq(b, 1, a - 1)
      OBVIOUS
    <2>2. PICK p : p = Chat!Lines!ProcessLine(s.det, line)
      OBVIOUS
    <2>3. z = [buf |-> SubSeq(b, a + 1, Len(b)), det |-> p.det, out |-> o \o p.text, done |-> p.ends]
      BY <1>1, <1>2, <1>3, <1>5, <2>1, <2>2 DEF Chat!TakeLine
    <2>4. line \in Seq(Pieces)
      BY <1>5, <2>1
    <2>5. p.text \in Seq(Pieces) /\ p.ends \in BOOLEAN
      BY <2>2, <2>4, LineMakes
    <2>6. PICK x \in Seq(Pieces) : x = p.text
      BY <2>5
    <2>7. o \o x \in Seq(Pieces) /\ Begins(o, o \o x)
      <3>1. /\ o \o x \in Seq(Pieces) /\ Len(o \o x) = Len(o) + Len(x)
            /\ \A i \in 1..Len(o) + Len(x) : (o \o x)[i] = IF i <= Len(o) THEN o[i] ELSE x[i - Len(o)]
        BY ConcatProperties
      <3>2. \A i \in 1..Len(o) : i \in 1..Len(o) + Len(x) /\ i <= Len(o)
        OBVIOUS
      <3> QED
        BY <3>1, <3>2 DEF Begins
    <2>8. SubSeq(b, a + 1, Len(b)) \in Seq(Pieces) /\ Len(SubSeq(b, a + 1, Len(b))) < Len(b)
      <3>1. a \in 1..Len(b)
        BY <1>5
      <3>2. a + 1 \in Int /\ Len(b) \in Int /\ \A i \in a + 1..Len(b) : b[i] \in Pieces
        BY <3>1
      <3>3. /\ SubSeq(b, a + 1, Len(b)) \in Seq(Pieces)
            /\ Len(SubSeq(b, a + 1, Len(b))) = IF a + 1 <= Len(b) THEN Len(b) - (a + 1) + 1 ELSE 0
        BY <3>2, SubSeqProperties
      <3> QED
        BY <3>1, <3>3
    <2>9. /\ z.buf = SubSeq(b, a + 1, Len(b)) /\ z.out = o \o x /\ z.done = p.ends
      BY <2>3, <2>6
    <2> QED
      BY <1>1, <1>3, <2>5, <2>7, <2>8, <2>9 DEF Buffered
  <1> QED
    BY <1>4, <1>5

IterTake(g, b, s) ==
    g = [S \in SUBSET DOMAIN s |-> IF S = {} THEN b ELSE Chat!TakeLine(g[S \ {Max(S)}])]

TakenFrom(b, s) == (CHOOSE g : IterTake(g, b, s))[DOMAIN s]

\* The fold of feed takes line after line.
LEMMA TakeSteps ==
    ASSUME NEW b, NEW A, NEW s \in Seq(A)
    PROVE  Runs("take", b, s, Len(s), TakenFrom(b, s))
  <1>1. DOMAIN s = 1..Len(s) /\ Len(s) \in Nat
    OBVIOUS
  <1>2. TakenFrom(b, s) = (CHOOSE g : IterTake(g, b, s))[DOMAIN s]
    BY DEF TakenFrom
  <1>3. \A g : IterTake(g, b, s) <=> Iter("take", g, b, s, DOMAIN s)
    BY DEF IterTake, Iter, Op
  <1>4. \E g : Iter("take", g, b, s, DOMAIN s)
    BY <1>1, IterExists
  <1>5. PICK g : g = CHOOSE h : IterTake(h, b, s)
    OBVIOUS
  <1>6. Iter("take", g, b, s, DOMAIN s)
    BY <1>3, <1>4, <1>5
  <1> DEFINE n == Len(s)
  <1>7. n \in Nat /\ Iter("take", g, b, s, 1..n)
    BY <1>1, <1>6
  <1> HIDE DEF n
  <1>8. Runs("take", b, s, n, g[1..n])
    BY <1>7, IterSteps
  <1> QED
    BY <1>1, <1>2, <1>5, <1>8 DEF n

\* What begins with a sequence begins with its beginning.
LEMMA BeginsTwice ==
    ASSUME NEW a \in Seq(Pieces), NEW b \in Seq(Pieces), NEW c \in Seq(Pieces), Begins(a, b), Begins(b, c)
    PROVE  Begins(a, c)
  <1>1. \A i \in 1..Len(a) : i \in 1..Len(b)
    BY DEF Begins
  <1> QED
    BY <1>1 DEF Begins

\* Afterwards no whole line is left, or the stream is done.
LEMMA AllTaken ==
    ASSUME NEW b, Buffered(b), NEW s \in Seq(Pieces), s = b.buf
    PROVE  LET z == TakenFrom(b, s)
           IN Buffered(z) /\ Begins(b.out, z.out) /\ (Chat!Lines!NewlineAt(z.buf) = 0 \/ z.done)
  <1>1. PICK n \in Nat : n = Len(s)
    OBVIOUS
  <1>2. PICK r : /\ r[0] = b /\ r[n] = TakenFrom(b, s)
                 /\ \A i \in 1..n : r[i] = Chat!TakeLine(r[i - 1])
    <2>1. Runs("take", b, s, n, TakenFrom(b, s))
      BY <1>1, TakeSteps
    <2> QED
      BY <2>1 DEF Runs, Op
  <1> DEFINE Over(z) == z.done \/ Chat!Lines!NewlineAt(z.buf) = 0
  <1> DEFINE Good(i) == /\ Buffered(r[i]) /\ Begins(b.out, r[i].out)
                        /\ Over(r[i]) \/ Len(r[i].buf) <= n - i
  <1> DEFINE P == {i \in 0..n : Good(i)}
  <1>3. 0 \in P
    <2>1. b.out \in Seq(Pieces)
      BY DEF Buffered
    <2>2. Begins(b.out, b.out)
      BY <2>1 DEF Begins
    <2> QED
      BY <1>1, <1>2, <2>2
  <1>4. ASSUME NEW i \in 0..n, i < n, i \in P PROVE i + 1 \in P
    <2>1. i + 1 \in 1..n /\ (i + 1) - 1 = i /\ i + 1 \in 0..n
      BY <1>4
    <2>2. PICK x, y : x = r[i] /\ y = r[i + 1]
      OBVIOUS
    <2>3. y = Chat!TakeLine(x)
      BY <1>2, <2>1, <2>2
    <2>4. Buffered(x) /\ Begins(b.out, x.out) /\ (Over(x) \/ Len(x.buf) <= n - i)
      BY <1>4, <2>2
    <2>5. Buffered(y) /\ Begins(x.out, y.out) /\ ((y = x /\ Over(x)) \/ Len(y.buf) < Len(x.buf))
      BY <2>3, <2>4, TakeLineMakes
    <2>6. Begins(b.out, y.out)
      BY <2>4, <2>5, BeginsTwice DEF Buffered
    <2>7. Over(y) \/ Len(y.buf) <= n - (i + 1)
      <3>1. CASE y = x /\ Over(x)
        BY <3>1
      <3>2. CASE Len(y.buf) < Len(x.buf) /\ Len(x.buf) <= n - i
        <4>1. Len(y.buf) \in Nat /\ Len(x.buf) \in Nat
          BY <2>4, <2>5 DEF Buffered
        <4> QED
          BY <3>2, <4>1
      <3>3. CASE Len(y.buf) < Len(x.buf) /\ Over(x)
        <4>1. y = x
          BY <2>3, <3>3 DEF Chat!TakeLine
        <4>2. Len(x.buf) \in Nat
          BY <2>4 DEF Buffered
        <4> QED
          BY <3>3, <4>1, <4>2
      <3> HIDE DEF Over
      <3> QED
        BY <2>4, <2>5, <3>1, <3>2, <3>3
    <2> HIDE DEF Over
    <2> QED
      BY <2>1, <2>2, <2>5, <2>6, <2>7
  <1> HIDE DEF P
  <1>5. n \in P
    <2>1. n \in 0..n
      OBVIOUS
    <2> QED
      BY <1>3, <1>4, <2>1, Induction
  <1>6. Good(n)
    BY <1>5 DEF P
  <1>7. PICK z : z = r[n]
    OBVIOUS
  <1>8. Buffered(z) /\ Begins(b.out, z.out) /\ (Over(z) \/ Len(z.buf) <= 0)
    BY <1>6, <1>7
  <1>9. Len(z.buf) <= 0 => Chat!Lines!NewlineAt(z.buf) = 0
    <2>1. PICK t \in Seq(Pieces) : t = z.buf
      BY <1>8 DEF Buffered
    <2>2. PICK a \in 0..Len(t) : a = Chat!Lines!NewlineAt(t)
      BY NewlineIs
    <2> QED
      BY <2>1, <2>2
  <1> QED
    BY <1>2, <1>7, <1>8, <1>9

-----------------------------------------------------------------------------
\* decode_to_string makes pieces, and holds back a lead byte or nothing.
LEMMA DecodeMakes ==
    ASSUME NEW bytes \in Seq(Pieces), NEW end
    PROVE  LET d == Chat!Decode(bytes, end)
           IN d.text \in Seq(Pieces) /\ d.held \in {<<>>, <<"lead">>}
  <1>1. PICK now : now = IF Chat!Incomplete(bytes, end) THEN Chat!Front(bytes) ELSE bytes
    OBVIOUS
  <1>2. now \in Seq(Pieces)
    <2>1. CASE Chat!Incomplete(bytes, end)
      <3>1. bytes # <<>>
        BY <2>1 DEF Chat!Incomplete
      <3>2. Len(bytes) \in Nat /\ Len(bytes) > 0
        BY <3>1, EmptySeq
      <3>3. now = SubSeq(bytes, 1, Len(bytes) - 1)
        BY <1>1, <2>1 DEF Chat!Front
      <3>4. 1 \in Int /\ Len(bytes) - 1 \in Int /\ \A i \in 1..Len(bytes) - 1 : bytes[i] \in Pieces
        BY <3>2
      <3> QED
        BY <3>3, <3>4, SubSeqProperties
    <2>2. CASE ~Chat!Incomplete(bytes, end)
      BY <1>1, <2>2
    <2> QED
      BY <2>1, <2>2
  <1>3. PICK s : s = [i \in DOMAIN now |-> Chat!PieceOf(now, i)]
    OBVIOUS
  <1>4. {"bad", "e2"} \subseteq Pieces
    BY DEF Pieces
  <1>5. ASSUME NEW i \in 1..Len(now) PROVE Chat!PieceOf(now, i) \in Seq(Pieces)
    <2>1. now[i] \in Pieces
      BY <1>2, <1>5
    <2>2. /\ <<>> \in Seq(Pieces) /\ <<"bad">> \in Seq(Pieces) /\ <<"e2">> \in Seq(Pieces)
          /\ <<now[i]>> \in Seq(Pieces)
      BY <1>4, <2>1
    <2>3. Chat!PieceOf(now, i) \in {<<>>, <<"bad">>, <<"e2">>, <<now[i]>>}
      BY DEF Chat!PieceOf, Chat!Second, Chat!Unpaired
    <2> QED
      BY <2>2, <2>3
  <1>6. s \in Seq(Seq(Pieces))
    <2>1. DOMAIN now = 1..Len(now) /\ Len(now) \in Nat
      BY <1>2
    <2> QED
      BY <1>3, <1>5, <2>1
  <1>7. FlattenSeq(s) \in Seq(Pieces)
    BY <1>6, FlattenSolves
  <1>8. Chat!Decode(bytes, end).text = FlattenSeq(s)
    BY <1>1, <1>3 DEF Chat!Decode, Chat!FlattenSeq, FlattenSeq
  <1>9. Chat!Decode(bytes, end).held \in {<<>>, <<"lead">>}
    BY DEF Chat!Decode
  <1> QED
    BY <1>7, <1>8, <1>9

\* What feed does with a chunk, before the stream is done.
LEMMA ChunkIsTaken ==
    ASSUME NEW n, Chat!FeedChunk(n), ~done
    PROVE  LET d == Chat!Decode(held \o SubSeq(up, 1, n), FALSE)
               s == TakenFrom([buf |-> lineBuf \o d.text, det |-> det, out |-> out, done |-> done],
                              lineBuf \o d.text)
           IN held' = d.held /\ lineBuf' = s.buf /\ det' = s.det /\ out' = s.out /\ done' = s.done
  BY DEF Chat!FeedChunk, Chat!FoldLeft, Chat!MapThenFoldSet, Chat!Max, Max, IterTake, TakenFrom

\* An event is made of pieces, and so is what it is sent after; the stream only grows.
LEMMA Sent ==
    ASSUME NEW a \in Seq(Pieces), NEW x \in Seq(Pieces)
    PROVE  a \o x \in Seq(Pieces) /\ Begins(a, a \o x) /\ Begins(a, a)
  <1>1. /\ a \o x \in Seq(Pieces) /\ Len(a \o x) = Len(a) + Len(x)
        /\ \A i \in 1..Len(a) + Len(x) : (a \o x)[i] = IF i <= Len(a) THEN a[i] ELSE x[i - Len(a)]
    BY ConcatProperties
  <1>2. \A i \in 1..Len(a) : i \in 1..Len(a) + Len(x) /\ i <= Len(a)
    OBVIOUS
  <1> QED
    BY <1>1, <1>2 DEF Begins

\* The sanitizer, with the types of all it holds.
Sanitizer ==
    /\ up \in Seq(Pieces) /\ lineBuf \in Seq(Pieces) /\ out \in Seq(Pieces)
    /\ Chat!TypeOK

\* It keeps its types, and what it has sent is sent; when it has finished it
\* sends no more.
LEMMA SanitizerStep ==
    ASSUME Sanitizer, Chat!Next
    PROVE  Sanitizer' /\ Begins(out, out') /\ ~finished
  <1>0. /\ held \in {<<>>, <<"lead">>} /\ done \in BOOLEAN /\ finished \in BOOLEAN
        /\ held \in Seq(Pieces)
        /\ Chat!Lines!NewlineAt(lineBuf) = 0 \/ done
        /\ up \in Seq(Pieces) /\ lineBuf \in Seq(Pieces) /\ out \in Seq(Pieces)
    <2>1. "lead" \in Pieces
      BY DEF Pieces
    <2>2. <<"lead">> \in Seq(Pieces) /\ <<>> \in Seq(Pieces)
      BY <2>1
    <2> QED
      BY <2>2 DEF Sanitizer, Chat!TypeOK
  <1>00. Begins(out, out)
    BY <1>0 DEF Begins
  <1>1. CASE \E n \in 1..Len(up) : Chat!FeedChunk(n)
    <2>1. PICK n \in 1..Len(up) : Chat!FeedChunk(n)
      BY <1>1
    <2>2. SubSeq(up, 1, n) \in Seq(Pieces) /\ SubSeq(up, n + 1, Len(up)) \in Seq(Pieces)
      <3>1. /\ Len(up) \in Nat /\ n \in Nat
            /\ \A i \in 1..n : up[i] \in Pieces
            /\ \A i \in n + 1..Len(up) : up[i] \in Pieces
        BY <1>0
      <3> QED
        BY <1>0, <3>1, SubSeqProperties
    <2>3. ~finished /\ finished' = finished /\ up' = SubSeq(up, n + 1, Len(up))
      BY <2>1 DEF Chat!FeedChunk
    <2>4. CASE done
      <3>1. held' = held /\ lineBuf' = lineBuf /\ det' = det /\ out' = out /\ done' = done
        BY <2>1, <2>4 DEF Chat!FeedChunk
      <3> QED
        BY <1>0, <1>00, <2>2, <2>3, <2>4, <3>1 DEF Sanitizer, Chat!TypeOK
    <2>5. CASE ~done
      <3>1. PICK d : d = Chat!Decode(held \o SubSeq(up, 1, n), FALSE)
        OBVIOUS
      <3>2. d.text \in Seq(Pieces) /\ d.held \in {<<>>, <<"lead">>}
        <4>1. held \o SubSeq(up, 1, n) \in Seq(Pieces)
          BY <1>0, <2>2, ConcatProperties
        <4> QED
          BY <3>1, <4>1, DecodeMakes
      <3>3. PICK t \in Seq(Pieces) : t = lineBuf \o d.text
        BY <1>0, <3>2, ConcatProperties
      <3>4. PICK b : b = [buf |-> t, det |-> det, out |-> out, done |-> done]
        OBVIOUS
      <3>5. PICK s : s = TakenFrom(b, t)
        OBVIOUS
      <3>6. held' = d.held /\ lineBuf' = s.buf /\ det' = s.det /\ out' = s.out /\ done' = s.done
        BY <2>1, <2>5, <3>1, <3>3, <3>4, <3>5, ChunkIsTaken
      <3>7. b.buf = t /\ b.out = out /\ b.done = done
        BY <3>4
      <3>8. Buffered(b)
        BY <1>0, <3>7 DEF Buffered
      <3>9. Buffered(s) /\ Begins(out, s.out) /\ (Chat!Lines!NewlineAt(s.buf) = 0 \/ s.done)
        BY <3>3, <3>5, <3>7, <3>8, AllTaken
      <3> QED
        BY <1>0, <2>2, <2>3, <3>2, <3>6, <3>9 DEF Sanitizer, Chat!TypeOK, Buffered
    <2> QED
      BY <2>4, <2>5
  <1>2. CASE Chat!Finish
    <2>1. ~finished /\ finished' = TRUE /\ held' = <<>> /\ up' = up
      BY <1>2 DEF Chat!Finish
    <2>2. CASE done
      <3>1. lineBuf' = lineBuf /\ det' = det /\ out' = out /\ done' = done
        BY <1>2, <2>2 DEF Chat!Finish
      <3> QED
        BY <1>0, <1>00, <2>1, <2>2, <3>1 DEF Sanitizer, Chat!TypeOK
    <2>3. CASE ~done
      <3>1. PICK t : t = lineBuf \o Chat!Decode(held, TRUE).text
        OBVIOUS
      <3>2. t \in Seq(Pieces)
        <4>1. Chat!Decode(held, TRUE).text \in Seq(Pieces)
          BY <1>0, DecodeMakes
        <4> QED
          BY <1>0, <3>1, <4>1, ConcatProperties
      <3>3. PICK p : p = Chat!Lines!ProcessLine(det, t)
        OBVIOUS
      <3>4. p.text \in Seq(Pieces) /\ p.ends \in BOOLEAN
        BY <3>2, <3>3, LineMakes
      <3>5. /\ lineBuf' = <<>>
            /\ \/ out' = out /\ done' = done
               \/ out' = out \o p.text /\ done' = p.ends
        BY <1>2, <2>3, <3>1, <3>3 DEF Chat!Finish
      <3>6. out' \in Seq(Pieces) /\ Begins(out, out') /\ done' \in BOOLEAN
        BY <1>0, <3>4, <3>5, Sent
      <3>7. <<>> \in Seq(Pieces) /\ Chat!Lines!NewlineAt(<<>>) = 0
        <4>0. <<>> \in Seq(Pieces)
          OBVIOUS
        <4>1. PICK z \in Seq(Pieces) : z = <<>>
          BY <4>0
        <4>2. PICK a \in 0..Len(z) : a = Chat!Lines!NewlineAt(z)
          BY NewlineIs
        <4> QED
          BY <4>1, <4>2
      <3> QED
        BY <1>0, <2>1, <3>5, <3>6, <3>7 DEF Sanitizer, Chat!TypeOK
    <2> QED
      BY <2>2, <2>3
  <1>3. CASE Chat!UpstreamLost
    <2>1. /\ ~finished /\ finished' = TRUE /\ out' = out \o Chat!Lines!ErrorEvent
          /\ up' = up /\ held' = held /\ lineBuf' = lineBuf /\ det' = det /\ done' = done
      BY <1>3 DEF Chat!UpstreamLost
    <2>2. Chat!Lines!ErrorEvent \in Seq(Pieces)
      <3>1. {"ev", "nl", "er", "ror"} \subseteq Pieces
        BY DEF Pieces
      <3> QED
        BY <3>1 DEF Chat!Lines!ErrorEvent
    <2>3. out' \in Seq(Pieces) /\ Begins(out, out')
      BY <1>0, <2>1, <2>2, Sent
    <2> QED
      BY <1>0, <2>1, <2>3 DEF Sanitizer, Chat!TypeOK
  <1> QED
    BY <1>1, <1>2, <1>3 DEF Chat!Next

-----------------------------------------------------------------------------
(* The client's completion                                                  *)

\* Where the line begins that the newline at i ends, less one.
Newlines(o, i) == {0} \cup {j \in 1..i - 1 : o[j] = "nl"}

\* It is the last newline before i, or 0.
LEMMA LastNewline ==
    ASSUME NEW o \in Seq(Pieces), NEW i \in 1..Len(o) + 1
    PROVE  /\ Chat!Max(Newlines(o, i)) \in 0..i - 1
           /\ \A j \in 1..i - 1 : o[j] = "nl" => j <= Chat!Max(Newlines(o, i))
           /\ Chat!LineAt(o, i) = SubSeq(o, Chat!Max(Newlines(o, i)) + 1, i - 1)
  <1> DEFINE P == {k \in 0..i - 1 :
                      \E m \in 0..k : m \in Newlines(o, i) /\ \A j \in 1..k : o[j] = "nl" => j <= m}
  <1>1. i - 1 \in Nat
    OBVIOUS
  <1>2. 0 \in P
    <2>1. 0 \in Newlines(o, i) /\ 0 \in 0..0 /\ 0 \in 0..i - 1
      BY <1>1 DEF Newlines
    <2> QED
      BY <2>1
  <1>3. ASSUME NEW k \in 0..i - 1, k < i - 1, k \in P PROVE k + 1 \in P
    <2>1. PICK m \in 0..k : m \in Newlines(o, i) /\ \A j \in 1..k : o[j] = "nl" => j <= m
      BY <1>3
    <2>2. k + 1 \in 1..i - 1 /\ k + 1 \in 0..i - 1 /\ \A j \in 1..k + 1 : j = k + 1 \/ j \in 1..k
      BY <1>3
    <2>3. CASE o[k + 1] = "nl"
      <3>1. k + 1 \in Newlines(o, i)
        BY <2>2, <2>3 DEF Newlines
      <3> QED
        BY <2>2, <3>1
    <2>4. CASE o[k + 1] # "nl"
      <3>1. m \in 0..k + 1
        OBVIOUS
      <3> QED
        BY <2>1, <2>2, <2>4, <3>1
    <2> QED
      BY <2>3, <2>4
  <1> HIDE DEF P
  <1>4. i - 1 \in P
    <2>1. i - 1 \in 0..i - 1
      BY <1>1
    <2> QED
      BY <1>1, <1>2, <1>3, <2>1, Induction
  <1>5. PICK m \in 0..i - 1 : m \in Newlines(o, i) /\ \A j \in 1..i - 1 : o[j] = "nl" => j <= m
    BY <1>4 DEF P
  <1>6. \A y \in Newlines(o, i) : y \in Nat /\ m >= y
    BY <1>5 DEF Newlines
  <1>7. PICK x : x = Chat!Max(Newlines(o, i))
    OBVIOUS
  <1>8. x \in Newlines(o, i) /\ \A y \in Newlines(o, i) : x >= y
    BY <1>5, <1>6, <1>7 DEF Chat!Max
  <1>9. x = m
    BY <1>5, <1>6, <1>8
  <1>10. Chat!LineAt(o, i) = SubSeq(o, Chat!Max(Newlines(o, i)) + 1, i - 1)
    BY DEF Chat!LineAt, Newlines
  <1> QED
    BY <1>5, <1>7, <1>9, <1>10

\* A line is made of pieces; it begins after a newline, and grows by what is none.
LEMMA LineGrows ==
    ASSUME NEW o \in Seq(Pieces), NEW p \in 0..Len(o)
    PROVE  /\ Chat!LineAt(o, p + 1) \in Seq(Pieces)
           /\ p = 0 => Chat!LineAt(o, p + 1) = <<>>
           /\ p < Len(o) /\ o[p + 1] = "nl" => Chat!LineAt(o, p + 2) = <<>>
           /\ p < Len(o) /\ o[p + 1] # "nl" =>
                 Chat!LineAt(o, p + 2) = Append(Chat!LineAt(o, p + 1), o[p + 1])
  <1>0. p \in Nat /\ Len(o) \in Nat /\ p <= Len(o) /\ (p + 1) - 1 = p /\ (p + 2) - 1 = p + 1
    OBVIOUS
  <1>1. PICK m : m = Chat!Max(Newlines(o, p + 1))
    OBVIOUS
  <1>2. m \in 0..p /\ Chat!LineAt(o, p + 1) = SubSeq(o, m + 1, p)
    <2>1. p + 1 \in 1..Len(o) + 1
      BY <1>0
    <2> QED
      BY <1>0, <1>1, <2>1, LastNewline
  <1>3. Chat!LineAt(o, p + 1) \in Seq(Pieces)
    <2>1. m + 1 \in Int /\ p \in Int /\ \A i \in m + 1..p : o[i] \in Pieces
      BY <1>0, <1>2
    <2> QED
      BY <1>2, <2>1, SubSeqProperties
  <1>4. p = 0 => Chat!LineAt(o, p + 1) = <<>>
    BY <1>2
  <1>5. ASSUME p < Len(o), o[p + 1] = "nl" PROVE Chat!LineAt(o, p + 2) = <<>>
    <2>1. PICK k : k = Chat!Max(Newlines(o, p + 2))
      OBVIOUS
    <2>2. p + 2 \in 1..Len(o) + 1 /\ p + 1 \in 1..p + 1
      BY <1>0, <1>5
    <2>3. k \in 0..p + 1 /\ p + 1 <= k /\ Chat!LineAt(o, p + 2) = SubSeq(o, k + 1, p + 1)
      BY <1>0, <1>5, <2>1, <2>2, LastNewline
    <2>4. k = p + 1
      BY <2>3
    <2> QED
      BY <2>3, <2>4
  <1>6. ASSUME p < Len(o), o[p + 1] # "nl"
        PROVE  Chat!LineAt(o, p + 2) = Append(Chat!LineAt(o, p + 1), o[p + 1])
    <2>1. p + 2 \in 1..Len(o) + 1 /\ \A j \in 1..p + 1 : j \in 1..p \/ j = p + 1
      BY <1>0, <1>6
    <2>2. Newlines(o, p + 2) = Newlines(o, p + 1)
      <3>1. 1..p \subseteq 1..p + 1
        BY <1>0
      <3> QED
        BY <1>0, <1>6, <2>1, <3>1 DEF Newlines
    <2>3. Chat!LineAt(o, p + 2) = SubSeq(o, m + 1, p + 1)
      BY <1>0, <1>1, <2>1, <2>2, LastNewline
    <2>4. SubSeq(o, m + 1, p + 1) = Append(SubSeq(o, m + 1, p), o[p + 1])
      <3>1. /\ m + 1 \in Int /\ p \in Int /\ p + 1 \in Int
            /\ \A i \in m + 1..p : o[i] \in Pieces
            /\ \A i \in m + 1..p + 1 : o[i] \in Pieces
            /\ m + 1 <= p + 1
        BY <1>0, <1>2, <1>6
      <3>2. PICK u : u = SubSeq(o, m + 1, p)
        OBVIOUS
      <3>3. PICK v : v = SubSeq(o, m + 1, p + 1)
        OBVIOUS
      <3>4. /\ u \in Seq(Pieces) /\ Len(u) = p - m
            /\ \A i \in 1..p - m : u[i] = o[m + i]
        BY <1>2, <3>1, <3>2
      <3>5. /\ v \in Seq(Pieces) /\ Len(v) = p - m + 1
            /\ \A i \in 1..p - m + 1 : v[i] = o[m + i]
        BY <1>2, <3>1, <3>3
      <3>6. PICK x \in Pieces : x = o[p + 1]
        BY <1>0, <1>6
      <3>7. PICK w : w = Append(u, x)
        OBVIOUS
      <3>8. /\ w \in Seq(Pieces) /\ Len(w) = Len(u) + 1
            /\ \A i \in 1..Len(u) : w[i] = u[i]
            /\ w[Len(u) + 1] = x
        BY <3>4, <3>7, AppendProperties
      <3>9. \A i \in 1..Len(v) : v[i] = w[i]
        <4>1. \A i \in 1..p - m + 1 : i \in 1..p - m \/ i = p - m + 1
          BY <1>0, <1>2
        <4>2. m + (p - m + 1) = p + 1 /\ p - m + 1 \in 1..p - m + 1
          BY <1>2
        <4>3. v[p - m + 1] = x
          BY <3>5, <3>6, <4>2
        <4>4. \A i \in 1..p - m : i \in 1..p - m + 1
          BY <1>0, <1>2
        <4> QED
          BY <3>4, <3>5, <3>8, <4>1, <4>3, <4>4
      <3>10. v = w
        <4>1. Len(v) = Len(w)
          BY <3>4, <3>5, <3>8
        <4> QED
          BY <3>5, <3>8, <3>9, <4>1, SeqEqual
      <3> QED
        BY <3>2, <3>3, <3>6, <3>7, <3>10
    <2> QED
      BY <1>2, <2>3, <2>4
  <1> QED
    BY <1>3, <1>4, <1>5, <1>6

\* Of a stream that only grows the lines stay.
LEMMA LineAgrees ==
    ASSUME NEW o \in Seq(Pieces), NEW z \in Seq(Pieces), Begins(o, z), NEW i \in 1..Len(o) + 1
    PROVE  Chat!LineAt(z, i) = Chat!LineAt(o, i)
  <1>1. \A j \in 1..i - 1 : z[j] = o[j] /\ j \in 1..Len(o)
    BY DEF Begins
  <1>2. Newlines(z, i) = Newlines(o, i)
    BY <1>1 DEF Newlines
  <1>3. PICK m : m = Chat!Max(Newlines(o, i))
    OBVIOUS
  <1>4. i \in 1..Len(z) + 1
    <2>1. Len(o) \in Nat /\ Len(z) \in Nat /\ Len(o) <= Len(z)
      BY DEF Begins
    <2> QED
      BY <2>1
  <1>5. m \in 0..i - 1 /\ Chat!LineAt(o, i) = SubSeq(o, m + 1, i - 1)
    BY <1>3, LastNewline
  <1>6. Chat!LineAt(z, i) = SubSeq(z, m + 1, i - 1)
    BY <1>2, <1>3, <1>4, LastNewline
  <1>7. SubSeq(z, m + 1, i - 1) = SubSeq(o, m + 1, i - 1)
    <2>1. /\ m + 1 \in Int /\ i - 1 \in Int
          /\ \A j \in m + 1..i - 1 : j \in 1..i - 1 /\ o[j] \in Pieces /\ z[j] \in Pieces /\ z[j] = o[j]
      BY <1>1, <1>4, <1>5
    <2>2. PICK u : u = SubSeq(o, m + 1, i - 1)
      OBVIOUS
    <2>3. PICK v : v = SubSeq(z, m + 1, i - 1)
      OBVIOUS
    <2>4. /\ u \in Seq(Pieces) /\ Len(u) = i - 1 - m
          /\ \A k \in 1..i - 1 - m : u[k] = o[m + k]
      BY <1>5, <2>1, <2>2
    <2>5. /\ v \in Seq(Pieces) /\ Len(v) = i - 1 - m
          /\ \A k \in 1..i - 1 - m : v[k] = z[m + k]
      BY <1>5, <2>1, <2>3
    <2>6. \A k \in 1..i - 1 - m : m + k \in 1..i - 1
      BY <1>5
    <2>7. \A k \in 1..Len(v) : v[k] = u[k]
      BY <1>1, <2>4, <2>5, <2>6
    <2> QED
      BY <2>2, <2>3, <2>4, <2>5, <2>7, SeqEqual
  <1> QED
    BY <1>5, <1>6, <1>7

-----------------------------------------------------------------------------
\* The end of the stream, and the lines before it.
DoneAt(o, j) == o[j] = "nl" /\ Chat!LineAt(o, j) = Chat!Lines!DoneLine
Heard(o, i) == o[i] = "nl" /\ \A j \in 1..i : ~DoneAt(o, j)

\* What a line says: of the text, or of one of the calls; and what the stream
\* says up to a place.
SaysIn(line, k) == IF k = 0 THEN Chat!TextOf(line) ELSE Chat!FragmentOf(line, k)
Says(o, i, k) == IF Heard(o, i) THEN SaysIn(Chat!LineAt(o, i), k) ELSE <<>>
SaidTo(o, p, k) == FlattenSeq([i \in 1..p |-> Says(o, i, k)])

FragmentIs ==
    \A line : Chat!IsFragment(line) =>
        Chat!Fragments[line[1]] \in {<<1, "x">>, <<1, "y">>, <<2, "x">>}

\* There are three fragments, of two calls.
LEMMA FragmentsAre == FragmentIs
  <1> SUFFICES ASSUME NEW line, Chat!IsFragment(line)
               PROVE  Chat!Fragments[line[1]] \in {<<1, "x">>, <<1, "y">>, <<2, "x">>}
    BY DEF FragmentIs
  <1>1. DOMAIN Chat!Fragments = {"c1x", "c1y", "c2x"}
    BY DEF Chat!Fragments
  <1>2. line[1] \in {"c1x", "c1y", "c2x"}
    BY <1>1 DEF Chat!IsFragment
  <1>3. /\ Chat!Fragments["c1x"] = <<1, "x">> /\ Chat!Fragments["c1y"] = <<1, "y">>
        /\ Chat!Fragments["c2x"] = <<2, "x">>
    BY DEF Chat!Fragments
  <1> QED
    BY <1>2, <1>3

\* What it says is made of pieces.
LEMMA SaysPieces ==
    ASSUME NEW line \in Seq(Pieces), NEW k \in {0, 1, 2}
    PROVE  SaysIn(line, k) \in Seq(Pieces)
  <1>1. <<>> \in Seq(Pieces) /\ <<"guard">> \in Seq(Pieces) /\ <<"x">> \in Seq(Pieces) /\ <<"y">> \in Seq(Pieces)
    <2>1. {"guard", "x", "y"} \subseteq Pieces
      BY DEF Pieces
    <2> QED
      BY <2>1
  <1>2. Chat!Lines!IsDelta(line) => Chat!Lines!DeltaText(line) \in Seq(Pieces)
    <2> SUFFICES ASSUME Chat!Lines!IsDelta(line) PROVE Chat!Lines!DeltaText(line) \in Seq(Pieces)
      OBVIOUS
    <2>0. Len(line) > 1
      BY Zenon DEF Chat!Lines!IsDelta
    <2>1. Len(line) \in Nat /\ Len(line) > 1
      BY <2>0
    <2>2. 2 \in Int /\ Len(line) - 1 \in Int /\ \A i \in 2..Len(line) - 1 : line[i] \in Pieces
      BY <2>1
    <2> QED
      BY <2>2, SubSeqProperties DEF Chat!Lines!DeltaText
  <1>3. Chat!TextOf(line) \in Seq(Pieces)
    BY <1>1, <1>2 DEF Chat!TextOf
  <1>4. Chat!FragmentOf(line, k) \in {<<>>, <<"x">>, <<"y">>}
    <2>1. CASE Chat!IsFragment(line)
      <3>1. PICK f \in {<<1, "x">>, <<1, "y">>, <<2, "x">>} : f = Chat!Fragments[line[1]]
        BY <2>1, FragmentsAre DEF FragmentIs
      <3>2. f[2] \in {"x", "y"}
        BY <3>1
      <3>3. Chat!FragmentOf(line, k) = IF f[1] = k THEN <<f[2]>> ELSE <<>>
        BY <2>1, <3>1 DEF Chat!FragmentOf
      <3> QED
        BY <3>2, <3>3
    <2>2. CASE ~Chat!IsFragment(line)
      BY <2>2 DEF Chat!FragmentOf
    <2> QED
      BY <2>1, <2>2
  <1> QED
    BY <1>1, <1>3, <1>4 DEF SaysIn

\* The line and what it says, at a place of the stream.
LEMMA SaysType ==
    ASSUME NEW o \in Seq(Pieces), NEW i \in 1..Len(o), NEW k \in {0, 1, 2}
    PROVE  Says(o, i, k) \in Seq(Pieces)
  <1>1. i - 1 \in 0..Len(o) /\ (i - 1) + 1 = i
    OBVIOUS
  <1>2. Chat!LineAt(o, i) \in Seq(Pieces)
    BY <1>1, LineGrows
  <1>3. <<>> \in Seq(Pieces)
    OBVIOUS
  <1> QED
    BY <1>2, <1>3, SaysPieces DEF Says

\* What is said goes line by line.
LEMMA SaidGrows ==
    ASSUME NEW o \in Seq(Pieces), NEW p \in 0..Len(o), NEW k \in {0, 1, 2}
    PROVE  /\ SaidTo(o, p, k) \in Seq(Pieces)
           /\ SaidTo(o, 0, k) = <<>>
           /\ p < Len(o) => SaidTo(o, p + 1, k) = SaidTo(o, p, k) \o Says(o, p + 1, k)
  <1>0. p \in Nat /\ Len(o) \in Nat /\ p <= Len(o)
    OBVIOUS
  <1>1. PICK s : s = [i \in 1..p |-> Says(o, i, k)]
    OBVIOUS
  <1>2. s \in Seq(Seq(Pieces)) /\ Len(s) = p
    <2>1. \A i \in 1..p : Says(o, i, k) \in Seq(Pieces)
      <3>1. \A i \in 1..p : i \in 1..Len(o)
        OBVIOUS
      <3> QED
        BY <3>1, SaysType
    <2> QED
      BY <1>0, <1>1, <2>1
  <1>3. SaidTo(o, p, k) = FlattenSeq(s) /\ FlattenSeq(s) \in Seq(Pieces)
    BY <1>1, <1>2, FlattenSolves DEF SaidTo
  <1>4. SaidTo(o, 0, k) = <<>>
    <2>1. [i \in 1..0 |-> Says(o, i, k)] = <<>> /\ Len(<<>>) = 0
      OBVIOUS
    <2> QED
      BY <2>1 DEF SaidTo, FlattenSeq
  <1>5. ASSUME p < Len(o) PROVE SaidTo(o, p + 1, k) = SaidTo(o, p, k) \o Says(o, p + 1, k)
    <2>1. PICK x \in Seq(Pieces) : x = Says(o, p + 1, k)
      <3>1. p + 1 \in 1..Len(o)
        BY <1>0, <1>5
      <3> QED
        BY <3>1, SaysType
    <2>2. PICK t : t = [i \in 1..p + 1 |-> Says(o, i, k)]
      OBVIOUS
    <2>3. t = Append(s, x)
      <3>1. PICK w : w = Append(s, x)
        OBVIOUS
      <3>2. /\ w \in Seq(Seq(Pieces)) /\ Len(w) = p + 1
            /\ \A i \in 1..p : w[i] = s[i]
            /\ w[p + 1] = x
        BY <1>2, <2>1, <3>1, AppendProperties
      <3>3. \A i \in 1..p + 1 : i = p + 1 \/ i \in 1..p
        BY <1>0
      <3>4. \A i \in 1..p : s[i] = Says(o, i, k)
        BY <1>1
      <3>5. ASSUME NEW i \in 1..p + 1 PROVE Says(o, i, k) = w[i] /\ w[i] \in Seq(Pieces)
        <4>1. CASE i = p + 1
          BY <2>1, <3>2, <4>1
        <4>2. CASE i \in 1..p
          <5>1. i \in 1..Len(o)
            BY <1>0, <4>2
          <5> QED
            BY <3>2, <3>4, <4>2, <5>1, SaysType
        <4> QED
          BY <3>3, <4>1, <4>2
      <3>6. t = [i \in 1..p + 1 |-> w[i]]
        BY <2>2, <3>5
      <3>7. t \in Seq(Seq(Pieces)) /\ Len(t) = p + 1 /\ \A i \in 1..p + 1 : t[i] = w[i]
        BY <1>0, <3>5, <3>6
      <3>8. t = w
        BY <3>2, <3>7, SeqEqual
      <3> QED
        BY <3>1, <3>8
    <2>4. FlattenSeq(t) = FlattenSeq(s) \o x
      BY <1>2, <2>1, <2>3, FlattenAppend
    <2> QED
      BY <1>3, <2>1, <2>2, <2>4 DEF SaidTo
  <1> QED
    BY <1>3, <1>4, <1>5

\* Where nothing is heard nothing is added.
LEMMA SaidStays ==
    ASSUME NEW o \in Seq(Pieces), NEW p \in 0..Len(o), NEW k \in {0, 1, 2},
           \A i \in p + 1..Len(o) : ~Heard(o, i)
    PROVE  SaidTo(o, Len(o), k) = SaidTo(o, p, k)
  <1>0. p \in Nat /\ Len(o) \in Nat /\ p <= Len(o)
    OBVIOUS
  <1> DEFINE P == {j \in 0..Len(o) - p : SaidTo(o, p + j, k) = SaidTo(o, p, k)}
  <1>1. 0 \in P
    BY <1>0
  <1>2. ASSUME NEW j \in 0..Len(o) - p, j < Len(o) - p, j \in P PROVE j + 1 \in P
    <2>1. PICK q \in 0..Len(o) : q = p + j /\ q < Len(o)
      BY <1>0, <1>2
    <2>2. SaidTo(o, q + 1, k) = SaidTo(o, q, k) \o Says(o, q + 1, k) /\ SaidTo(o, q, k) \in Seq(Pieces)
      BY <2>1, SaidGrows
    <2>3. Says(o, q + 1, k) = <<>>
      <3>1. q + 1 \in p + 1..Len(o)
        BY <1>0, <2>1
      <3> QED
        BY <3>1 DEF Says
    <2>4. SaidTo(o, q, k) \o <<>> = SaidTo(o, q, k)
      BY <2>2, ConcatEmptySeq
    <2>5. q + 1 = p + (j + 1) /\ j + 1 \in 0..Len(o) - p
      BY <1>0, <1>2, <2>1
    <2> QED
      BY <1>2, <2>1, <2>2, <2>3, <2>4, <2>5
  <1> HIDE DEF P
  <1>3. Len(o) - p \in P
    <2>1. Len(o) - p \in Nat /\ Len(o) - p \in 0..Len(o) - p
      BY <1>0
    <2> QED
      BY <1>1, <1>2, <2>1, Induction
  <1>4. p + (Len(o) - p) = Len(o)
    BY <1>0
  <1> QED
    BY <1>3, <1>4 DEF P

\* Of a stream that only grows what was said stays said.
LEMMA SaidAgrees ==
    ASSUME NEW o \in Seq(Pieces), NEW z \in Seq(Pieces), Begins(o, z), NEW p \in 0..Len(o)
    PROVE  /\ \A i \in 1..p : DoneAt(z, i) <=> DoneAt(o, i)
           /\ \A i \in 1..p : Heard(z, i) <=> Heard(o, i)
           /\ \A k : SaidTo(z, p, k) = SaidTo(o, p, k)
  <1>1. \A i \in 1..p : z[i] = o[i] /\ i \in 1..Len(o) + 1 /\ \A j \in 1..i : j \in 1..p
    BY DEF Begins
  <1>2. \A i \in 1..p : Chat!LineAt(z, i) = Chat!LineAt(o, i)
    BY <1>1, LineAgrees
  <1>3. \A i \in 1..p : DoneAt(z, i) <=> DoneAt(o, i)
    BY <1>1, <1>2 DEF DoneAt
  <1>4. \A i \in 1..p : Heard(z, i) <=> Heard(o, i)
    BY <1>1, <1>3 DEF Heard
  <1>5. \A k : \A i \in 1..p : Says(z, i, k) = Says(o, i, k)
    BY <1>2, <1>4 DEF Says
  <1>6. \A k : [i \in 1..p |-> Says(z, i, k)] = [i \in 1..p |-> Says(o, i, k)]
    BY <1>5
  <1> QED
    BY <1>3, <1>4, <1>6 DEF SaidTo

-----------------------------------------------------------------------------
\* What the client has made of the stream.
Gots == [content : Seq(Pieces), calls : [1..2 -> Seq(Pieces)], answer : {"none", "ok", "sse"}]

\* What becomes of it with a line: nothing more at the end, or what it says.
Hears(z, g, line) ==
    /\ z \in Gots
    /\ z.answer # "sse" =>
          IF line = Chat!Lines!DoneLine
          THEN z.answer = "ok" /\ z.content = g.content /\ z.calls = g.calls
          ELSE /\ z.answer = "none"
               /\ z.content = g.content \o SaysIn(line, 0)
               /\ \A k \in 1..2 : z.calls[k] = g.calls[k] \o SaysIn(line, k)
               /\ Chat!IsData(line) => Chat!IsFrame(line)

\* A line that is not the end says what it says, or is an error.
LEMMA LineRead ==
    ASSUME NEW g \in Gots, g.answer = "none", NEW line \in Seq(Pieces)
    PROVE  Hears(Chat!ReadLine(g, line), g, line)
  <1>0. PICK z : z = Chat!ReadLine(g, line)
    OBVIOUS
  <1>1. /\ g.content \in Seq(Pieces) /\ g.calls \in [1..2 -> Seq(Pieces)]
        /\ g.calls[1] \in Seq(Pieces) /\ g.calls[2] \in Seq(Pieces)
    BY DEF Gots
  <1>2. /\ g.content \o <<>> = g.content
        /\ \A k \in 1..2 : g.calls[k] \o <<>> = g.calls[k]
    BY <1>1, ConcatEmptySeq
  <1>3. SaysIn(line, 0) \in Seq(Pieces)
    BY SaysPieces
  <1>4. g.content \o SaysIn(line, 0) \in Seq(Pieces)
    BY <1>1, <1>3, ConcatProperties
  <1> DEFINE Delta == Chat!Lines!IsDelta(line)
  <1> DEFINE Guard == line = <<"guard">>
  <1> DEFINE Fragment == Chat!IsFragment(line)
  <1> DEFINE Error == line = Chat!Lines!ErrorLine
  <1> DEFINE Done == line = Chat!Lines!DoneLine
  <1>5. /\ Delta => Len(line) > 1 /\ line[1] = "tok"
        /\ Guard => Len(line) = 1 /\ line[1] = "guard"
        /\ Fragment => Len(line) = 1 /\ line[1] \in {"c1x", "c1y", "c2x"}
        /\ Error => Len(line) = 2 /\ line[1] = "er"
        /\ Done => Len(line) = 2 /\ line[1] = "do"
    <2>1. Delta => Len(line) > 1 /\ line[1] = "tok"
      BY Zenon DEF Chat!Lines!IsDelta
    <2>2. Guard => Len(line) = 1 /\ line[1] = "guard"
      OBVIOUS
    <2>3. DOMAIN Chat!Fragments = {"c1x", "c1y", "c2x"}
      BY DEF Chat!Fragments
    <2>4. Fragment => Len(line) = 1 /\ line[1] \in {"c1x", "c1y", "c2x"}
      BY Zenon, <2>3 DEF Chat!IsFragment
    <2>5. Error => Len(line) = 2 /\ line[1] = "er"
      BY DEF Chat!Lines!ErrorLine
    <2>6. Done => Len(line) = 2 /\ line[1] = "do"
      BY DEF Chat!Lines!DoneLine
    <2> QED
      BY <2>1, <2>2, <2>4, <2>5, <2>6
  <1> HIDE DEF Delta, Guard, Fragment, Error, Done
  <1>6. /\ Delta => ~Guard /\ ~Fragment /\ ~Error /\ ~Done
        /\ Guard => ~Fragment /\ ~Error /\ ~Done
        /\ Fragment => ~Error /\ ~Done
        /\ Error => ~Done
    <2>1. Len(line) = 1 => ~(Len(line) > 1) /\ Len(line) # 2
      OBVIOUS
    <2> QED
      BY <1>5, <2>1
  <1>7. /\ ~Delta /\ ~Guard => SaysIn(line, 0) = <<>>
        /\ Guard => SaysIn(line, 0) = line
        /\ Delta => SaysIn(line, 0) = Chat!Lines!DeltaText(line)
        /\ ~Fragment => \A k \in 1..2 : SaysIn(line, k) = <<>>
    BY <1>6 DEF SaysIn, Chat!TextOf, Chat!FragmentOf, Delta, Guard, Fragment
  <1>8. Chat!IsFrame(line) <=> Delta \/ Fragment \/ Error \/ Guard
    BY DEF Chat!IsFrame, Delta, Fragment, Error, Guard
  <1>9. z = CASE Error -> g
              [] Done -> [g EXCEPT !.answer = "ok"]
              [] Delta -> [g EXCEPT !.content = @ \o Chat!Lines!DeltaText(line)]
              [] Guard -> [g EXCEPT !.content = @ \o line]
              [] Fragment -> [g EXCEPT !.calls[Chat!Fragments[line[1]][1]] =
                                Append(@, Chat!Fragments[line[1]][2])]
              [] OTHER -> IF Chat!IsData(line) THEN [g EXCEPT !.answer = "sse"] ELSE g
    BY <1>0, Zenon DEF Chat!ReadLine, Error, Done, Delta, Guard, Fragment
  <1> DEFINE Right ==
         /\ z \in Gots
         /\ z.answer # "sse" =>
               IF Done
               THEN z.answer = "ok" /\ z.content = g.content /\ z.calls = g.calls
               ELSE /\ z.answer = "none"
                    /\ z.content = g.content \o SaysIn(line, 0)
                    /\ \A k \in 1..2 : z.calls[k] = g.calls[k] \o SaysIn(line, k)
                    /\ Chat!IsData(line) => Chat!IsFrame(line)
  <1> SUFFICES Right
    BY <1>0 DEF Done, Hears
  <1>10. CASE Error
    <2>1. z = g
      BY <1>9, <1>6, <1>10
    <2> QED
      BY <1>2, <1>6, <1>7, <1>8, <1>10, <2>1
  <1>11. CASE Done
    <2>1. z = [g EXCEPT !.answer = "ok"]
      BY <1>9, <1>6, <1>11
    <2>2. z \in Gots /\ z.answer = "ok" /\ z.content = g.content /\ z.calls = g.calls
      BY <2>1 DEF Gots
    <2> QED
      BY <1>11, <2>2
  <1>12. CASE Delta \/ Guard
    <2>1. PICK c \in Seq(Pieces) : c = g.content \o SaysIn(line, 0)
      BY <1>4
    <2>2. z = [g EXCEPT !.content = c]
      BY <1>6, <1>7, <1>9, <1>12, <2>1
    <2>3. z \in Gots /\ z.content = c /\ z.calls = g.calls /\ z.answer = "none"
      BY <2>2 DEF Gots
    <2> QED
      BY <1>2, <1>6, <1>7, <1>8, <1>12, <2>1, <2>3
  <1>13. CASE Fragment
    <2>1. PICK f \in {<<1, "x">>, <<1, "y">>, <<2, "x">>} : f = Chat!Fragments[line[1]]
      BY <1>13, FragmentsAre DEF FragmentIs, Fragment
    <2>2. PICK c \in 1..2, x \in {"x", "y"} : c = f[1] /\ x = f[2]
      BY <2>1
    <2>3. z = [g EXCEPT !.calls[c] = Append(@, x)]
      BY <1>6, <1>9, <1>13, <2>1, <2>2
    <2>4. x \in Pieces
      BY DEF Pieces
    <2>5. PICK h \in Seq(Pieces) : h = g.calls[c]
      BY <1>1
    <2>6. Append(h, x) \in Seq(Pieces) /\ Append(h, x) = h \o <<x>>
      BY <2>4, AppendIsConcat
    <2>7. z = [g EXCEPT !.calls = [g.calls EXCEPT ![c] = Append(h, x)]]
      BY <2>3, <2>5 DEF Gots
    <2>8. [g.calls EXCEPT ![c] = Append(h, x)] \in [1..2 -> Seq(Pieces)]
      BY <1>1, <2>6
    <2>9. /\ z \in Gots /\ z.content = g.content /\ z.answer = "none"
          /\ z.calls = [g.calls EXCEPT ![c] = Append(h, x)]
      BY <2>7, <2>8 DEF Gots
    <2>10. \A k \in 1..2 : z.calls[k] = g.calls[k] \o SaysIn(line, k)
      <3>1. \A k \in 1..2 : SaysIn(line, k) = IF k = c THEN <<x>> ELSE <<>>
        BY <1>13, <2>1, <2>2 DEF SaysIn, Chat!FragmentOf, Fragment
      <3>2. \A k \in 1..2 : z.calls[k] = IF k = c THEN Append(h, x) ELSE g.calls[k]
        BY <1>1, <2>9
      <3>3. ASSUME NEW k \in 1..2 PROVE z.calls[k] = g.calls[k] \o SaysIn(line, k)
        <4>1. CASE k = c
          BY <2>5, <2>6, <3>1, <3>2, <4>1
        <4>2. CASE k # c
          BY <1>2, <3>1, <3>2, <4>2
        <4> QED
          BY <4>1, <4>2
      <3> QED
        BY <3>3
    <2> QED
      BY <1>2, <1>6, <1>7, <1>8, <1>13, <2>9, <2>10
  <1>14. CASE ~(Error \/ Done \/ Delta \/ Guard \/ Fragment)
    <2>1. z = IF Chat!IsData(line) THEN [g EXCEPT !.answer = "sse"] ELSE g
      BY <1>9, <1>14
    <2>2. CASE Chat!IsData(line)
      <3>1. z \in Gots /\ z.answer = "sse"
        BY <2>1, <2>2 DEF Gots
      <3> QED
        BY <3>1
    <2>3. CASE ~Chat!IsData(line)
      <3>1. z = g
        BY <2>1, <2>3
      <3> QED
        BY <1>2, <1>7, <1>14, <2>3, <3>1
    <2> QED
      BY <2>2, <2>3
  <1> QED
    BY <1>10, <1>11, <1>12, <1>13, <1>14

-----------------------------------------------------------------------------
(* What the client has made of the first p pieces of the stream.            *)
Reads(g, b, o, p) ==
    /\ g \in Gots /\ b \in Seq(Pieces)
    /\ g.answer # "sse" =>
          /\ g.content = SaidTo(o, p, 0)
          /\ \A k \in 1..2 : g.calls[k] = SaidTo(o, p, k)
          /\ \A i \in 1..p : Heard(o, i) /\ Chat!IsData(Chat!LineAt(o, i)) =>
                                Chat!IsFrame(Chat!LineAt(o, i))
    /\ g.answer = "none" =>
          /\ \A j \in 1..p : ~DoneAt(o, j)
          /\ b = Chat!LineAt(o, p + 1)
    /\ g.answer = "ok" => \E j \in 1..p : DoneAt(o, j)

\* A piece in which no line is heard says nothing.
LEMMA NothingHeard ==
    ASSUME NEW o \in Seq(Pieces), NEW p \in 0..Len(o), p < Len(o), ~Heard(o, p + 1),
           NEW g, NEW b, Reads(g, b, o, p), NEW h \in Gots, NEW c \in Seq(Pieces),
           h.answer # "sse" => g.answer # "sse" /\ h.content = g.content /\ h.calls = g.calls,
           h.answer = "none" =>
              (\A j \in 1..p + 1 : ~DoneAt(o, j)) /\ c = Chat!LineAt(o, p + 2),
           h.answer = "ok" => \E j \in 1..p + 1 : DoneAt(o, j)
    PROVE  Reads(h, c, o, p + 1)
  <1>0. p \in Nat /\ Len(o) \in Nat /\ p + 1 \in 1..Len(o) /\ (p + 1) + 1 = p + 2
    OBVIOUS
  <1>1. \A k \in {0, 1, 2} : SaidTo(o, p + 1, k) = SaidTo(o, p, k)
    <2> SUFFICES ASSUME NEW k \in {0, 1, 2} PROVE SaidTo(o, p + 1, k) = SaidTo(o, p, k)
      OBVIOUS
    <2>1. SaidTo(o, p, k) \in Seq(Pieces) /\ SaidTo(o, p + 1, k) = SaidTo(o, p, k) \o Says(o, p + 1, k)
      BY SaidGrows
    <2>2. Says(o, p + 1, k) = <<>>
      BY DEF Says
    <2>3. SaidTo(o, p, k) \o <<>> = SaidTo(o, p, k)
      BY <2>1, ConcatEmptySeq
    <2> QED
      BY <2>1, <2>2, <2>3
  <1>2. h.answer # "sse" =>
          /\ h.content = SaidTo(o, p + 1, 0)
          /\ \A k \in 1..2 : h.calls[k] = SaidTo(o, p + 1, k)
          /\ \A i \in 1..p + 1 : Heard(o, i) /\ Chat!IsData(Chat!LineAt(o, i)) =>
                                    Chat!IsFrame(Chat!LineAt(o, i))
    <2> SUFFICES ASSUME h.answer # "sse"
                 PROVE /\ h.content = SaidTo(o, p + 1, 0)
                       /\ \A k \in 1..2 : h.calls[k] = SaidTo(o, p + 1, k)
                       /\ \A i \in 1..p + 1 : Heard(o, i) /\ Chat!IsData(Chat!LineAt(o, i)) =>
                                                 Chat!IsFrame(Chat!LineAt(o, i))
      OBVIOUS
    <2>1. /\ g.content = SaidTo(o, p, 0)
          /\ \A k \in 1..2 : g.calls[k] = SaidTo(o, p, k)
          /\ \A i \in 1..p : Heard(o, i) /\ Chat!IsData(Chat!LineAt(o, i)) =>
                                Chat!IsFrame(Chat!LineAt(o, i))
          /\ h.content = g.content /\ h.calls = g.calls
      BY DEF Reads
    <2>2. \A i \in 1..p + 1 : i = p + 1 \/ i \in 1..p
      BY <1>0
    <2>3. \A k \in 1..2 : SaidTo(o, p + 1, k) = SaidTo(o, p, k)
      BY <1>1
    <2> QED
      BY <1>1, <2>1, <2>2, <2>3
  <1>3. h.answer = "none" => (\A j \in 1..p + 1 : ~DoneAt(o, j)) /\ c = Chat!LineAt(o, (p + 1) + 1)
    BY <1>0
  <1> QED
    BY <1>2, <1>3 DEF Reads

\* One piece of a chunk.
LEMMA ReadStep ==
    ASSUME NEW o \in Seq(Pieces), NEW p \in 0..Len(o), p < Len(o),
           NEW acc \in [buf : Seq(Pieces), got : Gots], Reads(acc.got, acc.buf, o, p),
           NEW z, z = IF o[p + 1] = "nl" THEN [buf |-> <<>>, got |-> Chat!ReadLine(acc.got, acc.buf)]
                      ELSE [acc EXCEPT !.buf = Append(@, o[p + 1])]
    PROVE  z \in [buf : Seq(Pieces), got : Gots] /\ Reads(z.got, z.buf, o, p + 1)
  <1>0. p \in Nat /\ Len(o) \in Nat /\ p + 1 \in 1..Len(o) /\ (p + 1) + 1 = p + 2 /\ o[p + 1] \in Pieces
    OBVIOUS
  <1>1. PICK g \in Gots, b \in Seq(Pieces) : g = acc.got /\ b = acc.buf
    OBVIOUS
  <1>2. Reads(g, b, o, p)
    BY <1>1
  <1>3. /\ p = 0 => Chat!LineAt(o, p + 1) = <<>>
        /\ o[p + 1] = "nl" => Chat!LineAt(o, p + 2) = <<>>
        /\ o[p + 1] # "nl" => Chat!LineAt(o, p + 2) = Append(Chat!LineAt(o, p + 1), o[p + 1])
    BY LineGrows
  <1>4. \A j \in 1..p + 1 : j = p + 1 \/ j \in 1..p
    BY <1>0
  <1>5. \A j \in 1..p : j \in 1..p + 1
    BY <1>0
  <1>6. p + 1 \in 1..p + 1
    BY <1>0
  <1>7. g.answer \in {"none", "ok", "sse"}
    BY DEF Gots
  <1>8. CASE o[p + 1] # "nl"
    <2>1. z = [acc EXCEPT !.buf = Append(b, o[p + 1])]
      BY <1>1, <1>8
    <2>2. Append(b, o[p + 1]) \in Seq(Pieces)
      BY <1>0, AppendProperties
    <2>3. /\ z \in [buf : Seq(Pieces), got : Gots]
          /\ z.got = g /\ z.buf = Append(b, o[p + 1])
      BY <1>1, <2>1, <2>2
    <2>4. ~Heard(o, p + 1) /\ ~DoneAt(o, p + 1)
      BY <1>8 DEF Heard, DoneAt
    <2>5. g.answer = "none" =>
              (\A j \in 1..p + 1 : ~DoneAt(o, j)) /\ Append(b, o[p + 1]) = Chat!LineAt(o, p + 2)
      BY <1>2, <1>3, <1>4, <1>8, <2>4 DEF Reads
    <2>6. g.answer = "ok" => \E j \in 1..p + 1 : DoneAt(o, j)
      BY <1>2, <1>5 DEF Reads
    <2>7. Reads(g, Append(b, o[p + 1]), o, p + 1)
      BY <1>2, <2>2, <2>4, <2>5, <2>6, NothingHeard
    <2> QED
      BY <2>3, <2>7
  <1>9. CASE o[p + 1] = "nl" /\ g.answer # "none"
    <2>1. Chat!ReadLine(g, b) = g
      BY <1>9 DEF Chat!ReadLine
    <2>2. /\ <<>> \in Seq(Pieces) /\ z \in [buf : Seq(Pieces), got : Gots]
          /\ z.got = g /\ z.buf = <<>>
      BY <1>1, <1>9, <2>1
    <2>3. CASE g.answer = "ok"
      <3>1. PICK j \in 1..p : DoneAt(o, j)
        BY <1>2, <2>3 DEF Reads
      <3>2. ~Heard(o, p + 1)
        BY <1>5, <3>1 DEF Heard
      <3>3. \E i \in 1..p + 1 : DoneAt(o, i)
        BY <1>5, <3>1
      <3>4. g.answer # "none" /\ g.answer # "sse"
        BY <2>3
      <3>5. Reads(g, <<>>, o, p + 1)
        BY <1>2, <2>2, <3>2, <3>3, <3>4, NothingHeard
      <3> QED
        BY <2>2, <3>5
    <2>4. CASE g.answer = "sse"
      <3>1. Reads(g, <<>>, o, p + 1)
        BY <2>2, <2>4 DEF Reads
      <3> QED
        BY <2>2, <3>1
    <2> QED
      BY <1>7, <1>9, <2>3, <2>4
  <1>10. CASE o[p + 1] = "nl" /\ g.answer = "none"
    <2>1. b = Chat!LineAt(o, p + 1) /\ \A j \in 1..p : ~DoneAt(o, j)
      BY <1>2, <1>10 DEF Reads
    <2>2. PICK h : h = Chat!ReadLine(g, b)
      OBVIOUS
    <2>3. /\ h \in Gots
          /\ h.answer # "sse" =>
                IF b = Chat!Lines!DoneLine
                THEN h.answer = "ok" /\ h.content = g.content /\ h.calls = g.calls
                ELSE /\ h.answer = "none"
                     /\ h.content = g.content \o SaysIn(b, 0)
                     /\ \A k \in 1..2 : h.calls[k] = g.calls[k] \o SaysIn(b, k)
                     /\ Chat!IsData(b) => Chat!IsFrame(b)
      <3>1. Hears(h, g, b)
        BY <1>10, <2>2, LineRead
      <3> QED
        BY <3>1 DEF Hears
    <2>4. /\ <<>> \in Seq(Pieces) /\ z \in [buf : Seq(Pieces), got : Gots]
          /\ z.got = h /\ z.buf = <<>>
      BY <1>1, <1>10, <2>2, <2>3
    <2>5. DoneAt(o, p + 1) <=> b = Chat!Lines!DoneLine
      BY <1>10, <2>1 DEF DoneAt
    <2>6. CASE h.answer = "sse"
      <3>1. Reads(h, <<>>, o, p + 1)
        BY <2>3, <2>4, <2>6 DEF Reads
      <3> QED
        BY <2>4, <3>1
    <2>7. CASE h.answer # "sse" /\ b = Chat!Lines!DoneLine
      <3>1. ~Heard(o, p + 1) /\ \E j \in 1..p + 1 : DoneAt(o, j)
        BY <1>6, <2>5, <2>7 DEF Heard
      <3>2. h.answer = "ok" /\ h.content = g.content /\ h.calls = g.calls /\ g.answer # "sse"
        BY <1>10, <2>3, <2>7
      <3>3. Reads(h, <<>>, o, p + 1)
        BY <1>2, <2>3, <2>4, <3>1, <3>2, NothingHeard
      <3> QED
        BY <2>4, <3>3
    <2>8. CASE h.answer # "sse" /\ b # Chat!Lines!DoneLine
      <3>1. \A j \in 1..p + 1 : ~DoneAt(o, j)
        BY <1>4, <2>1, <2>5, <2>8
      <3>2. Heard(o, p + 1)
        BY <1>10, <3>1 DEF Heard
      <3>3. \A k : Says(o, p + 1, k) = SaysIn(b, k)
        BY <2>1, <3>2 DEF Says
      <3>4. \A k \in {0, 1, 2} : SaidTo(o, p + 1, k) = SaidTo(o, p, k) \o SaysIn(b, k)
        BY <3>3, SaidGrows
      <3>5. /\ g.content = SaidTo(o, p, 0)
            /\ \A k \in 1..2 : g.calls[k] = SaidTo(o, p, k)
            /\ \A i \in 1..p : Heard(o, i) /\ Chat!IsData(Chat!LineAt(o, i)) =>
                                  Chat!IsFrame(Chat!LineAt(o, i))
        BY <1>2, <1>10 DEF Reads
      <3>6. h.answer = "none" /\ h.content = SaidTo(o, p + 1, 0)
        BY <2>3, <2>8, <3>4, <3>5
      <3>7. \A k \in 1..2 : h.calls[k] = SaidTo(o, p + 1, k)
        <4>1. \A k \in 1..2 : k \in {0, 1, 2}
          OBVIOUS
        <4> QED
          BY <2>3, <2>8, <3>4, <3>5, <4>1
      <3>8. \A i \in 1..p + 1 : Heard(o, i) /\ Chat!IsData(Chat!LineAt(o, i)) =>
                                   Chat!IsFrame(Chat!LineAt(o, i))
        BY <1>4, <2>1, <2>3, <2>8, <3>5
      <3>9. <<>> = Chat!LineAt(o, (p + 1) + 1)
        BY <1>0, <1>3, <1>10
      <3>10. Reads(h, <<>>, o, p + 1)
        BY <2>3, <2>4, <3>1, <3>6, <3>7, <3>8, <3>9 DEF Reads
      <3> QED
        BY <2>4, <3>10
    <2> QED
      BY <2>6, <2>7, <2>8
  <1> QED
    BY <1>8, <1>9, <1>10

\* What was read of a stream that only grows is right of the longer one.
LEMMA ReadsAgree ==
    ASSUME NEW o \in Seq(Pieces), NEW y \in Seq(Pieces), Begins(o, y), NEW p \in 0..Len(o),
           NEW g, NEW b, Reads(g, b, o, p)
    PROVE  Reads(g, b, y, p)
  <1>1. /\ \A i \in 1..p : DoneAt(y, i) <=> DoneAt(o, i)
        /\ \A i \in 1..p : Heard(y, i) <=> Heard(o, i)
        /\ \A k : SaidTo(y, p, k) = SaidTo(o, p, k)
    BY SaidAgrees
  <1>2. \A i \in 1..p + 1 : Chat!LineAt(y, i) = Chat!LineAt(o, i)
    <2>1. \A i \in 1..p + 1 : i \in 1..Len(o) + 1
      OBVIOUS
    <2> QED
      BY <2>1, LineAgrees
  <1>3. p + 1 \in 1..p + 1 /\ \A i \in 1..p : i \in 1..p + 1
    OBVIOUS
  <1> QED
    BY <1>1, <1>2, <1>3 DEF Reads

-----------------------------------------------------------------------------
IterRead(g, b, s) ==
    g = [S \in SUBSET DOMAIN s |->
            IF S = {} THEN b
            ELSE IF s[Max(S)] = "nl"
                 THEN [buf |-> <<>>,
                       got |-> Chat!ReadLine(g[S \ {Max(S)}].got, g[S \ {Max(S)}].buf)]
                 ELSE [g[S \ {Max(S)}] EXCEPT !.buf = Append(@, s[Max(S)])]]

ReadFrom(b, s) == (CHOOSE g : IterRead(g, b, s))[DOMAIN s]

\* What consume_stream does with a chunk.
LEMMA ChunkIsRead ==
    ASSUME NEW n, Chat!Receive(n)
    PROVE  LET s == ReadFrom([buf |-> buf, got |-> got], SubSeq(out, at + 1, at + n))
           IN buf' = s.buf /\ got' = s.got /\ answer' = s.got.answer
  BY DEF Chat!Receive, Chat!FoldLeft, Chat!MapThenFoldSet, Chat!Max, Max, IterRead, ReadFrom

\* The fold of consume_stream reads piece after piece.
LEMMA ReadSteps ==
    ASSUME NEW b, NEW s \in Seq(Pieces)
    PROVE  Runs("read", b, s, Len(s), ReadFrom(b, s))
  <1>1. DOMAIN s = 1..Len(s) /\ Len(s) \in Nat
    OBVIOUS
  <1>2. ReadFrom(b, s) = (CHOOSE g : IterRead(g, b, s))[DOMAIN s]
    BY DEF ReadFrom
  <1>3. \A g : IterRead(g, b, s) <=> Iter("read", g, b, s, DOMAIN s)
    BY DEF IterRead, Iter, Op
  <1>4. \E g : Iter("read", g, b, s, DOMAIN s)
    BY <1>1, IterExists
  <1>5. PICK g : g = CHOOSE h : IterRead(h, b, s)
    OBVIOUS
  <1>6. Iter("read", g, b, s, DOMAIN s)
    BY <1>3, <1>4, <1>5
  <1> DEFINE n == Len(s)
  <1>7. n \in Nat /\ Iter("read", g, b, s, 1..n)
    BY <1>1, <1>6
  <1> HIDE DEF n
  <1>8. Runs("read", b, s, n, g[1..n])
    BY <1>7, IterSteps
  <1> QED
    BY <1>1, <1>2, <1>5, <1>8 DEF n

\* A chunk that follows the p pieces that were read.
LEMMA ChunkRead ==
    ASSUME NEW o \in Seq(Pieces), NEW p \in 0..Len(o), NEW n \in 1..Len(o) - p,
           NEW g \in Gots, NEW b \in Seq(Pieces), Reads(g, b, o, p)
    PROVE  LET s == ReadFrom([buf |-> b, got |-> g], SubSeq(o, p + 1, p + n))
           IN s \in [buf : Seq(Pieces), got : Gots] /\ Reads(s.got, s.buf, o, p + n)
  <1>0. p \in Nat /\ n \in Nat /\ Len(o) \in Nat /\ p + n <= Len(o)
    OBVIOUS
  <1>1. PICK t : t = SubSeq(o, p + 1, p + n)
    OBVIOUS
  <1>2. t \in Seq(Pieces) /\ Len(t) = n /\ \A i \in 1..n : t[i] = o[p + i]
    <2>1. p + 1 \in Int /\ p + n \in Int /\ \A i \in p + 1..p + n : o[i] \in Pieces
      BY <1>0
    <2>2. t \in Seq(Pieces)
      BY <1>1, <2>1, SubSeqProperties
    <2>3. Len(t) = n
      BY <1>0, <1>1, <2>1
    <2>4. \A i \in 1..n : t[i] = o[p + i]
      BY <1>0, <1>1, <2>1
    <2> QED
      BY <2>2, <2>3, <2>4
  <1>3. PICK a : a = [buf |-> b, got |-> g]
    OBVIOUS
  <1>4. PICK r : /\ r[0] = a /\ r[n] = ReadFrom(a, t)
                 /\ \A i \in 1..n : r[i] = Op("read", t, i, r[i - 1])
    <2>1. Runs("read", a, t, n, ReadFrom(a, t))
      BY <1>2, ReadSteps
    <2> QED
      BY <2>1 DEF Runs
  <1> DEFINE Good(i) == /\ r[i] \in [buf : Seq(Pieces), got : Gots]
                        /\ Reads(r[i].got, r[i].buf, o, p + i)
  <1> DEFINE P == {i \in 0..n : Good(i)}
  <1>5. 0 \in P
    <2>1. a \in [buf : Seq(Pieces), got : Gots] /\ a.got = g /\ a.buf = b
      BY <1>3
    <2> QED
      BY <1>0, <1>4, <2>1
  <1>6. ASSUME NEW i \in 0..n, i < n, i \in P PROVE i + 1 \in P
    <2>1. i + 1 \in 1..n /\ (i + 1) - 1 = i /\ i + 1 \in 0..n /\ p + (i + 1) = (p + i) + 1
      BY <1>0, <1>6
    <2>2. PICK q \in 0..Len(o) : q = p + i /\ q < Len(o)
      BY <1>0, <1>6
    <2>3. PICK x \in [buf : Seq(Pieces), got : Gots] : x = r[i] /\ Reads(x.got, x.buf, o, q)
      BY <1>6, <2>2
    <2>4. PICK y : y = r[i + 1]
      OBVIOUS
    <2>5. t[i + 1] = o[q + 1]
      BY <1>2, <2>1, <2>2
    <2>6. y = IF o[q + 1] = "nl" THEN [buf |-> <<>>, got |-> Chat!ReadLine(x.got, x.buf)]
              ELSE [x EXCEPT !.buf = Append(@, o[q + 1])]
      <3>1. r[i + 1] = Op("read", t, i + 1, r[i])
        BY <1>4, <2>1
      <3> QED
        BY <2>3, <2>4, <2>5, <3>1 DEF Op
    <2>7. y \in [buf : Seq(Pieces), got : Gots] /\ Reads(y.got, y.buf, o, q + 1)
      BY <2>2, <2>3, <2>6, ReadStep
    <2> QED
      BY <2>1, <2>2, <2>4, <2>7
  <1> HIDE DEF P
  <1>7. n \in P
    <2>1. n \in 0..n
      BY <1>0
    <2> QED
      BY <1>0, <1>5, <1>6, <2>1, Induction
  <1>8. Good(n)
    BY <1>7 DEF P
  <1> QED
    BY <1>1, <1>3, <1>4, <1>8

-----------------------------------------------------------------------------

(* What the client has is what the lines say that it has read; when it has  *)
(* returned, all of them.                                                   *)
ChatIInv ==
    /\ Sanitizer
    /\ answer \in {"none", "ok", "sse"}
    /\ at \in 0..Len(out)
    /\ Reads(got, buf, out, at)
    /\ answer = "none" => got.answer = "none"
    /\ answer = "ok" => got.answer = "ok" \/ (got.answer = "none" /\ finished /\ at = Len(out))

\* Nothing is sent, and nothing read.
LEMMA ChatStart == StreamsAssumption /\ Chat!ChatInit => ChatIInv
  <1> SUFFICES ASSUME StreamsAssumption, Chat!ChatInit PROVE ChatIInv
    OBVIOUS
  <1>1. /\ up \in ByteStreams /\ held = <<>> /\ lineBuf = <<>> /\ done = FALSE /\ out = <<>> /\ finished = FALSE
        /\ at = 0 /\ buf = <<>> /\ answer = "none"
    BY DEF Chat!ChatInit, Chat!Init
  <1>2. <<>> \in Seq(Pieces) /\ Len(<<>>) = 0
    OBVIOUS
  <1>3. up \in Seq(Pieces)
    BY <1>1 DEF StreamsAssumption
  <1>4. PICK z \in Seq(Pieces) : z = <<>> /\ Len(z) = 0
    BY <1>2
  <1>5. Chat!Lines!NewlineAt(lineBuf) = 0
    <2>1. PICK a \in 0..Len(z) : a = Chat!Lines!NewlineAt(z)
      BY NewlineIs
    <2> QED
      BY <1>1, <1>4, <2>1
  <1>6. Sanitizer
    BY <1>1, <1>2, <1>3, <1>5 DEF Sanitizer, Chat!TypeOK
  <1>7. /\ got = [content |-> <<>>, calls |-> [i \in 1..2 |-> <<>>], answer |-> "none"]
        /\ got \in Gots
    BY <1>2 DEF Chat!ChatInit, Chat!Nothing, Gots
  <1>8. 0 \in 0..Len(z)
    BY <1>4
  <1>9. \A k \in {0, 1, 2} : SaidTo(z, 0, k) = <<>>
    BY <1>8, SaidGrows
  <1>10. Chat!LineAt(z, 0 + 1) = <<>>
    BY <1>8, LineGrows
  <1>11. Reads(got, buf, z, 0)
    <2>1. 1..0 = {}
      OBVIOUS
    <2>2. got.content = <<>> /\ (\A k \in 1..2 : got.calls[k] = <<>>) /\ got.answer = "none"
      BY <1>7
    <2>3. \A k \in 1..2 : SaidTo(z, 0, k) = <<>>
      BY <1>9
    <2> QED
      BY <1>1, <1>2, <1>7, <1>9, <1>10, <2>1, <2>2, <2>3 DEF Reads
  <1>12. got.answer = "none"
    BY <1>7
  <1> QED
    BY <1>1, <1>2, <1>4, <1>6, <1>11, <1>12 DEF ChatIInv

\* What the proxy does adds to the stream only; a chunk is read piece by piece;
\* and the end of the stream is known when all of it is read.
LEMMA ChatMoves == ChatIInv /\ Chat!ChatNext => ChatIInv'
  <1> SUFFICES ASSUME ChatIInv, Chat!ChatNext PROVE ChatIInv'
    OBVIOUS
  <1>0. /\ Sanitizer /\ answer \in {"none", "ok", "sse"} /\ at \in 0..Len(out)
        /\ Reads(got, buf, out, at) /\ got \in Gots /\ buf \in Seq(Pieces)
        /\ out \in Seq(Pieces) /\ Len(out) \in Nat /\ at \in Nat
        /\ answer = "none" => got.answer = "none"
        /\ answer = "ok" => got.answer = "ok" \/ (got.answer = "none" /\ finished /\ at = Len(out))
    BY DEF ChatIInv, Reads, Sanitizer
  <1>1. CASE Chat!Next /\ UNCHANGED <<at, buf, got, answer>>
    <2>1. Sanitizer' /\ Begins(out, out') /\ ~finished
      BY <1>0, <1>1, SanitizerStep
    <2>2. out' \in Seq(Pieces) /\ Len(out') \in Nat /\ Len(out) <= Len(out')
      BY <2>1 DEF Sanitizer, Begins
    <2>3. Reads(got, buf, out', at)
      BY <1>0, <2>1, <2>2, ReadsAgree
    <2>4. at' = at /\ buf' = buf /\ got' = got /\ answer' = answer
      BY <1>1
    <2>5. at \in 0..Len(out')
      BY <1>0, <2>2
    <2>6. Reads(got, buf, out, at)' <=> Reads(got, buf, out', at)
      BY <2>4
    <2>7. answer' = "ok" => got'.answer = "ok"
      BY <1>0, <2>1, <2>4
    <2> QED
      BY <1>0, <2>1, <2>3, <2>4, <2>5, <2>6, <2>7 DEF ChatIInv
  <1>2. CASE \E n \in 1..Len(out) - at : Chat!Receive(n)
    <2>1. PICK n \in 1..Len(out) - at : Chat!Receive(n)
      BY <1>2
    <2>2. /\ answer = "none" /\ at' = at + n /\ out' = out
          /\ up' = up /\ lineBuf' = lineBuf /\ held' = held /\ done' = done /\ finished' = finished
      BY <2>1 DEF Chat!Receive, Chat!sseVars
    <2>3. PICK s : s = ReadFrom([buf |-> buf, got |-> got], SubSeq(out, at + 1, at + n))
      OBVIOUS
    <2>4. buf' = s.buf /\ got' = s.got /\ answer' = s.got.answer
      BY <2>1, <2>3, ChunkIsRead
    <2>5. s \in [buf : Seq(Pieces), got : Gots] /\ Reads(s.got, s.buf, out, at + n)
      BY <1>0, <2>3, ChunkRead
    <2>6. Sanitizer'
      BY <1>0, <2>2 DEF Sanitizer, Chat!TypeOK
    <2>7. at' \in 0..Len(out')
      BY <1>0, <2>2
    <2>8. answer' = got'.answer /\ answer' \in {"none", "ok", "sse"}
      BY <2>4, <2>5 DEF Gots
    <2>9. Reads(got, buf, out, at)'
      BY <2>2, <2>4, <2>5
    <2> QED
      BY <2>6, <2>7, <2>8, <2>9 DEF ChatIInv
  <1>3. CASE Chat!EndOfStream
    <2>1. /\ answer = "none" /\ finished /\ at = Len(out) /\ answer' = "ok"
          /\ up' = up /\ lineBuf' = lineBuf /\ held' = held /\ done' = done /\ finished' = finished
          /\ out' = out /\ at' = at /\ buf' = buf /\ got' = got
      BY <1>3 DEF Chat!EndOfStream, Chat!sseVars
    <2>2. Sanitizer'
      BY <1>0, <2>1 DEF Sanitizer, Chat!TypeOK
    <2>3. Reads(got, buf, out, at)'
      BY <1>0, <2>1
    <2> QED
      BY <1>0, <2>1, <2>2, <2>3 DEF ChatIInv
  <1>4. CASE Chat!BrokenStream
    <2>1. /\ answer' = "sse" /\ got' = [got EXCEPT !.answer = "sse"]
          /\ up' = up /\ lineBuf' = lineBuf /\ held' = held /\ done' = done /\ finished' = finished
          /\ out' = out /\ at' = at /\ buf' = buf
      BY <1>4 DEF Chat!BrokenStream, Chat!sseVars
    <2>2. Sanitizer'
      BY <1>0, <2>1 DEF Sanitizer, Chat!TypeOK
    <2>3. got' \in Gots /\ got'.answer = "sse"
      BY <1>0, <2>1 DEF Gots
    <2>4. Reads(got, buf, out, at)'
      BY <1>0, <2>1, <2>3 DEF Reads
    <2> QED
      BY <1>0, <2>1, <2>2, <2>4 DEF ChatIInv
  <1> QED
    BY <1>1, <1>2, <1>3, <1>4 DEF Chat!ChatNext

\* Nothing else changes it.
LEMMA ChatStutter == ChatIInv /\ UNCHANGED chatVars => ChatIInv'
  <1> SUFFICES ASSUME ChatIInv, UNCHANGED chatVars PROVE ChatIInv'
    OBVIOUS
  <1>1. /\ up' = up /\ lineBuf' = lineBuf /\ held' = held /\ done' = done /\ finished' = finished
        /\ out' = out /\ at' = at /\ buf' = buf /\ got' = got /\ answer' = answer
    BY DEF chatVars
  <1>2. Sanitizer'
    BY <1>1 DEF ChatIInv, Sanitizer, Chat!TypeOK
  <1>3. Reads(got, buf, out, at)'
    BY <1>1 DEF ChatIInv
  <1> QED
    BY <1>1, <1>2, <1>3 DEF ChatIInv

\* A completion that is answered has all that the stream says.
LEMMA Completes == ChatIInv => Chat!TypeOK /\ Chat!CompletionExact
  <1> SUFFICES ASSUME ChatIInv, answer = "ok"
               PROVE  Chat!CompletionExact
    BY DEF ChatIInv, Sanitizer, Chat!CompletionExact
  <1>0. /\ at \in 0..Len(out) /\ Reads(got, buf, out, at) /\ out \in Seq(Pieces)
        /\ Len(out) \in Nat /\ at \in Nat /\ DOMAIN out = 1..Len(out)
        /\ got.answer = "ok" \/ (got.answer = "none" /\ at = Len(out))
    BY DEF ChatIInv, Sanitizer
  <1>n. Len(out) \in Nat /\ at \in Nat /\ at <= Len(out)
    <2>1. at \in 0..Len(out) /\ out \in Seq(Pieces)
      BY DEF ChatIInv, Sanitizer
    <2> QED
      BY <2>1
  <1>1. /\ got.content = SaidTo(out, at, 0)
        /\ \A k \in 1..2 : got.calls[k] = SaidTo(out, at, k)
        /\ \A i \in 1..at : Heard(out, i) /\ Chat!IsData(Chat!LineAt(out, i)) =>
                               Chat!IsFrame(Chat!LineAt(out, i))
    BY <1>0 DEF Reads
  <1>2. \A i \in at + 1..Len(out) : ~Heard(out, i)
    <2>1. CASE got.answer = "ok"
      <3>1. PICK j \in 1..at : DoneAt(out, j)
        BY <1>0, <2>1 DEF Reads
      <3>2. \A i \in at + 1..Len(out) : j \in 1..i
        BY <1>n
      <3> QED
        BY <3>1, <3>2 DEF Heard
    <2>2. CASE at = Len(out)
      BY <1>0, <2>2
    <2> QED
      BY <1>0, <2>1, <2>2
  <1>3. \A k \in {0, 1, 2} : SaidTo(out, Len(out), k) = SaidTo(out, at, k)
    BY <1>0, <1>2, SaidStays
  <1>4. ASSUME NEW i \in 1..Len(out) PROVE i \in Chat!LinesRead <=> Heard(out, i)
    <2>1. PICK D : D = {j \in 1..Len(out) : out[j] = "nl" /\ Chat!LineAt(out, j) = Chat!Lines!DoneLine}
      OBVIOUS
    <2>2. Chat!LinesRead = {k \in 1..Len(out) : out[k] = "nl" /\ \A j \in D : k < j}
      BY <1>0, <2>1 DEF Chat!LinesRead
    <2>3. \A j : j \in D <=> j \in 1..Len(out) /\ DoneAt(out, j)
      BY <2>1 DEF DoneAt
    <2>4. (\A j \in D : i < j) <=> \A j \in 1..i : ~DoneAt(out, j)
      <3>1. \A j \in 1..i : j \in 1..Len(out) /\ ~(i < j)
        BY <1>n
      <3>2. \A j \in 1..Len(out) : i < j \/ j \in 1..i
        BY <1>n
      <3> QED
        BY <2>3, <3>1, <3>2
    <2> QED
      BY <2>2, <2>4 DEF Heard
  <1>5. Chat!Said(Chat!TextOf) = SaidTo(out, Len(out), 0)
    <2>1. \A i \in 1..Len(out) :
             (IF i \in Chat!LinesRead THEN Chat!TextOf(Chat!LineAt(out, i)) ELSE <<>>) = Says(out, i, 0)
      BY <1>4 DEF Says, SaysIn
    <2>2. PICK u : u = [i \in DOMAIN out |-> IF i \in Chat!LinesRead THEN Chat!TextOf(Chat!LineAt(out, i)) ELSE <<>>]
      OBVIOUS
    <2>3. u = [i \in 1..Len(out) |-> Says(out, i, 0)]
      BY <1>0, <2>1, <2>2
    <2>4. Chat!Said(Chat!TextOf) = Chat!FlattenSeq(u)
      BY <2>2 DEF Chat!Said
    <2>5. Chat!FlattenSeq(u) = FlattenSeq(u)
      BY DEF Chat!FlattenSeq, FlattenSeq
    <2> QED
      BY <2>3, <2>4, <2>5 DEF SaidTo
  <1>6. ASSUME NEW k \in 1..2
        PROVE  Chat!Said(LAMBDA line : Chat!FragmentOf(line, k)) = SaidTo(out, Len(out), k)
    <2>1. \A i \in 1..Len(out) :
             (IF i \in Chat!LinesRead THEN Chat!FragmentOf(Chat!LineAt(out, i), k) ELSE <<>>) = Says(out, i, k)
      BY <1>4 DEF Says, SaysIn
    <2>2. PICK u : u = [i \in DOMAIN out |-> IF i \in Chat!LinesRead THEN Chat!FragmentOf(Chat!LineAt(out, i), k) ELSE <<>>]
      OBVIOUS
    <2>3. u = [i \in 1..Len(out) |-> Says(out, i, k)]
      BY <1>0, <2>1, <2>2
    <2>4. Chat!Said(LAMBDA line : Chat!FragmentOf(line, k)) = Chat!FlattenSeq(u)
      BY <2>2 DEF Chat!Said
    <2>5. Chat!FlattenSeq(u) = FlattenSeq(u)
      BY DEF Chat!FlattenSeq, FlattenSeq
    <2> QED
      BY <2>3, <2>4, <2>5 DEF SaidTo
  <1>7. \A i \in Chat!LinesRead : Chat!IsData(Chat!LineAt(out, i)) => Chat!IsFrame(Chat!LineAt(out, i))
    <2>1. \A i \in Chat!LinesRead : i \in 1..Len(out)
      BY <1>0 DEF Chat!LinesRead
    <2>2. \A i \in 1..Len(out) : i \in 1..at \/ i \in at + 1..Len(out)
      BY <1>n
    <2> QED
      BY <1>1, <1>2, <1>4, <2>1, <2>2
  <1>8. got.content = Chat!Said(Chat!TextOf)
    BY <1>1, <1>3, <1>5
  <1>9. \A k \in 1..2 : got.calls[k] = Chat!Said(LAMBDA line : Chat!FragmentOf(line, k))
    <2>1. \A k \in 1..2 : got.calls[k] = SaidTo(out, Len(out), k)
      BY <1>1, <1>3
    <2> QED
      BY <1>6, <2>1
  <1> QED
    BY <1>7, <1>8, <1>9 DEF Chat!CompletionExact

-----------------------------------------------------------------------------
(* Each machine is right, whether it runs or stays where it starts.         *)
StreamsIInv == IInv /\ ChatIInv /\ SpotIInv

\* All of them start right.
LEMMA StreamsStart == StreamsInit => StreamsIInv
  <1> SUFFICES ASSUME StreamsInit PROVE StreamsIInv
    OBVIOUS
  <1>1. IInv
    BY InitIInv DEF StreamsInit
  <1>2. ChatIInv
    BY StreamsAssumption, ChatStart DEF StreamsInit
  <1>3. SpotIInv
    BY StreamsAssumption, SpotInit DEF StreamsInit, StreamsAssumption
  <1> QED
    BY <1>1, <1>2, <1>3 DEF StreamsIInv

\* One of them moves, the others stay.
LEMMA StreamsMoves == StreamsIInv /\ [StreamsNext]_streamVars => StreamsIInv'
  <1> SUFFICES ASSUME StreamsIInv, [StreamsNext]_streamVars PROVE StreamsIInv'
    OBVIOUS
  <1>1. UNCHANGED traceVars => IInv'
    BY NextIInv DEF StreamsIInv
  <1>2. UNCHANGED chatVars => ChatIInv'
    BY ChatStutter DEF StreamsIInv
  <1>3. UNCHANGED spotVars => SpotIInv'
    BY SpotStutter DEF StreamsIInv
  <1>4. CASE LoopStep
    <2>1. IInv'
      BY <1>4, NextIInv DEF LoopStep, StreamsIInv
    <2> QED
      BY <1>2, <1>3, <1>4, <2>1 DEF LoopStep, StreamsIInv
  <1>5. CASE ChatStep
    <2>1. ChatIInv'
      BY <1>5, ChatMoves DEF ChatStep, StreamsIInv
    <2> QED
      BY <1>1, <1>3, <1>5, <2>1 DEF ChatStep, StreamsIInv
  <1>6. CASE SpotStep
    <2>1. PICK text \in TextChunks : Spot!FeedChunk(text)
      BY <1>6 DEF SpotStep, Spot!TraceNext
    <2>2. SpotIInv'
      BY <2>1, StreamsAssumption, SpotNext DEF StreamsAssumption, StreamsIInv
    <2> QED
      BY <1>1, <1>2, <1>6, <2>2 DEF SpotStep, StreamsIInv
  <1>7. CASE UNCHANGED streamVars
    BY <1>1, <1>2, <1>3, <1>7 DEF streamVars, StreamsIInv
  <1> QED
    BY <1>4, <1>5, <1>6, <1>7 DEF StreamsNext

\* consume_stream answers with all that the proxy has sent up to [DONE], each
\* piece once and in order, wherever the chunks were cut; the detector of the
\* proxy reports a run in the chunk that completes it, and a repeated unit where
\* there is one, although it remembers the end of the text only.
THEOREM StreamsAreExact == StreamsSpec => []StreamExact
  <1>1. StreamsInit => StreamsIInv
    BY StreamsStart
  <1>2. StreamsIInv /\ [StreamsNext]_streamVars => StreamsIInv'
    BY StreamsMoves
  <1>3. StreamsIInv => StreamExact
    BY Completes DEF StreamsIInv, IInv, SpotIInv, StreamExact
  <1> QED
    BY <1>1, <1>2, <1>3, PTL DEF StreamsSpec

-----------------------------------------------------------------------------
(* The decoder, chunk by chunk                                              *)

Made(z) == [i \in 1..Len(z) |-> Chat!PieceOf(z, i)]

\* What the decoder makes of each byte.
LEMMA MadeIs ==
    ASSUME NEW z \in Seq(Pieces)
    PROVE  Made(z) \in Seq(Seq(Pieces)) /\ Len(Made(z)) = Len(z)
  <1>1. {"bad", "e2"} \subseteq Pieces
    BY DEF Pieces
  <1>2. ASSUME NEW i \in 1..Len(z) PROVE Chat!PieceOf(z, i) \in Seq(Pieces)
    <2>1. z[i] \in Pieces
      OBVIOUS
    <2>2. /\ <<>> \in Seq(Pieces) /\ <<"bad">> \in Seq(Pieces) /\ <<"e2">> \in Seq(Pieces)
          /\ <<z[i]>> \in Seq(Pieces)
      BY <1>1, <2>1
    <2>3. Chat!PieceOf(z, i) \in {<<>>, <<"bad">>, <<"e2">>, <<z[i]>>}
      BY DEF Chat!PieceOf, Chat!Second, Chat!Unpaired
    <2> QED
      BY <2>2, <2>3
  <1>3. Len(z) \in Nat
    OBVIOUS
  <1> QED
    BY <1>2, <1>3 DEF Made

\* No character is cut between the two.
Apart(p, q) == p = <<>> \/ q = <<>> \/ ~(p[Len(p)] = "lead" /\ q[1] = "trail")

Text(z) == FlattenSeq(Made(z))

\* What is made of a byte depends on those beside it only.
LEMMA MadeApart ==
    ASSUME NEW p \in Seq(Pieces), NEW q \in Seq(Pieces), Apart(p, q)
    PROVE  Made(p \o q) = Made(p) \o Made(q)
  <1>1. PICK z \in Seq(Pieces) :
            /\ z = p \o q /\ Len(z) = Len(p) + Len(q)
            /\ \A i \in 1..Len(p) + Len(q) : z[i] = IF i <= Len(p) THEN p[i] ELSE q[i - Len(p)]
    <2>1. /\ p \o q \in Seq(Pieces) /\ Len(p \o q) = Len(p) + Len(q)
          /\ \A i \in 1..Len(p) + Len(q) : (p \o q)[i] = IF i <= Len(p) THEN p[i] ELSE q[i - Len(p)]
      BY ConcatProperties
    <2> QED
      BY <2>1
  <1>2. Len(p) \in Nat /\ Len(q) \in Nat
    OBVIOUS
  <1>3. p = <<>> <=> Len(p) = 0
    OBVIOUS
  <1>4. q = <<>> <=> Len(q) = 0
    OBVIOUS
  <1>5. ASSUME NEW i \in 1..Len(p) PROVE Chat!PieceOf(z, i) = Chat!PieceOf(p, i)
    <2>1. z[i] = p[i] /\ (i > 1 => z[i - 1] = p[i - 1])
      BY <1>1, <1>2
    <2>2. Chat!Second(z, i) <=> Chat!Second(p, i)
      BY <2>1 DEF Chat!Second
    <2>3. Chat!Unpaired(z, i) <=> Chat!Unpaired(p, i)
      <3>1. CASE i < Len(p)
        <4>1. z[i + 1] = p[i + 1] /\ i # Len(z) /\ i # Len(p)
          BY <1>1, <1>2, <3>1
        <4> QED
          BY <2>1, <4>1 DEF Chat!Unpaired
      <3>2. CASE i = Len(p) /\ Len(q) = 0
        <4>1. i = Len(z)
          BY <1>1, <1>2, <3>2
        <4> QED
          BY <2>1, <3>2, <4>1 DEF Chat!Unpaired
      <3>3. CASE i = Len(p) /\ Len(q) # 0
        <4>1. i + 1 \in 1..Len(p) + Len(q) /\ ~(i + 1 <= Len(p)) /\ (i + 1) - Len(p) = 1
          BY <1>2, <3>3
        <4>2. z[i + 1] = q[1]
          BY <1>1, <4>1
        <4>3. ~(p[i] = "lead" /\ q[1] = "trail")
          BY <1>3, <1>4, <3>3 DEF Apart
        <4> QED
          BY <2>1, <3>3, <4>2, <4>3 DEF Chat!Unpaired
      <3> QED
        BY <1>2, <3>1, <3>2, <3>3
    <2> QED
      BY <2>1, <2>2, <2>3 DEF Chat!PieceOf
  <1>6. ASSUME NEW i \in 1..Len(q) PROVE Chat!PieceOf(z, Len(p) + i) = Chat!PieceOf(q, i)
    <2>0. PICK k \in Nat : k = Len(p) + i
      BY <1>2
    <2>1. z[k] = q[i] /\ (i # Len(q) => z[k + 1] = q[i + 1]) /\ (k = Len(z) <=> i = Len(q))
      <3>1. k \in 1..Len(p) + Len(q) /\ ~(k <= Len(p)) /\ k - Len(p) = i
        BY <1>2, <2>0
      <3>2. i # Len(q) => k + 1 \in 1..Len(p) + Len(q) /\ ~(k + 1 <= Len(p)) /\ (k + 1) - Len(p) = i + 1
        BY <1>2, <2>0
      <3>3. k = Len(z) <=> i = Len(q)
        <4>1. Len(z) = Len(p) + Len(q)
          BY <1>1
        <4> QED
          BY <1>2, <2>0, <4>1
      <3> QED
        BY <1>1, <3>1, <3>2, <3>3
    <2>2. Chat!Unpaired(z, k) <=> Chat!Unpaired(q, i)
      BY <2>1 DEF Chat!Unpaired
    <2>3. Chat!Second(z, k) <=> Chat!Second(q, i)
      <3>1. CASE i > 1
        <4>1. k - 1 \in 1..Len(p) + Len(q) /\ ~(k - 1 <= Len(p)) /\ (k - 1) - Len(p) = i - 1 /\ k > 1
          BY <1>2, <2>0, <3>1
        <4>2. z[k - 1] = q[i - 1]
          BY <1>1, <4>1
        <4> QED
          BY <2>1, <3>1, <4>1, <4>2 DEF Chat!Second
      <3>2. CASE i = 1 /\ Len(p) = 0
        <4>1. k = 1
          BY <2>0, <3>2
        <4> QED
          BY <3>2, <4>1 DEF Chat!Second
      <3>3. CASE i = 1 /\ Len(p) # 0
        <4>1. k - 1 \in 1..Len(p) + Len(q) /\ k - 1 <= Len(p) /\ k - 1 = Len(p) /\ Len(q) # 0
          BY <1>2, <2>0, <3>3
        <4>2. z[k - 1] = p[Len(p)]
          BY <1>1, <4>1
        <4>3. ~(p[Len(p)] = "lead" /\ q[1] = "trail")
          BY <1>3, <1>4, <3>3, <4>1 DEF Apart
        <4> QED
          BY <2>1, <3>3, <4>2, <4>3 DEF Chat!Second
      <3> QED
        BY <3>1, <3>2, <3>3
    <2> QED
      BY <2>0, <2>1, <2>2, <2>3 DEF Chat!PieceOf
  <1>7. /\ Made(p) \in Seq(Seq(Pieces)) /\ Made(q) \in Seq(Seq(Pieces)) /\ Made(z) \in Seq(Seq(Pieces))
        /\ Len(Made(p)) = Len(p) /\ Len(Made(q)) = Len(q) /\ Len(Made(z)) = Len(p) + Len(q)
    BY <1>1, MadeIs
  <1>8. PICK y \in Seq(Seq(Pieces)) :
            /\ y = Made(p) \o Made(q) /\ Len(y) = Len(p) + Len(q)
            /\ \A i \in 1..Len(p) + Len(q) : y[i] = IF i <= Len(p) THEN Made(p)[i] ELSE Made(q)[i - Len(p)]
    <2>1. PICK a \in Seq(Seq(Pieces)), b \in Seq(Seq(Pieces)) : a = Made(p) /\ b = Made(q)
      BY <1>7
    <2>2. /\ a \o b \in Seq(Seq(Pieces)) /\ Len(a \o b) = Len(a) + Len(b)
          /\ \A i \in 1..Len(a) + Len(b) : (a \o b)[i] = IF i <= Len(a) THEN a[i] ELSE b[i - Len(a)]
      BY ConcatProperties
    <2>3. Len(a) = Len(p) /\ Len(b) = Len(q)
      BY <1>7, <2>1
    <2>4. /\ a \o b = Made(p) \o Made(q) /\ Len(a \o b) = Len(p) + Len(q)
          /\ \A i \in 1..Len(p) + Len(q) : (a \o b)[i] = IF i <= Len(p) THEN Made(p)[i] ELSE Made(q)[i - Len(p)]
      BY <2>1, <2>2, <2>3
    <2> QED
      BY <2>2, <2>4
  <1>9. ASSUME NEW i \in 1..Len(p) + Len(q) PROVE Made(z)[i] = y[i]
    <2>1. Made(z)[i] = Chat!PieceOf(z, i)
      BY <1>1 DEF Made
    <2>2. CASE i <= Len(p)
      <3>1. i \in 1..Len(p)
        BY <1>2, <2>2
      <3>2. Made(p)[i] = Chat!PieceOf(p, i)
        BY <3>1 DEF Made
      <3> QED
        BY <1>5, <1>8, <2>1, <2>2, <3>1, <3>2
    <2>3. CASE ~(i <= Len(p))
      <3>0. i - Len(p) \in 1..Len(q) /\ i = Len(p) + (i - Len(p))
        BY <1>2, <2>3
      <3>1. PICK j \in 1..Len(q) : j = i - Len(p) /\ i = Len(p) + j
        BY <3>0
      <3>2. Made(q)[j] = Chat!PieceOf(q, j)
        BY DEF Made
      <3>3. Made(z)[i] = Chat!PieceOf(q, j)
        BY <1>6, <2>1, <3>1
      <3> QED
        BY <1>8, <2>3, <3>1, <3>2, <3>3
    <2> QED
      BY <2>2, <2>3
  <1>10. Made(z) = y
    <2>1. PICK a \in Seq(Seq(Pieces)) : a = Made(z) /\ Len(a) = Len(p) + Len(q)
      BY <1>7
    <2>2. \A i \in 1..Len(a) : a[i] = y[i]
      BY <1>9, <2>1
    <2> QED
      BY <1>8, <2>1, <2>2, SeqEqual
  <1> QED
    BY <1>1, <1>8, <1>10

\* The same of the text that is made of them.
LEMMA TextApart ==
    ASSUME NEW p \in Seq(Pieces), NEW q \in Seq(Pieces), Apart(p, q)
    PROVE  Text(p \o q) = Text(p) \o Text(q) /\ Text(p) \in Seq(Pieces) /\ Text(q) \in Seq(Pieces)
  <1>1. PICK a \in Seq(Seq(Pieces)), b \in Seq(Seq(Pieces)) : a = Made(p) /\ b = Made(q)
    BY MadeIs
  <1>2. Made(p \o q) = a \o b
    BY <1>1, MadeApart
  <1>3. FlattenSeq(a) \in Seq(Pieces) /\ FlattenSeq(b) \in Seq(Pieces) /\ FlattenSeq(a \o b) = FlattenSeq(a) \o FlattenSeq(b)
    BY FlattenCat
  <1> QED
    BY <1>1, <1>2, <1>3 DEF Text

\* What is held back, and what is decoded now.
LEMMA DecodeIs ==
    ASSUME NEW z \in Seq(Pieces)
    PROVE  /\ Chat!Decode(z, TRUE).text = Text(z)
           /\ \E now \in Seq(Pieces), h \in {<<>>, <<"lead">>} :
                 /\ z = now \o h /\ Chat!Decode(z, FALSE) = [text |-> Text(now), held |-> h]
                 /\ h = <<>> => now = <<>> \/ now[Len(now)] # "lead"
  <1>1. \A y \in Seq(Pieces) : Text(y) = Chat!FlattenSeq([i \in DOMAIN y |-> Chat!PieceOf(y, i)])
    <2> SUFFICES ASSUME NEW y \in Seq(Pieces)
                 PROVE  Text(y) = Chat!FlattenSeq([i \in DOMAIN y |-> Chat!PieceOf(y, i)])
      OBVIOUS
    <2>1. DOMAIN y = 1..Len(y)
      OBVIOUS
    <2>2. Made(y) = [i \in DOMAIN y |-> Chat!PieceOf(y, i)]
      BY <2>1 DEF Made
    <2>3. PICK s : s = Made(y)
      OBVIOUS
    <2>4. FlattenSeq(s) = Chat!FlattenSeq(s)
      BY DEF FlattenSeq, Chat!FlattenSeq
    <2> QED
      BY <2>2, <2>3, <2>4 DEF Text
  <1>2. Chat!Decode(z, TRUE).text = Text(z)
    BY <1>1 DEF Chat!Decode, Chat!Incomplete
  <1>3. CASE Chat!Incomplete(z, FALSE)
    <2>1. z # <<>> /\ z[Len(z)] = "lead"
      BY <1>3 DEF Chat!Incomplete, Chat!Last
    <2>2. Len(z) \in Nat /\ Len(z) > 0
      BY <2>1, EmptySeq
    <2>3. PICK now \in Seq(Pieces) : /\ now = SubSeq(z, 1, Len(z) - 1) /\ Len(now) = Len(z) - 1
                                     /\ \A i \in 1..Len(z) - 1 : now[i] = z[i]
      <3>1. PICK n \in Nat : n = Len(z) - 1
        BY <2>2
      <3>2. 1 \in Int /\ n \in Int /\ \A i \in 1..n : z[i] \in Pieces
        BY <3>1
      <3>3. /\ SubSeq(z, 1, n) \in Seq(Pieces) /\ Len(SubSeq(z, 1, n)) = n
            /\ \A i \in 1..n : SubSeq(z, 1, n)[i] = z[i]
        <4>1. /\ SubSeq(z, 1, n) \in Seq(Pieces)
              /\ Len(SubSeq(z, 1, n)) = IF 1 <= n THEN n - 1 + 1 ELSE 0
              /\ \A i \in 1..n - 1 + 1 : SubSeq(z, 1, n)[i] = z[1 + i - 1]
          BY <3>2, SubSeqProperties
        <4>2. n - 1 + 1 = n /\ (~(1 <= n) => n = 0) /\ \A i \in 1..n : 1 + i - 1 = i
          OBVIOUS
        <4> QED
          BY <4>1, <4>2
      <3> QED
        BY <3>1, <3>3
    <2>4. z = now \o <<"lead">>
      <3>0. "lead" \in Pieces
        BY DEF Pieces
      <3>1. PICK h \in Seq(Pieces) : h = <<"lead">> /\ Len(h) = 1 /\ h[1] = "lead"
        <4>1. <<"lead">> \in Seq(Pieces) /\ Len(<<"lead">>) = 1 /\ <<"lead">>[1] = "lead"
          BY <3>0
        <4> QED
          BY <4>1
      <3>2. PICK y \in Seq(Pieces) :
              /\ y = now \o h /\ Len(y) = Len(now) + Len(h)
              /\ \A i \in 1..Len(now) + Len(h) : y[i] = IF i <= Len(now) THEN now[i] ELSE h[i - Len(now)]
        <4>1. /\ now \o h \in Seq(Pieces) /\ Len(now \o h) = Len(now) + Len(h)
              /\ \A i \in 1..Len(now) + Len(h) : (now \o h)[i] = IF i <= Len(now) THEN now[i] ELSE h[i - Len(now)]
          BY ConcatProperties
        <4> QED
          BY <4>1
      <3>3. Len(y) = Len(z)
        BY <2>2, <2>3, <3>1, <3>2
      <3>4. ASSUME NEW i \in 1..Len(y) PROVE y[i] = z[i]
        <4>1. CASE i <= Len(now)
          BY <2>2, <2>3, <3>2, <3>3, <4>1
        <4>2. CASE ~(i <= Len(now))
          <5>1. i = Len(z) /\ i - Len(now) = 1 /\ i \in 1..Len(now) + Len(h)
            BY <2>2, <2>3, <3>1, <3>2, <3>3, <4>2
          <5> QED
            BY <2>1, <3>1, <3>2, <4>2, <5>1
        <4> QED
          BY <4>1, <4>2
      <3> QED
        BY <3>1, <3>2, <3>3, <3>4, SeqEqual
    <2>5. Chat!Front(z) = now
      BY <2>3 DEF Chat!Front
    <2>6. Chat!Decode(z, FALSE) = [text |-> Text(now), held |-> <<"lead">>]
      BY <1>1, <1>3, <2>5 DEF Chat!Decode
    <2>7. <<"lead">> # <<>>
      OBVIOUS
    <2> QED
      BY <1>2, <2>4, <2>6, <2>7
  <1>4. CASE ~Chat!Incomplete(z, FALSE)
    <2>1. Chat!Decode(z, FALSE) = [text |-> Text(z), held |-> <<>>]
      BY <1>1, <1>4 DEF Chat!Decode
    <2>2. z = <<>> \/ z[Len(z)] # "lead"
      BY <1>4 DEF Chat!Incomplete, Chat!Last
    <2>3. z = z \o <<>>
      BY ConcatEmptySeq
    <2> QED
      BY <1>2, <2>1, <2>2, <2>3
  <1> QED
    BY <1>3, <1>4

\* A chunk is decoded to the beginning of what all that is still to come is.
LEMMA DecodedOnce ==
    ASSUME NEW b \in Seq(Pieces), NEW r \in Seq(Pieces)
    PROVE  LET d == Chat!Decode(b, FALSE)
           IN /\ d.held \o r \in Seq(Pieces)
              /\ Chat!Decode(b \o r, TRUE).text = d.text \o Chat!Decode(d.held \o r, TRUE).text
  <1>1. PICK now \in Seq(Pieces), h \in {<<>>, <<"lead">>} :
              /\ b = now \o h /\ Chat!Decode(b, FALSE) = [text |-> Text(now), held |-> h]
              /\ h = <<>> => now = <<>> \/ now[Len(now)] # "lead"
    BY DecodeIs
  <1>2. h \in Seq(Pieces)
    <2>1. "lead" \in Pieces
      BY DEF Pieces
    <2>2. <<"lead">> \in Seq(Pieces) /\ <<>> \in Seq(Pieces)
      BY <2>1
    <2> QED
      BY <2>2
  <1>3. PICK q \in Seq(Pieces) : q = h \o r
    BY <1>2, ConcatProperties
  <1>4. b \o r = now \o q
    BY <1>1, <1>2, <1>3, ConcatAssociative, SMTT(60)
  <1>5. Apart(now, q)
    <2>1. CASE h = <<>>
      <3>1. now = <<>> \/ now[Len(now)] # "lead"
        BY <1>1, <2>1
      <3> QED
        BY <3>1 DEF Apart
    <2>2. CASE h = <<"lead">>
      <3>1. q[1] = "lead"
        BY <1>3, <2>2
      <3> QED
        BY <3>1 DEF Apart
    <2> QED
      BY <1>1, <2>1, <2>2
  <1>6. Text(now \o q) = Text(now) \o Text(q)
    BY <1>5, TextApart
  <1>7. b \o r \in Seq(Pieces)
    BY ConcatProperties
  <1>8. Chat!Decode(b \o r, TRUE).text = Text(b \o r) /\ Chat!Decode(q, TRUE).text = Text(q)
    BY <1>7, DecodeIs
  <1>9. Chat!Decode(b, FALSE).text = Text(now) /\ Chat!Decode(b, FALSE).held = h
    <2>1. PICK d : d = Chat!Decode(b, FALSE)
      OBVIOUS
    <2>2. d = [text |-> Text(now), held |-> h]
      BY <1>1, <2>1
    <2>3. d.text = Text(now) /\ d.held = h
      BY <2>2
    <2> QED
      BY <2>1, <2>3
  <1> QED
    BY <1>3, <1>4, <1>6, <1>8, <1>9

-----------------------------------------------------------------------------
(* The lines, chunk by chunk                                                *)

\* What is in the buffer is the beginning of what the abstract stream has.
Matches(s, p, tail) ==
    /\ p.rest = s.buf \o tail
    /\ p.det = s.det /\ p.out = s.out /\ p.open = ~s.done

\* What is left of a sequence when a prefix is taken.
LEMMA RestIs ==
    ASSUME NEW s \in Seq(Pieces), NEW a \in 0..Len(s)
    PROVE  /\ SubSeq(s, a + 1, Len(s)) \in Seq(Pieces)
           /\ Len(SubSeq(s, a + 1, Len(s))) = Len(s) - a
           /\ \A i \in 1..Len(s) - a : SubSeq(s, a + 1, Len(s))[i] = s[a + i]
  <1>0. PICK n \in Nat : Len(s) = a + n /\ Len(s) - a = n
    <2>1. Len(s) \in Nat /\ a \in Nat
      OBVIOUS
    <2>2. Len(s) - a \in Nat /\ Len(s) = a + (Len(s) - a)
      BY <2>1
    <2> QED
      BY <2>2
  <1>1. a + 1 \in Int /\ a + n \in Int /\ \A i \in a + 1..a + n : s[i] \in Pieces
    <2>1. \A i \in a + 1..a + n : i \in 1..a + n
      OBVIOUS
    <2> QED
      BY <1>0, <2>1
  <1>2. /\ SubSeq(s, a + 1, a + n) \in Seq(Pieces)
        /\ Len(SubSeq(s, a + 1, a + n)) = IF a + 1 <= a + n THEN a + n - (a + 1) + 1 ELSE 0
        /\ \A i \in 1..a + n - (a + 1) + 1 : SubSeq(s, a + 1, a + n)[i] = s[a + 1 + i - 1]
    BY <1>1, SubSeqProperties
  <1>3. /\ a + n - (a + 1) + 1 = n /\ (~(a + 1 <= a + n) => n = 0)
        /\ \A i \in 1..n : a + 1 + i - 1 = a + i
    OBVIOUS
  <1>4. PICK x : x = SubSeq(s, a + 1, a + n)
    OBVIOUS
  <1>5. x \in Seq(Pieces) /\ Len(x) = n
    BY <1>2, <1>3, <1>4
  <1>6. \A i \in 1..n : x[i] = s[a + i]
    <2> SUFFICES ASSUME NEW i \in 1..n PROVE x[i] = s[a + i]
      OBVIOUS
    <2>1. x[i] = s[a + 1 + i - 1]
      BY <1>2, <1>3, <1>4
    <2>2. a + 1 + i - 1 = a + i
      BY <1>3
    <2> QED
      BY <2>1, <2>2
  <1> QED
    BY <1>0, <1>4, <1>5, <1>6

\* Places in a sequence and in what is left of it.
LEMMA Shifted ==
    ASSUME NEW a \in Nat, NEW n \in Nat, NEW l \in Nat, NEW i \in 1..n + l
    PROVE  /\ a + i \in 1..(a + n) + l /\ (a + i <= a + n <=> i <= n) /\ (a + i) - (a + n) = i - n
           /\ i <= n => i \in 1..n
  OBVIOUS

\* What is left of two sequences together is what is left of the first, and the
\* second.
LEMMA RestOfBoth ==
    ASSUME NEW b \in Seq(Pieces), NEW tail \in Seq(Pieces), NEW a \in 0..Len(b)
    PROVE  SubSeq(b \o tail, a + 1, Len(b \o tail)) = SubSeq(b, a + 1, Len(b)) \o tail
  <1>1. PICK z \in Seq(Pieces) :
            /\ z = b \o tail /\ Len(z) = Len(b) + Len(tail)
            /\ \A k \in 1..Len(b) + Len(tail) : z[k] = IF k <= Len(b) THEN b[k] ELSE tail[k - Len(b)]
    <2>1. /\ b \o tail \in Seq(Pieces) /\ Len(b \o tail) = Len(b) + Len(tail)
          /\ \A k \in 1..Len(b) + Len(tail) : (b \o tail)[k] = IF k <= Len(b) THEN b[k] ELSE tail[k - Len(b)]
      BY ConcatProperties
    <2> QED
      BY <2>1
  <1>2. PICK n \in Nat, l \in Nat : Len(b) = a + n /\ Len(tail) = l
    <2>1. Len(b) \in Nat /\ Len(tail) \in Nat /\ a \in Nat
      OBVIOUS
    <2>2. Len(b) - a \in Nat /\ Len(b) = a + (Len(b) - a)
      BY <2>1
    <2> QED
      BY <2>1, <2>2
  <1>3. PICK m \in Nat : m = n + l
    OBVIOUS
  <1>4. a \in Nat /\ a + m = (a + n) + l
    BY <1>3
  <1>5. Len(z) = a + m
    BY <1>1, <1>2, <1>4
  <1>6. \A k \in 1..(a + n) + l : z[k] = IF k <= a + n THEN b[k] ELSE tail[k - (a + n)]
    BY <1>1, <1>2
  <1>7. PICK x \in Seq(Pieces) :
            x = SubSeq(b, a + 1, Len(b)) /\ Len(x) = n /\ \A i \in 1..n : x[i] = b[a + i]
    <2>1. a \in 0..Len(b) /\ Len(b) - a = n
      BY <1>2, <1>4
    <2>2. /\ SubSeq(b, a + 1, Len(b)) \in Seq(Pieces)
          /\ Len(SubSeq(b, a + 1, Len(b))) = Len(b) - a
          /\ \A i \in 1..Len(b) - a : SubSeq(b, a + 1, Len(b))[i] = b[a + i]
      BY <2>1, RestIs
    <2> QED
      BY <2>1, <2>2
  <1>8. PICK y \in Seq(Pieces) :
            y = SubSeq(z, a + 1, Len(z)) /\ Len(y) = m /\ \A i \in 1..m : y[i] = z[a + i]
    <2>1. a \in 0..Len(z) /\ Len(z) - a = m
      BY <1>4, <1>5
    <2>2. /\ SubSeq(z, a + 1, Len(z)) \in Seq(Pieces)
          /\ Len(SubSeq(z, a + 1, Len(z))) = Len(z) - a
          /\ \A i \in 1..Len(z) - a : SubSeq(z, a + 1, Len(z))[i] = z[a + i]
      BY <2>1, RestIs
    <2> QED
      BY <2>1, <2>2
  <1>9. PICK w \in Seq(Pieces) :
            /\ w = x \o tail /\ Len(w) = m
            /\ \A i \in 1..m : w[i] = IF i <= n THEN x[i] ELSE tail[i - n]
    <2>1. /\ x \o tail \in Seq(Pieces) /\ Len(x \o tail) = Len(x) + Len(tail)
          /\ \A i \in 1..Len(x) + Len(tail) : (x \o tail)[i] = IF i <= Len(x) THEN x[i] ELSE tail[i - Len(x)]
      BY ConcatProperties
    <2>2. Len(x) = n /\ Len(tail) = l
      BY <1>2, <1>7
    <2> QED
      BY <1>3, <2>1, <2>2
  <1>10. ASSUME NEW i \in 1..m PROVE y[i] = w[i]
    <2>0. i \in 1..n + l
      BY <1>3
    <2>1. /\ a + i \in 1..(a + n) + l /\ (a + i <= a + n <=> i <= n) /\ (a + i) - (a + n) = i - n
          /\ i <= n => i \in 1..n
      BY <1>4, <2>0, Shifted
    <2>2. y[i] = z[a + i]
      BY <1>8
    <2>3. y[i] = IF i <= n THEN b[a + i] ELSE tail[i - n]
      BY <1>6, <2>1, <2>2
    <2>4. w[i] = IF i <= n THEN b[a + i] ELSE tail[i - n]
      BY <1>7, <1>9, <2>1
    <2> QED
      BY <2>3, <2>4
  <1>11. y = w
    BY <1>8, <1>9, <1>10, SeqEqual
  <1> QED
    BY <1>1, <1>7, <1>8, <1>9, <1>11

\* The first line of the buffer is the first line of all.
LEMMA FirstLine ==
    ASSUME NEW b \in Seq(Pieces), NEW tail \in Seq(Pieces), NEW a \in 1..Len(b),
           a = Chat!Lines!NewlineAt(b)
    PROVE  /\ Chat!Lines!NewlineAt(b \o tail) = a
           /\ SubSeq(b \o tail, 1, a - 1) = SubSeq(b, 1, a - 1)
           /\ SubSeq(b \o tail, a + 1, Len(b \o tail)) = SubSeq(b, a + 1, Len(b)) \o tail
  <1>1. PICK z \in Seq(Pieces) :
            /\ z = b \o tail /\ Len(z) = Len(b) + Len(tail)
            /\ \A i \in 1..Len(b) + Len(tail) : z[i] = IF i <= Len(b) THEN b[i] ELSE tail[i - Len(b)]
    <2>1. /\ b \o tail \in Seq(Pieces) /\ Len(b \o tail) = Len(b) + Len(tail)
          /\ \A i \in 1..Len(b) + Len(tail) : (b \o tail)[i] = IF i <= Len(b) THEN b[i] ELSE tail[i - Len(b)]
      BY ConcatProperties
    <2> QED
      BY <2>1
  <1>2. Len(b) \in Nat /\ Len(tail) \in Nat /\ a \in Nat /\ Len(z) = Len(b) + Len(tail) /\ 1 <= a /\ a <= Len(b)
    BY <1>1
  <1>3. \A i \in 1..Len(b) : i \in 1..Len(z) /\ z[i] = b[i]
    BY <1>1, <1>2
  <1>4. b[a] = "nl" /\ \A i \in 1..a - 1 : b[i] # "nl"
    BY NewlineIs
  <1>5. Chat!Lines!NewlineAt(z) = a
    <2>1. PICK c \in 0..Len(z) :
              /\ c = Chat!Lines!NewlineAt(z)
              /\ c = 0 => \A i \in 1..Len(z) : z[i] # "nl"
              /\ c # 0 => z[c] = "nl" /\ \A i \in 1..c - 1 : z[i] # "nl"
      BY NewlineIs
    <2>2. z[a] = "nl" /\ a \in 1..Len(z)
      BY <1>3, <1>4
    <2>3. c # 0
      BY <2>1, <2>2
    <2>4. ~(a < c)
      <3>1. a < c => a \in 1..c - 1
        BY <1>2
      <3> QED
        BY <2>1, <2>2, <2>3, <3>1
    <2>5. ~(c < a)
      <3>1. c < a => c \in 1..a - 1 /\ c \in 1..Len(b)
        BY <1>2, <2>3
      <3> QED
        BY <1>3, <1>4, <2>1, <2>3, <3>1
    <2> QED
      BY <1>2, <2>1, <2>4, <2>5
  <1>6. SubSeq(z, 1, a - 1) = SubSeq(b, 1, a - 1)
    <2>1. PICK n \in Nat : n = a - 1 /\ n <= Len(b)
      BY <1>2
    <2>2. \A i \in 1..n : z[i] = b[i] /\ b[i] \in Pieces /\ z[i] \in Pieces
      BY <1>3, <2>1
    <2>3. SubSeq(z, 1, n) = SubSeq(b, 1, n)
      BY <2>2
    <2> QED
      BY <2>1, <2>3
  <1>7. SubSeq(z, a + 1, Len(z)) = SubSeq(b, a + 1, Len(b)) \o tail
    <2>1. a \in 0..Len(b)
      BY <1>2
    <2>2. SubSeq(b \o tail, a + 1, Len(b \o tail)) = SubSeq(b, a + 1, Len(b)) \o tail
      BY <2>1, RestOfBoth
    <2> QED
      BY <1>1, <2>2
  <1> QED
    BY <1>1, <1>5, <1>6, <1>7

\* A line that the proxy takes is one that goes through.
LEMMA TakenPasses ==
    ASSUME NEW s, Buffered(s), NEW tail \in Seq(Pieces), NEW p, Matches(s, p, tail),
           ~s.done, Chat!Lines!NewlineAt(s.buf) # 0
    PROVE  Matches(Chat!TakeLine(s), PassLine(p), tail)
  <1>1. PICK b \in Seq(Pieces) : b = s.buf
    BY DEF Buffered
  <1>2. PICK a \in 0..Len(b) : a = Chat!Lines!NewlineAt(b)
    BY NewlineIs
  <1>3. a \in 1..Len(b)
    BY <1>1, <1>2
  <1>4. /\ Chat!Lines!NewlineAt(b \o tail) = a
        /\ SubSeq(b \o tail, 1, a - 1) = SubSeq(b, 1, a - 1)
        /\ SubSeq(b \o tail, a + 1, Len(b \o tail)) = SubSeq(b, a + 1, Len(b)) \o tail
    BY <1>2, <1>3, FirstLine
  <1>5. p.rest = b \o tail /\ p.det = s.det /\ p.out = s.out /\ p.open = TRUE
    BY <1>1 DEF Matches
  <1>6. PICK line : line = SubSeq(b, 1, a - 1)
    OBVIOUS
  <1>7. PICK m : m = Chat!Lines!ProcessLine(s.det, line)
    OBVIOUS
  <1>8. PICK z : z = Chat!TakeLine(s)
    OBVIOUS
  <1>9. z = [buf |-> SubSeq(b, a + 1, Len(b)), det |-> m.det, out |-> s.out \o m.text, done |-> m.ends]
    BY <1>1, <1>2, <1>3, <1>6, <1>7, <1>8 DEF Chat!TakeLine
  <1>10. PICK q : q = PassLine(p)
    OBVIOUS
  <1>11. PICK w : w = b \o tail
    OBVIOUS
  <1>12. q = [rest |-> SubSeq(w, a + 1, Len(w)), det |-> m.det, out |-> s.out \o m.text, open |-> ~m.ends]
    <2>1. Chat!Lines!NewlineAt(w) = a /\ a # 0 /\ SubSeq(w, 1, a - 1) = line
      BY <1>3, <1>4, <1>6, <1>11
    <2>2. p.rest = w /\ p.det = s.det /\ p.out = s.out /\ p.open = TRUE
      BY <1>5, <1>11
    <2> QED
      BY <1>7, <1>10, <2>1, <2>2 DEF PassLine
  <1>13. q.rest = SubSeq(b, a + 1, Len(b)) \o tail
    BY <1>4, <1>11, <1>12
  <1>14. z.buf = SubSeq(b, a + 1, Len(b)) /\ z.det = m.det /\ z.out = s.out \o m.text /\ z.done = m.ends
    BY <1>9
  <1>15. q.det = m.det /\ q.out = s.out \o m.text /\ q.open = ~m.ends
    BY <1>12
  <1>16. Matches(z, q, tail)
    BY <1>13, <1>14, <1>15 DEF Matches
  <1> QED
    BY <1>8, <1>10, <1>16

\* k lines of the abstract stream.
Passes(q, k, y) ==
    \E f : f[0] = q /\ f[k] = y /\ \A j \in 1..k : f[j] = PassLine(f[j - 1])

\* The last of them.
LEMMA PassesOne ==
    ASSUME NEW q, NEW k \in Nat, NEW y, Passes(q, k + 1, y)
    PROVE  \E x : Passes(q, k, x) /\ y = PassLine(x)
  <1>1. PICK f : f[0] = q /\ f[k + 1] = y /\ \A j \in 1..k + 1 : f[j] = PassLine(f[j - 1])
    BY DEF Passes
  <1>2. k + 1 \in 1..k + 1 /\ (k + 1) - 1 = k /\ \A j \in 1..k : j \in 1..k + 1
    OBVIOUS
  <1>3. Passes(q, k, f[k])
    BY <1>1, <1>2 DEF Passes
  <1>4. y = PassLine(f[k])
    BY <1>1, <1>2
  <1> QED
    BY <1>3, <1>4

\* What a chunk does is what some number of lines do.
LEMMA ChunkPasses ==
    ASSUME NEW b, Buffered(b), NEW s \in Seq(Pieces), s = b.buf, NEW tail \in Seq(Pieces),
           NEW q, Matches(b, q, tail)
    PROVE  \E k \in 0..Len(s) : \A y : Passes(q, k, y) => Matches(TakenFrom(b, s), y, tail)
  <1>1. PICK n \in Nat : n = Len(s)
    OBVIOUS
  <1>2. PICK r : /\ r[0] = b /\ r[n] = TakenFrom(b, s)
                 /\ \A i \in 1..n : r[i] = Chat!TakeLine(r[i - 1])
    <2>1. Runs("take", b, s, n, TakenFrom(b, s))
      BY <1>1, TakeSteps
    <2> QED
      BY <2>1 DEF Runs, Op
  <1> DEFINE Good(i) == /\ Buffered(r[i])
                        /\ \E k \in 0..i : \A y : Passes(q, k, y) => Matches(r[i], y, tail)
  <1> DEFINE P == {i \in 0..n : Good(i)}
  <1>3. 0 \in P
    <2>1. \A y : Passes(q, 0, y) => y = q
      BY DEF Passes
    <2>2. Buffered(r[0]) /\ Matches(r[0], q, tail)
      BY <1>2
    <2>3. 0 \in 0..0 /\ 0 \in 0..n
      OBVIOUS
    <2> HIDE DEF P
    <2>4. Good(0)
      BY <2>1, <2>2, <2>3
    <2> QED
      BY <2>3, <2>4 DEF P
  <1>4. ASSUME NEW i \in 0..n, i < n, i \in P PROVE i + 1 \in P
    <2>1. i + 1 \in 1..n /\ (i + 1) - 1 = i /\ i + 1 \in 0..n
      BY <1>4
    <2>2. PICK x, z : x = r[i] /\ z = r[i + 1]
      OBVIOUS
    <2>3. z = Chat!TakeLine(x)
      BY <1>2, <2>1, <2>2
    <2>4. Buffered(x)
      BY <1>4, <2>2
    <2>5. PICK k \in 0..i : \A y : Passes(q, k, y) => Matches(x, y, tail)
      BY <1>4, <2>2
    <2>6. Buffered(z)
      BY <2>3, <2>4, TakeLineMakes
    <2>7. \E m \in 0..i + 1 : \A y : Passes(q, m, y) => Matches(z, y, tail)
      <3>1. CASE x.done \/ Chat!Lines!NewlineAt(x.buf) = 0
        <4>1. z = x
          BY <2>3, <3>1 DEF Chat!TakeLine
        <4>2. k \in 0..i + 1
          OBVIOUS
        <4> QED
          BY <2>5, <4>1, <4>2
      <3>2. CASE ~(x.done \/ Chat!Lines!NewlineAt(x.buf) = 0)
        <4>1. k + 1 \in 0..i + 1 /\ k \in Nat
          OBVIOUS
        <4>2. ASSUME NEW y, Passes(q, k + 1, y) PROVE Matches(z, y, tail)
          <5>1. PICK u : Passes(q, k, u) /\ y = PassLine(u)
            BY <4>1, <4>2, PassesOne
          <5>2. Matches(x, u, tail)
            BY <2>5, <5>1
          <5> QED
            BY <2>3, <2>4, <3>2, <5>1, <5>2, TakenPasses
        <4> QED
          BY <4>1, <4>2
      <3> QED
        BY <3>1, <3>2
    <2> HIDE DEF P
    <2>8. Good(i + 1)
      BY <2>2, <2>6, <2>7
    <2> QED
      BY <2>1, <2>8 DEF P
  <1> HIDE DEF P
  <1>5. n \in P
    <2>1. n \in 0..n
      OBVIOUS
    <2> QED
      BY <1>3, <1>4, <2>1, Induction
  <1>6. Good(n)
    BY <1>5 DEF P
  <1> QED
    BY <1>1, <1>2, <1>6

IterPass(g, b, D) ==
    g = [S \in SUBSET D |-> IF S = {} THEN b ELSE PassLine(g[S \ {Max(S)}])]

PassedFrom(b, D) == (CHOOSE g : IterPass(g, b, D))[D]

\* The fold of AfterLines goes through k lines.
LEMMA PassSteps ==
    ASSUME NEW b, NEW n \in Nat
    PROVE  Passes(b, n, PassedFrom(b, 1..n))
  <1>1. PICK D : D = 1..n
    OBVIOUS
  <1>2. \A g : IterPass(g, b, D) <=> Iter("pass", g, b, <<>>, D)
    BY DEF IterPass, Iter, Op
  <1>3. \E g : Iter("pass", g, b, <<>>, D)
    BY <1>1, IterExists
  <1>4. PICK g : g = CHOOSE h : IterPass(h, b, D)
    OBVIOUS
  <1>5. Iter("pass", g, b, <<>>, D)
    BY <1>2, <1>3, <1>4
  <1>6. Runs("pass", b, <<>>, n, g[D])
    BY <1>1, <1>5, IterSteps
  <1>7. g[D] = PassedFrom(b, D)
    BY <1>4 DEF PassedFrom
  <1>8. Passes(b, n, g[D])
    BY <1>6 DEF Runs, Op, Passes
  <1> QED
    BY <1>1, <1>7, <1>8

-----------------------------------------------------------------------------
(* The steps                                                                *)

\* What the upstream has still to send, decoded as a whole.
Coming == Chat!Decode(held \o up, TRUE).text

\* What the abstract stream has not passed on.
Resting == lineBuf \o Coming

\* AfterLines, of the proxy's state.
LEMMA AfterLinesIs ==
    ASSUME NEW k
    PROVE  Chat!Lines!AfterLines(k) =
               PassedFrom([rest |-> Resting, det |-> det, out |-> out, open |-> TRUE], DOMAIN [i \in 1..k |-> i])
  BY DEF Chat!Lines!AfterLines, Chat!Lines!FoldLeft, Chat!Lines!MapThenFoldSet, Chat!Lines!Max, Max,
         IterPass, PassedFrom, PassLine, Resting, Coming

\* A chunk is a number of lines, perhaps none, or is ignored.
LEMMA FeedPasses ==
    ASSUME Sanitizer, NEW n \in 1..Len(up), Chat!FeedChunk(n)
    PROVE  [Chat!Lines!LineNext]_Chat!Lines!lineVars
  <1>0. /\ held \in Seq(Pieces) /\ up \in Seq(Pieces) /\ lineBuf \in Seq(Pieces) /\ out \in Seq(Pieces)
        /\ done \in BOOLEAN
    <2>1. "lead" \in Pieces
      BY DEF Pieces
    <2>2. <<"lead">> \in Seq(Pieces) /\ <<>> \in Seq(Pieces)
      BY <2>1
    <2> QED
      BY <2>2 DEF Sanitizer, Chat!TypeOK
  <1>1. ~finished /\ finished' = finished /\ up' = SubSeq(up, n + 1, Len(up))
    BY DEF Chat!FeedChunk
  <1>2. CASE done
    <2>1. det' = det /\ out' = out /\ done' = done
      BY <1>2 DEF Chat!FeedChunk
    <2>2. Chat!Lines!Ignore
      BY <1>1, <1>2, <2>1 DEF Chat!Lines!Ignore
    <2> QED
      BY <2>2 DEF Chat!Lines!LineNext
  <1>3. CASE ~done
    <2>1. PICK c \in Seq(Pieces), r \in Seq(Pieces) :
              c = SubSeq(up, 1, n) /\ r = SubSeq(up, n + 1, Len(up)) /\ up = c \o r
      <3>1. /\ Len(up) \in Nat /\ n \in Nat /\ 1 <= n /\ n <= Len(up)
            /\ \A i \in 1..n : up[i] \in Pieces
            /\ \A i \in n + 1..Len(up) : up[i] \in Pieces
        BY <1>0
      <3>2. SubSeq(up, 1, n) \in Seq(Pieces) /\ SubSeq(up, n + 1, Len(up)) \in Seq(Pieces)
        BY <1>0, <3>1, SubSeqProperties
      <3>3. SubSeq(up, 1, n) \o SubSeq(up, n + 1, Len(up)) = SubSeq(up, 1, Len(up))
        <4>1. 1 \in 1..Len(up) + 1 /\ n \in 1 - 1..Len(up) /\ Len(up) \in n..Len(up)
          BY <3>1
        <4> QED
          BY <1>0, <4>1, ConcatAdjacentSubSeq
      <3>4. SubSeq(up, 1, Len(up)) = up
        BY <1>0, SubSeqFull
      <3> QED
        BY <3>2, <3>3, <3>4
    <2>2. PICK z \in Seq(Pieces) : z = held \o c
      BY <1>0, ConcatProperties
    <2>3. held \o up = z \o r
      <3>1. held \in Seq(Pieces) /\ c \in Seq(Pieces) /\ r \in Seq(Pieces)
        BY <1>0, <2>1
      <3>2. (held \o c) \o r = held \o (c \o r)
        BY <3>1, ConcatAssociative, SMTT(60)
      <3> QED
        BY <2>1, <2>2, <3>2
    <2>4. PICK d : d = Chat!Decode(z, FALSE)
      OBVIOUS
    <2>5. d.text \in Seq(Pieces)
      BY <2>4, DecodeMakes
    <2>6. PICK tail : tail = Chat!Decode(d.held \o r, TRUE).text
      OBVIOUS
    <2>7. tail \in Seq(Pieces) /\ Chat!Decode(z \o r, TRUE).text = d.text \o tail
      <3>1. /\ d.held \o r \in Seq(Pieces)
            /\ Chat!Decode(z \o r, TRUE).text = d.text \o Chat!Decode(d.held \o r, TRUE).text
        BY <2>4, DecodedOnce
      <3> QED
        BY <2>6, <3>1, DecodeMakes
    <2>8. PICK t \in Seq(Pieces) : t = lineBuf \o d.text
      BY <1>0, <2>5, ConcatProperties
    <2>9. Resting = t \o tail
      <3>1. Resting = lineBuf \o (d.text \o tail)
        BY <2>3, <2>7 DEF Resting, Coming
      <3>2. PICK x : x = d.text
        OBVIOUS
      <3>3. lineBuf \in Seq(Pieces) /\ x \in Seq(Pieces) /\ tail \in Seq(Pieces)
        BY <1>0, <2>5, <2>7, <3>2
      <3>4. (lineBuf \o x) \o tail = lineBuf \o (x \o tail)
        BY <3>3, ConcatAssociative, SMTT(60)
      <3> QED
        BY <2>8, <3>1, <3>2, <3>4
    <2>10. PICK b : b = [buf |-> t, det |-> det, out |-> out, done |-> done]
      OBVIOUS
    <2>11. b.buf = t /\ b.det = det /\ b.out = out /\ b.done = done
      BY <2>10
    <2>12. Buffered(b)
      BY <1>0, <2>11 DEF Buffered
    <2>13. PICK q : q = [rest |-> Resting, det |-> det, out |-> out, open |-> TRUE]
      OBVIOUS
    <2>14. Matches(b, q, tail)
      <3>1. q.rest = Resting /\ q.det = det /\ q.out = out /\ q.open = TRUE
        BY <2>13
      <3> QED
        BY <1>3, <2>9, <2>11, <3>1 DEF Matches
    <2>15. PICK s : s = TakenFrom(b, t)
      OBVIOUS
    <2>16. held' = d.held /\ lineBuf' = s.buf /\ det' = s.det /\ out' = s.out /\ done' = s.done
      BY <1>3, <2>1, <2>2, <2>4, <2>8, <2>10, <2>15, ChunkIsTaken
    <2>17. Resting' = s.buf \o tail
      <3>1. Coming' = tail
        BY <1>1, <2>1, <2>6, <2>16 DEF Coming
      <3> QED
        BY <2>16, <3>1 DEF Resting
    <2>18. PICK k \in 0..Len(t) : \A y : Passes(q, k, y) => Matches(s, y, tail)
      BY <2>7, <2>11, <2>12, <2>14, <2>15, ChunkPasses
    <2>19. k \in Nat
      OBVIOUS
    <2>20. PICK y : y = PassedFrom(q, 1..k)
      OBVIOUS
    <2>21. Matches(s, y, tail)
      BY <2>18, <2>19, <2>20, PassSteps
    <2>22. y.rest = Resting' /\ y.det = det' /\ y.out = out' /\ y.open = ~done'
      BY <2>16, <2>17, <2>21 DEF Matches
    <2>23. CASE k = 0
      <3>1. Passes(q, k, q)
        <4>1. PICK f : f = [i \in {0} |-> q]
          OBVIOUS
        <4>2. f[0] = q /\ f[k] = q /\ \A j \in 1..k : FALSE
          BY <2>23, <4>1
        <4>3. \A j \in 1..k : f[j] = PassLine(f[j - 1])
          BY <4>2
        <4> QED
          BY <4>2, <4>3 DEF Passes
      <3>2. Matches(s, q, tail)
        BY <2>18, <3>1
      <3>3. Resting' = Resting /\ det' = det /\ out' = out /\ ~done'
        <4>1. q.rest = Resting /\ q.det = det /\ q.out = out /\ q.open = TRUE
          BY <2>13
        <4> QED
          BY <2>16, <2>17, <3>2, <4>1 DEF Matches
      <3>4. UNCHANGED Chat!Lines!lineVars
        <4>1. (~done)' = ~done
          BY <1>3, <3>3
        <4> QED
          BY <1>1, <3>3, <4>1 DEF Chat!Lines!lineVars, Resting, Coming
      <3> QED
        BY <3>4
    <2>24. CASE k # 0
      <3>1. k \in 1..Len(Resting)
        <4>1. Len(t \o tail) = Len(t) + Len(tail) /\ Len(t) \in Nat /\ Len(tail) \in Nat
          BY <2>7, ConcatProperties
        <4>2. k <= Len(t) /\ 1 <= k
          BY <2>18, <2>24
        <4>3. Len(Resting) = Len(t) + Len(tail)
          BY <2>9, <4>1
        <4> QED
          BY <2>19, <4>1, <4>2, <4>3
      <3>2. DOMAIN [i \in 1..k |-> i] = 1..k
        OBVIOUS
      <3>3. y = Chat!Lines!AfterLines(k)
        BY <2>13, <2>20, <3>2, AfterLinesIs
      <3>4. Chat!Lines!Pass
        <4>1. /\ out' = y.out /\ det' = y.det /\ (~done)' = y.open /\ y.rest = Resting'
          BY <2>22
        <4>2. k \in 1..Len(lineBuf \o Chat!Decode(held \o up, TRUE).text)
          BY <3>1 DEF Resting, Coming
        <4>3. Resting' = (lineBuf \o Chat!Decode(held \o up, TRUE).text)'
          BY DEF Resting, Coming
        <4> QED
          BY <1>1, <1>3, <3>3, <4>1, <4>2, <4>3 DEF Chat!Lines!Pass
      <3> QED
        BY <3>4 DEF Chat!Lines!LineNext
    <2> QED
      BY <2>23, <2>24
  <1> QED
    BY <1>2, <1>3

\* The end of the upstream, or the loss of it.
LEMMA FinishFlushes ==
    ASSUME Sanitizer, Chat!Finish
    PROVE  Chat!Lines!LineNext
  <1>0. /\ held \in {<<>>, <<"lead">>} /\ held \in Seq(Pieces) /\ lineBuf \in Seq(Pieces)
        /\ done \in BOOLEAN /\ (Chat!Lines!NewlineAt(lineBuf) = 0 \/ done)
    <2>1. "lead" \in Pieces
      BY DEF Pieces
    <2>2. <<"lead">> \in Seq(Pieces) /\ <<>> \in Seq(Pieces)
      BY <2>1
    <2> QED
      BY <2>2 DEF Sanitizer, Chat!TypeOK
  <1>1. ~finished /\ finished' = TRUE /\ up = <<>>
    BY DEF Chat!Finish
  <1>2. CASE done
    <2>1. det' = det /\ out' = out /\ done' = done
      BY <1>2 DEF Chat!Finish
    <2>2. Chat!Lines!Flush
      BY <1>1, <1>2, <2>1 DEF Chat!Lines!Flush
    <2> QED
      BY <2>2 DEF Chat!Lines!LineNext
  <1>3. CASE ~done
    <2>1. PICK e : e = Chat!Decode(held, TRUE).text
      OBVIOUS
    <2>2. PICK line : line = lineBuf \o e
      OBVIOUS
    <2>3. held \o up = held
      BY <1>0, <1>1, ConcatEmptySeq
    <2>4. lineBuf \o Chat!Decode(held \o up, TRUE).text = line
      BY <2>1, <2>2, <2>3
    <2>5. e \in Seq(Pieces) /\ \A i \in 1..Len(e) : e[i] # "nl"
      <3>1. e = FlattenSeq(Made(held))
        BY <1>0, <2>1, DecodeIs DEF Text
      <3>2. CASE held = <<>>
        <4>1. Made(held) = <<>>
          <5>1. Len(<<>>) = 0 /\ 1..0 = {}
            OBVIOUS
          <5> QED
            BY <3>2, <5>1 DEF Made
        <4>2. FlattenSeq(<<>>) = <<>>
          <5>1. Len(<<>>) = 0
            OBVIOUS
          <5> QED
            BY <5>1 DEF FlattenSeq
        <4>3. PICK x \in Seq(Pieces) : x = <<>> /\ Len(x) = 0
          <5>1. <<>> \in Seq(Pieces) /\ Len(<<>>) = 0
            OBVIOUS
          <5> QED
            BY <5>1
        <4>4. e = x
          BY <3>1, <4>1, <4>2, <4>3
        <4>5. \A i \in 1..Len(x) : x[i] # "nl"
          BY <4>3
        <4> QED
          BY <4>4, <4>5
      <3>3. CASE held = <<"lead">>
        <4>1. PICK h \in Seq(Pieces) : h = held /\ Len(h) = 1 /\ h[1] = "lead"
          BY <1>0, <3>3
        <4>2. Chat!PieceOf(h, 1) = <<"bad">>
          BY <4>1 DEF Chat!PieceOf, Chat!Second, Chat!Unpaired
        <4>3. Made(h) = <<<<"bad">>>>
          BY <4>1, <4>2 DEF Made
        <4>4. "bad" \in Pieces
          BY DEF Pieces
        <4>5. PICK x \in Seq(Pieces) : x = <<"bad">> /\ Len(x) = 1 /\ x[1] = "bad"
          <5>1. <<"bad">> \in Seq(Pieces) /\ Len(<<"bad">>) = 1 /\ <<"bad">>[1] = "bad"
            BY <4>4
          <5> QED
            BY <5>1
        <4>6. FlattenSeq(<<x>>) = x
          <5>1. <<>> \in Seq(Seq(Pieces)) /\ <<x>> = Append(<<>>, x)
            OBVIOUS
          <5>2. FlattenSeq(<<>>) = <<>>
            <6>1. Len(<<>>) = 0
              OBVIOUS
            <6> QED
              BY <6>1 DEF FlattenSeq
          <5>3. FlattenSeq(Append(<<>>, x)) = FlattenSeq(<<>>) \o x
            BY <5>1, FlattenAppend
          <5>4. <<>> \o x = x
            BY ConcatEmptySeq
          <5> QED
            BY <5>1, <5>2, <5>3, <5>4
        <4>7. e = x
          BY <3>1, <4>1, <4>3, <4>5, <4>6
        <4> QED
          BY <4>5, <4>7
      <3> QED
        BY <1>0, <3>2, <3>3
    <2>6. Chat!Lines!NewlineAt(line) = 0
      <3>1. PICK y \in Seq(Pieces) :
                /\ y = line /\ Len(y) = Len(lineBuf) + Len(e)
                /\ \A i \in 1..Len(lineBuf) + Len(e) :
                      y[i] = IF i <= Len(lineBuf) THEN lineBuf[i] ELSE e[i - Len(lineBuf)]
        <4>1. /\ lineBuf \o e \in Seq(Pieces) /\ Len(lineBuf \o e) = Len(lineBuf) + Len(e)
              /\ \A i \in 1..Len(lineBuf) + Len(e) :
                    (lineBuf \o e)[i] = IF i <= Len(lineBuf) THEN lineBuf[i] ELSE e[i - Len(lineBuf)]
          BY <1>0, <2>5, ConcatProperties
        <4> QED
          BY <2>2, <4>1
      <3>2. \A i \in 1..Len(lineBuf) : lineBuf[i] # "nl"
        BY <1>0, <1>3, NewlineIs
      <3>3. Len(lineBuf) \in Nat /\ Len(e) \in Nat
        BY <1>0, <2>5
      <3>4. ASSUME NEW i \in 1..Len(y) PROVE y[i] # "nl"
        <4>1. i \in 1..Len(lineBuf) + Len(e)
          BY <3>1
        <4>2. CASE i <= Len(lineBuf)
          <5>1. i \in 1..Len(lineBuf)
            BY <3>3, <4>1, <4>2
          <5> QED
            BY <3>1, <3>2, <4>1, <4>2, <5>1
        <4>3. CASE ~(i <= Len(lineBuf))
          <5>1. i - Len(lineBuf) \in 1..Len(e)
            BY <3>3, <4>1, <4>3
          <5> QED
            BY <2>5, <3>1, <4>1, <4>3, <5>1
        <4> QED
          BY <4>2, <4>3
      <3>5. PICK a \in 0..Len(y) : a = Chat!Lines!NewlineAt(y) /\ (a # 0 => y[a] = "nl")
        BY NewlineIs
      <3>6. a # 0 => a \in 1..Len(y)
        BY <3>5
      <3> QED
        BY <3>1, <3>4, <3>5, <3>6
    <2>7. PICK p : p = Chat!Lines!ProcessLine(det, line)
      OBVIOUS
    <2>8. IF line = <<>> THEN det' = det /\ out' = out /\ done' = done
          ELSE det' = p.det /\ out' = out \o p.text /\ done' = p.ends
      BY <1>3, <2>1, <2>2, <2>7 DEF Chat!Finish
    <2>9. Chat!Lines!Flush
      <3>1. CASE line = <<>>
        BY <1>1, <2>4, <2>8, <3>1 DEF Chat!Lines!Flush
      <3>2. CASE line # <<>>
        BY <1>1, <1>3, <2>4, <2>6, <2>7, <2>8, <3>2 DEF Chat!Lines!Flush
      <3> QED
        BY <3>1, <3>2
    <2> QED
      BY <2>9 DEF Chat!Lines!LineNext
  <1> QED
    BY <1>2, <1>3

\* What the client does with its stream changes nothing of it.
LEMMA ChatPasses ==
    ASSUME ChatIInv, [Chat!ChatNext]_chatVars
    PROVE  [Chat!Lines!LineNext]_Chat!Lines!lineVars
  <1>0. Sanitizer
    BY DEF ChatIInv
  <1>1. ASSUME up' = up, held' = held, lineBuf' = lineBuf, det' = det, out' = out, done' = done, finished' = finished
        PROVE  UNCHANGED Chat!Lines!lineVars
    BY <1>1 DEF Chat!Lines!lineVars
  <1>2. ASSUME NEW n \in 1..Len(up), Chat!FeedChunk(n) PROVE [Chat!Lines!LineNext]_Chat!Lines!lineVars
    BY <1>0, <1>2, FeedPasses
  <1>3. CASE Chat!Finish
    BY <1>0, <1>3, FinishFlushes
  <1>4. CASE Chat!UpstreamLost
    <2>1. Chat!Lines!Lose
      BY <1>4 DEF Chat!UpstreamLost, Chat!Lines!Lose
    <2> QED
      BY <2>1 DEF Chat!Lines!LineNext
  <1>5. CASE UNCHANGED Chat!sseVars
    BY <1>1, <1>5 DEF Chat!sseVars
  <1>6. CASE UNCHANGED chatVars
    BY <1>1, <1>6 DEF chatVars
  <1>7. Chat!ChatNext => Chat!Next \/ UNCHANGED Chat!sseVars
    BY DEF Chat!ChatNext, Chat!Receive, Chat!EndOfStream, Chat!BrokenStream, Chat!sseVars
  <1>8. Chat!Next => (\E n \in 1..Len(up) : Chat!FeedChunk(n)) \/ Chat!Finish \/ Chat!UpstreamLost
    BY DEF Chat!Next
  <1> QED
    BY <1>2, <1>3, <1>4, <1>5, <1>6, <1>7, <1>8

-----------------------------------------------------------------------------
\* The proxy's stream is the abstract one, wherever the upstream's bytes were
\* cut: the client gets each line of the whole text once and in order, none
\* after the line that ends it, and no half character.
THEOREM StreamIsLinewise == StreamsSpec => LinewiseStream
  <1>1. StreamsInit => StreamsIInv /\ Chat!Lines!LineInit
    <2>1. StreamsInit => Chat!Lines!LineInit
      BY DEF StreamsInit, Chat!ChatInit, Chat!Init, Chat!Lines!LineInit, Chat!NewDetector, Chat!Lines!NewDetector
    <2> QED
      BY <2>1, StreamsStart
  <1>2. StreamsIInv /\ [StreamsNext]_streamVars => StreamsIInv'
    BY StreamsMoves
  <1>3. StreamsIInv /\ [StreamsNext]_streamVars => [Chat!Lines!LineNext]_Chat!Lines!lineVars
    <2>1. [StreamsNext]_streamVars => [Chat!ChatNext]_chatVars
      BY DEF StreamsNext, streamVars, LoopStep, ChatStep, SpotStep
    <2> QED
      BY <2>1, ChatPasses DEF StreamsIInv
  <1> QED
    BY <1>1, <1>2, <1>3, PTL DEF StreamsSpec, LinewiseStream, Chat!LinewiseStream, Chat!Lines!LineSpec
=============================================================================
